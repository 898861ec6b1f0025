------------------------- MODULE BookingPageProofs -------------------------
(****************************************************************************)
(* The customer's page re-decides nothing, swallows no refusal and announces  *)
(* only what is so, and a review an operator took down stays as it was, for   *)
(* any number of pages on one reference and whatever the salon, the operator, *)
(* the clock and the connection do.                                           *)
(*                                                                            *)
(* The argument: a flag goes into a URL only with the write it reports, and   *)
(* what it says cannot be undone, so a flag that is true when it is written   *)
(* is true wherever it is carried and however late it is drawn.               *)
(****************************************************************************)
EXTENDS BookingPage, FiniteSetTheorems, TLAPS

Statuses == {"PENDING", "CONFIRMED", "CANCELLED", "COMPLETED", "NO_SHOW"}
Asks == {"detail", "move", "cancel", "report", "review"}

RecordsAreWhole ==
  /\ appt \in [status : Statuses, at : Times]
  /\ review \in [standing : {"NONE", "VISIBLE", "HIDDEN"}, photos : SUBSET Photo,
                 text : 0..MaxPresses, uploads : Nat]
  /\ IsFiniteSet(review.photos) /\ Cardinality(review.photos) <= Room
  /\ shop \in [active : BOOLEAN, offering : {"LISTED", "RENAMED", "WITHDRAWN"},
               chair : BOOLEAN, taken : SUBSET Hours]
  /\ own \in BOOLEAN
  /\ now \in 0..LastTick /\ presses \in 0..MaxPresses /\ acts \in 0..MaxActs

\* What a flag announces has happened.
FlagIsTrue(f) ==
  /\ f = "cancelled" => appt.status = "CANCELLED"
  /\ f \in {"reviewed", "photo_error"} => review.standing # "NONE"

\* A flag that states a refusal is on the screen the refused form stands on, or
\* on the appointment's card.
UrlIsWritten(q) ==
  /\ q \in Url
  /\ q.flag \in {"error", "photo_error"} => q.ask = "detail"
  /\ q.flag = "move_error" => q.ask = "move"
  /\ q.flag = "review_error" => q.ask = "review"
  /\ q.flag = "report_error" => q.ask = "report"

OfferIsSound(c) ==
  /\ c.op \in {"go", "pick", "cancel", "move", "review", "drop", "report"}
  /\ c.op = "go" => c.arg \in Asks
  /\ c.op \in {"pick", "move"} => c.arg \in Times

PageIsSound(p) ==
  /\ \A c \in p.offers : OfferIsSound(c)
  /\ \A f \in p.says : FlagIsTrue(f)

TabsAreSound ==
  /\ DOMAIN tab = Tabs
  /\ \A t \in Tabs : /\ UrlIsWritten(tab[t].url) /\ FlagIsTrue(tab[t].url.flag)
                     /\ PageIsSound(tab[t].page)

\* An action under way: photographs are only sent after a review that stands.
SentIsSound(m) ==
  /\ DOMAIN m = {"call", "left", "at", "next"}
  /\ OfferIsSound(m.call) /\ m.call.op \in {"cancel", "move", "review", "drop", "report"}
  /\ m.left \subseteq Files
  /\ m.at \in {"post", "photos", "redirect"}
  /\ UrlIsWritten(m.next) /\ FlagIsTrue(m.next.flag)
  /\ m.at = "photos" => review.standing # "NONE"

SendingIsSound ==
  /\ DOMAIN sent = Tabs
  /\ \A t \in Tabs : sent[t] # Nobody => SentIsSound(sent[t])

IInv == RecordsAreWhole /\ TabsAreSound /\ SendingIsSound

----------------------------------------------------------------------------
(* What is said once stays so.                                               *)

\* A cancelled appointment stays cancelled and a review given stays given.
Lasts ==
  /\ appt.status = "CANCELLED" => appt'.status = "CANCELLED"
  /\ review.standing # "NONE" => review'.standing # "NONE"

\* A true flag stays true.
LEMMA FlagsStayTrue ==
  ASSUME Lasts PROVE \A f : FlagIsTrue(f) => FlagIsTrue(f)'
  BY DEF Lasts, FlagIsTrue

\* So pages and actions nobody touches stay sound.
LEMMA SoundStaysSound ==
  ASSUME Lasts
  PROVE  /\ \A p : PageIsSound(p) => PageIsSound(p)'
         /\ \A m : SentIsSound(m) => SentIsSound(m)'
<1>1. \A p : PageIsSound(p) => PageIsSound(p)'
  BY FlagsStayTrue DEF PageIsSound
<1>2. \A m : SentIsSound(m) => SentIsSound(m)'
  BY FlagsStayTrue DEF SentIsSound, Lasts
<1> QED
  BY <1>1, <1>2

\* A tab that did not change is as sound as it was.
LEMMA TabsStaySound ==
  ASSUME IInv, Lasts, tab' = tab PROVE TabsAreSound'
  BY FlagsStayTrue, SoundStaysSound DEF IInv, TabsAreSound

\* Nor does a request on its way change with the clock.
LEMMA SendingStaysSound ==
  ASSUME IInv, Lasts, sent' = sent PROVE SendingIsSound'
  BY SoundStaysSound DEF IInv, SendingIsSound

\* One tab's action changes for a sound one, or for none.
LEMMA OneSendingMoves ==
  ASSUME IInv, Lasts, NEW t \in Tabs, NEW m, m # Nobody => SentIsSound(m)',
         sent' = [sent EXCEPT ![t] = m]
  PROVE  SendingIsSound'
<1>1. \A u \in Tabs : sent'[u] = IF u = t THEN m ELSE sent[u]
  BY DEF IInv, SendingIsSound
<1>2. DOMAIN sent' = Tabs
  BY DEF IInv, SendingIsSound
<1> QED
  BY <1>1, <1>2, SoundStaysSound DEF IInv, SendingIsSound

----------------------------------------------------------------------------
(* What the page draws is sound.                                             *)

\* Instants are numbers.
LEMMA TimesAreNatural == Times \subseteq Nat
  BY BoundsAreNatural DEF Times

\* The links, the buttons and the alerts of every screen.
LEMMA PagesAreSound ==
  ASSUME IInv, NEW q, UrlIsWritten(q), FlagIsTrue(q.flag)
  PROVE  PageIsSound(Render(q)) /\ PageIsSound(Throttled)
<1> DEFINE b == Booking
<1>1. /\ b.photos = review.photos /\ b.status = appt.status
      /\ b.status \in Statuses
  BY DEF Booking, IInv, RecordsAreWhole
<1> HIDE DEF b
<1>2. \A c \in DetailOffers(b) : OfferIsSound(c)
  BY DEF DetailOffers, Go, OfferIsSound, Asks
<1>3. \A c \in MoveOffers(q) : OfferIsSound(c)
  BY HoursOnGrid DEF MoveOffers, Slots, Press, OfferIsSound
<1>4. \A c \in CancelOffers(b) \cup ReportOffers \cup ReviewOffers(b) : OfferIsSound(c)
  BY DEF CancelOffers, ReportOffers, ReviewOffers, Press, OfferIsSound
<1>5. \A c \in Offers(b, q) : OfferIsSound(c)
  <2>1. View(b, q) \in Asks
    BY DEF View, Asks
  <2> QED
    BY <1>2, <1>3, <1>4, <2>1 DEF Offers, Asks
<1>6. \A f \in DetailSays(b, q) : FlagIsTrue(f)
  BY <1>1 DEF DetailSays, Flashes, StatusNote, FlagIsTrue, Statuses
<1>7. \A f \in MoveSays(q) \cup CancelSays(b) \cup ReportSays(q) \cup ReviewSays(q) : FlagIsTrue(f)
  BY DEF MoveSays, CancelSays, ReportSays, ReviewSays, FlagIsTrue
<1>8. \A f \in Says(b, q) : FlagIsTrue(f)
  <2>1. View(b, q) \in Asks
    BY DEF View, Asks
  <2> QED
    BY <1>6, <1>7, <2>1 DEF Says, Asks
<1>9. PageIsSound(Page(View(b, q), Offers(b, q), Says(b, q)))
  BY <1>5, <1>8 DEF PageIsSound, Page
<1>10. PageIsSound(Gone) /\ PageIsSound(Throttled)
  BY DEF PageIsSound, Page, Gone, Throttled, Go, OfferIsSound, Asks, FlagIsTrue
<1> QED
  BY <1>9, <1>10 DEF Render, b

\* A tab that is shown a URL the page wrote.
LEMMA ShownIsSound ==
  ASSUME IInv, NEW t \in Tabs, NEW q, UrlIsWritten(q), FlagIsTrue(q.flag), Show(t, q),
         UNCHANGED <<appt, review>>
  PROVE  TabsAreSound'
<1>1. Lasts
  BY DEF Lasts
<1>2. PICK page : PageIsSound(page) /\ tab' = [tab EXCEPT ![t] = [url |-> q, page |-> page]]
  BY PagesAreSound DEF Show
<1>3. FlagIsTrue(q.flag)' /\ PageIsSound(page)'
  BY <1>1, <1>2, FlagsStayTrue, SoundStaysSound
<1>4. \A u \in Tabs : tab'[u] = IF u = t THEN [url |-> q, page |-> page] ELSE tab[u]
  BY <1>2 DEF IInv, TabsAreSound
<1>5. DOMAIN tab' = Tabs
  BY <1>2 DEF IInv, TabsAreSound
<1>6. ASSUME NEW u \in Tabs
      PROVE  UrlIsWritten(tab[u].url)' /\ FlagIsTrue(tab[u].url.flag)' /\ PageIsSound(tab[u].page)'
  <2>1. CASE u = t
    BY <1>3, <1>4, <2>1
  <2>2. CASE u # t
    BY <1>1, <1>4, <2>2, FlagsStayTrue, SoundStaysSound DEF IInv, TabsAreSound
  <2> QED
    BY <2>1, <2>2
<1> QED
  BY <1>5, <1>6 DEF TabsAreSound

\* The bare URL of each screen, and where each redirect lands.
LEMMA UrlsAreWritten ==
  /\ \A ask \in Asks : UrlIsWritten(Plain(ask)) /\ FlagIsTrue(Plain(ask).flag)
  /\ \A s \in Times : LET q == [Plain("move") EXCEPT !.at = s] IN
       UrlIsWritten(q) /\ FlagIsTrue(q.flag)
  /\ \A op \in {"cancel", "move", "review", "drop", "report"} :
       /\ UrlIsWritten(Landing(op, TRUE)) /\ UrlIsWritten(Landing(op, FALSE))
       /\ Landing(op, TRUE).flag \notin {"reviewed", "photo_error"}
       /\ Landing(op, TRUE).flag = "cancelled" => op = "cancel"
       /\ Landing(op, FALSE).flag \notin {"cancelled", "reviewed", "photo_error"}
  /\ UrlIsWritten(Flagged("detail", "reviewed")) /\ UrlIsWritten(Flagged("detail", "photo_error"))
<1>1. \A ask \in Asks : UrlIsWritten(Plain(ask)) /\ FlagIsTrue(Plain(ask).flag)
  BY DEF UrlIsWritten, Plain, Url, FlagIsTrue, Asks
<1>2. \A s \in Times : LET q == [Plain("move") EXCEPT !.at = s] IN
         UrlIsWritten(q) /\ FlagIsTrue(q.flag)
  BY DEF UrlIsWritten, Plain, Url, FlagIsTrue
<1>3. \A op \in {"cancel", "move", "review", "drop", "report"} :
       /\ UrlIsWritten(Landing(op, TRUE)) /\ UrlIsWritten(Landing(op, FALSE))
       /\ Landing(op, TRUE).flag \notin {"reviewed", "photo_error"}
       /\ Landing(op, TRUE).flag = "cancelled" => op = "cancel"
       /\ Landing(op, FALSE).flag \notin {"cancelled", "reviewed", "photo_error"}
  BY DEF Landing, Flagged, Plain, UrlIsWritten, Url
<1>4. UrlIsWritten(Flagged("detail", "reviewed")) /\ UrlIsWritten(Flagged("detail", "photo_error"))
  BY DEF Flagged, UrlIsWritten, Url
<1> QED
  BY <1>1, <1>2, <1>3, <1>4


----------------------------------------------------------------------------
(* The customer's steps.                                                     *)

\* A page opened or read again.
LEMMA VisitKeepsIInv ==
  ASSUME IInv, NEW t \in Tabs, Visit(t) PROVE IInv'
<1>1. PICK q \in {Plain("detail"), tab[t].url}
               \cup {Link(c) : c \in tab[t].page.offers \ Posts(tab[t].page)} : Show(t, q)
  BY DEF Visit
<1>2. UrlIsWritten(q) /\ FlagIsTrue(q.flag)
  <2>1. CASE q = Plain("detail")
    BY <2>1, UrlsAreWritten DEF Asks
  <2>2. CASE q = tab[t].url
    BY <2>2 DEF IInv, TabsAreSound
  <2>3. CASE q \in {Link(c) : c \in tab[t].page.offers \ Posts(tab[t].page)}
    <3>1. PICK c \in tab[t].page.offers \ Posts(tab[t].page) : q = Link(c)
      BY <2>3
    <3>2. OfferIsSound(c) /\ c.op \in {"go", "pick"}
      BY DEF IInv, TabsAreSound, PageIsSound, OfferIsSound, Posts
    <3>3. CASE c.op = "go"
      BY <3>1, <3>2, <3>3, UrlsAreWritten DEF Link, OfferIsSound
    <3>4. CASE c.op = "pick"
      BY <3>1, <3>2, <3>4, UrlsAreWritten DEF Link, OfferIsSound
    <3> QED
      BY <3>2, <3>3, <3>4
  <2> QED
    BY <1>1, <2>1, <2>2, <2>3
<1>3. TabsAreSound'
  BY <1>1, <1>2, ShownIsSound DEF Visit
<1>4. SendingIsSound'
  BY SendingStaysSound DEF Visit, Lasts
<1> QED
  BY <1>3, <1>4 DEF Visit, IInv, RecordsAreWhole

\* A form sent carries what its page was drawn from.
LEMMA SubmitKeepsIInv ==
  ASSUME IInv, NEW t \in Tabs, Submit(t) PROVE IInv'
<1>1. PICK c \in Posts(tab[t].page), files \in SUBSET Files :
        sent' = [sent EXCEPT ![t] = [call |-> c, left |-> files, at |-> "post",
                                     next |-> Plain("detail")]]
  BY DEF Submit
<1>2. Lasts
  BY DEF Submit, Lasts
<1> DEFINE m == [call |-> c, left |-> files, at |-> "post", next |-> Plain("detail")]
<1>3. OfferIsSound(c) /\ c.op \in {"cancel", "move", "review", "drop", "report"}
  BY DEF Posts, IInv, TabsAreSound, PageIsSound
<1>4. SentIsSound(m)
  BY <1>3, UrlsAreWritten DEF SentIsSound, Asks
<1>5. sent' = [sent EXCEPT ![t] = m]
  BY <1>1
<1> HIDE DEF m
<1>6. SendingIsSound'
  BY <1>2, <1>4, <1>5, OneSendingMoves, SoundStaysSound
<1>7. TabsAreSound'
  BY <1>2, TabsStaySound DEF Submit
<1>8. RecordsAreWhole'
  BY BoundsAreNatural DEF Submit, IInv, RecordsAreWhole
<1> QED
  BY <1>6, <1>7, <1>8 DEF IInv

\* What the write behind an accepted call may count on.
LEMMA AcceptedCalls ==
  ASSUME NEW call, Answer(call) = "OK"
  PROVE  /\ call.op = "move" => Open(appt.status) /\ call.arg \in Hours
         /\ call.op = "review" => review.standing # "HIDDEN"
<1>1. ASSUME call.op = "move" PROVE Open(appt.status) /\ call.arg \in Hours
  BY <1>1 DEF Answer, MoveAnswer
<1>2. ASSUME call.op = "review" PROVE review.standing # "HIDDEN"
  BY <1>2 DEF Answer, ReviewAnswer
<1> QED
  BY <1>1, <1>2

\* An accepted call leaves the records whole, and nothing said of them false.
LEMMA EffectsAreWhole ==
  ASSUME IInv, NEW call, Answer(call) = "OK", Effect(call),
         call.op \in {"cancel", "move", "review", "drop", "report"},
         UNCHANGED <<shop, own, now, presses, acts>>
  PROVE  /\ RecordsAreWhole' /\ Lasts
         /\ call.op = "cancel" => appt'.status = "CANCELLED"
         /\ call.op = "review" => review'.standing # "NONE"
<1>1. CASE call.op = "cancel"
  <2>1. appt' = [appt EXCEPT !.status = "CANCELLED"] /\ UNCHANGED review
    BY <1>1 DEF Effect
  <2> QED
    BY <1>1, <2>1 DEF IInv, RecordsAreWhole, Lasts, Statuses
<1>2. CASE call.op = "move"
  <2>1. appt' = [appt EXCEPT !.at = call.arg] /\ UNCHANGED review
    BY <1>2 DEF Effect
  <2>2. call.arg \in Times
    BY <1>2, AcceptedCalls, HoursOnGrid
  <2> QED
    BY <1>2, <2>1, <2>2 DEF IInv, RecordsAreWhole, Lasts, Statuses
<1>3. CASE call.op = "review"
  <2>1. review' = [review EXCEPT !.standing = "VISIBLE", !.text = presses] /\ UNCHANGED appt
    BY <1>3 DEF Effect
  <2> QED
    BY <1>3, <2>1 DEF IInv, RecordsAreWhole, Lasts
<1>4. CASE call.op = "drop"
  <2> DEFINE kept == {p \in review.photos : p.id # call.arg}
  <2>1. review' = [review EXCEPT !.photos = kept] /\ UNCHANGED appt
    BY <1>4 DEF Effect
  <2>2. kept \subseteq review.photos
    OBVIOUS
  <2> HIDE DEF kept
  <2>3. IsFiniteSet(kept) /\ Cardinality(kept) <= Room
    BY <2>2, FS_Subset, FS_CardinalityType DEF IInv, RecordsAreWhole, Room
  <2> QED
    BY <1>4, <2>1, <2>2, <2>3 DEF IInv, RecordsAreWhole, Lasts
<1>5. CASE call.op = "report"
  <2>1. UNCHANGED <<appt, review>>
    BY <1>5 DEF Effect
  <2> QED
    BY <1>5, <2>1 DEF IInv, RecordsAreWhole, Lasts
<1> QED
  BY <1>1, <1>2, <1>3, <1>4, <1>5

\* A redirect to a URL whose flag is true once the write is done.
LEMMA RedirectsAreSound ==
  ASSUME IInv, Lasts, NEW t \in Tabs, SentIsSound(sent[t]),
         NEW q, UrlIsWritten(q), FlagIsTrue(q.flag)', Redirect(t, q)
  PROVE  SendingIsSound'
<1>1. PICK m : m = [sent[t] EXCEPT !.at = "redirect", !.next = q]
  OBVIOUS
<1>2. sent' = [sent EXCEPT ![t] = m]
  BY <1>1 DEF Redirect
<1>3. /\ DOMAIN m = {"call", "left", "at", "next"} /\ m.at = "redirect" /\ m.next = q
      /\ OfferIsSound(m.call) /\ m.call.op \in {"cancel", "move", "review", "drop", "report"}
      /\ m.left \subseteq Files
  BY <1>1 DEF SentIsSound
<1>4. SentIsSound(m)'
  BY <1>3 DEF SentIsSound
<1> QED
  BY <1>2, <1>4, OneSendingMoves

\* An action that goes on to its photographs, or has one fewer to send.
LEMMA UploadsAreSound ==
  ASSUME IInv, Lasts, NEW t \in Tabs, SentIsSound(sent[t]), review'.standing # "NONE",
         NEW files \in SUBSET Files,
         sent' = [sent EXCEPT ![t] = [sent[t] EXCEPT !.at = "photos", !.left = files]]
  PROVE  SendingIsSound'
<1>1. PICK m : m = [sent[t] EXCEPT !.at = "photos", !.left = files]
  OBVIOUS
<1>2. sent' = [sent EXCEPT ![t] = m]
  BY <1>1
<1>3. PICK n : n = sent[t].next
  OBVIOUS
<1>4. /\ DOMAIN m = {"call", "left", "at", "next"} /\ m.at = "photos" /\ m.next = n
      /\ OfferIsSound(m.call) /\ m.call.op \in {"cancel", "move", "review", "drop", "report"}
      /\ m.left \subseteq Files
      /\ UrlIsWritten(n) /\ FlagIsTrue(n.flag)
  BY <1>1, <1>3 DEF SentIsSound
<1>5. FlagIsTrue(n.flag)'
  BY <1>4, FlagsStayTrue
<1>6. SentIsSound(m)'
  BY <1>4, <1>5 DEF SentIsSound
<1> QED
  BY <1>2, <1>6, OneSendingMoves

\* The server action: the call, and where it leads back.
LEMMA ActKeepsIInv ==
  ASSUME IInv, NEW t \in Tabs, Act(t) PROVE IInv'
<1>1. PICK call : call = sent[t].call
  OBVIOUS
<1>2. /\ SentIsSound(sent[t])
      /\ call.op \in {"cancel", "move", "review", "drop", "report"}
  BY <1>1 DEF Act, IInv, SendingIsSound, SentIsSound
<1>3. CASE /\ Answer(call) = "OK" /\ Effect(call)
           /\ IF call.op = "review" THEN sent' = [sent EXCEPT ![t].at = "photos"]
                                    ELSE Redirect(t, Landing(call.op, TRUE))
  <2>1. /\ RecordsAreWhole' /\ Lasts
        /\ call.op = "cancel" => appt'.status = "CANCELLED"
        /\ call.op = "review" => review'.standing # "NONE"
    BY <1>2, <1>3, EffectsAreWhole DEF Act
  <2>2. TabsAreSound'
    BY <2>1, TabsStaySound DEF Act
  <2>3. CASE call.op = "review"
    <3>1. PICK files \in SUBSET Files : files = sent[t].left
      BY <1>2 DEF SentIsSound
    <3>2. [sent[t] EXCEPT !.at = "photos"] = [sent[t] EXCEPT !.at = "photos", !.left = files]
      BY <1>2, <3>1 DEF SentIsSound
    <3>3. SendingIsSound'
      BY <1>2, <1>3, <2>1, <2>3, <3>2, UploadsAreSound
    <3> QED
      BY <2>1, <2>2, <3>3 DEF IInv
  <2>4. CASE call.op # "review"
    <3>1. PICK q : q = Landing(call.op, TRUE)
      OBVIOUS
    <3>2. UrlIsWritten(q) /\ FlagIsTrue(q.flag)'
      BY <1>2, <2>1, <3>1, UrlsAreWritten DEF FlagIsTrue
    <3>3. SendingIsSound'
      BY <1>2, <1>3, <2>1, <2>4, <3>1, <3>2, RedirectsAreSound
    <3> QED
      BY <2>1, <2>2, <3>3 DEF IInv
  <2> QED
    BY <2>3, <2>4
<1>4. CASE Redirect(t, Landing(call.op, FALSE)) /\ UNCHANGED <<appt, review>>
  <2>1. Lasts
    BY <1>4 DEF Lasts
  <2>2. PICK q : q = Landing(call.op, FALSE)
    OBVIOUS
  <2>3. UrlIsWritten(q) /\ FlagIsTrue(q.flag)'
    BY <1>2, <2>2, UrlsAreWritten DEF FlagIsTrue
  <2>4. SendingIsSound'
    BY <1>2, <1>4, <2>1, <2>2, <2>3, RedirectsAreSound
  <2>5. TabsAreSound' /\ RecordsAreWhole'
    BY <1>4, <2>1, TabsStaySound DEF Act, IInv, RecordsAreWhole
  <2> QED
    BY <2>4, <2>5 DEF IInv
<1> QED
  BY <1>1, <1>3, <1>4 DEF Act

\* A photograph goes in only while there is room, and has a number of its own.
LEMMA PhotosAreWhole ==
  ASSUME IInv, NEW f \in Files, PhotoAnswer = "OK",
         review' = [review EXCEPT !.photos = @ \cup {[id |-> review.uploads + 1, file |-> f]},
                                  !.uploads = @ + 1],
         UNCHANGED <<appt, shop, own, now, presses, acts>>
  PROVE  RecordsAreWhole' /\ Lasts /\ review'.standing # "NONE"
<1>1. review.standing = "VISIBLE" /\ ~(Cardinality(review.photos) >= Room)
  BY DEF PhotoAnswer
<1>2. PICK p : p = [id |-> review.uploads + 1, file |-> f]
  OBVIOUS
<1>3. p \in Photo
  BY <1>2 DEF Photo, IInv, RecordsAreWhole
<1>4. PICK P : P = review.photos \cup {p}
  OBVIOUS
<1>5. P \in SUBSET Photo
  BY <1>3, <1>4 DEF IInv, RecordsAreWhole
<1>6. IsFiniteSet(P) /\ Cardinality(P) <= Room
  <2>1. IsFiniteSet(review.photos) /\ Cardinality(review.photos) \in Nat
    BY FS_CardinalityType DEF IInv, RecordsAreWhole
  <2>2. IsFiniteSet(P) /\ Cardinality(P) \in {Cardinality(review.photos), Cardinality(review.photos) + 1}
    BY <1>4, <2>1, FS_AddElement
  <2> QED
    BY <1>1, <2>1, <2>2 DEF Room
<1>7. review' = [review EXCEPT !.photos = P, !.uploads = review.uploads + 1]
  BY <1>2, <1>4
<1>8. /\ review' \in [standing : {"NONE", "VISIBLE", "HIDDEN"}, photos : SUBSET Photo,
                      text : 0..MaxPresses, uploads : Nat]
      /\ review'.photos = P /\ review'.standing = review.standing
  <2>1. PICK n \in Nat : n = review.uploads + 1
    BY DEF IInv, RecordsAreWhole
  <2>2. review' = [review EXCEPT !.photos = P, !.uploads = n]
    BY <1>7, <2>1
  <2>3. review \in [standing : {"NONE", "VISIBLE", "HIDDEN"}, photos : SUBSET Photo,
                    text : 0..MaxPresses, uploads : Nat]
    BY DEF IInv, RecordsAreWhole
  <2> QED
    BY <1>5, <2>2, <2>3
<1> QED
  BY <1>1, <1>6, <1>8 DEF IInv, RecordsAreWhole, Lasts

\* Photos added to a review, some of which may fail.
LEMMA IllustrateKeepsIInv ==
  ASSUME IInv, NEW t \in Tabs, Illustrate(t) PROVE IInv'
<1>1. /\ SentIsSound(sent[t]) /\ sent[t].at = "photos" /\ sent[t].left \subseteq Files
      /\ review.standing # "NONE"
  BY DEF Illustrate, IInv, SendingIsSound, SentIsSound
<1>2. CASE \E q \in {Flagged("detail", "reviewed"), Flagged("detail", "photo_error")} :
             Redirect(t, q) /\ UNCHANGED review
  <2>1. PICK q \in {Flagged("detail", "reviewed"), Flagged("detail", "photo_error")} :
          Redirect(t, q)
    BY <1>2
  <2>2. Lasts /\ UNCHANGED <<appt, review>>
    BY <1>2 DEF Illustrate, Lasts
  <2>3. UrlIsWritten(q) /\ q.flag \in {"reviewed", "photo_error"}
    BY UrlsAreWritten DEF Flagged
  <2>4. FlagIsTrue(q.flag)'
    BY <1>1, <2>2, <2>3 DEF FlagIsTrue
  <2>5. SendingIsSound'
    BY <1>1, <2>1, <2>2, <2>3, <2>4, RedirectsAreSound
  <2> QED
    BY <2>2, <2>5, TabsStaySound DEF Illustrate, IInv, RecordsAreWhole
<1>3. CASE /\ PhotoAnswer = "OK"
           /\ \E f \in sent[t].left :
                /\ review' = [review EXCEPT
                                !.photos = @ \cup {[id |-> review.uploads + 1, file |-> f]},
                                !.uploads = @ + 1]
                /\ sent' = [sent EXCEPT ![t].left = @ \ {f}]
  <2>1. PICK f \in sent[t].left :
                /\ review' = [review EXCEPT
                                !.photos = @ \cup {[id |-> review.uploads + 1, file |-> f]},
                                !.uploads = @ + 1]
                /\ sent' = [sent EXCEPT ![t].left = @ \ {f}]
    BY <1>3
  <2>2. RecordsAreWhole' /\ Lasts /\ review'.standing # "NONE"
    BY <1>1, <1>3, <2>1, PhotosAreWhole DEF Illustrate
  <2>3. PICK files \in SUBSET Files : files = sent[t].left \ {f}
    BY <1>1
  <2>4. [sent[t] EXCEPT !.left = files] = [sent[t] EXCEPT !.at = "photos", !.left = files]
    BY <1>1 DEF SentIsSound
  <2>5. sent' = [sent EXCEPT ![t] = [sent[t] EXCEPT !.left = files]]
    BY <2>1, <2>3
  <2>6. SendingIsSound'
    BY <1>1, <2>2, <2>4, <2>5, UploadsAreSound
  <2> QED
    BY <2>2, <2>6, TabsStaySound DEF Illustrate, IInv
<1> QED
  BY <1>2, <1>3 DEF Illustrate

\* The redirect is followed.
LEMMA LandKeepsIInv ==
  ASSUME IInv, NEW t \in Tabs, Land(t) PROVE IInv'
<1>1. PICK q : q = sent[t].next
  OBVIOUS
<1>2. UrlIsWritten(q) /\ FlagIsTrue(q.flag)
  BY <1>1 DEF Land, IInv, SendingIsSound, SentIsSound
<1>3. TabsAreSound'
  BY <1>1, <1>2, ShownIsSound DEF Land
<1>4. SendingIsSound'
  BY OneSendingMoves DEF Land, Lasts
<1> QED
  BY <1>3, <1>4 DEF Land, IInv, RecordsAreWhole

\* An answer that never comes.
LEMMA LoseKeepsIInv ==
  ASSUME IInv, NEW t \in Tabs, Lose(t) PROVE IInv'
<1>1. Lasts
  BY DEF Lose, Lasts
<1>2. SendingIsSound'
  BY <1>1, OneSendingMoves DEF Lose
<1> QED
  BY <1>1, <1>2, TabsStaySound DEF Lose, IInv, RecordsAreWhole

----------------------------------------------------------------------------
(* Everybody else's steps.                                                   *)

\* What the salon, the moderator and the worker do meanwhile.
LEMMA OthersKeepIInv ==
  ASSUME IInv, SalonActs \/ ShopChanges \/ OperatorActs \/ Tick PROVE IInv'
<1>1. RecordsAreWhole' /\ Lasts
  <2>1. CASE SalonActs
    <3>1. acts' \in 0..MaxActs
      BY <2>1, BoundsAreNatural DEF SalonActs, Acting, IInv, RecordsAreWhole
    <3>2. CASE \E s \in Legal(appt.status) : appt' = [appt EXCEPT !.status = s]
      BY <2>1, <3>1, <3>2 DEF SalonActs, Legal, IInv, RecordsAreWhole, Lasts, Statuses
    <3>3. CASE Open(appt.status) /\ \E s \in Hours : appt' = [appt EXCEPT !.at = s]
      BY <2>1, <3>1, <3>3, HoursOnGrid
      DEF SalonActs, Open, IInv, RecordsAreWhole, Lasts, Statuses
    <3> QED
      BY <2>1, <3>2, <3>3 DEF SalonActs
  <2>2. CASE ShopChanges
    <3>1. acts' \in 0..MaxActs
      BY <2>2, BoundsAreNatural DEF ShopChanges, Acting, IInv, RecordsAreWhole
    <3>2. shop' \in [active : BOOLEAN, offering : {"LISTED", "RENAMED", "WITHDRAWN"},
                     chair : BOOLEAN, taken : SUBSET Hours]
      <4> USE DEF IInv, RecordsAreWhole
      <4>1. CASE \E o \in {"LISTED", "RENAMED", "WITHDRAWN"} : shop' = [shop EXCEPT !.offering = o]
        BY <4>1
      <4>2. CASE shop' = [shop EXCEPT !.chair = ~@]
        BY <4>2
      <4>3. CASE \E s \in Hours : \E T \in SUBSET Hours : shop' = [shop EXCEPT !.taken = T]
        BY <4>3
      <4>4. ASSUME NEW s \in Hours PROVE (IF s \in shop.taken THEN shop.taken \ {s}
                                          ELSE shop.taken \cup {s}) \in SUBSET Hours
        OBVIOUS
      <4> QED
        BY <2>2, <4>1, <4>2, <4>3, <4>4 DEF ShopChanges
    <3> QED
      BY <2>2, <3>1, <3>2 DEF ShopChanges, IInv, RecordsAreWhole, Lasts
  <2>3. CASE OperatorActs
    <3>1. acts' \in 0..MaxActs
      BY <2>3, BoundsAreNatural DEF OperatorActs, Acting, IInv, RecordsAreWhole
    <3> QED
      BY <2>3, <3>1 DEF OperatorActs, IInv, RecordsAreWhole, Lasts
  <2>4. CASE Tick
    BY <2>4, BoundsAreNatural DEF Tick, IInv, RecordsAreWhole, Lasts
  <2> QED
    BY <2>1, <2>2, <2>3, <2>4
<1>2. UNCHANGED <<tab, sent>>
  BY DEF SalonActs, ShopChanges, OperatorActs, Tick
<1> QED
  BY <1>1, <1>2, TabsStaySound, SendingStaysSound DEF IInv

----------------------------------------------------------------------------
(* The invariant.                                                            *)

\* The first pages.
LEMMA InitIsSound == ASSUME Init PROVE IInv
<1>1. RecordsAreWhole
  BY BoundsAreNatural, HoursOnGrid, FS_EmptySet
  DEF Init, RecordsAreWhole, Statuses, Room
<1>2. PICK q : q = Plain("detail")
  OBVIOUS
<1>3. UrlIsWritten(q) /\ FlagIsTrue(q.flag) /\ PageIsSound(Blank)
  BY <1>2, UrlsAreWritten DEF Asks, PageIsSound, Blank, Page
<1>4. TabsAreSound
  BY <1>2, <1>3 DEF Init, TabsAreSound
<1>5. SendingIsSound
  BY DEF Init, SendingIsSound
<1> QED
  BY <1>1, <1>4, <1>5 DEF IInv

\* Every step, one case each.
LEMMA NextKeepsIInv == ASSUME IInv, [Next]_vars PROVE IInv'
<1>1. CASE UNCHANGED vars
  BY <1>1, TabsStaySound, SendingStaysSound DEF vars, IInv, RecordsAreWhole, Lasts
<1> QED
  BY <1>1, VisitKeepsIInv, SubmitKeepsIInv, ActKeepsIInv, IllustrateKeepsIInv, LandKeepsIInv,
     LoseKeepsIInv, OthersKeepIInv
  DEF Next

\* The records, the pages and the actions under way stay sound, whoever acts.
THEOREM Invariance == Spec => []IInv
<1>1. Init => IInv
  BY InitIsSound
<1>2. IInv /\ [Next]_vars => IInv'
  BY NextKeepsIInv
<1> QED
  BY <1>1, <1>2, PTL DEF Spec

----------------------------------------------------------------------------
(* What the invariant says of the page.                                      *)

\* Every record keeps its shape, and a review holds no more photographs than it
\* has room for.
THEOREM TypeCorrect == Spec => []TypeOK
<1>1. IInv => TypeOK
  BY DEF IInv, RecordsAreWhole, TabsAreSound, SendingIsSound, SentIsSound, UrlIsWritten,
         Statuses, TypeOK
<1> QED
  BY <1>1, Invariance, PTL

\* "Cancelled" is drawn of nothing but a cancelled appointment, "your review is
\* online" of nothing but a review given.
THEOREM AnnouncementsAreTrue == Spec => []AnnouncedIsSo
<1>1. IInv => AnnouncedIsSo
  BY DEF IInv, TabsAreSound, PageIsSound, FlagIsTrue, AnnouncedIsSo
<1> QED
  BY <1>1, Invariance, PTL

\* What an operator took down gains neither a word nor a photograph.
THEOREM HiddenReviewsStandStill == Spec => HiddenStandsStill
<1>1. ASSUME IInv, Next, review.standing = "HIDDEN"
      PROVE  review'.text = review.text /\ review'.photos \subseteq review.photos
  <2> USE <1>1
  <2>1. DOMAIN review = {"standing", "photos", "text", "uploads"}
    BY DEF IInv, RecordsAreWhole
  <2>2. ASSUME NEW t \in Tabs, Act(t)
        PROVE  review'.text = review.text /\ review'.photos \subseteq review.photos
    <3>1. PICK call : call = sent[t].call
      OBVIOUS
    <3>2. call.op \in {"cancel", "move", "review", "drop", "report"}
      BY <2>2, <3>1 DEF Act, IInv, SendingIsSound, SentIsSound
    <3>3. CASE UNCHANGED review
      BY <3>3
    <3>4. CASE Answer(call) = "OK" /\ Effect(call)
      <4>1. call.op # "review"
        BY <3>4, AcceptedCalls
      <4>2. UNCHANGED review \/ review' = [review EXCEPT !.photos =
                                              {p \in review.photos : p.id # call.arg}]
        BY <3>2, <3>4, <4>1 DEF Effect
      <4> QED
        BY <2>1, <4>2
    <3> QED
      BY <2>2, <3>1, <3>3, <3>4 DEF Act
  <2>3. ASSUME NEW t \in Tabs, Illustrate(t)
        PROVE  review'.text = review.text /\ review'.photos \subseteq review.photos
    <3>1. PhotoAnswer # "OK"
      BY DEF PhotoAnswer
    <3> QED
      BY <2>3, <3>1 DEF Illustrate
  <2>4. CASE OperatorActs
    BY <2>1, <2>4 DEF OperatorActs
  <2>5. CASE \/ \E t \in Tabs : Visit(t) \/ Submit(t) \/ Land(t) \/ Lose(t)
             \/ SalonActs \/ ShopChanges \/ Tick
    BY <2>5 DEF Visit, Submit, Land, Lose, SalonActs, ShopChanges, Tick
  <2> QED
    BY <2>2, <2>3, <2>4, <2>5 DEF Next
<1>2. IInv /\ [Next]_vars => [review.standing = "HIDDEN" =>
         /\ review'.text = review.text
         /\ review'.photos \subseteq review.photos]_vars
  BY <1>1 DEF vars
<1> QED
  BY <1>2, Invariance, PTL DEF Spec, HiddenStandsStill

----------------------------------------------------------------------------
(* What an up-to-date page says of the backend.                              *)

\* The answers, read as conditions.
LEMMA AnswersAreConditions ==
  ASSUME shop.active
  PROVE  /\ CancelAnswer = "OK" <=> InTime /\ Open(appt.status)
         /\ \A at : MoveAnswer(at) = "OK" <=>
               /\ InTime /\ Open(appt.status) /\ shop.offering # "WITHDRAWN"
               /\ at \in Hours /\ ~(at < now) /\ at \notin shop.taken
         /\ ReviewAnswer = "OK" <=> ~own /\ MayReview("NONE") /\ review.standing # "HIDDEN"
         /\ ReportAnswer = "OK"
  BY DEF CancelAnswer, MoveAnswer, ReviewAnswer, ReportAnswer

\* What the records hold.
LEMMA FieldsOfRecords ==
  ASSUME IInv
  PROVE  /\ appt.status \in Statuses /\ appt.at \in Nat /\ now \in Nat
         /\ review.standing \in {"NONE", "VISIBLE", "HIDDEN"}
<1>1. appt \in [status : Statuses, at : Times] /\ now \in 0..LastTick
  BY DEF IInv, RecordsAreWhole
<1>2. now \in Nat
  BY <1>1, BoundsAreNatural
<1>3. review.standing \in {"NONE", "VISIBLE", "HIDDEN"}
  BY DEF IInv, RecordsAreWhole
<1> QED
  BY <1>1, <1>2, <1>3, TimesAreNatural

\* A page that is up to date is the one its URL draws.
LEMMA FreshPagesAreDrawn ==
  ASSUME IInv, NEW t \in Tabs, Fresh(t), NEW q, q = tab[t].url, NEW b, b = Booking
  PROVE  /\ shop.active /\ UrlIsWritten(q) /\ View(b, q) \in Asks
         /\ tab[t].page.view = View(b, q) /\ tab[t].page.offers = Offers(b, q)
         /\ tab[t].page.says = Says(b, q)
<1>1. shop.active /\ UrlIsWritten(q)
  BY DEF Fresh, IInv, TabsAreSound
<1>2. tab[t].page = Page(View(b, q), Offers(b, q), Says(b, q))
  BY <1>1 DEF Fresh, Render
<1> QED
  BY <1>1, <1>2 DEF Page, View, Asks

\* Every button of an up-to-date page is one the backend would accept, and the
\* card offers each change exactly while the backend takes it.
THEOREM PagesAgreeWithBackend == Spec => []PageAgreesWithBackend
<1>1. ASSUME IInv, NEW t \in Tabs, Fresh(t)
      PROVE  /\ \A c \in Posts(tab[t].page) : Excused(c) \/ Answer(c) = "OK"
             /\ tab[t].page.view = "detail" =>
                  /\ Go("cancel") \in tab[t].page.offers <=> CancelAnswer = "OK"
                  /\ Go("move") \in tab[t].page.offers <=> CancelAnswer = "OK"
                  /\ ~own => (Go("review") \in tab[t].page.offers <=> ReviewAnswer = "OK")
  <2> USE <1>1
  <2>1. PICK q, b : q = tab[t].url /\ b = Booking
    OBVIOUS
  <2>2. /\ shop.active /\ UrlIsWritten(q) /\ View(b, q) \in Asks
        /\ tab[t].page.view = View(b, q) /\ tab[t].page.offers = Offers(b, q)
    BY <2>1, FreshPagesAreDrawn
  <2>3. /\ b.reviewable = MayReview(review.standing) /\ b.photos = review.photos
        /\ Changeable(b) <=> Open(appt.status) /\ InTime
    BY <2>1 DEF Booking, Changeable
  <2>4. /\ CancelAnswer = "OK" <=> Changeable(b)
        /\ ~own => (ReviewAnswer = "OK" <=> b.reviewable)
    BY <2>2, <2>3, AnswersAreConditions DEF MayReview
  <2>5. ASSUME NEW c \in Posts(tab[t].page) PROVE Excused(c) \/ Answer(c) = "OK"
    <3>1. c \in Offers(b, q) /\ c.op \in {"cancel", "move", "review", "drop", "report"}
      BY <2>2, <2>5 DEF Posts
    <3>2. CASE View(b, q) = "detail"
      BY <3>1, <3>2 DEF Offers, DetailOffers, Go
    <3>3. CASE View(b, q) = "move"
      <4>1. Changeable(b)
        BY <3>3 DEF View
      <4>2. CanLoadMove /\ \E s \in Slots : c = Press("move", s)
        BY <3>1, <3>3 DEF Offers, MoveOffers, Press
      <4>3. PICK s \in Slots : c = Press("move", s)
        BY <4>2
      <4>4. ASSUME shop.chair PROVE MoveAnswer(s) = "OK"
        <5>1. s \in Hours /\ s \notin shop.taken /\ s >= now /\ s \in Nat /\ now \in Nat
          <6>1. s \in Hours /\ s \notin shop.taken /\ s >= now
            BY <4>4 DEF Slots
          <6> QED
            BY <6>1, HoursOnGrid, TimesAreNatural, FieldsOfRecords
        <5> QED
          BY <2>2, <2>3, <4>1, <4>2, <5>1, AnswersAreConditions DEF CanLoadMove
      <4> QED
        BY <4>3, <4>4 DEF Press, Answer, Excused
    <3>4. CASE View(b, q) = "cancel"
      <4>1. Changeable(b) /\ c = Press("cancel", Nobody)
        BY <3>1, <3>4 DEF Offers, CancelOffers
      <4> QED
        BY <2>4, <4>1 DEF Answer, Press
    <3>5. CASE View(b, q) = "report"
      <4>1. c = Press("report", Nobody)
        BY <3>1, <3>5 DEF Offers, ReportOffers
      <4> QED
        BY <2>2, <4>1, AnswersAreConditions DEF Answer, Press
    <3>6. CASE View(b, q) = "review"
      <4>1. c = Press("review", Nobody) \/ \E p \in review.photos : c = Press("drop", p.id)
        BY <2>3, <3>1, <3>6 DEF Offers, ReviewOffers
      <4>2. CASE c = Press("review", Nobody)
        BY <2>1, <2>3, <2>4, <4>2 DEF Answer, Press, Excused
      <4>3. CASE \E p \in review.photos : c = Press("drop", p.id)
        BY <2>2, <4>3 DEF Answer, Press, RemoveAnswer
      <4> QED
        BY <4>1, <4>2, <4>3
    <3> QED
      BY <2>2, <3>2, <3>3, <3>4, <3>5, <3>6 DEF Asks
  <2>6. ASSUME tab[t].page.view = "detail"
        PROVE  /\ Go("cancel") \in tab[t].page.offers <=> CancelAnswer = "OK"
               /\ Go("move") \in tab[t].page.offers <=> CancelAnswer = "OK"
               /\ ~own => (Go("review") \in tab[t].page.offers <=> ReviewAnswer = "OK")
    <3>1. tab[t].page.offers = DetailOffers(b)
      BY <2>2, <2>6 DEF Offers
    <3>2. /\ Go("cancel") # Go("move") /\ Go("cancel") # Go("review") /\ Go("move") # Go("review")
          /\ Go("report") \notin {Go("cancel"), Go("move"), Go("review")}
      BY DEF Go
    <3>3. /\ Go("cancel") \in DetailOffers(b) <=> Changeable(b)
          /\ Go("move") \in DetailOffers(b) <=> Changeable(b)
          /\ Go("review") \in DetailOffers(b) <=> b.reviewable
      BY <3>2 DEF DetailOffers
    <3> QED
      BY <2>4, <3>1, <3>3
  <2> QED
    BY <2>5, <2>6
<1>2. IInv => PageAgreesWithBackend
  BY <1>1 DEF PageAgreesWithBackend
<1> QED
  BY <1>2, Invariance, PTL

\* Wherever a refusal lands, the up-to-date page says why.
THEOREM RefusalsAreExplained == Spec => []NothingRefusedInSilence
<1>1. ASSUME IInv, NEW t \in Tabs, Fresh(t),
             tab[t].url.flag \in {"error", "move_error", "review_error", "report_error", "photo_error"}
      PROVE  \/ \E f \in Explanations : f \in tab[t].page.says
             \/ tab[t].url.flag = "review_error" /\ appt.at + 1 > now
  <2>1. PICK q, b : q = tab[t].url /\ b = Booking
    OBVIOUS
  <2>2. /\ UrlIsWritten(q) /\ tab[t].page.says = Says(b, q) /\ View(b, q) \in Asks
    BY <1>1, <2>1, FreshPagesAreDrawn
  <2>3. /\ b.status = appt.status /\ b.standing = review.standing
        /\ b.reviewable = MayReview(review.standing)
        /\ appt.status \in Statuses /\ review.standing \in {"NONE", "VISIBLE", "HIDDEN"}
        /\ appt.at \in Nat /\ now \in Nat
    BY <1>1, <2>1, FieldsOfRecords DEF Booking
  <2>4. CASE q.flag \in {"error", "photo_error"}
    <3>1. View(b, q) = "detail"
      BY <2>2, <2>4 DEF UrlIsWritten, View
    <3> QED
      BY <2>2, <2>4, <3>1 DEF Says, DetailSays, Flashes, Explanations
  <2>5. CASE q.flag = "report_error"
    <3>1. View(b, q) = "report"
      BY <2>2, <2>5 DEF UrlIsWritten, View
    <3> QED
      BY <2>2, <2>5, <3>1 DEF Says, ReportSays, Explanations
  <2>6. CASE q.flag = "move_error"
    <3>1. q.ask = "move"
      BY <2>2, <2>6 DEF UrlIsWritten
    <3>2. CASE Changeable(b)
      <4>1. View(b, q) = "move"
        BY <3>1, <3>2 DEF View
      <4> QED
        BY <2>2, <2>6, <4>1 DEF Says, MoveSays, Explanations
    <3>3. CASE ~Changeable(b)
      <4>1. View(b, q) = "detail"
        BY <3>1, <3>3 DEF View
      <4>2. tab[t].page.says = DetailSays(b, q)
        BY <2>2, <4>1 DEF Says
      <4>3. CASE Open(b.status)
        BY <3>3, <4>2, <4>3 DEF Changeable, DetailSays, Explanations
      <4>4. CASE ~Open(b.status)
        BY <2>3, <2>6, <4>2, <4>4 DEF Open, DetailSays, StatusNote, Statuses, Explanations
      <4> QED
        BY <4>3, <4>4
    <3> QED
      BY <3>2, <3>3
  <2>7. CASE q.flag = "review_error"
    <3>1. q.ask = "review"
      BY <2>2, <2>7 DEF UrlIsWritten
    <3>2. CASE b.reviewable \/ b.standing # "NONE"
      <4>1. View(b, q) = "review"
        BY <3>1, <3>2 DEF View
      <4> QED
        BY <2>2, <2>7, <4>1 DEF Says, ReviewSays, Explanations
    <3>3. CASE ~b.reviewable /\ b.standing = "NONE"
      <4>1. View(b, q) = "detail"
        BY <3>1, <3>3 DEF View
      <4>2. tab[t].page.says = DetailSays(b, q)
        BY <2>2, <4>1 DEF Says
      <4>3. appt.status \in {"CANCELLED", "NO_SHOW"} \/ appt.at + 1 > now
        BY <2>3, <3>3 DEF MayReview
      <4> QED
        BY <2>1, <2>3, <2>7, <4>2, <4>3 DEF DetailSays, StatusNote, Explanations
    <3> QED
      BY <3>2, <3>3
  <2> QED
    BY <1>1, <2>1, <2>4, <2>5, <2>6, <2>7
<1>2. IInv => NothingRefusedInSilence
  BY <1>1 DEF NothingRefusedInSilence
<1> QED
  BY <1>2, Invariance, PTL

=============================================================================
