----------------------------- MODULE ShopProofs -----------------------------
(****************************************************************************)
(* A salon's rooms never disagree with the gate they speak of, a form sent as *)
(* it was drawn changes nothing, a publication is somebody's own decision, and *)
(* the rows stay rows the schema admits: for any number of chairs, accounts,  *)
(* tabs and photographs, and any interleaving of the forms in flight.         *)
(*                                                                            *)
(* The rows' argument: chairs are never removed, so the rows a stale form was *)
(* drawn from are still there; an account is seated once, because a seat is   *)
(* given by a code to somebody who has none and a chair is switched on again  *)
(* only when its account sits nowhere else; and an owner's role is taken from *)
(* one row only as it is given to another, while the index lets no second     *)
(* active row have it, whatever became of the two since they were checked.    *)
(****************************************************************************)
EXTENDS Shop, FiniteSetTheorems, WellFoundedInduction, TLAPS

Chair == [here : BOOLEAN, owner : BOOLEAN, active : BOOLEAN, bookable : BOOLEAN,
          account : Accounts \cup {NoAccount}, code : 0..MaxMinted]
Service == [here : BOOLEAN, active : BOOLEAN, modes : SUBSET Modes, delay : {0, 1}, extras : {0, 1}]
Closure == [id : 1..MaxMinted, of : Staff]
Profile == [published : BOOLEAN, text : {0, 1}, extras : {0, 1}]
Rows == [team : [Staff -> Chair], service : Service, performs : SUBSET Staff,
         album : [PhotoSlots -> 0..MaxMinted], hours : [Staff -> [Days -> SUBSET Windows]],
         closures : SUBSET Closure, profile : Profile]

Owns(s, p) == s.team[p].here /\ s.team[p].owner

\* The rows by themselves.
TeamIsWhole(s) ==
  /\ \E o \in Staff : Owns(s, o)
  /\ \A p, q \in Reigning(s) : p = q
  /\ \A p \in Staff : s.team[p].active => s.team[p].here
AlbumIsWhole(s) == \A i, j \in PhotoSlots : i # j /\ s.album[i] # 0 => s.album[i] # s.album[j]
SalonIsWhole(s) ==
  /\ s \in Rows /\ TeamIsWhole(s) /\ AlbumIsWhole(s)
  /\ s.performs \subseteq Here(s)
  /\ "DROP_OFF" \in s.service.modes <=> s.service.delay # 0

\* The rows against what is kept elsewhere: an account sits once, in this salon
\* or in another; whoever is booked still works here; photographs have come one
\* by one.
SeatedOnce(s, aw) ==
  /\ \A p, q \in Staff : p # q /\ s.team[p].active /\ s.team[q].active /\ s.team[p].account # NoAccount
                           => s.team[p].account # s.team[q].account
  /\ \A p \in Staff : s.team[p].active /\ s.team[p].account # NoAccount => s.team[p].account \notin aw
BookedAreActive(s, bk) == bk \subseteq Staff /\ \A p \in bk : s.team[p].active
AlbumIsMinted(s, m) == \A i \in PhotoSlots : s.album[i] <= m

SalonIsSound(s, aw, bk, m) ==
  /\ SalonIsWhole(s) /\ SeatedOnce(s, aw) /\ BookedAreActive(s, bk) /\ AlbumIsMinted(s, m)

\* Nobody who had a row has lost it.
Outlives(s, w) == Here(s) \subseteq Here(w)

Verbs == {"create", "service", "performers", "addPhoto", "removePhoto", "hours", "close", "reopen",
          "add", "member", "invite", "transfer", "profile", "publish", "join", "register"}
Form == [verb : Verbs, of : Staff \cup {NoStaff}, on : BOOLEAN, bookable : BOOLEAN,
         ticked : SUBSET Staff, modes : SUBSET Modes, delay : {0, 1}, extras : {0, 1},
         week : [Days -> Windows \cup {Unset}], open : SUBSET Days, text : {0, 1}, id : Nat,
         from : Staff \cup {NoStaff}]

\* A form that was drawn names rows that are there, however stale it is.
FormIsSound(f, s) ==
  /\ f \in Form
  /\ f.ticked \subseteq Here(s)
  /\ f.verb \in {"member", "invite", "transfer"} => f.of \in Here(s)
  /\ f.verb \in {"hours", "close"} => f.of \in Staff

PageIsSound(p) ==
  /\ SalonIsWhole(p.read) /\ Outlives(p.read, salon)
  /\ p.room = "hours" => p.of \in Staff

\* A form in flight is sound; the profile's carries the state it was drawn with, the
\* switch's the other one; a week that is asked for has its hours, and a transfer its
\* two rows.
FlightIsSound(t) ==
  /\ DOMAIN flight[t] = {"step", "form", "said"}
  /\ flight[t].step \in {"idle", "reading", "checking", "heir", "writing", "back"}
  /\ flight[t].step # "idle" =>
       /\ FormIsSound(flight[t].form, salon)
       /\ flight[t].form.verb = "profile" => flight[t].form.on = page[t].read.profile.published
       /\ flight[t].form.verb = "publish" => flight[t].form.on = ~page[t].read.profile.published
  /\ flight[t].step = "reading" => flight[t].form.verb = "publish"
  /\ flight[t].step = "heir" => flight[t].form.verb = "transfer" /\ flight[t].form.from \in Staff
  /\ flight[t].step = "writing" /\ flight[t].form.verb = "transfer"
       => flight[t].form.from \in Staff \ {flight[t].form.of}
  /\ flight[t].step \in {"checking", "writing"} /\ flight[t].form.verb = "hours"
       => ~WeekRefused(flight[t].form)

SessionsAreSound == away \subseteq Accounts /\ holder \in [Tabs -> Accounts]
PagesAreSound == DOMAIN page = Tabs /\ \A t \in Tabs : PageIsSound(page[t])
FlightsAreSound == DOMAIN flight = Tabs /\ \A t \in Tabs : FlightIsSound(t)
BoundsHold == minted \in 0..MaxMinted /\ presses \in 0..MaxPresses /\ others \in 0..MaxOthers

IInv ==
  /\ SalonIsSound(salon, away, booked, minted)
  /\ SessionsAreSound /\ PagesAreSound /\ FlightsAreSound /\ BoundsHold

----------------------------------------------------------------------------
(* Chairs.                                                                   *)

\* A row that is asked for by its account is there, active and the account's.
LEMMA MembersSit ==
  ASSUME NEW s, NEW a, Member(s, a)
  PROVE  Me(s, a) \in Here(s) /\ s.team[Me(s, a)].active /\ s.team[Me(s, a)].account = a
<1>1. \E p \in Here(s) : s.team[p].active /\ s.team[p].account = a
  BY DEF Member, Me
<1>2. Me(s, a) = CHOOSE p \in Here(s) : s.team[p].active /\ s.team[p].account = a
  BY <1>1 DEF Me
<1> QED
  BY <1>1, <1>2, Zenon

\* And who has no row here sits on none.
LEMMA OthersDoNot ==
  ASSUME NEW s, SalonIsWhole(s), NEW a, ~Member(s, a), NEW p \in Staff, s.team[p].active
  PROVE  s.team[p].account # a
<1>1. SUFFICES ASSUME s.team[p].account = a PROVE FALSE
  OBVIOUS
<1>2. p \in Here(s)
  BY DEF SalonIsWhole, TeamIsWhole, Here
<1>3. \E q \in Here(s) : s.team[q].active /\ s.team[q].account = a
  BY <1>1, <1>2
<1>4. Me(s, a) \in Here(s)
  <2>1. Me(s, a) = CHOOSE q \in Here(s) : s.team[q].active /\ s.team[q].account = a
    BY <1>3 DEF Me
  <2> QED
    BY <1>3, <2>1, Zenon
<1> QED
  BY <1>4, StaffAssumption DEF Member, Here

\* One chair is rewritten.
Reseated(s, p, c) == [s EXCEPT !.team = [s.team EXCEPT ![p] = c]]
\* What a row rewritten leaves alone.
LEMMA OneChairMoves ==
  ASSUME NEW s \in Rows, NEW p \in Staff, NEW c \in Chair
  PROVE  LET w == Reseated(s, p, c) IN
         /\ w \in Rows
         /\ w.team[p] = c /\ \A q \in Staff \ {p} : w.team[q] = s.team[q]
         /\ w.service = s.service /\ w.performs = s.performs /\ w.album = s.album
         /\ w.hours = s.hours /\ w.closures = s.closures /\ w.profile = s.profile
<1>1. s.team \in [Staff -> Chair]
  BY DEF Rows
<1>2. PICK T \in [Staff -> Chair] : T = [s.team EXCEPT ![p] = c]
  BY <1>1
<1>3. PICK w : w = [s EXCEPT !.team = T]
  OBVIOUS
<1>4. w = Reseated(s, p, c)
  BY <1>2, <1>3 DEF Reseated
<1>5. /\ w \in Rows
      /\ w.team[p] = c /\ \A q \in Staff \ {p} : w.team[q] = s.team[q]
      /\ w.service = s.service /\ w.performs = s.performs /\ w.album = s.album
      /\ w.hours = s.hours /\ w.closures = s.closures /\ w.profile = s.profile
  BY <1>1, <1>2, <1>3 DEF Rows
<1> QED
  BY <1>4, <1>5

\* Two are.
LEMMA TwoChairsMove ==
  ASSUME NEW s \in Rows, NEW p \in Staff, NEW q \in Staff, p # q, NEW c \in Chair, NEW d \in Chair,
         NEW v, v = Reseated(s, p, c)
  PROVE  /\ v \in Rows /\ v.team[q] = s.team[q]
         /\ \A w : w = Reseated(v, q, d) =>
              /\ w \in Rows /\ w.service = s.service /\ w.performs = s.performs /\ w.album = s.album
              /\ w.team[q] = d /\ w.team[p] = c /\ \A x \in Staff \ {p, q} : w.team[x] = s.team[x]
<1>1. v \in Rows /\ v.service = s.service /\ v.performs = s.performs /\ v.album = s.album
  BY OneChairMoves
<1>2. v.team[p] = c /\ \A x \in Staff \ {p} : v.team[x] = s.team[x]
  BY OneChairMoves
<1>3. ASSUME NEW w, w = Reseated(v, q, d)
      PROVE  /\ w \in Rows /\ w.service = s.service /\ w.performs = s.performs /\ w.album = s.album
             /\ w.team[q] = d /\ w.team[p] = c /\ \A x \in Staff \ {p, q} : w.team[x] = s.team[x]
  <2>1. w \in Rows /\ w.service = v.service /\ w.performs = v.performs /\ w.album = v.album
    BY <1>1, <1>3, OneChairMoves
  <2>2. w.team[q] = d /\ \A x \in Staff \ {q} : w.team[x] = v.team[x]
    BY <1>1, <1>3, OneChairMoves
  <2> QED
    BY <1>1, <1>2, <2>1, <2>2
<1> QED
  BY <1>1, <1>2, <1>3

\* A chair rewritten that keeps its place, its ownership, its account and its
\* state leaves the salon sound.
LEMMA HarmlessChair ==
  ASSUME NEW s, NEW aw, NEW bk, NEW m, SalonIsSound(s, aw, bk, m), NEW p \in Staff, NEW c \in Chair,
         c.here = s.team[p].here, c.owner = s.team[p].owner, c.active = s.team[p].active,
         c.account = s.team[p].account,
         NEW w, w = Reseated(s, p, c)
  PROVE  SalonIsSound(w, aw, bk, m) /\ Outlives(s, w)
<1>1. s \in Rows
  BY DEF SalonIsSound, SalonIsWhole
<1>2. /\ w \in Rows /\ w.service = s.service /\ w.performs = s.performs /\ w.album = s.album
      /\ w.team[p] = c /\ \A q \in Staff \ {p} : w.team[q] = s.team[q]
  BY <1>1, OneChairMoves
<1>3. \A q \in Staff : /\ w.team[q].here = s.team[q].here /\ w.team[q].owner = s.team[q].owner
                       /\ w.team[q].active = s.team[q].active /\ w.team[q].account = s.team[q].account
  BY <1>2
<1>4. Here(w) = Here(s)
  BY <1>3 DEF Here
<1>5. TeamIsWhole(w) /\ SeatedOnce(w, aw) /\ BookedAreActive(w, bk)
  BY <1>3 DEF SalonIsSound, SalonIsWhole, TeamIsWhole, Owns, Reigning, Here, SeatedOnce, BookedAreActive
<1>6. AlbumIsWhole(w) /\ AlbumIsMinted(w, m)
  BY <1>2 DEF SalonIsSound, SalonIsWhole, AlbumIsWhole, AlbumIsMinted
<1> QED
  BY <1>2, <1>4, <1>5, <1>6 DEF SalonIsSound, SalonIsWhole, Outlives

\* What touches no chair and no photograph leaves the team and the album sound.
LEMMA SameTeam ==
  ASSUME NEW s, NEW aw, NEW bk, NEW m, SalonIsSound(s, aw, bk, m),
         NEW w \in Rows, w.team = s.team, w.album = s.album,
         w.performs \subseteq Here(s), "DROP_OFF" \in w.service.modes <=> w.service.delay # 0
  PROVE  SalonIsSound(w, aw, bk, m) /\ Outlives(s, w)
<1>1. Here(w) = Here(s)
  BY DEF Here
<1> QED
  BY <1>1 DEF SalonIsSound, SalonIsWhole, TeamIsWhole, AlbumIsWhole, Owns, Reigning, SeatedOnce,
              BookedAreActive, AlbumIsMinted, Outlives

----------------------------------------------------------------------------
(* The writes, one lemma a room.                                             *)

\* An identifier handed out touches no row.
LEMMA MintingKeepsTheSalon ==
  ASSUME NEW s, NEW aw, NEW bk, NEW m \in 0..MaxMinted, SalonIsSound(s, aw, bk, m)
  PROVE  SalonIsSound(s, aw, bk, m + 1)
BY SizesAssumption DEF SalonIsSound, SalonIsWhole, Rows, AlbumIsMinted

\* A non-empty set of naturals has a least element.
LEMMA LeastNatural ==
  ASSUME NEW S, S \subseteq Nat, S # {}
  PROVE  \E n \in S : \A m \in S : n <= m
<1>1. PICK n \in S : \A m \in S : <<m, n>> \notin OpToRel(<, Nat)
  BY WFMin, NatLessThanWellFounded, Zenon
<1>2. \A m \in S : ~(m < n)
  BY <1>1, Zenon DEF OpToRel
<1> QED
  BY <1>2

\* The catalogue's editor: a delay exactly where things are dropped off.
LEMMA ServiceKeepsTheSalon ==
  ASSUME NEW s, NEW aw, NEW bk, NEW m, SalonIsSound(s, aw, bk, m),
         NEW f, FormIsSound(f, s), ServiceAnswer(f) = "OK", NEW w, w = ServiceWritten(s, f)
  PROVE  SalonIsSound(w, aw, bk, m) /\ Outlives(s, w)
<1>1. s \in Rows /\ f \in Form /\ s.performs \subseteq Here(s)
  BY DEF SalonIsSound, SalonIsWhole, FormIsSound
<1>2. PICK d \in {0, 1} : d = IF "DROP_OFF" \in f.modes THEN f.delay ELSE 0
  BY <1>1 DEF Form
<1>3. PICK v \in Service : v = [here |-> TRUE, active |-> f.on, modes |-> f.modes, delay |-> d, extras |-> f.extras]
  BY <1>1 DEF Service, Form
<1>4. PICK P \in SUBSET Here(s) : P = IF f.verb = "create" THEN Here(s) ELSE s.performs
  BY <1>1
<1>5. Here(s) \subseteq Staff
  BY DEF Here
<1>6. w = [s EXCEPT !.service = v, !.performs = P]
  BY <1>2, <1>3, <1>4 DEF ServiceWritten
<1>7. w \in Rows /\ w.team = s.team /\ w.album = s.album /\ w.performs = P /\ w.service = v
  BY <1>1, <1>5, <1>6 DEF Rows
<1>8. "DROP_OFF" \in v.modes <=> v.delay # 0
  BY <1>2, <1>3 DEF ServiceAnswer
<1> QED
  BY <1>4, <1>7, <1>8, SameTeam

\* The performers, the weeks, the closures and the public page.
LEMMA RoomsKeepTheSalon ==
  ASSUME NEW s, NEW aw, NEW bk, NEW m, SalonIsSound(s, aw, bk, m),
         NEW w, w \in Rows, w.team = s.team, w.album = s.album, w.service = s.service,
         w.performs \subseteq Here(s)
  PROVE  SalonIsSound(w, aw, bk, m) /\ Outlives(s, w)
BY SameTeam DEF SalonIsSound, SalonIsWhole

\* Who performs the service: people the form was drawn with, so people here.
LEMMA PerformersKeepTheSalon ==
  ASSUME NEW s, NEW aw, NEW bk, NEW m, SalonIsSound(s, aw, bk, m),
         NEW P \in SUBSET Here(s), NEW w, w = [s EXCEPT !.performs = P]
  PROVE  SalonIsSound(w, aw, bk, m) /\ Outlives(s, w)
<1>1. s \in Rows /\ P \in SUBSET Staff
  BY DEF SalonIsSound, SalonIsWhole, Here
<1>2. w \in Rows /\ w.team = s.team /\ w.album = s.album /\ w.service = s.service /\ w.performs = P
  BY <1>1 DEF Rows
<1> QED
  BY <1>1, <1>2, RoomsKeepTheSalon

\* A form that is not refused has an hour on every day ticked open.
LEMMA SegmentsAreHours ==
  ASSUME NEW f \in Form, ~WeekRefused(f), NEW d \in Days PROVE Segments(f, d) \in SUBSET Windows
<1>1. f.week \in [Days -> Windows \cup {Unset}]
  BY DEF Form
<1> QED
  BY <1>1 DEF WeekRefused, Segments

\* A chair's week, replaced whole.
LEMMA WeekKeepsTheSalon ==
  ASSUME NEW s, NEW aw, NEW bk, NEW m, SalonIsSound(s, aw, bk, m),
         NEW p \in Staff, NEW W \in [Days -> SUBSET Windows],
         NEW w, w = [s EXCEPT !.hours = [s.hours EXCEPT ![p] = W]]
  PROVE  SalonIsSound(w, aw, bk, m) /\ Outlives(s, w)
<1>1. s \in Rows /\ s.hours \in [Staff -> [Days -> SUBSET Windows]] /\ s.performs \subseteq Here(s)
  BY DEF SalonIsSound, SalonIsWhole, Rows
<1>5. PICK H \in [Staff -> [Days -> SUBSET Windows]] : H = [s.hours EXCEPT ![p] = W]
  BY <1>1
<1>6. w = [s EXCEPT !.hours = H]
  BY <1>5
<1>7. w \in Rows /\ w.team = s.team /\ w.album = s.album /\ w.service = s.service /\ w.performs = s.performs
  BY <1>1, <1>6 DEF Rows
<1> QED
  BY <1>1, <1>7, RoomsKeepTheSalon

\* A closure added under a new identifier, or taken away.
LEMMA ClosuresKeepTheSalon ==
  ASSUME BoundsHold, NEW s, NEW aw, NEW bk, SalonIsSound(s, aw, bk, minted),
         NEW f, FormIsSound(f, s), f.verb \in {"close", "reopen"}, f.verb = "close" => minted < MaxMinted,
         NEW w, w = ClosuresWritten(s, f)
  PROVE  SalonIsSound(w, aw, bk, minted) /\ Outlives(s, w)
<1>1. s \in Rows /\ f \in Form /\ s.closures \in SUBSET Closure /\ s.performs \subseteq Here(s)
  BY DEF SalonIsSound, SalonIsWhole, FormIsSound, Rows
<1>2. PICK C \in SUBSET Closure : w = [s EXCEPT !.closures = C]
  <2>1. CASE f.verb = "close"
    <3>1. PICK k \in 1..MaxMinted : k = minted + 1
      BY <2>1, SizesAssumption DEF BoundsHold
    <3>2. f.of \in Staff
      BY <2>1 DEF FormIsSound
    <3>3. PICK C : C = s.closures \cup {[id |-> minted + 1, of |-> f.of]}
      OBVIOUS
    <3>4. C \in SUBSET Closure
      BY <1>1, <3>1, <3>2, <3>3 DEF Closure
    <3> QED
      BY <2>1, <3>3, <3>4 DEF ClosuresWritten
  <2>2. CASE f.verb # "close"
    <3>1. PICK C : C = {c \in s.closures : c.id # f.id}
      OBVIOUS
    <3> QED
      BY <1>1, <2>2, <3>1 DEF ClosuresWritten
  <2> QED
    BY <2>1, <2>2
<1>3. w \in Rows /\ w.team = s.team /\ w.album = s.album /\ w.service = s.service /\ w.performs = s.performs
  BY <1>1, <1>2 DEF Rows
<1> QED
  BY <1>1, <1>3, RoomsKeepTheSalon

\* The public page, replaced whole.
LEMMA ProfileKeepsTheSalon ==
  ASSUME NEW s, NEW aw, NEW bk, NEW m, SalonIsSound(s, aw, bk, m),
         NEW f, FormIsSound(f, s), NEW w, w = ProfileWritten(s, f)
  PROVE  SalonIsSound(w, aw, bk, m) /\ Outlives(s, w)
<1>1. s \in Rows /\ f \in Form /\ s.performs \subseteq Here(s)
  BY DEF SalonIsSound, SalonIsWhole, FormIsSound
<1>2. PICK x \in Profile : x = [published |-> f.on, text |-> f.text, extras |-> f.extras]
  BY <1>1 DEF Profile, Form
<1>3. w = [s EXCEPT !.profile = x]
  BY <1>2 DEF ProfileWritten
<1>4. w \in Rows /\ w.team = s.team /\ w.album = s.album /\ w.service = s.service /\ w.performs = s.performs
  BY <1>1, <1>3 DEF Rows
<1> QED
  BY <1>1, <1>4, RoomsKeepTheSalon

\* The album: a new photograph goes to the lowest empty slot under a new
\* identifier, and a removed one empties its slot.
LEMMA AlbumKeepsTheSalon ==
  ASSUME BoundsHold, NEW s, NEW aw, NEW bk, SalonIsSound(s, aw, bk, minted),
         NEW f, f.verb = "addPhoto" => minted < MaxMinted /\ FreeSlots(s) # {},
         NEW w, w = AlbumWritten(s, f)
  PROVE  /\ f.verb = "addPhoto" => SalonIsSound(w, aw, bk, minted + 1)
         /\ f.verb # "addPhoto" => SalonIsSound(w, aw, bk, minted)
         /\ Outlives(s, w)
<1>1. s \in Rows /\ s.album \in [PhotoSlots -> 0..MaxMinted] /\ minted \in 0..MaxMinted /\ MaxMinted \in Nat
  BY SizesAssumption DEF SalonIsSound, SalonIsWhole, Rows, BoundsHold
<1>2. \A i, j \in PhotoSlots : i # j /\ s.album[i] # 0 => s.album[i] # s.album[j]
  BY DEF SalonIsSound, SalonIsWhole, AlbumIsWhole
<1>3. \A i \in PhotoSlots : s.album[i] <= minted
  BY DEF SalonIsSound, AlbumIsMinted
<1> DEFINE Sound(A, m) == /\ A \in [PhotoSlots -> 0..MaxMinted]
                          /\ \A i, j \in PhotoSlots : i # j /\ A[i] # 0 => A[i] # A[j]
                          /\ \A i \in PhotoSlots : A[i] <= m
<1>4. ASSUME NEW A, NEW m, Sound(A, m), w = [s EXCEPT !.album = A]
      PROVE  SalonIsSound(w, aw, bk, m) /\ Outlives(s, w)
  <2>1. w \in Rows /\ w.team = s.team /\ w.service = s.service /\ w.performs = s.performs /\ w.album = A
    BY <1>1, <1>4 DEF Rows
  <2>2. Here(w) = Here(s)
    BY <2>1 DEF Here
  <2> QED
    BY <1>4, <2>1, <2>2 DEF SalonIsSound, SalonIsWhole, TeamIsWhole, AlbumIsWhole, Owns, Reigning, SeatedOnce,
                            BookedAreActive, AlbumIsMinted, Outlives
<1>5. CASE f.verb = "addPhoto"
  <2>1. PICK i \in FreeSlots(s) : i = Lowest(FreeSlots(s))
    <3>1. FreeSlots(s) \subseteq Nat /\ FreeSlots(s) # {}
      BY <1>5, SizesAssumption DEF FreeSlots
    <3>2. \E n \in FreeSlots(s) : \A k \in FreeSlots(s) : n <= k
      BY <3>1, LeastNatural
    <3> QED
      BY <3>2, Zenon DEF Lowest
  <2>2. PICK n \in 0..MaxMinted : n = minted + 1
    BY <1>1, <1>5
  <2>3. PICK A : A = [s.album EXCEPT ![i] = n]
    OBVIOUS
  <2>4. w = [s EXCEPT !.album = A]
    BY <1>5, <2>1, <2>2, <2>3 DEF AlbumWritten
  <2>5. i \in PhotoSlots
    BY DEF FreeSlots
  <2>6. A \in [PhotoSlots -> 0..MaxMinted] /\ \A j \in PhotoSlots : A[j] = IF j = i THEN n ELSE s.album[j]
    BY <1>1, <2>3, <2>5
  <2>7. \A j \in PhotoSlots : s.album[j] \in 0..MaxMinted /\ s.album[j] < n
    BY <1>1, <1>3, <2>2
  <2>8. Sound(A, n)
    BY <1>1, <1>2, <2>6, <2>7
  <2> HIDE DEF Sound
  <2> QED
    BY <1>4, <1>5, <2>2, <2>4, <2>8
<1>6. CASE f.verb # "addPhoto"
  <2>1. PICK A : A = [i \in PhotoSlots |-> IF s.album[i] = f.id THEN 0 ELSE s.album[i]]
    OBVIOUS
  <2>2. w = [s EXCEPT !.album = A]
    BY <1>6, <2>1 DEF AlbumWritten
  <2>3. Sound(A, minted)
    BY <1>1, <1>2, <1>3, <2>1
  <2> HIDE DEF Sound
  <2> QED
    BY <1>4, <1>6, <2>2, <2>3
<1> QED
  BY <1>5, <1>6

Edit(s, f) == [s EXCEPT !.team[f.of].active = f.on, !.team[f.of].bookable = f.bookable]

\* The team's rows, edited: who is booked is not switched off, and who sits
\* elsewhere is not switched on.
LEMMA MemberKeepsTheSalon ==
  ASSUME NEW s, NEW m, SalonIsSound(s, away, booked, m), NEW f, FormIsSound(f, s), f.of \in Here(s),
         ~(s.team[f.of].active /\ ~f.on /\ f.of \in booked), ~(f.on /\ HeldElsewhere(s, f.of)),
         ~(f.on /\ s.team[f.of].owner /\ Reigning(s) \ {f.of} # {}),
         NEW w, w = Edit(s, f)
  PROVE  SalonIsSound(w, away, booked, m) /\ Outlives(s, w)
<1>1. s \in Rows /\ s.team \in [Staff -> Chair] /\ f.on \in BOOLEAN /\ f.bookable \in BOOLEAN /\ f.of \in Staff
  BY DEF SalonIsSound, SalonIsWhole, Rows, FormIsSound, Form, Here
<1>2. PICK p \in Staff : p = f.of
  BY <1>1
<1>3. PICK r \in Chair : r = s.team[p]
  BY <1>1
<1>4. PICK c \in Chair : c = [r EXCEPT !.active = f.on, !.bookable = f.bookable]
  BY <1>1, <1>3 DEF Chair
<1>5. c.here = r.here /\ c.owner = r.owner /\ c.account = r.account /\ c.active = f.on
  BY <1>1, <1>3, <1>4 DEF Chair
<1>6. w = Reseated(s, p, c)
  BY <1>1, <1>2, <1>3, <1>4 DEF Reseated, Edit
<1>7. /\ w \in Rows /\ w.service = s.service /\ w.performs = s.performs /\ w.album = s.album
      /\ w.team[p] = c /\ \A q \in Staff \ {p} : w.team[q] = s.team[q]
  <2>1. s \in Rows
    BY <1>1
  <2> QED
    BY <1>6, <2>1, OneChairMoves
<1>8. /\ \A q \in Staff : /\ w.team[q].here = s.team[q].here /\ w.team[q].owner = s.team[q].owner
                          /\ w.team[q].account = s.team[q].account
                          /\ q # p => w.team[q].active = s.team[q].active
      /\ w.team[p].active = f.on
  BY <1>3, <1>5, <1>7
<1>9. Here(w) = Here(s)
  BY <1>8 DEF Here
<1>10. TeamIsWhole(w)
  <2>1. s.team[p].here /\ TeamIsWhole(s)
    BY <1>2 DEF Here, SalonIsSound, SalonIsWhole
  <2>2. \E o \in Staff : Owns(w, o)
    BY <1>8, <2>1 DEF TeamIsWhole, Owns
  <2>3. ASSUME NEW q \in Reigning(w), NEW x \in Reigning(w) PROVE q = x
    <3>1. \A y \in Reigning(w) \ {p} : y \in Reigning(s)
      BY <1>8 DEF Reigning, Here
    <3>2. p \in Reigning(w) => Reigning(s) \ {p} = {}
      BY <1>2, <1>8 DEF Reigning
    <3> QED
      BY <2>1, <2>3, <3>1, <3>2 DEF TeamIsWhole
  <2> QED
    BY <1>8, <2>1, <2>2, <2>3 DEF TeamIsWhole
<1>11. SeatedOnce(w, away)
  <2>1. SeatedOnce(s, away) /\ TeamIsWhole(s)
    BY DEF SalonIsSound, SalonIsWhole
  <2>3. ASSUME f.on, NEW q \in Staff, q # p, s.team[q].active, s.team[p].account # NoAccount
        PROVE  s.team[q].account # s.team[p].account
    <3>1. q \in Here(s)
      BY <2>1, <2>3 DEF TeamIsWhole, Here
    <3> QED
      BY <1>2, <2>3, <3>1 DEF HeldElsewhere
  <2>4. ASSUME f.on, s.team[p].account # NoAccount PROVE s.team[p].account \notin away
    BY <1>2, <2>4 DEF HeldElsewhere
  <2> QED
    BY <1>8, <2>1, <2>3, <2>4 DEF SeatedOnce
<1>12. BookedAreActive(w, booked)
  BY <1>2, <1>8 DEF SalonIsSound, BookedAreActive
<1>13. AlbumIsWhole(w) /\ AlbumIsMinted(w, m)
  BY <1>7 DEF SalonIsSound, SalonIsWhole, AlbumIsWhole, AlbumIsMinted
<1> QED
  BY <1>7, <1>9, <1>10, <1>11, <1>12, <1>13 DEF SalonIsSound, SalonIsWhole, Outlives

\* A code is handed out, or its seven days end.
Coded(s, p, k) == [s EXCEPT !.team[p].code = k]

\* A code changes nobody's seat.
LEMMA CodesKeepTheSalon ==
  ASSUME NEW s, NEW aw, NEW bk, NEW m, SalonIsSound(s, aw, bk, m), NEW p \in Staff,
         NEW k \in 0..MaxMinted, NEW w, w = Coded(s, p, k)
  PROVE  SalonIsSound(w, aw, bk, m) /\ Outlives(s, w)
<1>1. s \in Rows /\ s.team \in [Staff -> Chair]
  BY DEF SalonIsSound, SalonIsWhole, Rows
<1>2. PICK r \in Chair : r = s.team[p]
  BY <1>1
<1>3. PICK c \in Chair : c = [r EXCEPT !.code = k]
  BY DEF Chair
<1>4. c.here = r.here /\ c.owner = r.owner /\ c.account = r.account /\ c.active = r.active
  BY <1>3 DEF Chair
<1>5. w = Reseated(s, p, c)
  BY <1>1, <1>2, <1>3 DEF Reseated, Coded
<1> QED
  BY <1>2, <1>4, <1>5, HarmlessChair

\* Ownership is handed over in one statement: the heir's row has it, whoever gave it has
\* not, and if the heir is active nobody else active does.
LEMMA HandingOverKeepsTheSalon ==
  ASSUME NEW s, NEW aw, NEW bk, NEW m, SalonIsSound(s, aw, bk, m),
         NEW heir \in Here(s), NEW giver \in Staff \ {heir},
         ~(s.team[heir].active /\ Reigning(s) \ {heir, giver} # {}),
         NEW w, w = HandedOver(s, giver, heir)
  PROVE  SalonIsSound(w, aw, bk, m) /\ Outlives(s, w)
<1>1. s \in Rows
  BY DEF SalonIsSound, SalonIsWhole
<1>2. s.team \in [Staff -> Chair]
  BY <1>1 DEF Rows
<1>4. heir # giver /\ heir \in Staff /\ s.team[heir].here
  BY DEF Here
<1>5. PICK c \in Chair : c = [s.team[heir] EXCEPT !.owner = TRUE]
  <2>1. PICK r \in Chair : r = s.team[heir]
    BY <1>2, <1>4
  <2> QED
    BY <2>1 DEF Chair
<1>6. PICK d \in Chair : d = [s.team[giver] EXCEPT !.owner = FALSE]
  <2>1. PICK r \in Chair : r = s.team[giver]
    BY <1>2
  <2> QED
    BY <2>1 DEF Chair
<1>7. PICK v : v = Reseated(s, heir, c)
  OBVIOUS
<1>8. v \in Rows /\ v.team[giver] = s.team[giver]
  BY <1>1, <1>4, <1>7, TwoChairsMove
<1>9. w = Reseated(v, giver, d)
  <2>1. v = [s EXCEPT !.team[heir].owner = TRUE]
    BY <1>1, <1>2, <1>4, <1>5, <1>7 DEF Reseated
  <2>2. w = [v EXCEPT !.team[giver].owner = FALSE]
    BY <2>1 DEF HandedOver
  <2>3. v.team \in [Staff -> Chair]
    BY <1>8 DEF Rows
  <2> HIDE <1>7
  <2> QED
    BY <1>6, <1>8, <2>2, <2>3 DEF Reseated, Rows
<1>10. /\ w \in Rows /\ w.service = s.service /\ w.performs = s.performs /\ w.album = s.album
       /\ w.team[giver] = d /\ w.team[heir] = c /\ \A q \in Staff \ {heir, giver} : w.team[q] = s.team[q]
  BY <1>1, <1>4, <1>7, <1>9, TwoChairsMove
<1>11. /\ c.here = s.team[heir].here /\ c.active = s.team[heir].active /\ c.account = s.team[heir].account /\ c.owner
       /\ d.here = s.team[giver].here /\ d.active = s.team[giver].active /\ d.account = s.team[giver].account /\ ~d.owner
  <2>1. s.team[heir] \in Chair /\ s.team[giver] \in Chair
    BY <1>2, <1>4
  <2> QED
    BY <1>5, <1>6, <2>1 DEF Chair
<1>12. \A q \in Staff : /\ w.team[q].here = s.team[q].here /\ w.team[q].active = s.team[q].active
                        /\ w.team[q].account = s.team[q].account
                        /\ q # heir /\ q # giver => w.team[q].owner = s.team[q].owner
  BY <1>4, <1>10, <1>11
<1>13. w.team[heir].owner /\ ~w.team[giver].owner
  BY <1>4, <1>10, <1>11
<1>14. Here(w) = Here(s)
  BY <1>12 DEF Here
<1>15. TeamIsWhole(w)
  <2>1. TeamIsWhole(s)
    BY DEF SalonIsSound, SalonIsWhole
  <2>2. Owns(w, heir)
    BY <1>4, <1>12, <1>13 DEF Owns
  <2>3. ASSUME NEW p \in Reigning(w), NEW q \in Reigning(w) PROVE p = q
    <3>1. \A x \in Reigning(w) \ {heir} : x \in Reigning(s) \ {heir, giver}
      BY <1>12, <1>13 DEF Reigning, Here
    <3>2. heir \in Reigning(w) => s.team[heir].active
      BY <1>4, <1>12 DEF Reigning
    <3> QED
      BY <2>1, <2>3, <3>1, <3>2 DEF TeamIsWhole
  <2> QED
    BY <1>4, <1>12, <2>1, <2>2, <2>3 DEF TeamIsWhole
<1>16. SeatedOnce(w, aw) /\ BookedAreActive(w, bk)
  BY <1>12 DEF SalonIsSound, SeatedOnce, BookedAreActive
<1>17. AlbumIsWhole(w) /\ AlbumIsMinted(w, m)
  BY <1>10 DEF SalonIsSound, SalonIsWhole, AlbumIsWhole, AlbumIsMinted
<1> QED
  BY <1>10, <1>14, <1>15, <1>16, <1>17 DEF SalonIsSound, SalonIsWhole, Outlives

\* A code seats somebody who sits nowhere, on a chair nobody holds.
LEMMA JoiningKeepsTheSalon ==
  ASSUME NEW s, NEW bk, NEW m, SalonIsSound(s, away, bk, m), NEW a \in Accounts, ~Member(s, a),
         a \notin away, NEW f, Claimable(s, f.id) # {}, NEW w, w = Joined(s, a, f)
  PROVE  SalonIsSound(w, away, bk, m) /\ Outlives(s, w)
<1>1. s \in Rows
  BY DEF SalonIsSound, SalonIsWhole
<1>2. s.team \in [Staff -> Chair]
  BY <1>1 DEF Rows
<1>3. PICK p : p = CHOOSE q \in Claimable(s, f.id) : TRUE
  OBVIOUS
<1>4. p \in Claimable(s, f.id)
  BY <1>3, Zenon
<1>5. p \in Staff /\ s.team[p].active /\ s.team[p].account = NoAccount
  BY <1>4 DEF Claimable, Here
<1>6. PICK r \in Chair : r = s.team[p]
  BY <1>2, <1>5
<1>7. PICK c \in Chair : c = [r EXCEPT !.account = a, !.code = 0]
  <2>1. 0 \in 0..MaxMinted /\ a \in Accounts \cup {NoAccount}
    BY SizesAssumption
  <2> QED
    BY <2>1 DEF Chair
<1>8. c.here = r.here /\ c.owner = r.owner /\ c.active = r.active /\ c.account = a
  BY <1>7 DEF Chair
<1>9. w = Reseated(s, p, c)
  <2>1. w = [s EXCEPT !.team[p].account = a, !.team[p].code = 0]
    BY <1>3 DEF Joined
  <2> QED
    BY <1>1, <1>2, <1>5, <1>6, <1>7, <2>1 DEF Reseated, Rows
<1>10. /\ w \in Rows /\ w.service = s.service /\ w.performs = s.performs /\ w.album = s.album
       /\ w.team[p] = c /\ \A q \in Staff \ {p} : w.team[q] = s.team[q]
  <2>1. p \in Staff
    BY <1>5
  <2> QED
    BY <1>1, <1>9, <2>1, OneChairMoves
<1>11. /\ \A q \in Staff : /\ w.team[q].here = s.team[q].here /\ w.team[q].owner = s.team[q].owner
                           /\ w.team[q].active = s.team[q].active
                           /\ q # p => w.team[q].account = s.team[q].account
       /\ w.team[p].account = a
  BY <1>5, <1>6, <1>8, <1>10
<1>12. Here(w) = Here(s)
  BY <1>11 DEF Here
<1>13. TeamIsWhole(w) /\ BookedAreActive(w, bk)
  BY <1>11 DEF SalonIsSound, SalonIsWhole, TeamIsWhole, Owns, Reigning, Here, BookedAreActive
<1>14. SeatedOnce(w, away)
  <2>1. \A q \in Staff : s.team[q].active => s.team[q].account # a
    BY OthersDoNot DEF SalonIsSound
  <2>2. SeatedOnce(s, away)
    BY DEF SalonIsSound
  <2> QED
    BY <1>11, <2>1, <2>2 DEF SeatedOnce
<1>15. AlbumIsWhole(w) /\ AlbumIsMinted(w, m)
  BY <1>10 DEF SalonIsSound, SalonIsWhole, AlbumIsWhole, AlbumIsMinted
<1> QED
  BY <1>10, <1>12, <1>13, <1>14, <1>15 DEF SalonIsSound, SalonIsWhole, Outlives

\* A salon registered elsewhere takes nobody who sits here.
LEMMA RegisteringKeepsTheSalon ==
  ASSUME NEW s, NEW aw, NEW bk, NEW m, SalonIsSound(s, aw, bk, m), NEW a, ~Member(s, a)
  PROVE  SalonIsSound(s, aw \cup {a}, bk, m)
<1>1. \A q \in Staff : s.team[q].active => s.team[q].account # a
  BY OthersDoNot DEF SalonIsSound
<1> QED
  BY <1>1 DEF SalonIsSound, SeatedOnce

\* A chair taken on is a row that was vacant, held by nobody.
LEMMA SeatingKeepsTheSalon ==
  ASSUME NEW s, NEW aw, NEW bk, NEW m, SalonIsSound(s, aw, bk, m), NEW f, FormIsSound(f, s),
         Here(s) # Staff, NEW w, w = Seated(s, f)
  PROVE  SalonIsSound(w, aw, bk, m) /\ Outlives(s, w)
<1>1. s \in Rows
  BY DEF SalonIsSound, SalonIsWhole
<1>2. s.team \in [Staff -> Chair] /\ f.on \in BOOLEAN /\ f.bookable \in BOOLEAN /\ s.performs \in SUBSET Staff
  BY <1>1 DEF Rows, FormIsSound, Form
<1>3. PICK p \in Staff : p = NewRow(s) /\ ~s.team[p].here
  <2>1. \E q \in Staff : ~s.team[q].here
    BY DEF Here
  <2> QED
    BY <2>1, Zenon DEF NewRow
<1>4. PICK c : c = [Vacant EXCEPT !.here = TRUE, !.active = f.on, !.bookable = f.bookable]
  OBVIOUS
<1>5. c \in Chair /\ c.here /\ ~c.owner /\ c.account = NoAccount
  <2>0. 0 \in 0..MaxMinted
    BY SizesAssumption
  <2>1. PICK v \in Chair : v = Vacant
    BY <2>0 DEF Vacant, Chair
  <2>2. ~v.owner /\ v.account = NoAccount
    BY <2>1 DEF Vacant
  <2>3. c = [v EXCEPT !.here = TRUE, !.active = f.on, !.bookable = f.bookable]
    BY <1>4, <2>1
  <2> QED
    BY <1>2, <2>2, <2>3 DEF Chair
<1>6. PICK v : v = Reseated(s, p, c)
  OBVIOUS
<1>7. /\ v \in Rows /\ v.service = s.service /\ v.performs = s.performs /\ v.album = s.album
      /\ v.team[p] = c /\ \A q \in Staff \ {p} : v.team[q] = s.team[q]
  <2>1. c \in Chair
    BY <1>5
  <2> QED
    BY <1>1, <1>6, <2>1, OneChairMoves
<1>8. PICK P \in SUBSET Staff : P = IF s.service.here THEN s.performs \cup {p} ELSE s.performs
  BY <1>2
<1>9. w = [v EXCEPT !.performs = P]
  <2>1. v = [s EXCEPT !.team[p] = c]
    BY <1>6 DEF Reseated
  <2>2. w = [s EXCEPT !.team[p] = c, !.performs = P]
    BY <1>1, <1>3, <1>4, <1>8 DEF Seated, Rows
  <2> QED
    BY <2>1, <2>2
<1>10. /\ w \in Rows /\ w.service = s.service /\ w.performs = P /\ w.album = s.album
       /\ w.team[p] = c /\ \A q \in Staff \ {p} : w.team[q] = s.team[q]
  <2>1. w \in Rows /\ w.service = v.service /\ w.performs = P /\ w.album = v.album /\ w.team = v.team
    <3>1. v \in Rows
      BY <1>7
    <3> HIDE <1>6
    <3> QED
      BY <1>9, <3>1 DEF Rows
  <2> QED
    BY <1>7, <2>1
<1>11. /\ \A q \in Staff : q # p => w.team[q] = s.team[q]
       /\ w.team[p].here /\ ~w.team[p].owner /\ w.team[p].account = NoAccount
  BY <1>3, <1>5, <1>10
<1>12. Here(w) = Here(s) \cup {p}
  BY <1>11 DEF Here
<1>13. TeamIsWhole(w)
  BY <1>3, <1>11 DEF SalonIsSound, SalonIsWhole, TeamIsWhole, Owns, Reigning, Here
<1>14. SeatedOnce(w, aw)
  BY <1>11 DEF SalonIsSound, SeatedOnce
<1>15. BookedAreActive(w, bk)
  <2>1. p \notin bk
    BY <1>3 DEF SalonIsSound, SalonIsWhole, TeamIsWhole, BookedAreActive
  <2> QED
    BY <1>11, <2>1 DEF SalonIsSound, BookedAreActive
<1>16. AlbumIsWhole(w) /\ AlbumIsMinted(w, m)
  BY <1>10 DEF SalonIsSound, SalonIsWhole, AlbumIsWhole, AlbumIsMinted
<1>17. w.performs \subseteq Here(w)
  BY <1>8, <1>10, <1>12 DEF SalonIsSound, SalonIsWhole
<1> QED
  BY <1>10, <1>12, <1>13, <1>14, <1>15, <1>16, <1>17 DEF SalonIsSound, SalonIsWhole, Outlives

----------------------------------------------------------------------------
(* The forms.                                                                *)

\* A finite set of naturals that has something has a largest element.
LEMMA LargestNatural ==
  ASSUME NEW S, S \subseteq Nat, S # {}, IsFiniteSet(S)
  PROVE  \E n \in S : \A k \in S : k <= n
<1> DEFINE Below(n) == {k \in S : k < n}
           Rank(n) == Cardinality(Below(n))
           Left(n) == Cardinality(S) - Rank(n)
<1>0. \A a, b \in S : ~(a < a) /\ (a < b => \A x \in S : x < a => x < b)
  <2>1. \A a, b, x \in Nat : ~(a < a) /\ (x < a /\ a < b => x < b)
    OBVIOUS
  <2> QED
    BY <2>1, Zenon
<1>1. \A n \in S : Rank(n) \in Nat /\ Cardinality(S) \in Nat /\ Rank(n) <= Cardinality(S)
  BY FS_Subset, FS_CardinalityType
<1>2. PICK r \in {Left(n) : n \in S} : \A k \in {Left(n) : n \in S} : r <= k
  <2> DEFINE R == {Left(n) : n \in S}
  <2> HIDE DEF Rank
  <2>1. R \subseteq Nat /\ R # {}
    <3>1. \A n \in S : Left(n) \in Nat
      BY <1>1
    <3> HIDE DEF Left
    <3> QED
      BY <3>1
  <2> HIDE DEF R
  <2>2. \E n \in R : \A k \in R : n <= k
    BY <2>1, LeastNatural
  <2> QED
    BY <2>2 DEF R
<1>3. PICK n \in S : r = Left(n)
  BY <1>2
<1>4. ASSUME NEW k \in S, k > n PROVE FALSE
  <2>1. Left(n) <= Left(k)
    BY <1>2, <1>3
  <2>2. Below(n) \subseteq Below(k) /\ n \in Below(k) /\ n \notin Below(n) /\ Below(k) \subseteq S
    <3>1. n < k
      <4>1. n \in Nat /\ k \in Nat
        BY Zenon
      <4> QED
        BY <1>4, <4>1
    <3>2. \A x \in S : x < n => x < k
      BY <1>0, <3>1, Zenon
    <3>3. ~(n < n)
      BY <1>0, Zenon
    <3> QED
      BY <3>1, <3>2, <3>3, Zenon
  <2> HIDE DEF Below
  <2>3. IsFiniteSet(Below(k)) /\ Cardinality(Below(n)) <= Cardinality(Below(k))
        /\ Cardinality(Below(n)) # Cardinality(Below(k))
    BY <2>2, FS_Subset
  <2>4. Rank(n) < Rank(k)
    BY <1>1, <1>4, <2>3
  <2> HIDE DEF Rank
  <2> QED
    BY <1>1, <1>4, <2>1, <2>4
<1> QED
  BY <1>4

\* The hour the seven rows show for a day is one of its hours, or none.
LEMMA ShownIsAnHour ==
  ASSUME NEW s \in Rows, NEW p \in Staff, NEW d \in Days
  PROVE  /\ Shown(s, p, d) \in Windows \cup {Unset}
         /\ s.hours[p][d] # {} => Shown(s, p, d) \in s.hours[p][d]
<1>1. PICK w \in SUBSET Windows : w = s.hours[p][d]
  BY DEF Rows
<1>2. CASE w = {}
  BY <1>1, <1>2 DEF Shown
<1>3. CASE w # {}
  <2>1. w \subseteq Nat /\ IsFiniteSet(w)
    BY SizesAssumption, FS_Subset
  <2>2. \E x \in w : \A y \in w : y <= x
    BY <1>3, <2>1, LargestNatural
  <2>3. Shown(s, p, d) = CHOOSE x \in w : \A y \in w : y <= x
    BY <1>1, <1>3 DEF Shown
  <2>4. Shown(s, p, d) \in w
    BY <2>2, <2>3, Zenon
  <2> QED
    BY <1>1, <2>4
<1> QED
  BY <1>2, <1>3

Loose == [verb : Verbs \cup {"none"}, of : Staff \cup {NoStaff}, on : BOOLEAN, bookable : BOOLEAN,
          ticked : SUBSET Staff, modes : SUBSET Modes, delay : {0, 1}, extras : {0, 1},
          week : [Days -> Windows \cup {Unset}], open : SUBSET Days, text : {0, 1}, id : Nat,
         from : Staff \cup {NoStaff}]

\* The blank every form is filled in on.
LEMMA BlankIsLoose == Blank \in Loose /\ Blank.ticked = {}
<1>1. [d \in Days |-> Unset] \in [Days -> Windows \cup {Unset}]
  OBVIOUS
<1>2. PICK W \in [Days -> Windows \cup {Unset}] : W = [d \in Days |-> Unset]
  BY <1>1
<1>3. Blank = [verb |-> "none", of |-> NoStaff, on |-> FALSE, bookable |-> FALSE, ticked |-> {},
               modes |-> {}, delay |-> 0, extras |-> 0, week |-> W, open |-> {}, text |-> 0, id |-> 0,
               from |-> NoStaff]
  BY <1>2 DEF Blank
<1> QED
  BY <1>3 DEF Loose

\* Sound against the rows it was drawn from, and the switch as it was drawn.
DrawnSound(f, s) ==
  /\ FormIsSound(f, s)
  /\ f.verb = "profile" => f.on = s.profile.published
  /\ f.verb = "publish" => f.on = ~s.profile.published

\* The forms that carry a resource.
LEMMA ServiceFormIsSound ==
  ASSUME NEW s \in Rows PROVE DrawnSound(ServiceForm(s), s) /\ ServiceForm(s).verb = "service"
<1>1. PICK b \in Loose : b = Blank /\ b.ticked = {}
  BY BlankIsLoose
<1>2. PICK v \in Service : v = s.service
  BY DEF Rows
<1>3. PICK f : f = [b EXCEPT !.verb = "service", !.on = v.active, !.modes = v.modes, !.delay = v.delay,
                             !.extras = v.extras]
  OBVIOUS
<1>4. f = ServiceForm(s)
  BY <1>1, <1>2, <1>3 DEF ServiceForm, BareServiceForm
<1>5. f \in Form /\ f.ticked = {} /\ f.verb = "service"
  BY <1>1, <1>3 DEF Form, Loose, Service, Verbs
<1> QED
  BY <1>4, <1>5 DEF DrawnSound, FormIsSound

\* Who performs, the departed left out of the ticks that travel.
LEMMA PerformersFormIsSound ==
  ASSUME NEW s \in Rows PROVE DrawnSound(PerformersForm(s), s) /\ PerformersForm(s).verb = "performers"
<1>1. PICK b \in Loose : b = Blank
  BY BlankIsLoose
<1>2. PICK T \in SUBSET Staff : T = s.performs \cap Here(s)
  BY DEF Rows
<1>3. PICK f : f = [b EXCEPT !.verb = "performers", !.ticked = T]
  OBVIOUS
<1>4. f = PerformersForm(s)
  BY <1>1, <1>2, <1>3 DEF PerformersForm
<1>5. f \in Form /\ f.ticked = T /\ f.verb = "performers"
  BY <1>3 DEF Form, Loose, Verbs
<1> QED
  BY <1>2, <1>4, <1>5 DEF DrawnSound, FormIsSound

\* The week names its person and shows an hour for each day that has one.
LEMMA WeekFormIsSound ==
  ASSUME NEW s \in Rows, NEW p \in Staff
  PROVE  /\ DrawnSound(WeekForm(s, p), s) /\ WeekForm(s, p).verb = "hours" /\ WeekForm(s, p).of = p
         /\ WeekForm(s, p).open = {d \in Days : s.hours[p][d] # {}}
         /\ WeekForm(s, p).week = [d \in Days |-> Shown(s, p, d)]
<1>1. PICK b \in Loose : b = Blank /\ b.ticked = {}
  BY BlankIsLoose
<1>2. PICK W : W = [d \in Days |-> Shown(s, p, d)]
  OBVIOUS
<1>3. W \in [Days -> Windows \cup {Unset}]
  BY <1>2, ShownIsAnHour
<1>4. PICK O : O = {d \in Days : s.hours[p][d] # {}}
  OBVIOUS
<1>5. O \in SUBSET Days
  BY <1>4
<1>6. PICK f : f = [b EXCEPT !.verb = "hours", !.of = p, !.week = W, !.open = O]
  OBVIOUS
<1>7. f = WeekForm(s, p)
  BY <1>1, <1>2, <1>4, <1>6 DEF WeekForm
<1>8. f \in Form /\ f.ticked = {} /\ f.verb = "hours" /\ f.of = p /\ f.open = O /\ f.week = W
  BY <1>1, <1>3, <1>5, <1>6 DEF Form, Loose, Verbs
<1> QED
  BY <1>2, <1>4, <1>7, <1>8 DEF DrawnSound, FormIsSound

\* A member's edit dialog carries the two boxes as they stand.
LEMMA EditFormIsSound ==
  ASSUME NEW s \in Rows, NEW p \in Here(s)
  PROVE  /\ DrawnSound(EditForm(s, p), s) /\ EditForm(s, p).verb = "member" /\ EditForm(s, p).of = p
         /\ EditForm(s, p).on = s.team[p].active /\ EditForm(s, p).bookable = s.team[p].bookable
<1>1. PICK b \in Loose : b = Blank /\ b.ticked = {}
  BY BlankIsLoose
<1>2. p \in Staff
  BY DEF Here
<1>3. PICK r \in Chair : r = s.team[p]
  BY <1>2 DEF Rows
<1>4. PICK f : f = [b EXCEPT !.verb = "member", !.of = p, !.on = r.active, !.bookable = r.bookable]
  OBVIOUS
<1>5. f = EditForm(s, p)
  BY <1>1, <1>3, <1>4 DEF EditForm
<1>6. f \in Form /\ f.ticked = {} /\ f.verb = "member" /\ f.of = p /\ f.on = r.active /\ f.bookable = r.bookable
  BY <1>1, <1>2, <1>4 DEF Form, Loose, Verbs, Chair
<1> QED
  BY <1>3, <1>5, <1>6 DEF DrawnSound, FormIsSound

\* The public page's form carries the switch nobody draws on it.
LEMMA ProfileFormIsSound ==
  ASSUME NEW s \in Rows
  PROVE  /\ DrawnSound(ProfileForm(s), s) /\ ProfileForm(s).verb = "profile"
         /\ ProfileForm(s).on = s.profile.published /\ ProfileForm(s).text = s.profile.text
         /\ ProfileForm(s).extras = s.profile.extras
<1>1. PICK b \in Loose : b = Blank /\ b.ticked = {}
  BY BlankIsLoose
<1>2. PICK v \in Profile : v = s.profile
  BY DEF Rows
<1>3. PICK f : f = [b EXCEPT !.verb = "profile", !.text = v.text, !.extras = v.extras, !.on = v.published]
  OBVIOUS
<1>4. f = ProfileForm(s)
  BY <1>1, <1>2, <1>3 DEF ProfileForm, ProfileFormWithoutSwitch
<1>5. f \in Form /\ f.ticked = {} /\ f.verb = "profile" /\ f.on = v.published /\ f.text = v.text /\ f.extras = v.extras
  BY <1>1, <1>3 DEF Form, Loose, Profile, Verbs
<1> QED
  BY <1>2, <1>4, <1>5 DEF DrawnSound, FormIsSound

\* A hand on a drawn form leaves it sound, and leaves the switch alone.
LEMMA EditedIsSound ==
  ASSUME NEW s \in Rows, NEW g, DrawnSound(g, s), NEW f \in Edited(g),
         g.verb \in {"create", "service", "performers", "hours", "member", "profile"}
  PROVE  DrawnSound(f, s)
<1>1. g \in Form /\ FormIsSound(g, s)
  BY DEF DrawnSound, FormIsSound
<1>2. CASE g.verb \in {"create", "service"}
  <2>1. f \in EditedService(g)
    BY <1>2 DEF Edited
  <2>2. PICK M \in SUBSET Modes, d \in {0, 1}, o \in BOOLEAN : f = Reshaped(g, M, d, o)
    BY <2>1 DEF EditedService
  <2>3. f \in Form /\ f.ticked = g.ticked /\ f.verb = g.verb
    BY <1>1, <2>2 DEF Form, Reshaped
  <2> QED
    BY <1>1, <1>2, <2>3 DEF DrawnSound, FormIsSound
<1>3. CASE g.verb = "performers"
  <2>1. f \in {[g EXCEPT !.ticked = T] : T \in SUBSET g.ticked}
    BY <1>3 DEF Edited
  <2>2. PICK T \in SUBSET g.ticked : f = [g EXCEPT !.ticked = T]
    BY <2>1
  <2>3. f \in Form /\ f.ticked = T /\ f.verb = g.verb
    BY <1>1, <2>2 DEF Form
  <2> QED
    BY <1>1, <1>3, <2>3 DEF DrawnSound, FormIsSound
<1>4. CASE g.verb = "hours"
  <2>1. f \in EditedWeek(g)
    BY <1>4 DEF Edited
  <2>2. f \in Form /\ f.ticked = g.ticked /\ f.verb = g.verb /\ f.of = g.of
    <3>1. CASE f \in {[g EXCEPT !.open = o] : o \in SUBSET Days}
      <4>1. PICK o \in SUBSET Days : f = [g EXCEPT !.open = o]
        BY <3>1
      <4> QED
        BY <1>1, <4>1 DEF Form
    <3>2. CASE f \in {[g EXCEPT !.open = Days, !.week = [d \in Days |-> w]] : w \in Windows}
      <4>1. PICK w \in Windows : f = [g EXCEPT !.open = Days, !.week = [d \in Days |-> w]]
        BY <3>2
      <4>2. PICK W \in [Days -> Windows \cup {Unset}] : W = [d \in Days |-> w]
        OBVIOUS
      <4>3. f = [g EXCEPT !.open = Days, !.week = W]
        BY <4>1, <4>2
      <4> QED
        BY <1>1, <4>3 DEF Form
    <3> QED
      BY <2>1, <3>1, <3>2 DEF EditedWeek
  <2> QED
    BY <1>1, <1>4, <2>2 DEF DrawnSound, FormIsSound
<1>5. CASE g.verb = "member"
  <2>1. f \in {Ticked(g, o, b) : o \in BOOLEAN, b \in BOOLEAN}
    BY <1>5 DEF Edited
  <2>2. PICK o \in BOOLEAN, b \in BOOLEAN : f = Ticked(g, o, b)
    BY <2>1
  <2>3. f \in Form /\ f.ticked = g.ticked /\ f.verb = g.verb /\ f.of = g.of
    BY <1>1, <2>2 DEF Form, Ticked
  <2> QED
    BY <1>1, <1>5, <2>3 DEF DrawnSound, FormIsSound
<1>6. CASE g.verb = "profile"
  <2>1. f \in {[g EXCEPT !.text = x] : x \in {0, 1}}
    BY <1>6 DEF Edited
  <2>2. PICK x \in {0, 1} : f = [g EXCEPT !.text = x]
    BY <2>1
  <2>3. f \in Form /\ f.ticked = g.ticked /\ f.verb = g.verb /\ f.on = g.on
    BY <1>1, <2>2 DEF Form
  <2> QED
    BY <1>1, <1>6, <2>3 DEF DrawnSound, FormIsSound
<1> QED
  BY <1>2, <1>3, <1>4, <1>5, <1>6

\* The first service, its form as empty as the page draws it.
LEMMA NewServiceIsSound ==
  ASSUME NEW s \in Rows, NEW f \in NewService PROVE DrawnSound(f, s)
<1>1. PICK b \in Loose : b = Blank /\ b.ticked = {}
  BY BlankIsLoose
<1>2. PICK M \in SUBSET Modes : M = {"ON_SITE"}
  BY DEF Modes
<1>3. PICK g : g = [b EXCEPT !.verb = "create", !.modes = M, !.on = TRUE]
  OBVIOUS
<1>4. g \in Form /\ g.ticked = {} /\ g.verb = "create"
  BY <1>1, <1>3 DEF Form, Loose, Verbs
<1>5. DrawnSound(g, s)
  BY <1>4 DEF DrawnSound, FormIsSound
<1>6. f \in Edited(g)
  BY <1>1, <1>2, <1>3 DEF NewService
<1> QED
  BY <1>4, <1>5, <1>6, EditedIsSound

\* A button on a blank form.
LEMMA ButtonIsSound ==
  ASSUME NEW s \in Rows, NEW f \in Form, f.ticked = {}, f.verb # "profile",
         f.verb = "publish" => f.on = ~s.profile.published,
         f.verb \in {"invite", "transfer", "member"} => f.of \in Here(s),
         f.verb \in {"hours", "close"} => f.of \in Staff
  PROVE  DrawnSound(f, s)
BY DEF DrawnSound, FormIsSound

\* The album's buttons, one a photograph and one an empty slot.
LEMMA AlbumButtonsAreSound ==
  ASSUME NEW s \in Rows, NEW f \in AlbumButtons(s) PROVE DrawnSound(f, s)
<1>1. PICK b \in Loose : b = Blank /\ b.ticked = {}
  BY BlankIsLoose
<1>2. CASE f \in {[Blank EXCEPT !.verb = "removePhoto", !.id = s.album[i]] : i \in PhotoSlots \ FreeSlots(s)}
  <2>1. PICK i \in PhotoSlots : f = [b EXCEPT !.verb = "removePhoto", !.id = s.album[i]]
    BY <1>1, <1>2
  <2>2. PICK k \in Nat : k = s.album[i]
    BY SizesAssumption DEF Rows
  <2>3. f \in Form /\ f.ticked = {} /\ f.verb = "removePhoto"
    BY <1>1, <2>1, <2>2 DEF Form, Loose, Verbs
  <2> QED
    BY <2>3, ButtonIsSound
<1>3. CASE f \in {[Blank EXCEPT !.verb = "addPhoto"] : i \in FreeSlots(s)}
  <2>1. f = [b EXCEPT !.verb = "addPhoto"]
    BY <1>1, <1>3
  <2>2. f \in Form /\ f.ticked = {} /\ f.verb = "addPhoto"
    BY <1>1, <2>1 DEF Form, Loose, Verbs
  <2> QED
    BY <2>2, ButtonIsSound
<1> QED
  BY <1>2, <1>3 DEF AlbumButtons

\* The closures of the person whose week is shown.
LEMMA ClosureButtonsAreSound ==
  ASSUME NEW s \in Rows, NEW p \in Staff, NEW f \in ClosureDialog(p) \cup ClosureList(s, p)
  PROVE  DrawnSound(f, s)
<1>1. PICK b \in Loose : b = Blank /\ b.ticked = {}
  BY BlankIsLoose
<1>2. CASE f \in ClosureDialog(p)
  <2>1. f = [b EXCEPT !.verb = "close", !.of = p]
    BY <1>1, <1>2 DEF ClosureDialog
  <2>2. f \in Form /\ f.ticked = {} /\ f.verb = "close" /\ f.of = p
    BY <1>1, <2>1 DEF Form, Loose, Verbs
  <2> QED
    BY <2>2, ButtonIsSound
<1>3. CASE f \in ClosureList(s, p)
  <2>1. PICK c \in s.closures : f = [b EXCEPT !.verb = "reopen", !.of = p, !.id = c.id]
    BY <1>1, <1>3 DEF ClosureList
  <2>2. c \in Closure
    BY <2>1 DEF Rows
  <2>3. PICK k \in Nat : k = c.id
    BY <2>2 DEF Closure
  <2>4. f \in Form /\ f.ticked = {} /\ f.verb = "reopen"
    BY <1>1, <2>1, <2>3 DEF Form, Loose, Verbs
  <2> QED
    BY <2>4, ButtonIsSound
<1> QED
  BY <1>2, <1>3

\* The team's dialogs name people who have a row.
LEMMA TeamButtonsAreSound ==
  ASSUME NEW s \in Rows, NEW a,
         NEW f \in AddDialog \cup InviteMenu(s) \cup TransferDialogs(s, a) \cup DeactivateDialogs(s)
  PROVE  DrawnSound(f, s)
<1>1. PICK b \in Loose : b = Blank /\ b.ticked = {}
  BY BlankIsLoose
<1>0. \A q \in Here(s) : q \in Staff
  BY DEF Here
<1>2. CASE f \in AddDialog
  <2>1. PICK o \in BOOLEAN : f = [b EXCEPT !.verb = "add", !.on = TRUE, !.bookable = o]
    BY <1>1, <1>2 DEF AddDialog
  <2>2. f \in Form /\ f.ticked = {} /\ f.verb = "add"
    BY <1>1, <2>1 DEF Form, Loose, Verbs
  <2> QED
    BY <2>2, ButtonIsSound
<1>3. CASE f \in InviteMenu(s)
  <2>1. PICK q \in Here(s) : f = [b EXCEPT !.verb = "invite", !.of = q]
    BY <1>1, <1>3 DEF InviteMenu
  <2>2. f \in Form /\ f.ticked = {} /\ f.verb = "invite" /\ f.of = q
    BY <1>0, <1>1, <2>1 DEF Form, Loose, Verbs
  <2> QED
    BY <2>2, ButtonIsSound
<1>4. CASE f \in TransferDialogs(s, a)
  <2>1. PICK q \in Here(s) : f = [b EXCEPT !.verb = "transfer", !.of = q]
    BY <1>1, <1>4 DEF TransferDialogs
  <2>2. f \in Form /\ f.ticked = {} /\ f.verb = "transfer" /\ f.of = q
    BY <1>0, <1>1, <2>1 DEF Form, Loose, Verbs
  <2> QED
    BY <2>2, ButtonIsSound
<1>5. CASE f \in DeactivateDialogs(s)
  <2>1. PICK q \in Here(s) : f = [EditForm(s, q) EXCEPT !.on = FALSE]
    BY <1>5 DEF DeactivateDialogs
  <2>2. PICK g \in Form : g = EditForm(s, q) /\ DrawnSound(g, s) /\ g.verb = "member"
    BY EditFormIsSound DEF DrawnSound, FormIsSound
  <2>3. f = [g EXCEPT !.on = FALSE]
    BY <2>1, <2>2
  <2>4. f \in Form /\ f.ticked = g.ticked /\ f.verb = "member" /\ f.of = g.of
    BY <2>2, <2>3 DEF Form
  <2> QED
    BY <2>2, <2>4 DEF DrawnSound, FormIsSound
<1> QED
  BY <1>2, <1>3, <1>4, <1>5

\* The switch, the code and the registration name nobody.
LEMMA OtherButtonsAreSound ==
  ASSUME NEW s \in Rows, NEW f \in Switch(s) \cup CodeForm(s) \cup RegisterForm PROVE DrawnSound(f, s)
<1>1. PICK b \in Loose : b = Blank /\ b.ticked = {}
  BY BlankIsLoose
<1>2. CASE f \in Switch(s)
  <2>1. PICK o \in BOOLEAN : o = ~s.profile.published
    OBVIOUS
  <2>2. f = [b EXCEPT !.verb = "publish", !.on = o]
    BY <1>1, <1>2, <2>1 DEF Switch
  <2>3. f \in Form /\ f.ticked = {} /\ f.verb = "publish" /\ f.on = o
    BY <1>1, <2>2 DEF Form, Loose, Verbs
  <2> QED
    BY <2>1, <2>3, ButtonIsSound
<1>3. CASE f \in CodeForm(s)
  <2>1. PICK q \in Here(s) : f = [b EXCEPT !.verb = "join", !.id = s.team[q].code]
    BY <1>1, <1>3 DEF CodeForm
  <2>2. PICK k \in Nat : k = s.team[q].code
    <3>1. s.team[q] \in Chair
      BY <2>1 DEF Rows, Here
    <3>2. s.team[q].code \in Nat
      BY <3>1, SizesAssumption DEF Chair
    <3> QED
      BY <3>2
  <2>3. f \in Form /\ f.ticked = {} /\ f.verb = "join"
    BY <1>1, <2>1, <2>2 DEF Form, Loose, Verbs
  <2> QED
    BY <2>3, ButtonIsSound
<1>4. CASE f \in RegisterForm
  <2>1. f = [b EXCEPT !.verb = "register"]
    BY <1>1, <1>4 DEF RegisterForm
  <2>2. f \in Form /\ f.ticked = {} /\ f.verb = "register"
    BY <1>1, <2>1 DEF Form, Loose, Verbs
  <2> QED
    BY <2>2, ButtonIsSound
<1> QED
  BY <1>2, <1>3, <1>4

\* So whatever a page lets a hand send is sound against what it was drawn from.
LEMMA PressedIsSound ==
  ASSUME NEW t \in Tabs, PageIsSound(page[t]),
         NEW f \in Buttons(t) \cup UNION {Edited(g) : g \in Drawn(t)}
  PROVE  DrawnSound(f, page[t].read)
<1>1. PICK s \in Rows : s = page[t].read
  BY DEF PageIsSound, SalonIsWhole
<1>2. CASE f \in Buttons(t)
  <2>1. CASE page[t].room = "editor"
    BY <1>1, <1>2, <2>1, AlbumButtonsAreSound, NewServiceIsSound DEF Buttons
  <2>2. CASE page[t].room = "hours"
    <3>1. PICK p \in Staff : p = page[t].of
      BY <2>2 DEF PageIsSound
    <3>2. f \in ClosureDialog(p) \cup ClosureList(s, p)
      BY <1>1, <1>2, <2>2, <3>1 DEF Buttons
    <3> QED
      BY <1>1, <3>2, ClosureButtonsAreSound
  <2>3. CASE page[t].room = "team"
    <3>1. f \in AddDialog \cup InviteMenu(s) \cup TransferDialogs(s, holder[t]) \cup DeactivateDialogs(s)
      BY <1>1, <1>2, <2>3 DEF Buttons
    <3> QED
      BY <1>1, <3>1, TeamButtonsAreSound
  <2>4. CASE page[t].room \in {"profile", "join", "register"}
    <3>1. f \in Switch(s) \cup CodeForm(s) \cup RegisterForm
      BY <1>1, <1>2, <2>4 DEF Buttons
    <3> QED
      BY <1>1, <3>1, OtherButtonsAreSound
  <2>5. CASE page[t].room \notin {"editor", "hours", "team", "profile", "join", "register"}
    BY <1>2, <2>5 DEF Buttons
  <2> QED
    BY <2>1, <2>2, <2>3, <2>4, <2>5
<1>3. CASE f \in UNION {Edited(g) : g \in Drawn(t)}
  <2>1. PICK g \in Drawn(t) : f \in Edited(g)
    BY <1>3
  <2>2. DrawnSound(g, s) /\ g.verb \in {"create", "service", "performers", "hours", "member", "profile"}
    <3>1. CASE page[t].room = "editor"
      <4>1. g \in {ServiceForm(s), PerformersForm(s)}
        BY <1>1, <2>1, <3>1 DEF Drawn
      <4> QED
        BY <4>1, ServiceFormIsSound, PerformersFormIsSound
    <3>2. CASE page[t].room = "hours"
      <4>1. g = WeekForm(s, page[t].of) /\ page[t].of \in Staff
        BY <1>1, <2>1, <3>2 DEF Drawn, PageIsSound
      <4> QED
        BY <4>1, WeekFormIsSound
    <3>3. CASE page[t].room = "team"
      <4>1. g \in {EditForm(s, q) : q \in Here(s)}
        BY <1>1, <2>1, <3>3 DEF Drawn
      <4> QED
        BY <4>1, EditFormIsSound
    <3>4. CASE page[t].room = "profile"
      <4>1. g = ProfileForm(s)
        BY <1>1, <2>1, <3>4 DEF Drawn
      <4> QED
        BY <4>1, ProfileFormIsSound
    <3>5. CASE page[t].room \notin {"editor", "hours", "team", "profile"}
      BY <2>1, <3>5 DEF Drawn
    <3> QED
      BY <3>1, <3>2, <3>3, <3>4, <3>5
  <2> QED
    BY <1>1, <2>1, <2>2, EditedIsSound
<1> QED
  BY <1>2, <1>3

----------------------------------------------------------------------------
(* The write that lands.                                                     *)

\* What a write has been told before it runs.
LEMMA AnswersSay ==
  ASSUME NEW s, NEW a, NEW f, f.verb \in Verbs, Answer(s, a, f) = "OK"
  PROVE  /\ f.verb = "join" => JoinAnswer(s, a, f) = "OK"
         /\ f.verb = "register" => RegisterAnswer(s, a) = "OK"
         /\ f.verb \in {"create", "service"} => ServiceAnswer(f) = "OK"
         /\ f.verb \in {"addPhoto", "removePhoto"} => AlbumAnswer(s, f) = "OK"
         /\ f.verb = "transfer" => IsOwner(s, a)
<1>1. CASE f.verb = "join"
  BY <1>1 DEF Answer
<1>2. CASE f.verb = "register"
  BY <1>2 DEF Answer
<1>3. CASE f.verb \notin {"join", "register"}
  <2>1. Member(s, a)
    <3>1. SUFFICES ASSUME ~Member(s, a) PROVE FALSE
      OBVIOUS
    <3>2. Answer(s, a, f) = "FORBIDDEN"
      BY <1>3, <3>1 DEF Answer, Thresholds, OwnersOnly, IsOwner
    <3> QED
      BY <3>2
  <2>2. f.verb = "transfer" => IsOwner(s, a)
    BY <2>1 DEF Answer, Thresholds, OwnersOnly
  <2> QED
    BY <1>3, <2>1, <2>2 DEF Answer, Thresholds, OwnersOnly
<1> QED
  BY <1>1, <1>2, <1>3

\* Every write that is not refused keeps the salon sound, and nobody's row goes.
LEMMA WrittenIsSound ==
  ASSUME BoundsHold, NEW s, SalonIsSound(s, away, booked, minted), NEW a \in Accounts,
         NEW f, FormIsSound(f, s), f.verb = "hours" => ~WeekRefused(f),
         Mints(f) => minted < MaxMinted, f.verb = "add" => Here(s) # Staff,
         Checked(f) => Constraint(s, f) = "OK", ~Checked(f) => Answer(s, a, f) = "OK",
         f.verb = "transfer" => f.from \in Staff \ {f.of},
         NEW w, w = Written(s, a, f),
         NEW aw, aw = IF f.verb = "register" THEN away \cup {a} ELSE away,
         NEW m, m = IF Mints(f) THEN minted + 1 ELSE minted
  PROVE  SalonIsSound(w, aw, booked, m) /\ Outlives(s, w)
<1>1. f.verb \in Verbs /\ f.of \in Staff \cup {NoStaff}
  BY DEF FormIsSound, Form
<1>2. minted \in 0..MaxMinted /\ MaxMinted \in Nat
  BY SizesAssumption DEF BoundsHold
<1>3. CASE f.verb \in {"create", "service"}
  <2>1. w = ServiceWritten(s, f) /\ aw = away /\ m = minted
    BY <1>3 DEF Written, Mints
  <2>2. ServiceAnswer(f) = "OK"
    BY <1>1, <1>3, AnswersSay DEF Checked
  <2> QED
    BY <2>1, <2>2, ServiceKeepsTheSalon
<1>4. CASE f.verb = "performers"
  <2>1. w = [s EXCEPT !.performs = f.ticked] /\ aw = away /\ m = minted
    BY <1>4 DEF Written, Mints
  <2>2. f.ticked \in SUBSET Here(s)
    BY DEF FormIsSound
  <2> QED
    BY <2>1, <2>2, PerformersKeepTheSalon
<1>5. CASE f.verb \in {"addPhoto", "removePhoto"}
  <2>1. w = AlbumWritten(s, f) /\ aw = away /\ m = IF f.verb = "addPhoto" THEN minted + 1 ELSE minted
    BY <1>5 DEF Written, Mints
  <2>2. AlbumAnswer(s, f) = "OK"
    BY <1>1, <1>5, AnswersSay DEF Checked
  <2>3. f.verb = "addPhoto" => minted < MaxMinted /\ FreeSlots(s) # {}
    BY <2>2 DEF AlbumAnswer, Mints
  <2> QED
    BY <2>1, <2>3, AlbumKeepsTheSalon
<1>6. CASE f.verb = "hours"
  <2>1. w = WeekWritten(s, f) /\ aw = away /\ m = minted
    BY <1>6 DEF Written, Mints
  <2>2. f.of \in Staff /\ f \in Form /\ ~WeekRefused(f)
    BY <1>6 DEF FormIsSound
  <2>3. PICK W : W = [d \in Days |-> Segments(f, d)]
    OBVIOUS
  <2>4. W \in [Days -> SUBSET Windows]
    BY <2>2, <2>3, SegmentsAreHours
  <2>5. w = [s EXCEPT !.hours = [s.hours EXCEPT ![f.of] = W]]
    BY <2>1, <2>3 DEF WeekWritten
  <2> QED
    BY <2>1, <2>2, <2>4, <2>5, WeekKeepsTheSalon
<1>7. CASE f.verb \in {"close", "reopen"}
  <2>1. w = ClosuresWritten(s, f) /\ aw = away /\ m = IF f.verb = "close" THEN minted + 1 ELSE minted
    BY <1>7 DEF Written, Mints
  <2>2. f.verb = "close" => minted < MaxMinted
    BY DEF Mints
  <2>3. SalonIsSound(w, away, booked, minted) /\ Outlives(s, w)
    BY <1>7, <2>1, <2>2, ClosuresKeepTheSalon
  <2> QED
    BY <1>2, <2>1, <2>3, MintingKeepsTheSalon
<1>8. CASE f.verb = "add"
  <2>1. w = Seated(s, f) /\ aw = away /\ m = minted
    BY <1>8 DEF Written, Mints
  <2> QED
    BY <1>8, <2>1, SeatingKeepsTheSalon
<1>9. CASE f.verb = "member"
  <2>1. w = Edit(s, f) /\ aw = away /\ m = minted
    BY <1>9 DEF Written, Mints, Edit
  <2>2. f.of \in Here(s)
    BY <1>9 DEF FormIsSound
  <2>3. Constraint(s, f) = "OK"
    BY <1>9 DEF Checked
  <2>4. ~(s.team[f.of].active /\ ~f.on /\ f.of \in booked)
    BY <1>9, <2>3 DEF Constraint
  <2>5. ~(f.on /\ HeldElsewhere(s, f.of))
    BY <1>9, <2>3 DEF Constraint
  <2>6. ~(f.on /\ s.team[f.of].owner /\ Reigning(s) \ {f.of} # {})
    BY <1>9, <2>3 DEF Constraint
  <2> QED
    BY <2>1, <2>2, <2>4, <2>5, <2>6, MemberKeepsTheSalon
<1>10. CASE f.verb = "invite"
  <2>1. w = [s EXCEPT !.team[f.of].code = minted + 1] /\ aw = away /\ m = minted + 1 /\ minted < MaxMinted
    BY <1>10 DEF Written, Mints
  <2>2. PICK k \in 0..MaxMinted : k = minted + 1
    BY <1>2, <2>1
  <2>3. f.of \in Staff
    BY <1>10 DEF FormIsSound, Here
  <2>4. w = Coded(s, f.of, k)
    BY <2>1, <2>2 DEF Coded
  <2>5. SalonIsSound(w, away, booked, minted) /\ Outlives(s, w)
    BY <2>3, <2>4, CodesKeepTheSalon
  <2>6. SalonIsSound(w, away, booked, minted + 1)
    BY <1>2, <2>5, MintingKeepsTheSalon
  <2> QED
    BY <2>1, <2>5, <2>6
<1>11. CASE f.verb = "transfer"
  <2>1. w = HandedOver(s, f.from, f.of) /\ aw = away /\ m = minted
    BY <1>11 DEF Written, Mints
  <2>2. f.of \in Here(s) /\ f.from \in Staff \ {f.of}
    BY <1>11 DEF FormIsSound
  <2>3. Constraint(s, f) = "OK"
    BY <1>11 DEF Checked
  <2>4. ~(s.team[f.of].active /\ Reigning(s) \ {f.of, f.from} # {})
    BY <1>11, <2>3 DEF Constraint
  <2> QED
    BY <2>1, <2>2, <2>4, HandingOverKeepsTheSalon
<1>12. CASE f.verb \in {"profile", "publish"}
  <2>1. w = ProfileWritten(s, f) /\ aw = away /\ m = minted
    BY <1>12 DEF Written, Mints
  <2> QED
    BY <2>1, ProfileKeepsTheSalon
<1>13. CASE f.verb = "join"
  <2>1. w = Joined(s, a, f) /\ aw = away /\ m = minted
    BY <1>13 DEF Written, Mints
  <2>2. JoinAnswer(s, a, f) = "OK"
    BY <1>1, <1>13, AnswersSay DEF Checked
  <2>3. Claimable(s, f.id) # {} /\ ~Member(s, a) /\ a \notin away
    BY <2>2 DEF JoinAnswer
  <2> QED
    BY <2>1, <2>3, JoiningKeepsTheSalon
<1>14. CASE f.verb = "register"
  <2>1. w = s /\ aw = away \cup {a} /\ m = minted
    BY <1>14 DEF Written, Mints
  <2>2. RegisterAnswer(s, a) = "OK"
    BY <1>1, <1>14, AnswersSay DEF Checked
  <2>3. ~Member(s, a)
    BY <2>2 DEF RegisterAnswer
  <2> QED
    BY <2>1, <2>3, RegisteringKeepsTheSalon DEF Outlives
<1> QED
  BY <1>1, <1>3, <1>4, <1>5, <1>6, <1>7, <1>8, <1>9, <1>10, <1>11, <1>12, <1>13, <1>14 DEF Verbs

----------------------------------------------------------------------------
(* The steps.                                                                *)

\* Rows only ever come.
LEMMA OutlivingIsOrdered ==
  ASSUME NEW s, NEW v, NEW w PROVE Outlives(s, s) /\ (Outlives(s, v) /\ Outlives(v, w) => Outlives(s, w))
BY DEF Outlives

\* A form that was sound stays sound when rows come.
LEMMA FormsStaySound ==
  ASSUME NEW s, NEW w, Outlives(s, w), NEW f, FormIsSound(f, s) PROVE FormIsSound(f, w)
BY DEF Outlives, FormIsSound

\* So do the pages and the flights that the step left alone.
LEMMA PagesFollow ==
  ASSUME PagesAreSound, Outlives(salon, salon'), page' = page PROVE PagesAreSound'
BY OutlivingIsOrdered DEF PagesAreSound, PageIsSound

\* A form in flight stays sound when rows come and its page, or the flight, is not disturbed.
LEMMA FlightFollows ==
  ASSUME NEW t \in Tabs, FlightIsSound(t), Outlives(salon, salon'), flight'[t] = flight[t],
         flight[t].step = "idle" \/ page'[t] = page[t]
  PROVE  FlightIsSound(t)'
<1>1. flight[t].step # "idle" => FormIsSound(flight[t].form, salon')
  BY FormsStaySound DEF FlightIsSound
<1> QED
  BY <1>1 DEF FlightIsSound

\* A page is drawn from the rows as they are, and the hours room is somebody's.
LEMMA PagesAreRead ==
  ASSUME IInv, NEW t \in Tabs, NEW room, NEW kind, room = "hours" => kind = "hours",
         NEW of \in Staff \cup {NoStaff}, NEW p, p = Page(t, room, Whose(t, kind, of))
  PROVE  PageIsSound(p)
<1>1. p.read = salon /\ p.of = Whose(t, kind, of) /\ p.room = Arrives(holder[t], room)
  BY DEF Page
<1>2. SalonIsWhole(p.read) /\ Outlives(p.read, salon)
  BY <1>1, OutlivingIsOrdered DEF IInv, SalonIsSound
<1>3. ASSUME p.room = "hours" PROVE p.of \in Staff
  <2>1. room = "hours" /\ Member(salon, holder[t])
    BY <1>1, <1>3 DEF Arrives, Thresholds
  <2>2. Me(salon, holder[t]) \in Staff
    BY <2>1, MembersSit DEF Here
  <2> QED
    BY <1>1, <2>1, <2>2 DEF Whose
<1> QED
  BY <1>2, <1>3 DEF PageIsSound

\* A page opened is drawn from the rows as they are.
LEMMA VisitStep == ASSUME IInv, NEW t \in Tabs, Visit(t) PROVE IInv'
<1>1. /\ flight[t].step = "idle"
      /\ UNCHANGED <<salon, away, booked, holder, flight, minted, presses, others>>
  BY DEF Visit
<1>2. Here(salon) \subseteq Staff
  BY DEF Here
<1>3. PICK room \in Doors(salon, holder[t]), of \in Staff \cup {NoStaff} :
        page' = [page EXCEPT ![t] = Page(t, room, Whose(t, room, of))]
  BY <1>2 DEF Visit
<1>4. PICK p : p = Page(t, room, Whose(t, room, of))
  OBVIOUS
<1>5. PageIsSound(p)
  BY <1>4, PagesAreRead
<1>6. page' = [page EXCEPT ![t] = p] /\ DOMAIN page = Tabs
  BY <1>3, <1>4 DEF IInv, PagesAreSound
<1>7. PagesAreSound'
  BY <1>1, <1>5, <1>6 DEF IInv, PagesAreSound, PageIsSound
<1>8. FlightsAreSound'
  <2>1. ASSUME NEW u \in Tabs PROVE FlightIsSound(u)'
    <3>1. flight[u].step = "idle" \/ page'[u] = page[u]
      BY <1>1, <1>6
    <3>2. flight'[u] = flight[u] /\ Outlives(salon, salon') /\ FlightIsSound(u)
      BY <1>1, OutlivingIsOrdered DEF IInv, FlightsAreSound
    <3> QED
      BY <3>1, <3>2, FlightFollows
  <2> QED
    BY <1>1, <2>1 DEF IInv, FlightsAreSound
<1> QED
  BY <1>1, <1>7, <1>8 DEF IInv, SalonIsSound, SalonIsWhole, BookedAreActive, SeatedOnce, SessionsAreSound, BoundsHold

\* A step that touches one tab's flight, and no row and no page.
LEMMA OneFlightMoves ==
  ASSUME IInv, NEW t \in Tabs, FlightIsSound(t)', DOMAIN flight' = DOMAIN flight,
         \A u \in Tabs \ {t} : flight'[u] = flight[u],
         UNCHANGED <<salon, away, booked, holder, page, minted>>, presses' \in 0..MaxPresses, others' = others
  PROVE  IInv'
<1>1. FlightsAreSound'
  <2>1. ASSUME NEW u \in Tabs \ {t} PROVE FlightIsSound(u)'
    <3>1. flight'[u] = flight[u] /\ Outlives(salon, salon') /\ FlightIsSound(u) /\ page'[u] = page[u]
      BY OutlivingIsOrdered DEF IInv, FlightsAreSound
    <3> QED
      BY <3>1, FlightFollows
  <2> QED
    BY <2>1 DEF IInv, FlightsAreSound
<1>2. PagesAreSound'
  BY PagesFollow, OutlivingIsOrdered DEF IInv
<1> QED
  BY <1>1, <1>2 DEF IInv, SalonIsSound, SalonIsWhole, BookedAreActive, SeatedOnce, SessionsAreSound, BoundsHold

\* A form sent was drawn from rows that are still there.
LEMMA PressStep == ASSUME IInv, NEW t \in Tabs, Press(t) PROVE IInv'
<1>1. /\ UNCHANGED <<salon, away, booked, holder, page, minted, others>>
      /\ presses' = presses + 1 /\ presses < MaxPresses
  BY DEF Press
<1>2. PICK f \in Buttons(t) \cup UNION {Edited(g) : g \in Drawn(t)} :
        flight' = [flight EXCEPT ![t] = [step |-> IF RefusedHere(f) # "OK" THEN "back" ELSE FirstStep(f),
                                         form |-> f, said |-> RefusedHere(f)]]
  BY DEF Press
<1>3. PageIsSound(page[t]) /\ DOMAIN flight = Tabs
  BY DEF IInv, PagesAreSound, FlightsAreSound
<1>4. DrawnSound(f, page[t].read)
  BY <1>2, <1>3, PressedIsSound
<1>5. FormIsSound(f, salon)
  BY <1>3, <1>4, FormsStaySound DEF DrawnSound, PageIsSound
<1>6. PICK step : step = IF RefusedHere(f) # "OK" THEN "back" ELSE FirstStep(f)
  OBVIOUS
<1>7. flight'[t] = [step |-> step, form |-> f, said |-> RefusedHere(f)]
  BY <1>2, <1>3, <1>6
<1>8. f.verb \in Verbs
  BY <1>5 DEF FormIsSound, Form
<1>9. /\ step \in {"reading", "checking", "writing", "back"}
      /\ step = "reading" => f.verb = "publish"
      /\ step = "writing" => f.verb # "transfer"
  BY <1>6, <1>8 DEF FirstStep
<1>10. step # "back" /\ f.verb = "hours" => ~WeekRefused(f)
  BY <1>6 DEF RefusedHere
<1>11. FlightIsSound(t)'
  BY <1>1, <1>4, <1>5, <1>7, <1>9, <1>10 DEF FlightIsSound, DrawnSound
<1>12. presses' \in 0..MaxPresses
  BY <1>1, SizesAssumption DEF IInv, BoundsHold
<1>13. DOMAIN flight' = DOMAIN flight /\ \A u \in Tabs \ {t} : flight'[u] = flight[u]
  BY <1>2, <1>3
<1> QED
  BY <1>1, <1>11, <1>12, <1>13, OneFlightMoves

\* A flight that is only told something keeps its form.
LEMMA SayingMovesNoForm ==
  ASSUME NEW t \in Tabs, FlightsAreSound, NEW step, NEW said, Said(t, step, said)
  PROVE  /\ DOMAIN flight' = Tabs /\ DOMAIN flight'[t] = {"step", "form", "said"}
         /\ flight'[t].step = step /\ flight'[t].form = flight[t].form /\ flight'[t].said = said
         /\ \A u \in Tabs \ {t} : flight'[u] = flight[u]
<1>1. DOMAIN flight = Tabs /\ DOMAIN flight[t] = {"step", "form", "said"}
  BY DEF FlightsAreSound, FlightIsSound
<1>2. flight' = [flight EXCEPT ![t].step = step, ![t].said = said]
  BY DEF Said
<1>3. PICK c : c = [flight[t] EXCEPT !.step = step, !.said = said]
  OBVIOUS
<1>4. DOMAIN c = {"step", "form", "said"} /\ c.step = step /\ c.form = flight[t].form /\ c.said = said
  BY <1>1, <1>3
<1>5. flight'[t] = c /\ DOMAIN flight' = Tabs /\ \A u \in Tabs \ {t} : flight'[u] = flight[u]
  BY <1>1, <1>2, <1>3
<1> QED
  BY <1>4, <1>5

\* A step that answers and writes nothing.
LEMMA SaidStep ==
  ASSUME IInv, NEW t \in Tabs, NEW step, NEW said, Said(t, step, said),
         step \in {"writing", "back"}, flight[t].step \in {"reading", "checking", "heir", "writing"},
         step = "writing" => \/ flight[t].step = "checking" /\ flight[t].form.verb # "transfer"
                             \/ flight[t].step = "heir" /\ flight[t].form.from # flight[t].form.of,
         UNCHANGED <<salon, away, booked, holder, page, minted, presses, others>>
  PROVE  IInv'
<1>1. FlightsAreSound /\ FlightIsSound(t)
  BY DEF IInv, FlightsAreSound
<1>2. /\ DOMAIN flight' = Tabs /\ DOMAIN flight'[t] = {"step", "form", "said"}
      /\ flight'[t].step = step /\ flight'[t].form = flight[t].form /\ flight'[t].said = said
      /\ \A u \in Tabs \ {t} : flight'[u] = flight[u]
  BY <1>1, SayingMovesNoForm
<1>3. FlightIsSound(t)'
  BY <1>1, <1>2 DEF FlightIsSound
<1>4. presses' \in 0..MaxPresses /\ DOMAIN flight' = DOMAIN flight
  BY <1>1, <1>2 DEF IInv, BoundsHold, FlightsAreSound
<1> QED
  BY <1>2, <1>3, <1>4, OneFlightMoves

\* setPublished takes the profile back whole, under the wish it was pressed with.
LEMMA ReadBackStep == ASSUME IInv, NEW t \in Tabs, ReadBack(t) PROVE IInv'
<1>1. /\ UNCHANGED <<salon, away, booked, holder, page, minted, presses, others>>
      /\ flight[t].step = "reading"
  BY DEF ReadBack
<1>2. CASE ~Member(salon, holder[t])
  <2>1. Said(t, "back", "FORBIDDEN")
    BY <1>2 DEF ReadBack
  <2> QED
    BY <1>1, <2>1, SaidStep
<1>3. CASE Member(salon, holder[t])
  <2>1. FlightIsSound(t) /\ DOMAIN flight = Tabs /\ DOMAIN flight[t] = {"step", "form", "said"}
    BY DEF IInv, FlightsAreSound, FlightIsSound
  <2>2. PICK o \in BOOLEAN : o = flight[t].form.on /\ o = ~page[t].read.profile.published
    BY <1>1, <2>1 DEF FlightIsSound, FormIsSound, Form
  <2>3. PICK f : f = AsRequest(salon.profile, o)
    OBVIOUS
  <2>4. f \in Form /\ f.ticked = {} /\ f.verb = "publish" /\ f.on = o
    <3>1. PICK b \in Loose : b = Blank /\ b.ticked = {}
      BY BlankIsLoose
    <3>2. PICK v \in Profile : v = salon.profile
      BY DEF IInv, SalonIsSound, SalonIsWhole, Rows
    <3>3. f = [b EXCEPT !.verb = "publish", !.text = v.text, !.extras = v.extras, !.on = o]
      BY <2>3, <3>1, <3>2 DEF AsRequest
    <3> QED
      BY <3>1, <3>3 DEF Form, Loose, Profile, Verbs
  <2>5. flight' = [flight EXCEPT ![t].step = "checking", ![t].form = f]
    BY <1>3, <2>2, <2>3 DEF ReadBack
  <2>6. PICK c : c = [flight[t] EXCEPT !.step = "checking", !.form = f]
    OBVIOUS
  <2>7. DOMAIN c = {"step", "form", "said"} /\ c.step = "checking" /\ c.form = f
    BY <2>1, <2>6
  <2>8. flight'[t] = c /\ DOMAIN flight' = DOMAIN flight /\ \A u \in Tabs \ {t} : flight'[u] = flight[u]
    BY <2>1, <2>5, <2>6
  <2>9. FormIsSound(f, salon')
    BY <2>4 DEF FormIsSound
  <2>10. FlightIsSound(t)'
    BY <1>1, <2>2, <2>4, <2>7, <2>8, <2>9 DEF FlightIsSound
  <2>11. presses' \in 0..MaxPresses
    BY <1>1 DEF IInv, BoundsHold
  <2> QED
    BY <1>1, <2>8, <2>10, <2>11, OneFlightMoves
<1> QED
  BY <1>2, <1>3

\* The service's checks write nothing.
LEMMA CheckStep == ASSUME IInv, NEW t \in Tabs, Check(t) PROVE IInv'
<1>1. PICK a : a = Answer(salon, holder[t], flight[t].form)
  OBVIOUS
<1>2. PICK step \in {"writing", "back"} : step = IF a = "OK" THEN "writing" ELSE "back"
  OBVIOUS
<1>3. /\ Said(t, step, a) /\ flight[t].step = "checking" /\ flight[t].form.verb # "transfer"
      /\ UNCHANGED <<salon, away, booked, holder, page, minted, presses, others>>
  BY <1>1, <1>2 DEF Check
<1> QED
  BY <1>3, SaidStep

\* The row a transfer takes from is the asker's own, and it is there.
LEMMA FindOwnerStep == ASSUME IInv, NEW t \in Tabs, FindOwner(t) PROVE IInv'
<1>1. PICK a : a = Answer(salon, holder[t], flight[t].form)
  OBVIOUS
<1>2. /\ UNCHANGED <<salon, away, booked, holder, page, minted, presses, others>>
      /\ flight[t].step = "checking" /\ flight[t].form.verb = "transfer"
  BY DEF FindOwner
<1>3. CASE a # "OK"
  <2>1. Said(t, "back", a)
    BY <1>1, <1>3 DEF FindOwner
  <2> QED
    BY <1>2, <2>1, SaidStep
<1>4. CASE a = "OK"
  <2>1. FlightIsSound(t) /\ DOMAIN flight = Tabs /\ DOMAIN flight[t] = {"step", "form", "said"}
    BY DEF IInv, FlightsAreSound, FlightIsSound
  <2>2. FormIsSound(flight[t].form, salon) /\ flight[t].form.verb \in Verbs
    BY <1>2, <2>1 DEF FlightIsSound, FormIsSound, Form
  <2>3. PICK p \in Staff : p = Me(salon, holder[t])
    <3>1. IsOwner(salon, holder[t])
      BY <1>1, <1>2, <1>4, <2>2, AnswersSay
    <3> QED
      BY <3>1, MembersSit DEF IsOwner, Here
  <2>4. PICK f \in Form : f = [flight[t].form EXCEPT !.from = p]
    BY <2>2 DEF FormIsSound, Form
  <2>5. /\ f.from = p /\ f.ticked = flight[t].form.ticked /\ f.of = flight[t].form.of
        /\ f.verb = "transfer"
    BY <1>2, <2>2, <2>4 DEF FormIsSound, Form
  <2>6. PICK c : c = [flight[t] EXCEPT !.step = "heir", !.form = f]
    OBVIOUS
  <2>7. DOMAIN c = {"step", "form", "said"} /\ c.step = "heir" /\ c.form = f
    BY <2>1, <2>6
  <2>8. flight' = [flight EXCEPT ![t] = c]
    <3>1. flight' = [flight EXCEPT ![t].step = "heir", ![t].form = [@ EXCEPT !.from = p]]
      BY <1>1, <1>4, <2>3 DEF FindOwner
    <3> QED
      BY <2>1, <2>4, <2>6, <3>1
  <2>9. flight'[t] = c /\ DOMAIN flight' = DOMAIN flight /\ \A u \in Tabs \ {t} : flight'[u] = flight[u]
    BY <2>1, <2>8
  <2>10. FormIsSound(f, salon')
    BY <1>2, <2>2, <2>5 DEF FormIsSound
  <2>11. FlightIsSound(t)'
    BY <2>5, <2>7, <2>9, <2>10 DEF FlightIsSound
  <2>12. presses' \in 0..MaxPresses
    BY <1>2 DEF IInv, BoundsHold
  <2> QED
    BY <1>2, <2>9, <2>11, <2>12, OneFlightMoves
<1> QED
  BY <1>3, <1>4

\* The one it goes to is another.
LEMMA FindHeirStep == ASSUME IInv, NEW t \in Tabs, FindHeir(t) PROVE IInv'
<1>1. PICK found \in BOOLEAN : found = Heir(salon, flight[t].form.from, flight[t].form.of)
  BY DEF Heir
<1>2. PICK step \in {"writing", "back"} : step = IF found THEN "writing" ELSE "back"
  OBVIOUS
<1>3. PICK said : said = IF found THEN "OK" ELSE "VALIDATION_FAILED"
  OBVIOUS
<1>4. /\ Said(t, step, said) /\ flight[t].step = "heir"
      /\ UNCHANGED <<salon, away, booked, holder, page, minted, presses, others>>
  BY <1>1, <1>2, <1>3 DEF FindHeir
<1>5. step = "writing" => flight[t].form.from # flight[t].form.of
  BY <1>1, <1>2 DEF Heir
<1> QED
  BY <1>4, <1>5, SaidStep

\* A write refused by an index writes nothing.
LEMMA UnluckyStep == ASSUME IInv, NEW t \in Tabs, Unlucky(t) PROVE IInv'
<1>1. PICK said : said = IF flight[t].form.verb = "register" THEN "SLUG_UNAVAILABLE" ELSE "UNKNOWN"
  OBVIOUS
<1>2. /\ Said(t, "back", said) /\ flight[t].step = "writing"
      /\ UNCHANGED <<salon, away, booked, holder, page, minted, presses, others>>
  BY <1>1 DEF Unlucky
<1> QED
  BY <1>2, SaidStep

\* What has been written, and the flight that says so.
LEMMA LandedStep ==
  ASSUME IInv, NEW t \in Tabs, flight[t].step = "writing", Said(t, "back", "OK"),
         SalonIsSound(salon', away', booked, minted'), Outlives(salon, salon'),
         away' \subseteq Accounts, minted' \in 0..MaxMinted,
         UNCHANGED <<booked, holder, page, presses, others>>
  PROVE  IInv'
<1>1. FlightIsSound(t) /\ FlightsAreSound /\ PagesAreSound
  BY DEF IInv, FlightsAreSound
<1>2. SalonIsSound(salon', away', booked', minted')
  OBVIOUS
<1>3. /\ DOMAIN flight' = Tabs /\ DOMAIN flight'[t] = {"step", "form", "said"}
      /\ flight'[t].step = "back" /\ flight'[t].form = flight[t].form
      /\ \A u \in Tabs \ {t} : flight'[u] = flight[u]
  BY <1>1, SayingMovesNoForm
<1>4. FlightIsSound(t)'
  <2>1. FormIsSound(flight[t].form, salon')
    BY <1>1, FormsStaySound DEF FlightIsSound
  <2> QED
    BY <1>1, <1>3, <2>1 DEF FlightIsSound
<1>5. FlightsAreSound'
  <2>1. ASSUME NEW u \in Tabs \ {t} PROVE FlightIsSound(u)'
    <3>1. FlightIsSound(u) /\ flight'[u] = flight[u] /\ page'[u] = page[u]
      BY <1>1, <1>3 DEF FlightsAreSound
    <3> QED
      BY <3>1, FlightFollows
  <2> QED
    BY <1>3, <1>4, <2>1 DEF FlightsAreSound
<1>6. PagesAreSound'
  BY <1>1, PagesFollow
<1>7. BoundsHold' /\ SessionsAreSound'
  BY DEF IInv, BoundsHold, SessionsAreSound
<1> QED
  BY <1>2, <1>5, <1>6, <1>7 DEF IInv

\* The write, from a form however stale: the rows it names are there, and what it needs is asked again.
LEMMA WriteStep == ASSUME IInv, NEW t \in Tabs, Write(t) PROVE IInv'
<1>1. PICK f : f = flight[t].form
  OBVIOUS
<1>2. PICK a : a = holder[t]
  OBVIOUS
<1>3. PICK no : no = IF Checked(f) THEN Constraint(salon, f) ELSE Answer(salon, a, f)
  OBVIOUS
<1>4. /\ flight[t].step = "writing"
      /\ Mints(f) => minted < MaxMinted
      /\ f.verb = "add" => Here(salon) # Staff
      /\ IF no # "OK" THEN UNCHANGED <<salon, away, minted>>
         ELSE /\ salon' = Written(salon, a, f)
              /\ away' = IF f.verb = "register" THEN away \cup {a} ELSE away
              /\ minted' = IF Mints(f) THEN minted + 1 ELSE minted
      /\ Said(t, "back", no)
      /\ UNCHANGED <<booked, holder, page, presses, others>>
  BY <1>1, <1>2, <1>3 DEF Write
<1>5. CASE no # "OK"
  <2>1. UNCHANGED <<salon, away, booked, holder, page, minted, presses, others>>
    BY <1>4, <1>5
  <2> QED
    BY <1>4, <2>1, SaidStep
<1>6. CASE no = "OK"
  <2>1. FlightIsSound(t) /\ BoundsHold /\ SessionsAreSound /\ SalonIsSound(salon, away, booked, minted)
    BY DEF IInv, FlightsAreSound
  <2>2. /\ FormIsSound(f, salon) /\ (f.verb = "hours" => ~WeekRefused(f))
        /\ f.verb = "transfer" => f.from \in Staff \ {f.of}
    BY <1>1, <1>4, <2>1 DEF FlightIsSound
  <2>3. a \in Accounts
    BY <1>2, <2>1 DEF SessionsAreSound
  <2>4. (Checked(f) => Constraint(salon, f) = "OK") /\ (~Checked(f) => Answer(salon, a, f) = "OK")
    BY <1>3, <1>6
  <2>5. SalonIsSound(salon', away', booked, minted') /\ Outlives(salon, salon')
    BY <1>4, <1>6, <2>1, <2>2, <2>3, <2>4, WrittenIsSound
  <2>6. away' \subseteq Accounts /\ minted' \in 0..MaxMinted
    BY <1>4, <1>6, <2>1, <2>3, SizesAssumption DEF BoundsHold, SessionsAreSound
  <2> QED
    BY <1>4, <1>6, <2>5, <2>6, LandedStep
<1> QED
  BY <1>5, <1>6

\* Two replacements at once: what one inserted stays beside what the other did.
LEMMA MingleStep == ASSUME IInv, NEW t \in Tabs, Mingle(t) PROVE IInv'
<1>1. PICK f : f = flight[t].form
  OBVIOUS
<1>2. /\ flight[t].step = "writing" /\ Said(t, "back", "OK")
      /\ UNCHANGED <<away, booked, holder, page, minted, presses, others>>
  BY DEF Mingle
<1>3. SalonIsSound(salon, away, booked, minted) /\ FlightIsSound(t)
  BY DEF IInv, FlightsAreSound
<1>4. FormIsSound(f, salon) /\ (f.verb = "hours" => ~WeekRefused(f))
  BY <1>1, <1>2, <1>3 DEF FlightIsSound
<1>5. CASE f.verb = "performers"
  <2>1. PICK P : P = salon.performs \cup f.ticked
    OBVIOUS
  <2>2. salon' = [salon EXCEPT !.performs = P]
    BY <1>1, <1>5, <2>1 DEF Mingle
  <2>3. P \in SUBSET Here(salon)
    BY <1>3, <1>4, <2>1 DEF SalonIsSound, SalonIsWhole, FormIsSound
  <2>4. SalonIsSound(salon', away, booked, minted) /\ Outlives(salon, salon')
    BY <1>3, <2>2, <2>3, PerformersKeepTheSalon
  <2> QED
    BY <1>2, <2>4, LandedStep DEF IInv, BoundsHold, SessionsAreSound
<1>6. CASE f.verb = "hours"
  <2>1. f.of \in Staff /\ f \in Form /\ salon.hours \in [Staff -> [Days -> SUBSET Windows]]
    BY <1>3, <1>4, <1>6 DEF FormIsSound, SalonIsSound, SalonIsWhole, Rows
  <2>2. PICK W : W = [d \in Days |-> salon.hours[f.of][d] \cup Segments(f, d)]
    OBVIOUS
  <2>3. W \in [Days -> SUBSET Windows]
    <3>1. \A d \in Days : Segments(f, d) \in SUBSET Windows
      BY <1>4, <1>6, <2>1, SegmentsAreHours
    <3> QED
      BY <2>1, <2>2, <3>1
  <2>4. salon' = [salon EXCEPT !.hours = [salon.hours EXCEPT ![f.of] = W]]
    BY <1>1, <1>6, <2>1, <2>2 DEF Mingle
  <2>5. SalonIsSound(salon', away, booked, minted) /\ Outlives(salon, salon')
    BY <1>3, <2>1, <2>3, <2>4, WeekKeepsTheSalon
  <2> QED
    BY <1>2, <2>5, LandedStep DEF IInv, BoundsHold, SessionsAreSound
<1> QED
  BY <1>1, <1>5, <1>6 DEF Mingle

\* The redirect: the page is read again and the flight is over.
LEMMA LandStep == ASSUME IInv, NEW t \in Tabs, Land(t) PROVE IInv'
<1>1. PICK f : f = flight[t].form
  OBVIOUS
<1>2. PICK room : room = IF flight[t].said = "OK" THEN Room(f) ELSE RefusedRoom(f)
  OBVIOUS
<1>3. PICK p : p = Page(t, room, Whose(t, Room(f), f.of))
  OBVIOUS
<1>4. /\ flight[t].step = "back"
      /\ page' = [page EXCEPT ![t] = p] /\ flight' = [flight EXCEPT ![t] = Idle]
      /\ UNCHANGED <<salon, away, booked, holder, minted, presses, others>>
  BY <1>1, <1>2, <1>3 DEF Land
<1>5. FlightIsSound(t) /\ DOMAIN flight = Tabs /\ DOMAIN page = Tabs
  BY DEF IInv, FlightsAreSound, PagesAreSound
<1>6. f.verb \in Verbs /\ f.of \in Staff \cup {NoStaff}
  BY <1>1, <1>4, <1>5 DEF FlightIsSound, FormIsSound, Form
<1>7. room = "hours" => Room(f) = "hours"
  BY <1>2, <1>6 DEF RefusedRoom, Room, Thresholds, Commands
<1>8. PageIsSound(p)
  BY <1>3, <1>6, <1>7, PagesAreRead
<1>9. PagesAreSound'
  BY <1>4, <1>5, <1>8 DEF IInv, PagesAreSound, PageIsSound
<1>10. flight'[t] = Idle
  BY <1>4, <1>5
<1>11. FlightIsSound(t)'
  BY <1>10 DEF FlightIsSound, Idle
<1>12. FlightsAreSound'
  <2>1. ASSUME NEW u \in Tabs \ {t} PROVE FlightIsSound(u)'
    <3>1. FlightIsSound(u) /\ flight'[u] = flight[u] /\ page'[u] = page[u] /\ Outlives(salon, salon')
      BY <1>4, <1>5, OutlivingIsOrdered DEF IInv, FlightsAreSound
    <3> QED
      BY <3>1, FlightFollows
  <2> QED
    BY <1>4, <1>5, <1>11, <2>1 DEF FlightsAreSound
<1> QED
  BY <1>4, <1>9, <1>12 DEF IInv, SalonIsSound, SalonIsWhole, BookedAreActive, SeatedOnce, SessionsAreSound, BoundsHold

\* Customers and clocks: a booking with somebody who serves, one that ends, a code that runs out.
LEMMA OthersStep == ASSUME IInv, CustomersAndClocks PROVE IInv'
<1>1. /\ UNCHANGED <<away, holder, page, flight, minted, presses>>
      /\ others' = others + 1 /\ others < MaxOthers
  BY DEF CustomersAndClocks
<1>2. SalonIsSound(salon, away, booked, minted)
  BY DEF IInv
<1>3. SalonIsSound(salon', away, booked', minted) /\ Outlives(salon, salon')
  <2>1. CASE \E p \in Serving(salon) \ booked : booked' = booked \cup {p} /\ UNCHANGED salon
    <3>1. PICK p \in Serving(salon) : booked' = booked \cup {p} /\ UNCHANGED salon
      BY <2>1
    <3>2. p \in Staff /\ salon.team[p].active
      BY DEF Serving, Here
    <3> QED
      BY <1>2, <3>1, <3>2, OutlivingIsOrdered DEF SalonIsSound, BookedAreActive
  <2>2. CASE \E p \in booked : booked' = booked \ {p} /\ UNCHANGED salon
    BY <1>2, <2>2, OutlivingIsOrdered DEF SalonIsSound, BookedAreActive
  <2>3. CASE \E p \in Here(salon) : salon' = [salon EXCEPT !.team[p].code = 0] /\ UNCHANGED booked
    <3>1. PICK p \in Here(salon) : salon' = [salon EXCEPT !.team[p].code = 0] /\ UNCHANGED booked
      BY <2>3
    <3>2. p \in Staff /\ 0 \in 0..MaxMinted
      BY SizesAssumption DEF Here
    <3>3. salon' = Coded(salon, p, 0)
      BY <3>1 DEF Coded
    <3>4. SalonIsSound(salon', away, booked, minted) /\ Outlives(salon, salon')
      BY <1>2, <3>2, <3>3, CodesKeepTheSalon
    <3> QED
      BY <3>1, <3>4
  <2> QED
    BY <2>1, <2>2, <2>3 DEF CustomersAndClocks
<1>4. PagesAreSound'
  BY <1>1, <1>3, PagesFollow DEF IInv
<1>5. FlightsAreSound'
  <2>1. ASSUME NEW u \in Tabs PROVE FlightIsSound(u)'
    <3>1. FlightIsSound(u) /\ flight'[u] = flight[u] /\ page'[u] = page[u]
      BY <1>1 DEF IInv, FlightsAreSound
    <3> QED
      BY <1>3, <3>1, FlightFollows
  <2> QED
    BY <1>1, <2>1 DEF IInv, FlightsAreSound
<1>6. BoundsHold' /\ SessionsAreSound'
  BY <1>1, SizesAssumption DEF IInv, BoundsHold, SessionsAreSound
<1>7. SalonIsSound(salon', away', booked', minted')
  BY <1>1, <1>3
<1> QED
  BY <1>4, <1>5, <1>6, <1>7 DEF IInv

\* A step that changes nothing.
LEMMA StutterStep == ASSUME IInv, UNCHANGED vars PROVE IInv'
<1>1. UNCHANGED <<salon, away, booked, holder, page, flight, minted, presses, others>>
  BY DEF vars
<1>2. PagesAreSound' /\ FlightsAreSound' /\ BoundsHold' /\ SessionsAreSound'
  BY <1>1 DEF IInv, PagesAreSound, PageIsSound, FlightsAreSound, FlightIsSound, FormIsSound, BoundsHold,
              SessionsAreSound
<1>3. SalonIsSound(salon', away', booked', minted')
  BY <1>1 DEF IInv
<1> QED
  BY <1>2, <1>3 DEF IInv

\* A salon as it is found: its founder, a mate who may hold an account of their
\* own, and nothing else yet.
LEMMA TheSalonBegins ==
  ASSUME NEW mate \in {MateAccount, NoAccount}, NEW trading \in BOOLEAN, NEW week \in SUBSET Windows,
         NEW s, s = Salon(mate, trading, week), NEW bk, bk = IF trading THEN {Founder} ELSE {}
  PROVE  SalonIsSound(s, {}, bk, 0)
<1>0. /\ 0 \in 0..MaxMinted /\ Founder \in Staff /\ Mate \in Staff /\ Founder # Mate
      /\ OwnerAccount \in Accounts /\ OwnerAccount # NoAccount /\ mate # OwnerAccount
      /\ mate \in Accounts \cup {NoAccount}
  BY SizesAssumption, StaffAssumption, AccountAssumption
<1>1. PICK v \in Chair : v = Vacant /\ ~v.here /\ ~v.owner /\ ~v.active /\ v.account = NoAccount
  <2>1. PICK v : v = Vacant
    OBVIOUS
  <2>2. v \in Chair /\ ~v.here /\ ~v.owner /\ ~v.active /\ v.account = NoAccount
    BY <1>0, <2>1 DEF Vacant, Chair
  <2> QED
    BY <2>1, <2>2
<1>2. PICK c \in Chair : /\ c = [v EXCEPT !.here = TRUE, !.owner = TRUE, !.active = TRUE, !.bookable = TRUE,
                                          !.account = OwnerAccount]
                         /\ c.here /\ c.owner /\ c.active /\ c.account = OwnerAccount
  <2>1. PICK c : c = [v EXCEPT !.here = TRUE, !.owner = TRUE, !.active = TRUE, !.bookable = TRUE,
                               !.account = OwnerAccount]
    OBVIOUS
  <2>2. c \in Chair /\ c.here /\ c.owner /\ c.active /\ c.account = OwnerAccount
    BY <1>0, <2>1 DEF Chair
  <2> QED
    BY <2>1, <2>2
<1>3. PICK o \in BOOLEAN : o = (trading /\ week # Windows)
  OBVIOUS
<1>4. PICK d \in Chair : /\ d = [v EXCEPT !.here = TRUE, !.active = TRUE, !.account = mate, !.bookable = o]
                         /\ d.here /\ ~d.owner /\ d.active /\ d.account = mate
  <2>1. PICK d : d = [v EXCEPT !.here = TRUE, !.active = TRUE, !.account = mate, !.bookable = o]
    OBVIOUS
  <2>2. d \in Chair /\ d.here /\ ~d.owner /\ d.active /\ d.account = mate
    BY <1>0, <1>1, <2>1 DEF Chair
  <2> QED
    BY <2>1, <2>2
<1>5. PICK T : T = [p \in Staff |-> CASE p = Founder -> c [] p = Mate -> d [] OTHER -> v]
  OBVIOUS
<1>6. /\ T \in [Staff -> Chair] /\ T[Founder] = c /\ T[Mate] = d
      /\ \A p \in Staff \ {Founder, Mate} : T[p] = v
  <2>1. ASSUME NEW p \in Staff PROVE T[p] = CASE p = Founder -> c [] p = Mate -> d [] OTHER -> v
    BY <1>5
  <2>2. T[Founder] = c /\ T[Mate] = d /\ \A p \in Staff \ {Founder, Mate} : T[p] = v
    BY <1>0, <2>1
  <2>3. DOMAIN T = Staff /\ \A p \in Staff : T[p] \in Chair
    BY <1>5, <2>2
  <2>4. T \in [Staff -> Chair]
    BY <1>5, <2>3
  <2> QED
    BY <2>2, <2>4
<1>7. PICK S \in Service : /\ S = IF trading THEN [here |-> TRUE, active |-> TRUE, modes |-> Modes, delay |-> 1,
                                                   extras |-> 1] ELSE NoService
                           /\ "DROP_OFF" \in S.modes <=> S.delay # 0
  <2>1. PICK S : S = IF trading THEN [here |-> TRUE, active |-> TRUE, modes |-> Modes, delay |-> 1,
                                      extras |-> 1] ELSE NoService
    OBVIOUS
  <2>2. CASE trading
    <3>1. S \in Service /\ S.modes = Modes /\ S.delay = 1
      BY <2>1, <2>2 DEF Service
    <3> QED
      BY <2>1, <3>1 DEF Modes
  <2>3. CASE ~trading
    <3>1. S \in Service /\ S.modes = {} /\ S.delay = 0
      BY <2>1, <2>3 DEF Service, NoService
    <3> QED
      BY <2>1, <3>1
  <2> QED
    BY <2>2, <2>3
<1>8. PICK P \in SUBSET {Founder, Mate} : P = IF trading THEN {Founder, Mate} ELSE {}
  OBVIOUS
<1>9. PICK A \in [PhotoSlots -> 0..MaxMinted] : A = [i \in PhotoSlots |-> 0] /\ \A i \in PhotoSlots : A[i] = 0
  <2>1. PICK A : A = [i \in PhotoSlots |-> 0]
    OBVIOUS
  <2>2. A \in [PhotoSlots -> 0..MaxMinted] /\ \A i \in PhotoSlots : A[i] = 0
    BY <1>0, <2>1
  <2> QED
    BY <2>1, <2>2
<1>10. PICK H \in [Staff -> [Days -> SUBSET Windows]] :
         H = [p \in Staff |-> [e \in Days |-> IF p = Founder THEN week ELSE {}]]
  OBVIOUS
<1>11. PICK F \in Profile : F = [published |-> trading, text |-> 0, extras |-> 1]
  BY DEF Profile
<1>12. s = [team |-> T, service |-> S, performs |-> P, album |-> A, hours |-> H, closures |-> {}, profile |-> F]
  BY <1>1, <1>2, <1>3, <1>4, <1>5, <1>7, <1>8, <1>9, <1>10, <1>11 DEF Salon
<1>13. s.team = T /\ s.service = S /\ s.performs = P /\ s.album = A
  BY <1>12
<1>14. s \in Rows
  <2>1. P \in SUBSET Staff
    BY <1>0
  <2> QED
    BY <1>6, <1>12, <2>1 DEF Rows
<1>15. /\ s.team[Founder].here /\ s.team[Founder].owner /\ s.team[Founder].account = OwnerAccount
       /\ s.team[Mate].here /\ ~s.team[Mate].owner /\ s.team[Mate].account = mate
       /\ \A p \in Staff \ {Founder, Mate} : ~s.team[p].here /\ ~s.team[p].owner /\ ~s.team[p].active
  BY <1>1, <1>2, <1>4, <1>6, <1>13
<1>16. /\ \A p \in Staff : Owns(s, p) <=> p = Founder
       /\ \A p \in Reigning(s) : p = Founder
       /\ \A p \in Staff : s.team[p].active => s.team[p].here
       /\ s.performs \subseteq Here(s)
  BY <1>0, <1>13, <1>15 DEF Owns, Reigning, Here
<1>17. SeatedOnce(s, {})
  BY <1>0, <1>15 DEF SeatedOnce
<1>18. BookedAreActive(s, bk)
  BY <1>0, <1>2, <1>6, <1>13 DEF BookedAreActive
<1>19. AlbumIsWhole(s) /\ AlbumIsMinted(s, 0)
  BY <1>9, <1>13 DEF AlbumIsWhole, AlbumIsMinted
<1> QED
  BY <1>0, <1>7, <1>13, <1>14, <1>16, <1>17, <1>18, <1>19 DEF SalonIsSound, SalonIsWhole, TeamIsWhole

\* The salon begins sound, and so do its pages.
LEMMA InitHolds == Init => IInv
<1> SUFFICES ASSUME Init PROVE IInv
  OBVIOUS
<1>1. /\ holder \in [Tabs -> Accounts] /\ away = {}
      /\ page = [t \in Tabs |-> Page(t, "home", NoStaff)]
      /\ flight = [t \in Tabs |-> Idle]
      /\ minted = 0 /\ presses = 0 /\ others = 0
  BY DEF Init
<1>2. PICK mate \in {MateAccount, NoAccount}, trading \in BOOLEAN, week \in SUBSET Windows :
        salon = Salon(mate, trading, week) /\ booked = IF trading THEN {Founder} ELSE {}
  <2>1. \A w \in {Windows, {CHOOSE w \in Windows : TRUE}} : w \in SUBSET Windows
    BY SizesAssumption
  <2> QED
    BY <2>1 DEF Init
<1>3. SalonIsSound(salon, {}, booked, 0)
  BY <1>2, TheSalonBegins
<1>4. PagesAreSound
  <2>1. ASSUME NEW t \in Tabs PROVE PageIsSound(page[t])
    <3>1. page[t].read = salon /\ page[t].room = Arrives(holder[t], "home")
      BY <1>1 DEF Page
    <3>2. page[t].room # "hours"
      BY <3>1 DEF Arrives, Thresholds
    <3> QED
      BY <1>3, <3>1, <3>2, OutlivingIsOrdered DEF PageIsSound, SalonIsSound
  <2> QED
    BY <1>1, <2>1 DEF PagesAreSound
<1>5. FlightsAreSound
  BY <1>1 DEF FlightsAreSound, FlightIsSound, Idle
<1>6. SessionsAreSound /\ BoundsHold
  BY <1>1, SizesAssumption DEF SessionsAreSound, BoundsHold
<1> QED
  BY <1>1, <1>3, <1>4, <1>5, <1>6 DEF IInv

\* Every step keeps it.
LEMMA StepHolds == IInv /\ [Next]_vars => IInv'
<1> SUFFICES ASSUME IInv, [Next]_vars PROVE IInv'
  OBVIOUS
<1>1. CASE \E t \in Tabs : Visit(t) \/ Press(t) \/ Land(t) \/ ReadBack(t) \/ Check(t)
  BY <1>1, VisitStep, PressStep, LandStep, ReadBackStep, CheckStep
<1>4. CASE \E t \in Tabs : FindOwner(t) \/ FindHeir(t) \/ Write(t) \/ Unlucky(t) \/ Mingle(t)
  BY <1>4, FindOwnerStep, FindHeirStep, WriteStep, UnluckyStep, MingleStep
<1>2. CASE CustomersAndClocks
  BY <1>2, OthersStep
<1>3. CASE UNCHANGED vars
  BY <1>3, StutterStep
<1> QED
  BY <1>1, <1>2, <1>3, <1>4 DEF Next

\* The rows, the pages, the forms in flight and the bounds stay sound.
THEOREM Invariance == Spec => []IInv
BY InitHolds, StepHolds, PTL DEF Spec

----------------------------------------------------------------------------
(* What follows.                                                             *)

\* Rows that are whole by themselves are rows the schema admits.
LEMMA WholeSalonsAreTyped == ASSUME NEW s, SalonIsWhole(s) PROVE SalonType(s)
<1>1. s \in Rows
  BY DEF SalonIsWhole
<1>2. /\ s.team \in [Staff -> Chair] /\ s.service \in Service /\ s.album \in [PhotoSlots -> 0..MaxMinted]
      /\ s.hours \in [Staff -> [Days -> SUBSET Windows]] /\ s.closures \subseteq Closure /\ s.profile \in Profile
  BY <1>1 DEF Rows
<1>3. /\ \E p \in Here(s) : s.team[p].owner
      /\ Cardinality(Reigning(s)) <= 1
  <2>1. /\ \E p \in Here(s) : s.team[p].owner
        /\ \A p, q \in Reigning(s) : p = q
    BY DEF SalonIsWhole, TeamIsWhole, Owns, Here
  <2>2. Reigning(s) = {} \/ \E o : Reigning(s) = {o}
    BY <2>1
  <2>3. Cardinality(Reigning(s)) \in {0, 1}
    BY <2>2, FS_Singleton, FS_EmptySet
  <2> QED
    BY <2>1, <2>3
<1> QED
  BY <1>2, <1>3 DEF SalonType, SalonIsWhole, AlbumIsWhole, Chair, Service, Closure, Profile

\* The rows are rows the schema admits, on the server and on every page.
THEOREM TypeCorrect == Spec => []TypeOK
<1>1. IInv => TypeOK
  <2> SUFFICES ASSUME IInv PROVE TypeOK
    OBVIOUS
  <2>1. SalonIsWhole(salon) /\ SeatedOnce(salon, away) /\ BookedAreActive(salon, booked)
    BY DEF IInv, SalonIsSound
  <2>2. SalonType(salon) /\ \A t \in Tabs : SalonType(page[t].read)
    BY <2>1, WholeSalonsAreTyped DEF IInv, PagesAreSound, PageIsSound
  <2>3. \A p \in Staff : salon.team[p].active => ~HeldElsewhere(salon, p)
    BY <2>1 DEF SeatedOnce, HeldElsewhere, Here
  <2>4. booked \subseteq {p \in Staff : salon.team[p].active}
    BY <2>1 DEF BookedAreActive
  <2> QED
    BY <2>2, <2>3, <2>4 DEF IInv, SessionsAreSound, BoundsHold, TypeOK
<1> QED
  BY <1>1, Invariance, PTL

\* Readiness and the gate read different predicates and give one answer: hours
\* somebody can be booked in belong to somebody who can be booked.
LEMMA ReadinessIsTheGate == ASSUME NEW s PROVE CanPublish(s) <=> Gate(s)
BY DEF CanPublish, Gate, HasHours

\* On a page that is up to date, the rooms say that publishing works exactly
\* when the gate lets it through.
THEOREM SwitchAgrees == Spec => []SwitchAgreesWithGate
<1>1. IInv => SwitchAgreesWithGate
  <2> SUFFICES ASSUME IInv, NEW t \in Tabs, Fresh(t), IsOwner(salon, holder[t]), page[t].room \in Rooms
               PROVE  SaysPublish(page[t]) <=>
                        /\ Answer(salon, holder[t], AsRequest(salon.profile, ~salon.profile.published)) = "OK"
                        /\ page[t].room # "profile" => ~salon.profile.published
    BY DEF SwitchAgreesWithGate
  <2>1. page[t].read = salon
    BY DEF Fresh
  <2>2. PICK o \in BOOLEAN : o = ~salon.profile.published
    OBVIOUS
  <2>3. PICK f : f = AsRequest(salon.profile, o)
    OBVIOUS
  <2>4. f.verb = "publish" /\ f.on = o
    <3>1. PICK b \in Loose : b = Blank
      BY BlankIsLoose
    <3>2. f = [b EXCEPT !.verb = "publish", !.text = salon.profile.text, !.extras = salon.profile.extras, !.on = o]
      BY <2>3, <3>1 DEF AsRequest
    <3> QED
      BY <3>1, <3>2 DEF Loose
  <2>5. Answer(salon, holder[t], f) = ProfileAnswer(salon, f)
    BY <2>4 DEF Answer, IsOwner, Thresholds, OwnersOnly
  <2>6. ProfileAnswer(salon, f) = "OK" <=> ~o \/ Gate(salon)
    BY <2>4 DEF ProfileAnswer
  <2>7. salon.profile.published \in BOOLEAN
    BY DEF IInv, SalonIsSound, SalonIsWhole, Rows, Profile
  <2>8. CASE page[t].room = "home"
    <3>1. SaysPublish(page[t]) <=> Checklist(salon) = "publish"
      BY <2>1, <2>8 DEF SaysPublish
    <3>2. Checklist(salon) = "publish" <=> ~salon.profile.published /\ Gate(salon)
      BY ReadinessIsTheGate DEF Checklist
    <3> QED
      BY <2>2, <2>3, <2>5, <2>6, <2>8, <3>1, <3>2
  <2>9. CASE page[t].room = "profile"
    <3>1. SaysPublish(page[t]) <=> OffersSwitch(salon)
      BY <2>1, <2>9 DEF SaysPublish
    <3>2. OffersSwitch(salon) <=> salon.profile.published \/ Gate(salon)
      BY ReadinessIsTheGate DEF OffersSwitch
    <3> QED
      BY <2>2, <2>3, <2>5, <2>6, <2>9, <3>1, <3>2
  <2>10. CASE page[t].room \notin {"home", "profile"}
    <3>1. SaysPublish(page[t]) <=> Pointer(salon) = "publish"
      BY <2>1, <2>10 DEF SaysPublish
    <3>2. Pointer(salon) = "publish" <=> ~salon.profile.published /\ CanPublish(salon)
      BY <2>7 DEF Pointer, CanPublish
    <3> QED
      BY <2>2, <2>3, <2>5, <2>6, <2>10, <3>1, <3>2, ReadinessIsTheGate
  <2> QED
    BY <2>8, <2>9, <2>10
<1> QED
  BY <1>1, Invariance, PTL

\* A set of at most one is empty, or all of what it holds.
LEMMA AtMostOne ==
  ASSUME NEW S, IsFiniteSet(S), Cardinality(S) <= 1, NEW x \in S PROVE S = {x}
<1>1. IsFiniteSet({x}) /\ Cardinality({x}) = 1
  BY FS_Singleton
<1>2. Cardinality(S) \in Nat /\ Cardinality({x}) <= Cardinality(S)
  BY <1>1, FS_CardinalityType, FS_Subset
<1> QED
  BY <1>1, <1>2, FS_Subset

\* The service's form carries its hidden fields, and the delay only where it counts.
LEMMA UntouchedService ==
  ASSUME NEW s, SalonIsWhole(s), s.service.here PROVE ServiceWritten(s, ServiceForm(s)) = s
<1>1. s \in Rows
  BY DEF SalonIsWhole
<1>2. PICK b \in Loose : b = Blank
  BY BlankIsLoose
<1>3. PICK v \in Service : v = s.service
  BY <1>1 DEF Rows
<1>4. PICK f : f = ServiceForm(s)
  OBVIOUS
<1>5. f = [b EXCEPT !.verb = "service", !.on = v.active, !.modes = v.modes, !.delay = v.delay,
                    !.extras = v.extras]
  BY <1>2, <1>3, <1>4 DEF ServiceForm, BareServiceForm
<1>6. f.verb = "service" /\ f.on = v.active /\ f.modes = v.modes /\ f.delay = v.delay /\ f.extras = v.extras
  BY <1>2, <1>5 DEF Loose
<1>7. v.here /\ ("DROP_OFF" \in v.modes <=> v.delay # 0) /\ v.delay \in {0, 1}
  BY <1>3 DEF SalonIsWhole, Service
<1>8. PICK d : d = IF "DROP_OFF" \in f.modes THEN f.delay ELSE 0
  OBVIOUS
<1>9. d = v.delay
  BY <1>6, <1>7, <1>8
<1>10. v = [here |-> TRUE, active |-> f.on, modes |-> f.modes, delay |-> d, extras |-> f.extras]
  BY <1>6, <1>7, <1>9 DEF Service
<1>11. PICK P : P = IF f.verb = "create" THEN Here(s) ELSE s.performs
  OBVIOUS
<1>12. P = s.performs
  BY <1>6, <1>11
<1>13. ServiceWritten(s, f) = [s EXCEPT !.service = v, !.performs = P]
  BY <1>8, <1>10, <1>11 DEF ServiceWritten
<1>14. [s EXCEPT !.service = v, !.performs = P] = s
  BY <1>1, <1>3, <1>12 DEF Rows
<1> QED
  BY <1>4, <1>13, <1>14

\* The week's form loses nothing when no day has more than one segment.
LEMMA UntouchedWeek ==
  ASSUME NEW s \in Rows, NEW p \in Staff, \A d \in Days : Cardinality(s.hours[p][d]) <= 1
  PROVE  WeekWritten(s, WeekForm(s, p)) = s
<1>1. PICK f : f = WeekForm(s, p)
  OBVIOUS
<1>2. f.of = p /\ f.open = {d \in Days : s.hours[p][d] # {}} /\ f.week = [d \in Days |-> Shown(s, p, d)]
  BY <1>1, WeekFormIsSound
<1>3. PICK H \in [Staff -> [Days -> SUBSET Windows]] : H = s.hours
  BY DEF Rows
<1>4. PICK W : W = [d \in Days |-> IF d \in f.open THEN {f.week[d]} ELSE {}]
  OBVIOUS
<1>5. ASSUME NEW d \in Days PROVE W[d] = H[p][d]
  <2>1. CASE H[p][d] = {}
    BY <1>2, <1>3, <1>4, <2>1
  <2>2. CASE H[p][d] # {}
    <3>1. Shown(s, p, d) \in H[p][d]
      BY <1>3, <2>2, ShownIsAnHour
    <3>2. IsFiniteSet(H[p][d]) /\ Cardinality(H[p][d]) <= 1
      <4>1. H[p][d] \subseteq Windows
        OBVIOUS
      <4>2. IsFiniteSet(H[p][d])
        BY <4>1, SizesAssumption, FS_Subset
      <4> QED
        BY <1>3, <4>2
    <3>3. H[p][d] = {Shown(s, p, d)}
      BY <3>1, <3>2, AtMostOne
    <3>4. d \in f.open /\ f.week[d] = Shown(s, p, d)
      BY <1>2, <1>3, <2>2
    <3> QED
      BY <1>4, <3>3, <3>4
  <2> QED
    BY <2>1, <2>2
<1>6. W = H[p]
  BY <1>4, <1>5
<1>7. WeekWritten(s, f) = [s EXCEPT !.hours[p] = W]
  BY <1>2, <1>4 DEF WeekWritten, Segments
<1>8. [s EXCEPT !.hours[p] = W] = s
  BY <1>3, <1>6 DEF Rows
<1> QED
  BY <1>1, <1>7, <1>8

\* The edit dialog of a member, sent as drawn.
LEMMA UntouchedMember ==
  ASSUME NEW s \in Rows, NEW p \in Here(s) PROVE Edit(s, EditForm(s, p)) = s
<1>1. PICK f : f = EditForm(s, p)
  OBVIOUS
<1>2. f.of = p /\ f.on = s.team[p].active /\ f.bookable = s.team[p].bookable
  BY <1>1, EditFormIsSound
<1>3. p \in Staff
  BY DEF Here
<1>4. PICK T \in [Staff -> Chair] : T = s.team
  BY DEF Rows
<1>5. PICK r \in Chair : r = T[p]
  BY <1>3
<1>6. [r EXCEPT !.active = f.on, !.bookable = f.bookable] = r
  BY <1>2, <1>4, <1>5 DEF Chair
<1>7. Edit(s, f) = Reseated(s, p, [r EXCEPT !.active = f.on, !.bookable = f.bookable])
  BY <1>2, <1>3, <1>4, <1>5 DEF Edit, Reseated, Rows
<1>8. Reseated(s, p, r) = s
  BY <1>3, <1>4, <1>5 DEF Reseated, Rows
<1> QED
  BY <1>1, <1>6, <1>7, <1>8

\* The public page's form, sent as drawn.
LEMMA UntouchedProfile ==
  ASSUME NEW s \in Rows PROVE ProfileWritten(s, ProfileForm(s)) = s
<1>1. PICK f : f = ProfileForm(s)
  OBVIOUS
<1>2. f.on = s.profile.published /\ f.text = s.profile.text /\ f.extras = s.profile.extras
  BY <1>1, ProfileFormIsSound
<1>3. PICK v \in Profile : v = s.profile
  BY DEF Rows
<1>4. v = [published |-> f.on, text |-> f.text, extras |-> f.extras]
  BY <1>2, <1>3 DEF Profile
<1>5. ProfileWritten(s, f) = [s EXCEPT !.profile = v]
  BY <1>4 DEF ProfileWritten
<1>6. [s EXCEPT !.profile = v] = s
  BY <1>3 DEF Rows
<1> QED
  BY <1>1, <1>5, <1>6

\* A form sent as it was drawn changes nothing: whatever its room does not draw
\* travels with it, save the second segment of a day.
THEOREM UntouchedForms == Spec => []UntouchedFormsChangeNothing
<1>1. IInv => UntouchedFormsChangeNothing
  <2> SUFFICES ASSUME IInv, NEW t \in Tabs, Fresh(t), NEW f \in Drawn(t), Faithful(f)
               PROVE  Written(salon, holder[t], f) = salon
    BY DEF UntouchedFormsChangeNothing
  <2>1. page[t].read = salon
    BY DEF Fresh
  <2>2. SalonIsWhole(salon) /\ PageIsSound(page[t])
    BY DEF IInv, SalonIsSound, PagesAreSound
  <2>3. salon \in Rows
    BY <2>2 DEF SalonIsWhole
  <2>4. CASE page[t].room = "editor"
    <3>1. salon.service.here /\ f \in {ServiceForm(salon), PerformersForm(salon)}
      BY <2>1, <2>4 DEF Drawn
    <3>2. CASE f = ServiceForm(salon)
      <4>1. f.verb = "service"
        BY <2>3, <3>2, ServiceFormIsSound
      <4>2. Written(salon, holder[t], f) = ServiceWritten(salon, f)
        BY <4>1 DEF Written
      <4> QED
        BY <2>2, <3>1, <3>2, <4>2, UntouchedService
    <3>3. CASE f = PerformersForm(salon)
      <4>1. f.verb = "performers"
        BY <2>3, <3>3, PerformersFormIsSound
      <4>2. f.ticked = salon.performs
        <5>1. PICK b \in Loose : b = Blank
          BY BlankIsLoose
        <5>2. PICK T : T = salon.performs \cap Here(salon)
          OBVIOUS
        <5>3. T = salon.performs
          BY <2>2, <5>2 DEF SalonIsWhole
        <5>4. f = [b EXCEPT !.verb = "performers", !.ticked = T]
          BY <3>3, <5>1, <5>2 DEF PerformersForm
        <5> QED
          BY <5>1, <5>3, <5>4 DEF Loose
      <4>3. Written(salon, holder[t], f) = [salon EXCEPT !.performs = f.ticked]
        BY <4>1 DEF Written
      <4> QED
        BY <2>3, <4>2, <4>3 DEF Rows
    <3> QED
      BY <3>1, <3>2, <3>3
  <2>5. CASE page[t].room = "hours"
    <3>1. PICK p \in Staff : f = WeekForm(salon, p)
      BY <2>1, <2>2, <2>5 DEF Drawn, PageIsSound
    <3>2. f.verb = "hours" /\ f.of = p
      BY <2>3, <3>1, WeekFormIsSound
    <3>3. \A d \in Days : Cardinality(salon.hours[p][d]) <= 1
      BY <3>2 DEF Faithful
    <3>4. Written(salon, holder[t], f) = WeekWritten(salon, f)
      BY <3>2 DEF Written
    <3> QED
      BY <2>3, <3>1, <3>3, <3>4, UntouchedWeek
  <2>6. CASE page[t].room = "team"
    <3>1. PICK p \in Here(salon) : f = EditForm(salon, p)
      BY <2>1, <2>6 DEF Drawn
    <3>2. f.verb = "member"
      BY <2>3, <3>1, EditFormIsSound
    <3>3. Written(salon, holder[t], f) = Edit(salon, f)
      BY <3>2 DEF Written, Edit
    <3> QED
      BY <2>3, <3>1, <3>3, UntouchedMember
  <2>7. CASE page[t].room = "profile"
    <3>1. f = ProfileForm(salon)
      BY <2>1, <2>7 DEF Drawn
    <3>2. f.verb = "profile"
      BY <2>3, <3>1, ProfileFormIsSound
    <3>3. Written(salon, holder[t], f) = ProfileWritten(salon, f)
      BY <3>2 DEF Written
    <3> QED
      BY <2>3, <3>1, <3>3, UntouchedProfile
  <2>8. CASE page[t].room \notin {"editor", "hours", "team", "profile"}
    BY <2>8 DEF Drawn
  <2> QED
    BY <2>4, <2>5, <2>6, <2>7, <2>8
<1> QED
  BY <1>1, Invariance, PTL

\* No write but the profile's own touches the profile.
LEMMA OthersLeaveTheProfile ==
  ASSUME NEW s \in Rows, NEW a, NEW f, f.verb \in Verbs \ {"profile", "publish"}
  PROVE  Written(s, a, f).profile = s.profile
<1>1. CASE f.verb \in {"create", "service"}
  BY <1>1 DEF Written, ServiceWritten, Rows
<1>2. CASE f.verb = "performers"
  BY <1>2 DEF Written, Rows
<1>3. CASE f.verb \in {"addPhoto", "removePhoto"}
  BY <1>3 DEF Written, AlbumWritten, Rows
<1>4. CASE f.verb = "hours"
  BY <1>4 DEF Written, WeekWritten, Rows
<1>5. CASE f.verb \in {"close", "reopen"}
  BY <1>5 DEF Written, ClosuresWritten, Rows
<1>6. CASE f.verb = "add"
  BY <1>6 DEF Written, Seated, Rows
<1>7. CASE f.verb = "member"
  BY <1>7 DEF Written, Rows
<1>8. CASE f.verb = "invite"
  BY <1>8 DEF Written, Rows
<1>9. CASE f.verb = "transfer"
  BY <1>9 DEF Written, HandedOver, Rows
<1>10. CASE f.verb = "join"
  BY <1>10 DEF Written, Joined, Rows
<1>11. CASE f.verb = "register"
  BY <1>11 DEF Written
<1> QED
  BY <1>1, <1>2, <1>3, <1>4, <1>5, <1>6, <1>7, <1>8, <1>9, <1>10, <1>11 DEF Verbs

\* A page goes live or dark by a switch that showed it as it was, or by words drawn
\* before it last did.
THEOREM PublicationIsDecided == Spec => EachFormItsOwn
<1> DEFINE Moved == salon'.profile.published # salon.profile.published
           Decided == \E t \in Tabs : LET drawn == page[t].read.profile.published IN
                        /\ flight[t].step = "writing" /\ flight'[t].step = "back"
                        /\ \/ flight[t].form.verb = "publish" /\ drawn = salon.profile.published
                           \/ flight[t].form.verb = "profile" /\ drawn # salon.profile.published
<1>1. IInv /\ [Next]_vars => [Moved => Decided]_vars
  <2> SUFFICES ASSUME IInv, Next, Moved PROVE Decided
    OBVIOUS
  <2>1. salon' # salon /\ salon \in Rows
    BY DEF IInv, SalonIsSound, SalonIsWhole
  <2>2. CASE CustomersAndClocks
    <3>1. PICK p \in Here(salon) : salon' = [salon EXCEPT !.team[p].code = 0]
      BY <2>1, <2>2 DEF CustomersAndClocks
    <3>2. salon'.profile = salon.profile
      BY <2>1, <3>1 DEF Rows
    <3> QED
      BY <3>2
  <2>3. CASE \E t \in Tabs : Write(t)
    <3>1. PICK t \in Tabs : Write(t)
      BY <2>3
    <3>2. PICK f : f = flight[t].form
      OBVIOUS
    <3>3. PICK no : no = IF Checked(f) THEN Constraint(salon, f) ELSE Answer(salon, holder[t], f)
      OBVIOUS
    <3>4. /\ flight[t].step = "writing" /\ Said(t, "back", no)
          /\ salon' = Written(salon, holder[t], f)
      BY <2>1, <3>1, <3>2, <3>3 DEF Write
    <3>5. FlightsAreSound /\ FlightIsSound(t)
      BY DEF IInv, FlightsAreSound
    <3>6. flight'[t].step = "back"
      BY <3>4, <3>5, SayingMovesNoForm
    <3>7. /\ f.verb \in Verbs /\ f.on \in BOOLEAN
          /\ f.verb = "profile" => f.on = page[t].read.profile.published
          /\ f.verb = "publish" => f.on = ~page[t].read.profile.published
      BY <3>2, <3>4, <3>5 DEF FlightIsSound, FormIsSound, Form
    <3>8. f.verb \in {"profile", "publish"}
      BY <2>1, <3>4, <3>7, OthersLeaveTheProfile
    <3>9. salon'.profile.published = f.on
      <4>1. salon' = ProfileWritten(salon, f)
        BY <3>4, <3>8 DEF Written
      <4> QED
        BY <2>1, <4>1 DEF ProfileWritten, Rows
    <3>10. salon.profile.published \in BOOLEAN /\ page[t].read.profile.published \in BOOLEAN
      BY <2>1 DEF IInv, PagesAreSound, PageIsSound, SalonIsWhole, Rows, Profile
    <3> QED
      BY <3>2, <3>4, <3>6, <3>7, <3>8, <3>9, <3>10
  <2>4. CASE \E t \in Tabs : \/ Visit(t) \/ Press(t) \/ Land(t) \/ ReadBack(t) \/ Check(t)
                            \/ FindOwner(t) \/ FindHeir(t) \/ Unlucky(t)
    BY <2>1, <2>4 DEF Visit, Press, Land, ReadBack, Check, FindOwner, FindHeir, Unlucky
  <2>5. CASE \E t \in Tabs : Mingle(t)
    <3>1. PICK t \in Tabs : Mingle(t)
      BY <2>5
    <3>2. salon'.profile = salon.profile
      BY <2>1, <3>1 DEF Mingle, Rows
    <3> QED
      BY <3>2
  <2> QED
    BY <2>2, <2>3, <2>4, <2>5 DEF Next
<1>2. Spec => [][Moved => Decided]_vars
  BY <1>1, Invariance, PTL DEF Spec
<1> QED
  BY <1>2 DEF EachFormItsOwn

=============================================================================
