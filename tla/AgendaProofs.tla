---------------------------- MODULE AgendaProofs ----------------------------
(****************************************************************************)
(* A day read page by page shows every row that stayed in it, a verb on an    *)
(* up-to-date diary is one the backend takes, and a promise is kept however   *)
(* its appointment is moved: for any number of rows, any page size and any    *)
(* interleaving of readers, colleagues and the clock.                         *)
(*                                                                            *)
(* The pager's argument: rows are in a strict order, the cursor is the        *)
(* position of the last row shown, so a row nobody touched is either shown    *)
(* already or still after the cursor; and where no next page is announced,    *)
(* nothing of the period is after the rows that are shown.                    *)
(****************************************************************************)
EXTENDS Agenda, FiniteSetTheorems, WellFoundedInduction, TLAPS

Row == [start : Times, staff : Staff \cup {Anyone}, status : Statuses, shelf : BOOLEAN,
        promise : Nat, ready : 0..(MaxTime + 1)]
Reading == [Ids -> Row]

----------------------------------------------------------------------------
(* The order of the rows.                                                    *)

\* A non-empty set of naturals has a least element.
LEMMA LeastNatural ==
  ASSUME NEW S, S \subseteq Nat, S # {}
  PROVE  \E n \in S : \A m \in S : n <= m
<1>1. PICK n \in S : \A m \in S : <<m, n>> \notin OpToRel(<, Nat)
  BY WFMin, NatLessThanWellFounded, Zenon
<1>2. \A m \in S : ~(m < n)
  BY <1>1, Zenon DEF OpToRel
<1> QED
  BY <1>2

\* Start and identifier order the rows strictly and totally.
LEMMA BeforeIsAnOrder ==
  ASSUME NEW read \in Reading
  PROVE  /\ \A i \in Ids : ~Before(read, i, i)
         /\ \A i, j \in Ids : i # j => Before(read, i, j) \/ Before(read, j, i)
         /\ \A i, j \in Ids : Before(read, i, j) => ~Before(read, j, i)
         /\ \A i, j, k \in Ids : Before(read, i, j) /\ Before(read, j, k) => Before(read, i, k)
<1>1. \A i \in Ids : read[i].start \in Int /\ i \in Int
  BY IdsAssumption, SizesAssumption DEF Reading, Row, Times
<1> QED
  BY <1>1 DEF Before

\* Fewer rows come before an earlier row.
LEMMA FewerBefore ==
  ASSUME NEW read \in Reading, NEW S \in SUBSET Ids, NEW i \in S, NEW j \in S, Before(read, j, i)
  PROVE  /\ Cardinality({k \in S : Before(read, k, j)}) \in Nat
         /\ Cardinality({k \in S : Before(read, k, i)}) \in Nat
         /\ Cardinality({k \in S : Before(read, k, j)}) < Cardinality({k \in S : Before(read, k, i)})
<1> DEFINE A == {k \in S : Before(read, k, j)}
           B == {k \in S : Before(read, k, i)}
<1>1. A \subseteq B /\ j \in B /\ j \notin A
  BY BeforeIsAnOrder
<1>2. B \subseteq Ids
  OBVIOUS
<1> HIDE DEF A, B
<1>3. IsFiniteSet(B) /\ IsFiniteSet(A) /\ Cardinality(A) <= Cardinality(B) /\ Cardinality(A) # Cardinality(B)
  BY <1>1, <1>2, IdsAssumption, FS_Subset
<1>4. Cardinality(A) \in Nat /\ Cardinality(B) \in Nat
  BY <1>3, FS_CardinalityType
<1> QED
  BY <1>3, <1>4 DEF A, B

\* A non-empty set of rows has a first.
LEMMA FirstExists ==
  ASSUME NEW read \in Reading, NEW S \in SUBSET Ids, S # {}
  PROVE  \E i \in S : \A j \in S \ {i} : Before(read, i, j)
<1> DEFINE Rank(i) == Cardinality({k \in S : Before(read, k, i)})
<1>1. \A i \in S : Rank(i) \in Nat
  BY IdsAssumption, FS_Subset, FS_CardinalityType
<1>2. PICK n \in {Rank(i) : i \in S} : \A m \in {Rank(i) : i \in S} : n <= m
  <2> DEFINE R == {Rank(i) : i \in S}
  <2>1. R \subseteq Nat /\ R # {}
    BY <1>1
  <2> HIDE DEF R
  <2>2. \E n \in R : \A m \in R : n <= m
    BY <2>1, LeastNatural
  <2> QED
    BY <2>2 DEF R
<1>3. PICK i \in S : n = Rank(i)
  BY <1>2
<1>4. ASSUME NEW j \in S \ {i} PROVE Before(read, i, j)
  <2>1. Rank(i) <= Rank(j)
    BY <1>2, <1>3
  <2>2. ~Before(read, j, i)
    <3>1. ASSUME Before(read, j, i) PROVE FALSE
      <4>1. Rank(j) < Rank(i)
        BY <3>1, FewerBefore
      <4> QED
        BY <1>1, <2>1, <4>1
    <3> QED
      BY <3>1
  <2> QED
    BY <2>2, BeforeIsAnOrder
<1> QED
  BY <1>4

\* And a last.
LEMMA LastExists ==
  ASSUME NEW read \in Reading, NEW S \in SUBSET Ids, S # {}
  PROVE  \E i \in S : \A j \in S \ {i} : Before(read, j, i)
<1> DEFINE Rank(i) == Cardinality({k \in S : Before(read, k, i)})
           Room(i) == Cardinality(S) - Rank(i)
<1>1. \A i \in S : Rank(i) \in Nat /\ Cardinality(S) \in Nat /\ Rank(i) <= Cardinality(S)
  BY IdsAssumption, FS_Subset, FS_CardinalityType
<1>2. PICK n \in {Room(i) : i \in S} : \A m \in {Room(i) : i \in S} : n <= m
  <2> DEFINE R == {Room(i) : i \in S}
  <2> HIDE DEF Rank
  <2>1. R \subseteq Nat /\ R # {}
    BY <1>1
  <2> HIDE DEF R
  <2>2. \E n \in R : \A m \in R : n <= m
    BY <2>1, LeastNatural
  <2> QED
    BY <2>2 DEF R
<1>3. PICK i \in S : n = Room(i)
  BY <1>2
<1>4. ASSUME NEW j \in S \ {i} PROVE Before(read, j, i)
  <2>1. Room(i) <= Room(j)
    BY <1>2, <1>3
  <2>2. ~Before(read, i, j)
    <3>1. ASSUME Before(read, i, j) PROVE FALSE
      <4>1. Rank(i) < Rank(j)
        BY <3>1, FewerBefore
      <4> HIDE DEF Rank
      <4> QED
        BY <1>1, <2>1, <4>1
    <3> QED
      BY <3>1
  <2> QED
    BY <2>2, BeforeIsAnOrder
<1> QED
  BY <1>4

\* So the last row of a page is one.
LEMMA LastingIsLast ==
  ASSUME NEW read \in Reading, NEW S \in SUBSET Ids, S # {}
  PROVE  /\ Lasting(read, S) \in S
         /\ \A j \in S \ {Lasting(read, S)} : Before(read, j, Lasting(read, S))
<1>1. \E i \in S : \A j \in S \ {i} : Before(read, j, i)
  BY LastExists
<1> QED
  BY <1>1, Zenon DEF Lasting

----------------------------------------------------------------------------
(* Pages.                                                                    *)

Rest(read, rows, c) == {i \in rows : After(read, i, c)}
Ahead(read, rows, c, i) == {j \in Rest(read, rows, c) : Before(read, j, i)}

\* What a page holds, said with the rows that are ahead of each.
LEMMA FetchedAre ==
  ASSUME NEW read, NEW rows, NEW c, NEW n
  PROVE  Fetched(read, rows, c, n) =
           {i \in Rest(read, rows, c) : Cardinality(Ahead(read, rows, c, i)) < n}
  BY DEF Fetched, Rest, Ahead

\* Counting what is ahead.
LEMMA AheadIsCounted ==
  ASSUME NEW read, NEW rows \in SUBSET Ids, NEW c, NEW i
  PROVE  /\ IsFiniteSet(Ahead(read, rows, c, i))
         /\ Cardinality(Ahead(read, rows, c, i)) \in Nat
<1>1. Ahead(read, rows, c, i) \subseteq Ids
  BY DEF Ahead, Rest
<1> QED
  BY <1>1, IdsAssumption, FS_Subset, FS_CardinalityType

\* A page that has something has its first row.
LEMMA PagesAreNotEmpty ==
  ASSUME NEW read \in Reading, NEW rows \in SUBSET Ids, NEW c, NEW n \in Nat \ {0},
         Rest(read, rows, c) # {}
  PROVE  Fetched(read, rows, c, n) # {}
<1> DEFINE rest == Rest(read, rows, c)
<1>1. rest \in SUBSET Ids
  BY DEF Rest
<1>2. PICK i \in rest : \A j \in rest \ {i} : Before(read, i, j)
  BY <1>1, FirstExists
<1>3. Ahead(read, rows, c, i) = {}
  BY <1>1, <1>2, BeforeIsAnOrder DEF Ahead
<1>4. Cardinality(Ahead(read, rows, c, i)) < n
  BY <1>3, FS_EmptySet
<1> QED
  BY <1>2, <1>4, FetchedAre

\* A row that the page leaves out comes after every row the page shows.
LEMMA LeftOutComesAfter ==
  ASSUME NEW read \in Reading, NEW rows \in SUBSET Ids, NEW c, NEW n \in Nat,
         NEW i \in Rest(read, rows, c), i \notin Fetched(read, rows, c, n),
         NEW l \in Fetched(read, rows, c, n)
  PROVE  Before(read, l, i)
<1> DEFINE rest == Rest(read, rows, c)
<1>1. rest \in SUBSET Ids /\ l \in rest
  BY FetchedAre DEF Rest
<1>2. ~(Cardinality(Ahead(read, rows, c, i)) < n) /\ Cardinality(Ahead(read, rows, c, l)) < n
  BY FetchedAre
<1>3. ASSUME Before(read, i, l) PROVE FALSE
  <2>1. Cardinality(Ahead(read, rows, c, i)) < Cardinality(Ahead(read, rows, c, l))
    BY <1>1, <1>3, FewerBefore DEF Ahead
  <2> QED
    BY <1>2, <2>1, AheadIsCounted
<1>4. i # l
  OBVIOUS
<1> QED
  BY <1>1, <1>3, <1>4, BeforeIsAnOrder

\* When one row more than a page holds was asked for and did not come, the page
\* holds all there is.
LEMMA NoMoreMeansAll ==
  ASSUME NEW read \in Reading, NEW rows \in SUBSET Ids, NEW c, NEW n \in Nat \ {0},
         Cardinality(Fetched(read, rows, c, n + 1)) <= n
  PROVE  Rest(read, rows, c) \subseteq Fetched(read, rows, c, n)
<1> DEFINE rest == Rest(read, rows, c)
           over == {i \in rest : i \notin Fetched(read, rows, c, n)}
           got == Fetched(read, rows, c, n + 1)
<1>1. rest \in SUBSET Ids /\ over \in SUBSET Ids
  BY DEF Rest
<1>2. SUFFICES ASSUME over # {} PROVE FALSE
  OBVIOUS
\* The first row that is left out.
<1>3. PICK k \in over : \A j \in over \ {k} : Before(read, k, j)
  BY <1>1, <1>2, FirstExists
<1> DEFINE A == Ahead(read, rows, c, k)
<1>4. ~(Cardinality(A) < n) /\ k \in rest
  BY <1>3, FetchedAre
<1>5. IsFiniteSet(A) /\ Cardinality(A) \in Nat /\ A \subseteq rest
  BY <1>1, AheadIsCounted DEF Ahead
<1>6. A # {}
  BY <1>4, <1>5, FS_EmptySet
\* The last row ahead of it.
<1>7. PICK m \in A : \A j \in A \ {m} : Before(read, j, m)
  BY <1>1, <1>5, <1>6, LastExists
<1>8. Before(read, m, k) /\ m \in rest
  BY <1>7 DEF Ahead
<1>9. m \notin over
  BY <1>1, <1>3, <1>8, BeforeIsAnOrder
<1>10. Cardinality(Ahead(read, rows, c, m)) < n
  BY <1>8, <1>9, FetchedAre
<1>11. A \subseteq Ahead(read, rows, c, m) \cup {m}
  BY <1>5, <1>7 DEF Ahead
<1>12. Cardinality(A) <= n
  <2> DEFINE M == Ahead(read, rows, c, m)
  <2>1. IsFiniteSet(M) /\ Cardinality(M) \in Nat
    BY <1>1, AheadIsCounted
  <2>2. IsFiniteSet(M \cup {m}) /\ Cardinality(M \cup {m}) <= Cardinality(M) + 1
    BY <2>1, FS_AddElement
  <2>3. Cardinality(A) <= Cardinality(M \cup {m}) /\ Cardinality(M \cup {m}) \in Nat
    BY <1>11, <2>2, FS_Subset, FS_CardinalityType
  <2> QED
    BY <1>5, <1>10, <2>1, <2>2, <2>3
<1>13. A \cup {k} \subseteq got
  <2>1. k \in got
    BY <1>4, <1>5, <1>12, FetchedAre
  <2>2. ASSUME NEW j \in A PROVE j \in got
    <3>1. j \in rest /\ Before(read, j, k)
      BY <2>2 DEF Ahead
    <3>2. Cardinality(Ahead(read, rows, c, j)) < Cardinality(A)
      BY <1>1, <1>4, <3>1, FewerBefore DEF Ahead
    <3> QED
      BY <1>1, <1>5, <1>12, <3>1, <3>2, AheadIsCounted, FetchedAre
  <2> QED
    BY <2>1, <2>2
<1>14. k \notin A
  BY <1>1, <1>4, BeforeIsAnOrder DEF Ahead
<1>15. IsFiniteSet(got) /\ Cardinality(got) \in Nat
  <2>1. got \subseteq Ids
    BY <1>1, FetchedAre
  <2> QED
    BY <2>1, IdsAssumption, FS_Subset, FS_CardinalityType
<1>16. Cardinality(A \cup {k}) = Cardinality(A) + 1 /\ Cardinality(A \cup {k}) <= Cardinality(got)
  BY <1>5, <1>13, <1>14, <1>15, FS_AddElement, FS_Subset
<1> QED
  BY <1>4, <1>5, <1>15, <1>16

\* A cursor that announces a next page is the position of the last row shown.
LEMMA CursorIsThePosition ==
  ASSUME NEW read \in Reading, NEW rows \in SUBSET Ids, NEW c,
         NextCursor(read, rows, c) # Start
  PROVE  \E l \in Fetched(read, rows, c, Limit) :
            NextCursor(read, rows, c) = [at |-> read[l].start, id |-> l]
<1> DEFINE got == Fetched(read, rows, c, Limit + 1)
           shown == Fetched(read, rows, c, Limit)
<1>1. ~(Cardinality(got) <= Limit)
      /\ NextCursor(read, rows, c) = [at |-> read[Lasting(read, shown)].start, id |-> Lasting(read, shown)]
  BY DEF NextCursor
<1>2. got # {}
  BY <1>1, FS_EmptySet, SizesAssumption
<1>3. Rest(read, rows, c) # {}
  BY <1>2, FetchedAre
<1>4. shown # {} /\ shown \in SUBSET Ids
  BY <1>3, SizesAssumption, PagesAreNotEmpty, FetchedAre DEF Rest
<1> HIDE DEF got, shown
<1>5. Lasting(read, shown) \in shown
  BY <1>4, LastingIsLast
<1> QED
  BY <1>1, <1>5 DEF shown

\* Where no next page is announced, everything after the cursor is shown.
LEMMA NoCursorMeansAll ==
  ASSUME NEW read \in Reading, NEW rows \in SUBSET Ids, NEW c,
         NextCursor(read, rows, c) = Start
  PROVE  Rest(read, rows, c) \subseteq Fetched(read, rows, c, Limit)
<1> DEFINE got == Fetched(read, rows, c, Limit + 1)
           shown == Fetched(read, rows, c, Limit)
<1>1. CASE Cardinality(got) <= Limit
  BY <1>1, SizesAssumption, NoMoreMeansAll
<1>2. CASE ~(Cardinality(got) <= Limit)
  <2>1. NextCursor(read, rows, c) = [at |-> read[Lasting(read, shown)].start, id |-> Lasting(read, shown)]
    BY <1>2 DEF NextCursor
  <2>2. got # {}
    BY <1>2, FS_EmptySet, SizesAssumption
  <2>3. shown # {} /\ shown \in SUBSET Ids
    BY <2>2, SizesAssumption, PagesAreNotEmpty, FetchedAre DEF Rest
  <2> HIDE DEF got, shown
  <2>4. Lasting(read, shown) \in Ids
    BY <2>3, LastingIsLast
  <2>5. [at |-> read[Lasting(read, shown)].start, id |-> Lasting(read, shown)].id = 0
    BY <2>1 DEF Start
  <2> QED
    BY <2>4, <2>5, IdsAssumption
<1> QED
  BY <1>1, <1>2

\* The position of a row, as a cursor: what comes after it is after the row.
LEMMA AfterAPosition ==
  ASSUME NEW read \in Reading, NEW l \in Ids, NEW i \in Ids
  PROVE  Before(read, l, i) => After(read, i, [at |-> read[l].start, id |-> l])
<1>1. read[l].start \in Int /\ read[i].start \in Int /\ l \in Int /\ i \in Int
  BY IdsAssumption, SizesAssumption DEF Reading, Row, Times
<1> QED
  BY <1>1 DEF Before, After

\* Everything is after the start.
LEMMA AllIsAfterStart ==
  ASSUME NEW read \in Reading, NEW i \in Ids PROVE After(read, i, Start)
<1>1. read[i].start \in Times
  BY DEF Reading, Row
<1> QED
  BY <1>1, SizesAssumption DEF After, Start, Times

----------------------------------------------------------------------------
(* The invariant.                                                            *)

Verbs == {"confirm", "complete", "noshow", "cancel", "move", "ready", "promise", "walkin"}

\* A form names a row, and carries an hour and a chair of the diary.
FormIsSound(v) ==
  /\ v.verb \in Verbs /\ v.id \in Ids
  /\ v.staff \in Staff \cup {Anyone} /\ v.start \in Times

DiaryIsWhole == appts \in Reading /\ now \in Times

\* A piece on the shelf is promised for after its handover.
PromisesFollow == \A i \in Ids : appts[i].shelf => appts[i].promise >= appts[i].start + 1

\* Only a day is read on from a cursor, and it is a day that is named.
CursorIsOfADay(u) == u.after # Start => u.view = "day" /\ u.from # NoDay

PageIsWhole ==
  /\ page \in [url : Url, read : Reading, clock : Times]
  /\ CursorIsOfADay(page.url)

\* The redirect of a verb that leads back to a cursor leads back to the same day
\* under the same filters.
FlightIsSound ==
  /\ DOMAIN flight = {"at", "form", "url"}
  /\ flight.at \in {"none", "out", "back"}
  /\ flight.at = "out" => FormIsSound(flight.form) /\ flight.url = page.url
  /\ flight.at = "back" =>
       /\ flight.url \in Url
       /\ flight.url.after # Start =>
            /\ flight.url.view = "day" /\ page.url.view = "day"
            /\ flight.url.from = page.url.from /\ flight.url.staff = page.url.staff
            /\ flight.url.status = page.url.status /\ flight.url.after = page.url.after

\* A row nobody touched is as it was read, in its day, and shown or still to come.
PagerIsSound ==
  /\ DOMAIN pager = {"first", "seen", "steady"}
  /\ pager.steady \subseteq Ids
  /\ \A i \in pager.steady : page.read[i] = appts[i]
  /\ page.url.view = "day" =>
       /\ DayShown(page) \subseteq pager.seen
       /\ pager.steady \subseteq Rows(page)
       /\ \A i \in pager.steady : i \in pager.seen \/ After(page.read, i, page.url.after)

BoundsHold == presses \in 0..MaxPresses /\ others \in 0..MaxOthers

IInv ==
  /\ DiaryIsWhole /\ PromisesFollow /\ PageIsWhole /\ FlightIsSound /\ PagerIsSound
  /\ BoundsHold

----------------------------------------------------------------------------
(* The diary.                                                                *)

\* Instants are numbers.
LEMMA TimesAreNatural == Times \subseteq Nat /\ 0 \in Times
  BY SizesAssumption DEF Times

\* What a row becomes under a verb that takes it is a row; a promise stays after
\* its handover and a first readiness is kept.
LEMMA VerbsKeepRows ==
  ASSUME DiaryIsWhole, NEW v, FormIsSound(v), Takes(v),
         appts[v.id].shelf => appts[v.id].promise >= appts[v.id].start + 1
  PROVE  /\ Becomes(v) \in Row
         /\ Becomes(v).shelf => Becomes(v).promise >= Becomes(v).start + 1
         /\ appts[v.id].ready # Never => Becomes(v).ready = appts[v.id].ready
<1> DEFINE a == appts[v.id]
<1>1. a \in Row /\ v.staff \in Staff \cup {Anyone} /\ v.start \in Times /\ now + 1 \in 0..(MaxTime + 1)
  BY SizesAssumption DEF DiaryIsWhole, FormIsSound, Reading, Times
<1>2. v.start \in Nat /\ a.start \in Nat /\ a.promise \in Nat
  BY <1>1, TimesAreNatural DEF Row
<1> DEFINE Kept(b) == /\ b \in Row
                      /\ b.shelf => b.promise >= b.start + 1
                      /\ a.ready # Never => b.ready = a.ready
<1>3. CASE v.verb \in {"confirm", "complete", "noshow", "cancel"}
  <2>1. PICK s \in Statuses : Becomes(v) = [a EXCEPT !.status = s]
    BY <1>3 DEF Becomes, Statuses
  <2> HIDE DEF a
  <2>2. Kept([a EXCEPT !.status = s])
    BY <1>1 DEF Row, a
  <2> QED
    BY <2>1, <2>2 DEF a
<1>4. CASE v.verb = "move"
  <2>1. Becomes(v) = Moved(a, v.staff, v.start)
    BY <1>4 DEF Becomes
  <2>2. PICK n \in Nat : n = v.start + 1 + Turnaround
    BY <1>2, SizesAssumption
  <2>3. PICK m \in Nat : m = (IF a.shelf THEN n ELSE 0)
    OBVIOUS
  <2>4. Moved(a, v.staff, v.start) = [a EXCEPT !.start = v.start, !.staff = v.staff, !.promise = m]
    BY <2>2, <2>3 DEF Moved
  <2>5. n >= v.start + 1
    BY <1>2, <2>2, SizesAssumption
  <2>6. Kept([a EXCEPT !.start = v.start, !.staff = v.staff, !.promise = m])
    BY <1>1, <1>2, <2>3, <2>5 DEF Row
  <2> QED
    BY <2>1, <2>4, <2>6
<1>5. CASE v.verb = "ready"
  <2>1. PICK r \in 0..(MaxTime + 1) : r = (IF a.ready = Never THEN now + 1 ELSE a.ready)
    BY <1>1 DEF Row
  <2>2. Becomes(v) = [a EXCEPT !.ready = r]
    BY <1>5, <2>1 DEF Becomes, Readied
  <2>3. Kept([a EXCEPT !.ready = r])
    BY <1>1, <2>1 DEF Row
  <2> QED
    BY <2>2, <2>3
<1>6. CASE v.verb = "promise"
  <2>1. Becomes(v) = [a EXCEPT !.promise = v.start] /\ v.start >= a.start + 1
    BY <1>6 DEF Becomes, Takes, Ends
  <2>2. Kept([a EXCEPT !.promise = v.start])
    BY <1>1, <1>2, <2>1 DEF Row
  <2> QED
    BY <2>1, <2>2
<1>7. CASE v.verb = "walkin"
  <2>1. a = Nothing
    BY <1>7 DEF Takes, Exists
  <2>2. PICK b : b = [Nothing EXCEPT !.start = v.start, !.staff = v.staff, !.status = "CONFIRMED"]
    OBVIOUS
  <2>3. Becomes(v) = b
    BY <1>7, <2>2 DEF Becomes
  <2>4. Nothing \in Row /\ Nothing.shelf = FALSE /\ a.ready = Never
    <3>1. 0 \in Times /\ 0 \in Nat /\ 0 \in 0..(MaxTime + 1)
      BY SizesAssumption, TimesAreNatural
    <3> QED
      BY <2>1, <3>1 DEF Nothing, Row, Never, Statuses
  <2>5. "CONFIRMED" \in Statuses
    BY DEF Statuses
  <2>6. PICK c \in Row : c = Nothing
    BY <2>4
  <2>7. b = [c EXCEPT !.start = v.start, !.staff = v.staff, !.status = "CONFIRMED"] /\ c.shelf = FALSE
    BY <2>2, <2>4, <2>6
  <2>8. b \in Row /\ b.shelf = FALSE
    BY <1>1, <2>5, <2>7 DEF Row
  <2> QED
    BY <2>3, <2>4, <2>8
<1> QED
  BY <1>3, <1>4, <1>5, <1>6, <1>7 DEF FormIsSound, Verbs

\* So the diary stays whole whatever verb is answered.
LEMMA ChangesKeepTheDiary ==
  ASSUME DiaryIsWhole, PromisesFollow, NEW v, FormIsSound(v), Change(v), UNCHANGED now
  PROVE  /\ DiaryIsWhole' /\ PromisesFollow'
         /\ \A i \in Ids : appts[i].ready # Never => appts'[i].ready = appts[i].ready
<1>1. CASE ~Takes(v)
  BY <1>1 DEF Change, DiaryIsWhole, PromisesFollow
<1>2. CASE Takes(v)
  <2>1. PICK b : b = Becomes(v)
    OBVIOUS
  <2>2. /\ v.id \in Ids /\ b \in Row
        /\ b.shelf => b.promise >= b.start + 1
        /\ appts[v.id].ready # Never => b.ready = appts[v.id].ready
    BY <1>2, <2>1, VerbsKeepRows DEF FormIsSound, PromisesFollow
  <2>3. appts' = [appts EXCEPT ![v.id] = b]
    BY <1>2, <2>1 DEF Change
  <2> QED
    BY <2>2, <2>3 DEF DiaryIsWhole, PromisesFollow, Reading
<1> QED
  BY <1>1, <1>2

----------------------------------------------------------------------------
(* The forms.                                                                *)

\* What is drawn are rows.
LEMMA DrawnAreRows ==
  ASSUME PageIsWhole
  PROVE  /\ Rows(page) \subseteq Ids /\ Shown(page) \subseteq Ids /\ Pending(page) \subseteq Ids
         /\ Promises(page) \subseteq Ids /\ Drawn(page) \subseteq Ids
<1>1. Rows(page) \subseteq Ids /\ Pending(page) \subseteq Ids
  BY Zenon DEF Rows, Pending, Matching
<1>2. Promises(page) \subseteq Ids
  BY DEF Promises, Matching
<1>3. DayShown(page) \subseteq Rows(page)
  BY DEF DayShown, Fetched
<1>4. Shown(page) \in SUBSET Ids
  <2>1. CASE page.url.view = "week"
    BY <1>1, <2>1 DEF Shown, WeekShown
  <2>2. CASE page.url.view = "day"
    BY <1>1, <1>3, <2>2 DEF Shown
  <2>3. CASE page.url.view = "dropoffs"
    BY <2>3 DEF Shown
  <2> QED
    BY <2>1, <2>2, <2>3 DEF PageIsWhole, Url, Views
<1> QED
  BY <1>1, <1>2, <1>4 DEF Drawn

\* A verb on a row, with an hour and a chair, is a form.
LEMMA VerbsAreSound ==
  \A name \in Verbs, i \in Ids, s \in Staff \cup {Anyone}, t \in Times :
    FormIsSound(Verb(name, i, s, t))
BY DEF FormIsSound, Verb

\* Whatever a drawn page offers names a row, an hour and a chair.
LEMMA OffersAreSound ==
  ASSUME PageIsWhole, NEW v \in Offers(page) PROVE FormIsSound(v)
<1> DEFINE Sound(S) == \A w \in S : FormIsSound(w)
<1>1. \A i \in Ids : page.read[i].start \in Times /\ page.read[i].staff \in Staff \cup {Anyone}
  BY DEF PageIsWhole, Reading, Row
<1>2. \A name \in Verbs, i \in Ids : FormIsSound(Bare(name, i))
  BY VerbsAreSound, TimesAreNatural DEF Bare
<1>3. Sound(WalkIns(page))
  BY VerbsAreSound DEF WalkIns, Verbs
<1>4. \A i \in Ids : Sound(OffersOf(page, i))
  BY <1>2 DEF OffersOf, CancelDialog, Verbs
<1>5. \A i \in Ids : Sound(MoveDialog(page, i))
  BY <1>1, VerbsAreSound DEF MoveDialog, Verbs
<1>6. \A i \in Ids : Sound(ChairDialog(page, i))
  BY <1>1, VerbsAreSound DEF ChairDialog, Verbs
<1>7. \A i \in Ids : Sound(CounterOffers(page, i))
  BY <1>2, VerbsAreSound DEF CounterOffers, PromiseDialog, Verbs
<1>8. CASE v \in WalkIns(page)
  BY <1>3, <1>8
<1>9. CASE v \notin WalkIns(page)
  <2>1. CASE page.url.view = "day"
    <3>1. \E i \in Drawn(page) : v \in OffersOf(page, i) \/ v \in MoveDialog(page, i)
                                  \/ v \in ChairDialog(page, i)
      BY <1>9, <2>1 DEF Offers
    <3> QED
      BY <3>1, <1>4, <1>5, <1>6, DrawnAreRows
  <2>2. CASE page.url.view = "dropoffs"
    <3>1. \E i \in Promises(page) : v \in CounterOffers(page, i)
      BY <1>9, <2>2 DEF Offers
    <3> QED
      BY <3>1, <1>7, DrawnAreRows
  <2>3. CASE page.url.view # "day" /\ page.url.view # "dropoffs"
    BY <1>9, <2>3 DEF Offers
  <2> QED
    BY <2>1, <2>2, <2>3
<1> QED
  BY <1>8, <1>9

----------------------------------------------------------------------------
(* The addresses.                                                            *)

\* A day of the diary is not the absence of one.
LEMMA DaysAreNamed == \A d \in Days : d \in Nat /\ d # NoDay
<1>1. \A t \in Times : DayOf(t) \in Nat
  BY SizesAssumption DEF Times, DayOf
<1> QED
  BY <1>1 DEF Days, NoDay

\* The day a page is about is a day of the diary.
LEMMA AnchorsAreDays ==
  ASSUME PageIsWhole PROVE Anchor(page) \in Days
<1>1. page.url.from \in Days \cup {NoDay} /\ page.clock \in Times
  BY DEF PageIsWhole, Url
<1> QED
  BY <1>1 DEF Anchor, Today, Days

\* A link and a filter lead to the start of a reading.
LEMMA LinksAreUrls ==
  ASSUME PageIsWhole, NEW u \in Links(page) \cup Filters(page)
  PROVE  u \in Url /\ u.after = Start
<1>1. page.url \in Url /\ Anchor(page) \in Days
  BY AnchorsAreDays DEF PageIsWhole
<1>2. Start \in [at : Times \cup {-1}, id : Ids \cup {0}]
  BY DEF Start
<1>3. PICK p \in Url : p = page.url
  BY <1>1
<1>4. CASE u \in Links(page)
  <2>1. PICK w \in Views, d \in {Anchor(page), NoDay} \cup ({Anchor(page) - 1, Anchor(page) + 1} \cap Days) :
           u = Link(page.url, w, d)
    BY <1>4 DEF Links
  <2>2. d \in Days \cup {NoDay}
    BY <1>1, <2>1
  <2>3. u = [p EXCEPT !.view = w, !.from = d, !.after = Start, !.error = FALSE]
    BY <1>3, <2>1 DEF Link
  <2> QED
    BY <1>2, <2>2, <2>3 DEF Url
<1>5. CASE u \in Filters(page)
  <2>1. PICK s \in Staff \cup {Anyone}, t \in {NoStatus, "PENDING", "COMPLETED"} : u = Filtered(page.url, s, t)
    BY <1>5 DEF Filters
  <2>2. t \in Statuses \cup {NoStatus}
    BY DEF Statuses
  <2>3. u = [p EXCEPT !.staff = s, !.status = t, !.after = Start, !.error = FALSE]
    BY <1>3, <2>1 DEF Filtered
  <2> QED
    BY <1>2, <2>2, <2>3 DEF Url
<1> QED
  BY <1>4, <1>5

\* A verb comes back to an address, and to a cursor only on the day it was
\* pressed on.
LEMMA RedirectsAreUrls ==
  ASSUME PageIsWhole, NEW v, NEW refused \in BOOLEAN
  PROVE  LET u == BackTo(page.url, v, refused) IN
           /\ u \in Url
           /\ u.after # Start =>
                /\ u.view = "day" /\ page.url.view = "day"
                /\ u.from = page.url.from /\ u.staff = page.url.staff
                /\ u.status = page.url.status /\ u.after = page.url.after
<1>1. PICK p \in Url : p = page.url
  BY DEF PageIsWhole
<1>2. CursorIsOfADay(p)
  BY <1>1 DEF PageIsWhole
<1>3. Plain \in Url /\ Plain.after = Start /\ Plain.view = "day"
  BY DEF Plain, Url, Start, Views
<1>4. PICK q \in Url : q = Plain
  BY <1>3
<1>5. AgendaUrl(p, refused) = [q EXCEPT !.from = p.from, !.staff = p.staff, !.status = p.status,
                                        !.after = p.after, !.error = refused]
  BY <1>4 DEF AgendaUrl
<1>6. CounterUrl(p, refused) = [q EXCEPT !.view = "dropoffs", !.staff = p.staff,
                                         !.status = p.status, !.error = refused]
  BY <1>4 DEF CounterUrl
<1>7. PICK w : w = BackTo(p, v, refused)
  OBVIOUS
<1>8. CASE w = CounterUrl(p, refused)
  <2>1. w \in Url /\ w.after = Start
    BY <1>3, <1>4, <1>6, <1>8 DEF Url, Views
  <2> QED
    BY <1>1, <1>7, <2>1
<1>9. CASE w = AgendaUrl(p, refused)
  <2>1. w \in Url /\ w.after = p.after /\ w.from = p.from /\ w.staff = p.staff /\ w.status = p.status
        /\ w.view = "day"
    BY <1>3, <1>4, <1>5, <1>9 DEF Url
  <2> QED
    BY <1>1, <1>2, <1>7, <2>1 DEF CursorIsOfADay
<1> QED
  BY <1>7, <1>8, <1>9 DEF BackTo

----------------------------------------------------------------------------
(* The readings.                                                             *)

\* A row is in a period by what it says itself.
LEMMA SameRowSameMatch ==
  ASSUME NEW read, NEW other, NEW first, NEW last, NEW staff, NEW status,
         NEW i \in Matching(read, first, last, staff, status), read[i] = other[i]
  PROVE  i \in Matching(other, first, last, staff, status)
BY DEF Matching

\* An address that reads on: the same day under the same filters, from where the
\* page stands or from its last row.
ReadsOn(u) ==
  /\ page.url.view = "day" /\ u.view = "day"
  /\ u.from # NoDay /\ u.from = Anchor(page)
  /\ u.staff = page.url.staff /\ u.status = page.url.status
  /\ \/ u.after = page.url.after
     \/ \E l \in DayShown(page) : u.after = [at |-> page.read[l].start, id |-> l]

\* A fresh reading shows its first page, and everything is still to come.
LEMMA StartingKeepsThePager ==
  ASSUME DiaryIsWhole, NEW u \in Url, u.after = Start, Show(u), UNCHANGED <<appts, now>>
  PROVE  PagerIsSound'
<1>1. page' = Draw(u) /\ pager' = [first |-> u, seen |-> Shown(page'), steady |-> Rows(page')]
  BY DEF Show
<1>2. page'.read = appts /\ page'.url = u
  BY <1>1 DEF Draw
<1>3. Rows(page') \subseteq Ids
  BY DEF Rows, Matching
<1>4. DOMAIN pager' = {"first", "seen", "steady"} /\ pager'.steady = Rows(page') /\ pager'.seen = Shown(page')
  BY <1>1
<1>5. \A i \in pager'.steady : page'.read[i] = appts'[i]
  BY <1>2
<1>6. ASSUME page'.url.view = "day"
      PROVE  /\ DayShown(page') \subseteq pager'.seen
             /\ \A i \in pager'.steady : After(page'.read, i, page'.url.after)
  <2>1. Shown(page') = DayShown(page')
    BY <1>6 DEF Shown
  <2>2. \A i \in Ids : After(appts, i, Start)
    BY AllIsAfterStart DEF DiaryIsWhole
  <2> QED
    BY <1>2, <1>3, <1>4, <2>1, <2>2
<1> QED
  BY <1>3, <1>4, <1>5, <1>6 DEF PagerIsSound

\* Reading on, a row that stood still is shown by now or is still to come.
LEMMA ReadingOnKeepsThePager ==
  ASSUME DiaryIsWhole, PageIsWhole, PagerIsSound, NEW u \in Url, u.after # Start, ReadsOn(u),
         Show(u), UNCHANGED <<appts, now>>
  PROVE  PagerIsSound'
<1>1. page' = Draw(u) /\ pager' = [pager EXCEPT !.seen = @ \cup Shown(page')]
  BY DEF Show
<1>2. page'.read = appts /\ page'.url = u /\ page'.url.view = "day"
  BY <1>1 DEF Draw, ReadsOn
<1>3. /\ DOMAIN pager' = {"first", "seen", "steady"}
      /\ pager'.steady = pager.steady
      /\ pager'.seen = pager.seen \cup Shown(page')
  BY <1>1 DEF PagerIsSound
<1>4. Shown(page') = DayShown(page')
  BY <1>2 DEF Shown
<1>5. /\ pager.steady \subseteq Ids /\ pager.steady \subseteq Rows(page) /\ DayShown(page) \subseteq pager.seen
      /\ \A i \in pager.steady : page.read[i] = appts[i]
      /\ \A i \in pager.steady : i \in pager.seen \/ After(page.read, i, page.url.after)
  BY DEF PagerIsSound, ReadsOn
<1>6. Anchor(page') = Anchor(page)
  BY <1>2 DEF Anchor, ReadsOn
<1>7. \A i \in pager.steady : i \in Rows(page')
  <2> DEFINE d == Anchor(page)
  <2>1. Rows(page) = Matching(page.read, FirstOf(d), LastOf(d), page.url.staff, page.url.status)
    BY DEF Rows, ReadsOn
  <2>2. Rows(page') = Matching(appts, FirstOf(d), LastOf(d), page.url.staff, page.url.status)
    BY <1>2, <1>6 DEF Rows, ReadsOn
  <2> QED
    BY <1>5, <2>1, <2>2, SameRowSameMatch
<1>8. ASSUME NEW i \in pager.steady, i \notin pager.seen
      PROVE  After(appts, i, u.after)
  <2>1. After(page.read, i, page.url.after) /\ i \in Rows(page) /\ i \notin DayShown(page) /\ i \in Ids
    BY <1>5, <1>8
  <2>2. After(page.read, i, u.after)
    <3>1. CASE u.after = page.url.after
      BY <2>1, <3>1
    <3>2. ASSUME NEW l \in DayShown(page), u.after = [at |-> page.read[l].start, id |-> l]
          PROVE  After(page.read, i, u.after)
      <4> DEFINE rows == Rows(page)
                 c == page.url.after
      <4>1. rows \in SUBSET Ids /\ page.read \in Reading
        BY DrawnAreRows DEF PageIsWhole
      <4>2. i \in Rest(page.read, rows, c) /\ i \notin Fetched(page.read, rows, c, Limit)
            /\ l \in Fetched(page.read, rows, c, Limit)
        BY <2>1, <3>2 DEF Rest, DayShown
      <4> HIDE DEF rows, c
      <4>3. Before(page.read, l, i)
        BY <4>1, <4>2, LeftOutComesAfter, SizesAssumption
      <4>4. l \in Ids
        BY <4>1, <4>2, FetchedAre DEF Rest
      <4> QED
        BY <2>1, <3>2, <4>1, <4>3, <4>4, AfterAPosition
    <3> QED
      BY <3>1, <3>2 DEF ReadsOn
  <2>3. page.read[i] = appts[i]
    BY <1>5
  <2> QED
    BY <2>2, <2>3 DEF After
<1>9. \A i \in pager'.steady : i \in pager'.seen \/ After(page'.read, i, page'.url.after)
  BY <1>2, <1>3, <1>8
<1>10. /\ pager'.steady \subseteq Ids /\ pager'.steady \subseteq Rows(page')
       /\ DayShown(page') \subseteq pager'.seen
       /\ \A i \in pager'.steady : page'.read[i] = appts'[i]
  BY <1>2, <1>3, <1>4, <1>5, <1>7
<1> QED
  BY <1>3, <1>9, <1>10 DEF PagerIsSound

\* So a page is whole and its pager sound, however its address was reached.
LEMMA ShowingKeepsThePage ==
  ASSUME DiaryIsWhole, PageIsWhole, PagerIsSound, NEW u \in Url, u.after # Start => ReadsOn(u),
         Show(u), UNCHANGED <<appts, now>>
  PROVE  PageIsWhole' /\ PagerIsSound' /\ page'.url = u
<1>1. page' = [url |-> u, read |-> appts, clock |-> now]
  BY DEF Show, Draw
<1>2. PageIsWhole' /\ page'.url = u
  BY <1>1 DEF PageIsWhole, DiaryIsWhole, CursorIsOfADay, ReadsOn
<1>3. PagerIsSound'
  BY StartingKeepsThePager, ReadingOnKeepsThePager
<1> QED
  BY <1>2, <1>3

----------------------------------------------------------------------------
(* The invariant is kept.                                                    *)

\* The first page.
LEMMA InitIsSound == Init => IInv
<1> SUFFICES ASSUME Init PROVE IInv
  OBVIOUS
<1>1. PerDay - 1 \in Times /\ PerDay \in Times /\ PerDay \in Nat /\ PerDay - 1 \in Nat
  BY SizesAssumption DEF Times
<1>2. \A i \in Ids : appts[i] \in Row /\ (appts[i].shelf => appts[i].promise >= appts[i].start + 1)
  <2>1. PICK t \in {PerDay - 1, PerDay}, s \in Staff, r \in Staff :
          appts = [i \in Ids |-> CASE i = 1 -> [start |-> t, staff |-> s, status |-> "CONFIRMED", shelf |-> TRUE,
                                               promise |-> t + 1 + Turnaround, ready |-> Never]
                                 [] i = 2 -> [start |-> PerDay - 1, staff |-> r, status |-> "PENDING",
                                              shelf |-> FALSE, promise |-> 0, ready |-> Never]
                                 [] OTHER -> Nothing]
    BY DEF Init
  <2>2. t \in Times /\ t \in Nat
    BY <1>1, <2>1
  <2>3. PICK n \in Nat : n = t + 1 + Turnaround
    BY <2>2, SizesAssumption
  <2>4. n >= t + 1
    BY <2>2, <2>3, SizesAssumption
  <2>5. Never \in 0..(MaxTime + 1) /\ 0 \in Times /\ 0 \in Nat /\ PerDay - 1 \in Times
    BY <1>1, SizesAssumption, TimesAreNatural DEF Never
  <2>6. SUFFICES ASSUME NEW i \in Ids
                 PROVE  appts[i] \in Row /\ (appts[i].shelf => appts[i].promise >= appts[i].start + 1)
    OBVIOUS
  <2>7. CASE i = 1
    <3>1. appts[i] = [start |-> t, staff |-> s, status |-> "CONFIRMED", shelf |-> TRUE, promise |-> n, ready |-> Never]
      BY <2>1, <2>3, <2>7
    <3> QED
      BY <2>2, <2>4, <2>5, <3>1 DEF Row, Statuses
  <2>8. CASE i = 2
    <3>1. appts[i] = [start |-> PerDay - 1, staff |-> r, status |-> "PENDING", shelf |-> FALSE, promise |-> 0, ready |-> Never]
      BY <2>1, <2>8
    <3> QED
      BY <2>5, <3>1 DEF Row, Statuses
  <2>9. CASE i # 1 /\ i # 2
    <3>1. appts[i] = Nothing
      BY <2>1, <2>9
    <3> QED
      BY <2>5, <3>1 DEF Row, Statuses, Nothing
  <2> QED
    BY <2>7, <2>8, <2>9
<1>3. DiaryIsWhole /\ PromisesFollow
  <2>1. DOMAIN appts = Ids /\ appts = [i \in Ids |-> appts[i]]
    BY DEF Init
  <2>2. now \in Times
    BY <1>1 DEF Init
  <2> QED
    BY <1>2, <2>1, <2>2 DEF DiaryIsWhole, PromisesFollow, Reading
<1>4. page = [url |-> Plain, read |-> appts, clock |-> now]
  BY DEF Init, Draw
<1>5. Plain \in Url /\ Plain.after = Start /\ Plain.view = "day"
  BY DEF Plain, Url, Start, Views, Statuses
<1>6. PageIsWhole
  BY <1>3, <1>4, <1>5 DEF PageIsWhole, DiaryIsWhole, CursorIsOfADay
<1>7. FlightIsSound
  BY DEF Init, FlightIsSound, Ground
<1>8. PagerIsSound
  <2>1. DOMAIN pager = {"first", "seen", "steady"} /\ pager.seen = Shown(page) /\ pager.steady = Rows(page)
    BY DEF Init, NoPager
  <2>2. Shown(page) = DayShown(page)
    BY <1>4, <1>5 DEF Shown
  <2>3. \A i \in Ids : After(appts, i, Start)
    BY <1>3, AllIsAfterStart DEF DiaryIsWhole
  <2> QED
    BY <1>4, <1>5, <1>6, <2>1, <2>2, <2>3, DrawnAreRows DEF PagerIsSound
<1>9. BoundsHold
  BY SizesAssumption DEF Init, BoundsHold
<1> QED
  BY <1>3, <1>6, <1>7, <1>8, <1>9 DEF IInv

\* What the diary becomes under a verb leaves the rows nobody touched as they
\* were read.
LEMMA ChangesKeepThePager ==
  ASSUME PagerIsSound, pager' = [pager EXCEPT !.steady = @ \ Unsettled], UNCHANGED page
  PROVE  PagerIsSound'
<1>1. /\ DOMAIN pager' = {"first", "seen", "steady"}
      /\ pager'.steady = pager.steady \ Unsettled /\ pager'.seen = pager.seen
  BY DEF PagerIsSound
<1>2. \A i \in pager'.steady : i \in Ids => appts'[i] = appts[i]
  BY <1>1 DEF Unsettled
<1> QED
  BY <1>1, <1>2 DEF PagerIsSound

\* The form a verb was pressed with is answered, and the redirect leads back.
LEMMA ActKeepsIInv ==
  ASSUME IInv, Act PROVE IInv'
<1>1. flight.at = "out" /\ FormIsSound(flight.form) /\ flight.url = page.url
  BY DEF Act, IInv, FlightIsSound
<1>2. DiaryIsWhole' /\ PromisesFollow'
  BY <1>1, ChangesKeepTheDiary DEF Act, IInv
<1>3. PagerIsSound'
  BY ChangesKeepThePager DEF Act, IInv
<1>4. PageIsWhole' /\ BoundsHold'
  BY DEF Act, IInv, PageIsWhole, BoundsHold
<1>5. FlightIsSound'
  <2>a. PICK v : v = flight.form
    OBVIOUS
  <2>b. PICK refused \in BOOLEAN : refused = ~Takes(v)
    OBVIOUS
  <2>0. v = flight.form /\ refused = ~Takes(flight.form)
    BY <2>a, <2>b, Zenon
  <2>1. PICK u : u = BackTo(page.url, v, refused)
    OBVIOUS
  <2>2. /\ DOMAIN flight' = {"at", "form", "url"} /\ flight'.at = "back" /\ flight'.url = u
    BY <1>1, <2>0, <2>1 DEF Act, IInv, FlightIsSound
  <2>4. /\ u \in Url
        /\ u.after # Start =>
             /\ u.view = "day" /\ page.url.view = "day"
             /\ u.from = page.url.from /\ u.staff = page.url.staff
             /\ u.status = page.url.status /\ u.after = page.url.after
    BY <2>1, RedirectsAreUrls DEF IInv
  <2>5. page' = page
    BY DEF Act
  <2> QED
    BY <2>2, <2>4, <2>5 DEF FlightIsSound
<1> QED
  BY <1>2, <1>3, <1>4, <1>5 DEF IInv

\* What others do is answered by the same statements.
LEMMA OthersKeepIInv ==
  ASSUME IInv, Others PROVE IInv'
<1>1. PICK v : FormIsSound(v) /\ Change(v)
  <2>1. PICK i \in Ids, name \in {"confirm", "complete", "cancel", "move", "ready", "promise"},
             s \in Staff, t \in Times : Change(Verb(name, i, s, t))
    BY DEF Others
  <2>2. FormIsSound(Verb(name, i, s, t))
    BY <2>1, VerbsAreSound DEF Verbs
  <2> QED
    BY <2>1, <2>2
<1>2. DiaryIsWhole' /\ PromisesFollow'
  BY <1>1, ChangesKeepTheDiary DEF Others, IInv
<1>3. PagerIsSound'
  BY ChangesKeepThePager DEF Others, IInv
<1>4. PageIsWhole' /\ FlightIsSound'
  BY DEF Others, IInv, PageIsWhole, FlightIsSound
<1>5. BoundsHold'
  BY SizesAssumption DEF Others, IInv, BoundsHold
<1> QED
  BY <1>2, <1>3, <1>4, <1>5 DEF IInv

\* A link or a filter starts a reading.
LEMMA ReadKeepsIInv ==
  ASSUME IInv, Read PROVE IInv'
<1>1. PICK u \in Links(page) \cup Filters(page) : Show(u)
  BY DEF Read
<1>2. u \in Url /\ u.after = Start
  BY <1>1, LinksAreUrls DEF IInv
<1>3. PageIsWhole' /\ PagerIsSound'
  BY <1>1, <1>2, ShowingKeepsThePage DEF Read, IInv
<1>4. DiaryIsWhole' /\ PromisesFollow' /\ BoundsHold'
  BY DEF Read, IInv, DiaryIsWhole, PromisesFollow, BoundsHold
<1>5. FlightIsSound'
  BY DEF Read, IInv, FlightIsSound
<1> QED
  BY <1>3, <1>4, <1>5 DEF IInv

\* The next page reads on from the last row shown.
LEMMA MoreKeepsIInv ==
  ASSUME IInv, More PROVE IInv'
<1> DEFINE c == NextCursor(page.read, Rows(page), page.url.after)
<1>1. PICK u : u = [page.url EXCEPT !.from = Anchor(page), !.after = c, !.error = FALSE]
  OBVIOUS
<1>2. c # Start /\ Show(u) /\ page.url.view = "day" /\ flight.at = "none" /\ UNCHANGED <<appts, now, flight, presses, others>>
  BY <1>1 DEF More
<1>3. page.read \in Reading /\ page.url \in Url /\ Rows(page) \in SUBSET Ids /\ Anchor(page) \in Days
  BY DrawnAreRows, AnchorsAreDays DEF IInv, PageIsWhole
<1>4. PICK l \in DayShown(page) : c = [at |-> page.read[l].start, id |-> l]
  BY <1>2, <1>3, CursorIsThePosition DEF DayShown
<1>5. l \in Ids /\ page.read[l].start \in Times
  BY <1>3, <1>4, FetchedAre DEF DayShown, Rest, Reading, Row
<1>6. c \in [at : Times \cup {-1}, id : Ids \cup {0}]
  BY <1>4, <1>5
<1> HIDE DEF c
<1>7. PICK p \in Url : p = page.url
  BY <1>3
<1>8. u = [p EXCEPT !.from = Anchor(page), !.after = c, !.error = FALSE]
  BY <1>1, <1>7
<1>9. u \in Url /\ u.after = c /\ u.from = Anchor(page) /\ u.view = p.view /\ u.staff = p.staff /\ u.status = p.status
  BY <1>3, <1>6, <1>8 DEF Url
<1>10. ReadsOn(u)
  BY <1>2, <1>3, <1>4, <1>7, <1>9, DaysAreNamed DEF ReadsOn
<1>11. PageIsWhole' /\ PagerIsSound'
  BY <1>2, <1>9, <1>10, ShowingKeepsThePage DEF IInv
<1>12. DiaryIsWhole' /\ PromisesFollow' /\ BoundsHold'
  BY <1>2 DEF IInv, DiaryIsWhole, PromisesFollow, BoundsHold
<1>13. FlightIsSound'
  BY <1>2 DEF IInv, FlightIsSound
<1> QED
  BY <1>11, <1>12, <1>13 DEF IInv

\* A redirect starts a reading, or comes back to the one under way.
LEMMA LandKeepsIInv ==
  ASSUME IInv, Land PROVE IInv'
<1>1. PICK u : u = flight.url
  OBVIOUS
<1>2. /\ u \in Url /\ Show(u) /\ UNCHANGED <<appts, now, presses, others>> /\ flight' = Ground
      /\ u.after # Start =>
           /\ u.view = "day" /\ page.url.view = "day"
           /\ u.from = page.url.from /\ u.staff = page.url.staff
           /\ u.status = page.url.status /\ u.after = page.url.after
  BY <1>1 DEF Land, IInv, FlightIsSound
<1>3. u.after # Start => ReadsOn(u)
  BY <1>2 DEF ReadsOn, IInv, PageIsWhole, CursorIsOfADay, Anchor
<1>4. PageIsWhole' /\ PagerIsSound'
  BY <1>2, <1>3, ShowingKeepsThePage DEF IInv
<1>5. DiaryIsWhole' /\ PromisesFollow' /\ BoundsHold'
  BY <1>2 DEF IInv, DiaryIsWhole, PromisesFollow, BoundsHold
<1>6. FlightIsSound'
  BY <1>2 DEF Ground, FlightIsSound
<1> QED
  BY <1>4, <1>5, <1>6 DEF IInv

\* What is pressed was offered.
LEMMA PressKeepsIInv ==
  ASSUME IInv, Press PROVE IInv'
<1>1. PICK v \in Offers(page) : flight' = [at |-> "out", form |-> v, url |-> page.url]
  BY DEF Press
<1>2. FormIsSound(v)
  BY OffersAreSound DEF IInv
<1>3. FlightIsSound'
  BY <1>1, <1>2 DEF FlightIsSound, Press
<1>4. DiaryIsWhole' /\ PromisesFollow' /\ PageIsWhole' /\ PagerIsSound'
  BY DEF Press, IInv, DiaryIsWhole, PromisesFollow, PageIsWhole, PagerIsSound
<1>5. BoundsHold'
  BY SizesAssumption DEF Press, IInv, BoundsHold
<1> QED
  BY <1>3, <1>4, <1>5 DEF IInv

\* The clock.
LEMMA TickKeepsIInv ==
  ASSUME IInv, Tick PROVE IInv'
<1>1. now' \in Times
  BY SizesAssumption DEF Tick, IInv, DiaryIsWhole, Times
<1> QED
  BY <1>1 DEF Tick, IInv, DiaryIsWhole, PromisesFollow, PageIsWhole, FlightIsSound, PagerIsSound, BoundsHold

\* Every step, one case each.
LEMMA StepsKeepIInv == IInv /\ [Next]_vars => IInv'
<1> SUFFICES ASSUME IInv, [Next]_vars PROVE IInv'
  OBVIOUS
<1>1. CASE Read
  BY <1>1, ReadKeepsIInv
<1>2. CASE More
  BY <1>2, MoreKeepsIInv
<1>3. CASE Press
  BY <1>3, PressKeepsIInv
<1>4. CASE Act
  BY <1>4, ActKeepsIInv
<1>5. CASE Land
  BY <1>5, LandKeepsIInv
<1>6. CASE Others
  BY <1>6, OthersKeepIInv
<1>7. CASE Tick
  BY <1>7, TickKeepsIInv
<1>8. CASE UNCHANGED vars
  BY <1>8 DEF vars, IInv, DiaryIsWhole, PromisesFollow, PageIsWhole, FlightIsSound, PagerIsSound, BoundsHold
<1> QED
  BY <1>1, <1>2, <1>3, <1>4, <1>5, <1>6, <1>7, <1>8 DEF Next

----------------------------------------------------------------------------
(* What follows.                                                             *)

\* The diary, its promises, the page, the form in flight and the pager are sound
\* in every state.
THEOREM Invariance == Spec => []IInv
<1>1. Init => IInv
  BY InitIsSound
<1>2. IInv /\ [Next]_vars => IInv'
  BY StepsKeepIInv
<1> QED
  BY <1>1, <1>2, PTL DEF Spec

\* Every link, filter, next page and redirect is an address the diary reads.
THEOREM TypeCorrect == Spec => []TypeOK
<1>1. IInv => TypeOK
  BY DEF IInv, DiaryIsWhole, PageIsWhole, FlightIsSound, BoundsHold, TypeOK, Reading, Row
<1> QED
  BY <1>1, Invariance, PTL

\* Reading a day to its end misses no row that stood still, for any page size.
THEOREM PagerMissesNothingEver == Spec => []PagerMissesNothing
<1>1. IInv => PagerMissesNothing
  <2> SUFFICES ASSUME IInv, page.url.view = "day",
                      NextCursor(page.read, Rows(page), page.url.after) = Start,
                      NEW i \in pager.steady
               PROVE  i \in pager.seen
    BY DEF PagerMissesNothing
  <2>1. page.read \in Reading /\ Rows(page) \in SUBSET Ids
    BY DrawnAreRows DEF IInv, PageIsWhole
  <2>2. Rest(page.read, Rows(page), page.url.after) \subseteq DayShown(page)
    BY <2>1, NoCursorMeansAll DEF DayShown
  <2>3. i \in Rows(page) /\ DayShown(page) \subseteq pager.seen
        /\ (i \in pager.seen \/ After(page.read, i, page.url.after))
    BY DEF IInv, PagerIsSound
  <2> QED
    BY <2>2, <2>3 DEF Rest
<1> QED
  BY <1>1, Invariance, PTL

\* Moved, promised again or readied, by anyone and in any order, a drop-off is
\* promised for after its handover and keeps the instant it was first ready.
THEOREM PromisesAreAlwaysKept == Spec => PromisesAreKept
<1> DEFINE Kept == \A i \in Ids :
                     /\ appts'[i].shelf => appts'[i].promise >= Ends(appts'[i])
                     /\ appts[i].ready # Never => appts'[i].ready = appts[i].ready
<1>1. IInv /\ [Next]_vars => [Kept]_vars
  <2> SUFFICES ASSUME IInv, Next PROVE Kept
    OBVIOUS
  <2>1. PromisesFollow'
    BY StepsKeepIInv DEF IInv
  <2>2. \A i \in Ids : appts'[i].shelf => appts'[i].promise >= Ends(appts'[i])
    BY <2>1 DEF PromisesFollow, Ends
  <2>3. \A i \in Ids : appts[i].ready # Never => appts'[i].ready = appts[i].ready
    <3>1. CASE Act
      BY <3>1, ChangesKeepTheDiary DEF Act, IInv, FlightIsSound
    <3>2. CASE Others
      <4>1. PICK i \in Ids, name \in {"confirm", "complete", "cancel", "move", "ready", "promise"},
                 s \in Staff, t \in Times : Change(Verb(name, i, s, t))
        BY <3>2 DEF Others
      <4>2. FormIsSound(Verb(name, i, s, t))
        BY <4>1, VerbsAreSound DEF Verbs
      <4> QED
        BY <3>2, <4>1, <4>2, ChangesKeepTheDiary DEF Others, IInv
    <3>3. CASE Read \/ More \/ Press \/ Land \/ Tick
      BY <3>3 DEF Read, More, Press, Land, Tick
    <3> QED
      BY <3>1, <3>2, <3>3 DEF Next
  <2> QED
    BY <2>2, <2>3
<1> QED
  BY <1>1, Invariance, PTL DEF Spec, PromisesAreKept

\* On a diary that is up to date, a verb with nothing to fill in is offered on a
\* row exactly when the statement behind it finds the row.
THEOREM DiaryAgreesEver == Spec => []DiaryAgreesWithBackend
<1>1. ASSUME IInv, Fresh, page.url.view = "day", NEW i \in Drawn(page),
             NEW name \in {"confirm", "complete", "noshow", "cancel"}
      PROVE  Bare(name, i) \in Offers(page) <=> Takes(Bare(name, i))
  <2> DEFINE a == page.read[i]
             Due == \/ name = "confirm" /\ a.status = "PENDING"
                    \/ name \in {"complete", "noshow"} /\ a.status = "CONFIRMED" /\ a.start <= page.clock
                    \/ name = "cancel" /\ a.status \in Movable
  <2>1. \A j \in Ids : Bare(name, i) \in OffersOf(page, j) <=> j = i /\ Due
    BY <1>1 DEF OffersOf, CancelDialog, Bare, Verb
  <2>2. \A j \in Ids : Bare(name, i) \notin MoveDialog(page, j) /\ Bare(name, i) \notin ChairDialog(page, j)
    BY <1>1 DEF MoveDialog, ChairDialog, Bare, Verb
  <2>3. Bare(name, i) \notin WalkIns(page)
    <3>1. \A w \in WalkIns(page) : w.verb = "walkin"
      BY DEF WalkIns, Verb
    <3>2. Bare(name, i).verb = name
      BY DEF Bare, Verb
    <3> QED
      BY <1>1, <3>1, <3>2
  <2>4. PICK v : v = Bare(name, i)
    OBVIOUS
  <2>5. Takes(v) <=> Due
    <3>1. v.verb = name /\ v.id = i /\ appts = page.read /\ now = page.clock
      BY <1>1, <2>4 DEF Bare, Verb, Fresh
    <3>2. CASE name = "confirm"
      BY <3>1, <3>2 DEF Takes
    <3>3. CASE name \in {"complete", "noshow"}
      BY <3>1, <3>3 DEF Takes
    <3>4. CASE name = "cancel"
      BY <3>1, <3>4 DEF Takes
    <3> QED
      BY <1>1, <3>2, <3>3, <3>4
  <2>6. i \in Ids /\ Drawn(page) \subseteq Ids
    BY <1>1, DrawnAreRows DEF IInv
  <2> HIDE DEF Due
  <2>7. ASSUME v \in Offers(page) PROVE Due
    <3>1. \E j \in Drawn(page) : v \in OffersOf(page, j) \/ v \in MoveDialog(page, j)
                                  \/ v \in ChairDialog(page, j)
      BY <1>1, <2>3, <2>4, <2>7 DEF Offers
    <3> QED
      BY <3>1, <2>1, <2>2, <2>4, <2>6
  <2>8. ASSUME Due PROVE v \in Offers(page)
    <3>1. v \in OffersOf(page, i)
      BY <2>1, <2>4, <2>6, <2>8
    <3> QED
      BY <1>1, <3>1 DEF Offers
  <2> QED
    BY <2>4, <2>5, <2>7, <2>8
<1>2. IInv => DiaryAgreesWithBackend
  BY <1>1 DEF DiaryAgreesWithBackend
<1> QED
  BY <1>2, Invariance, PTL

=============================================================================
