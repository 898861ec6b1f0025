-------------------------------- MODULE Shop --------------------------------
(****************************************************************************)
(* The rooms a salon is set up in: catalogue, hours, team, public page, and   *)
(* the two doors of an account that has no salon (app/dashboard/services,     *)
(* hours, team, profile, app/rejoindre, app/inscription). Each room draws its *)
(* forms from what it read; each form replaces a whole resource, so what it   *)
(* does not carry is cleared. Several people and several tabs press at once.  *)
(****************************************************************************)
EXTENDS Integers, FiniteSets

CONSTANTS
  Staff,      \* the rows of provider_staff, the vacant ones included
  NoStaff,    \* nobody
  Founder,    \* the chair that opened the salon
  Mate,       \* a chair that was there from the start
  Accounts,   \* the people who can sign in
  NoAccount,  \* user_id IS NULL
  OwnerAccount, MateAccount,  \* who holds those two chairs
  Tabs,       \* the browser tabs
  First,      \* the tab the founder signs in
  Days, Windows,  \* the week, and the opening segments by start time
  PhotoSlots, \* 0 .. MAX_PHOTOS - 1
  MaxMinted,  \* bound: identifiers and codes handed out
  MaxPresses, \* bound: forms sent
  MaxOthers   \* bound: what customers and clocks do meanwhile

ASSUME StaffAssumption ==
  NoStaff \notin Staff /\ {Founder, Mate} \subseteq Staff /\ Founder # Mate
ASSUME AccountAssumption ==
  /\ NoAccount \notin Accounts /\ {OwnerAccount, MateAccount} \subseteq Accounts
  /\ OwnerAccount # MateAccount
ASSUME SizesAssumption ==
  /\ Windows # {} /\ Windows \subseteq Nat \ {0} /\ IsFiniteSet(Windows)
  /\ PhotoSlots \subseteq Nat
  /\ MaxMinted \in Nat /\ MaxPresses \in Nat /\ MaxOthers \in Nat

VARIABLES
  salon,    \* the salon's rows
  away,     \* accounts that are active members of another salon
  booked,   \* chairs with an upcoming appointment
  holder,   \* whose session each tab carries
  page,     \* what each tab shows, and the rows it was drawn from
  flight,   \* the form each tab has sent, or the redirect it waits for
  minted, presses, others

vars == <<salon, away, booked, holder, page, flight, minted, presses, others>>

Modes == {"ON_SITE", "DROP_OFF"}
Unset == 0                      \* an hour nobody chose; windows are positive
Vacant == [here |-> FALSE, owner |-> FALSE, active |-> FALSE, bookable |-> FALSE,
           account |-> NoAccount, code |-> 0]
NoService == [here |-> FALSE, active |-> FALSE, modes |-> {}, delay |-> 0, extras |-> 0]

----------------------------------------------------------------------------
(* What the rows mean to the backend.                                         *)

Here(s) == {p \in Staff : s.team[p].here}
\* A chair customers can be given: active and bookable, both
Serving(s) == {p \in Here(s) : s.team[p].active /\ s.team[p].bookable}
\* role = 'OWNER' AND status = 'ACTIVE': an owner who left keeps the role
Reigning(s) == {p \in Here(s) : s.team[p].owner /\ s.team[p].active}

\* app_resolve_membership
Me(s, a) ==
  IF \E p \in Here(s) : s.team[p].active /\ s.team[p].account = a
  THEN CHOOSE p \in Here(s) : s.team[p].active /\ s.team[p].account = a
  ELSE NoStaff
Member(s, a) == Me(s, a) # NoStaff
IsOwner(s, a) == Member(s, a) /\ s.team[Me(s, a)].owner

HasService(s) == s.service.here /\ s.service.active

\* Mutant: any chair's week, the departed and the apprentices included.
AnyHours(s) == \E p \in Here(s) : \E d \in Days : s.hours[p][d] # {}
\* combinedOpeningHours: the weeks of the people customers can be given
HasHours(s) == \E p \in Serving(s) : \E d \in Days : s.hours[p][d] # {}

\* requireSomethingBookable
Gate(s) == HasService(s) /\ HasHours(s)
\* Mutant: readiness counts a week nobody can be booked in.
ReadyOnPaper(s) == HasService(s) /\ AnyHours(s)
\* readiness(): canPublish
CanPublish(s) == HasService(s) /\ HasHours(s) /\ Serving(s) # {}

\* wouldLeaveNobody
LeavesNobody(s, p) == s.profile.published /\ Serving(s) \ {p} = {}

\* The lowest empty slot
FreeSlots(s) == {i \in PhotoSlots : s.album[i] = 0}
Lowest(slots) == CHOOSE i \in slots : \A j \in slots : i <= j

----------------------------------------------------------------------------
(* The forms, as what they post. One record for all: a field a form has not   *)
(* keeps its blank. from is the server's own: the chair a transfer takes from. *)

Blank == [verb |-> "none", of |-> NoStaff, on |-> FALSE, bookable |-> FALSE, ticked |-> {},
          modes |-> {}, delay |-> 0, extras |-> 0, week |-> [d \in Days |-> Unset],
          open |-> {}, text |-> 0, id |-> 0, from |-> NoStaff]

\* Mutant: the fields the design has no panel for stay behind.
BareServiceForm(s) == [Blank EXCEPT !.verb = "service", !.on = s.service.active,
                                    !.modes = s.service.modes, !.delay = s.service.delay]
\* Editor: every field, five of them hidden
ServiceForm(s) == [BareServiceForm(s) EXCEPT !.extras = s.service.extras]

\* Performers: everyone the team list returns, those who left included
PerformersForm(s) == [Blank EXCEPT !.verb = "performers", !.ticked = s.performs \cap Here(s)]

\* new Map(hours.data...): one segment a day, the later one
Shown(s, p, d) == LET w == s.hours[p][d] IN
  IF w = {} THEN Unset ELSE CHOOSE x \in w : \A y \in w : y <= x
\* The week as the seven rows draw it
WeekForm(s, p) ==
  [Blank EXCEPT !.verb = "hours", !.of = p, !.week = [d \in Days |-> Shown(s, p, d)],
                !.open = {d \in Days : s.hours[p][d] # {}}]

EditForm(s, p) == [Blank EXCEPT !.verb = "member", !.of = p, !.on = s.team[p].active,
                                !.bookable = s.team[p].bookable]

\* Mutant: no control draws it, so the body does not carry it.
ProfileFormWithoutSwitch(s) == [Blank EXCEPT !.verb = "profile", !.text = s.profile.text,
                                             !.extras = s.profile.extras]
\* The profile form, its hidden fields with it
ProfileForm(s) == [ProfileFormWithoutSwitch(s) EXCEPT !.on = s.profile.published]

\* asRequest: the profile as the API takes it back, one field decided
AsRequest(read, on) == [Blank EXCEPT !.verb = "publish", !.text = read.text,
                                     !.extras = read.extras, !.on = on]

----------------------------------------------------------------------------
(* The answers of the API, and what it writes.                               *)

Commands == {"create", "service", "performers", "addPhoto", "removePhoto"}
Thresholds == {"join", "register"}
OwnersOnly == {"add", "member", "invite", "transfer", "profile", "publish"}

\* weekFrom: a day ticked open with no hours is refused, never guessed
WeekRefused(f) == \E d \in f.open : f.week[d] = Unset

\* What the server action refuses before it asks
RefusedHere(f) ==
  CASE f.verb \in {"create", "service"} /\ f.modes = {} -> "VALIDATION_FAILED"
    [] f.verb = "hours" /\ WeekRefused(f) -> "HOURS_DAY_WITHOUT_TIMES"
    [] OTHER -> "OK"

\* Whose schedule a member may write
MayWriteWeek(s, a, p) == IsOwner(s, a) \/ Me(s, a) = p

Claimable(s, id) == {p \in Here(s) : /\ id # 0 /\ s.team[p].code = id
                                     /\ s.team[p].account = NoAccount
                                     /\ s.team[p].active /\ ~s.team[p].owner}
Invitable(s, p) == s.team[p].account = NoAccount /\ ~s.team[p].owner /\ s.team[p].active
\* The recipient must be able to sign in, and be somebody else
Heir(s, from, p) == s.team[p].active /\ s.team[p].account # NoAccount /\ p # from

\* uq_provider_staff_one_active_membership
HeldElsewhere(s, p) == LET a == s.team[p].account IN
  /\ a # NoAccount
  /\ a \in away \/ \E q \in Here(s) \ {p} : s.team[q].active /\ s.team[q].account = a

\* Why the API refuses f, once it knows who asks; "OK" when it does not
JoinAnswer(s, a, f) ==
  IF Claimable(s, f.id) = {} THEN "CODE" ELSE IF Member(s, a) \/ a \in away THEN "MEMBER" ELSE "OK"
RegisterAnswer(s, a) == IF Member(s, a) \/ a \in away THEN "ALREADY_REGISTERED" ELSE "OK"
ServiceAnswer(f) == IF "DROP_OFF" \in f.modes /\ f.delay = 0 THEN "VALIDATION_FAILED" ELSE "OK"
AlbumAnswer(s, f) ==
  IF f.verb = "addPhoto" THEN IF FreeSlots(s) = {} THEN "PHOTOS_FULL" ELSE "OK"
  ELSE IF \E i \in PhotoSlots : s.album[i] = f.id THEN "OK" ELSE "NOT_FOUND"
WeekAnswer(s, a, f) ==
  IF f.verb = "reopen"
  THEN IF \E c \in s.closures : c.id = f.id /\ MayWriteWeek(s, a, c.of) THEN "OK" ELSE "NOT_FOUND"
  ELSE IF MayWriteWeek(s, a, f.of) THEN "OK" ELSE "FORBIDDEN"
ProfileAnswer(s, f) == IF f.on /\ ~Gate(s) THEN "INVALID_STATE_TRANSITION" ELSE "OK"
TeamAnswer(s, a, f) ==
  CASE f.verb \in {"add", "transfer"} -> "OK"
    [] f.verb = "member" ->
         IF ~(f.on /\ f.bookable) /\ LeavesNobody(s, f.of) THEN "INVALID_STATE_TRANSITION" ELSE "OK"
    [] f.verb = "invite" -> IF Invitable(s, f.of) THEN "OK" ELSE "NOT_INVITABLE"

\* Who may ask, then what the room's own service says
Answer(s, a, f) ==
  CASE f.verb = "join" -> JoinAnswer(s, a, f)
    [] f.verb = "register" -> RegisterAnswer(s, a)
    [] f.verb \notin Thresholds /\ ~Member(s, a) -> "FORBIDDEN"
    [] f.verb \in OwnersOnly /\ Member(s, a) /\ ~IsOwner(s, a) -> "FORBIDDEN"
    [] f.verb \in {"create", "service"} /\ Member(s, a) -> ServiceAnswer(f)
    [] f.verb = "performers" /\ Member(s, a) -> "OK"
    [] f.verb \in {"addPhoto", "removePhoto"} /\ Member(s, a) -> AlbumAnswer(s, f)
    [] f.verb \in {"hours", "close", "reopen"} /\ Member(s, a) -> WeekAnswer(s, a, f)
    [] f.verb \in {"profile", "publish"} /\ IsOwner(s, a) -> ProfileAnswer(s, f)
    [] f.verb \in {"add", "member", "invite", "transfer"} /\ IsOwner(s, a) -> TeamAnswer(s, a, f)

\* What a constraint says of the write itself, after every check has passed
Constraint(s, f) ==
  CASE f.verb = "member" /\ s.team[f.of].active /\ ~f.on /\ f.of \in booked ->
         "INVALID_STATE_TRANSITION"
    [] f.verb = "member" /\ f.on /\ HeldElsewhere(s, f.of) -> "UNKNOWN"
    [] f.verb = "member" /\ f.on /\ s.team[f.of].owner /\ Reigning(s) \ {f.of} # {} -> "UNKNOWN"
    [] f.verb = "transfer" /\ s.team[f.of].active /\ Reigning(s) \ {f.of, f.from} # {} -> "UNKNOWN"
    [] OTHER -> "OK"

\* Mutant: two statements, and only the first one ran.
HalfHandedOver(s, from, to) == [s EXCEPT !.team[to].owner = TRUE]
\* app_transfer_ownership: one UPDATE over both rows, by their ids and nothing else
HandedOver(s, from, to) == [s EXCEPT !.team[to].owner = TRUE, !.team[from].owner = FALSE]

NewRow(s) == CHOOSE p \in Staff : ~s.team[p].here

ServiceWritten(s, f) ==
  [s EXCEPT !.service = [here |-> TRUE, active |-> f.on, modes |-> f.modes,
                         delay |-> IF "DROP_OFF" \in f.modes THEN f.delay ELSE 0,
                         extras |-> f.extras],
            !.performs = IF f.verb = "create" THEN Here(s) ELSE @]
AlbumWritten(s, f) ==
  IF f.verb = "addPhoto" THEN [s EXCEPT !.album[Lowest(FreeSlots(s))] = minted + 1]
  ELSE [s EXCEPT !.album = [i \in PhotoSlots |-> IF @[i] = f.id THEN 0 ELSE @[i]]]
\* Replaced whole: a day that is not ticked is closed
Segments(f, d) == IF d \in f.open THEN {f.week[d]} ELSE {}
WeekWritten(s, f) == [s EXCEPT !.hours[f.of] = [d \in Days |-> Segments(f, d)]]
ClosuresWritten(s, f) ==
  IF f.verb = "close" THEN [s EXCEPT !.closures = @ \cup {[id |-> minted + 1, of |-> f.of]}]
  ELSE [s EXCEPT !.closures = {c \in @ : c.id # f.id}]
ProfileWritten(s, f) ==
  [s EXCEPT !.profile = [published |-> f.on, text |-> f.text, extras |-> f.extras]]
\* A chair is competent in everything from the start
Seated(s, f) ==
  [s EXCEPT !.team[NewRow(s)] = [Vacant EXCEPT !.here = TRUE, !.active = f.on,
                                               !.bookable = f.bookable],
            !.performs = IF s.service.here THEN @ \cup {NewRow(s)} ELSE @]
Joined(s, a, f) == LET p == CHOOSE p \in Claimable(s, f.id) : TRUE IN
  [s EXCEPT !.team[p].account = a, !.team[p].code = 0]

\* The rows after f
Written(s, a, f) ==
  CASE f.verb \in {"create", "service"} -> ServiceWritten(s, f)
    [] f.verb = "performers" -> [s EXCEPT !.performs = f.ticked]
    [] f.verb \in {"addPhoto", "removePhoto"} -> AlbumWritten(s, f)
    [] f.verb = "hours" -> WeekWritten(s, f)
    [] f.verb \in {"close", "reopen"} -> ClosuresWritten(s, f)
    [] f.verb = "add" -> Seated(s, f)
    [] f.verb = "member" -> [s EXCEPT !.team[f.of].active = f.on, !.team[f.of].bookable = f.bookable]
    [] f.verb = "invite" -> [s EXCEPT !.team[f.of].code = minted + 1]
    [] f.verb = "transfer" -> HandedOver(s, f.from, f.of)
    [] f.verb \in {"profile", "publish"} -> ProfileWritten(s, f)
    [] f.verb = "join" -> Joined(s, a, f)
    [] f.verb = "register" -> s

Mints(f) == f.verb \in {"addPhoto", "close", "invite"}

----------------------------------------------------------------------------
(* The rooms.                                                                *)

\* "home" stands for the rooms that only read: the checklist at the head of the
\* diary, the list of the catalogue, the preview
Rooms == {"home", "editor", "hours", "team", "profile"}
OwnerRooms == {"editor", "team", "profile"}

\* NAVIGATION, under the role the layout read
Doors(s, a) ==
  CASE Member(s, a) -> IF IsOwner(s, a) THEN Rooms ELSE Rooms \ OwnerRooms
    [] ~Member(s, a) -> Thresholds

\* Where a request for a room ends up: DashboardLayout asks nobody twice
Arrives(a, room) ==
  CASE room \in Thresholds -> room
    [] room \notin Thresholds /\ Member(salon, a) -> room
    [] room \notin Thresholds /\ ~Member(salon, a) ->
         IF a \in away THEN "elsewhere" ELSE "threshold"

\* Layout and page, read at once. A link keeps the layout that is there, with its
\* pointer: a page under an older one is out of date like any other.
Page(t, room, of) == [room |-> Arrives(holder[t], room), of |-> of, read |-> salon]

\* The person whose week the hours room shows
Whose(t, room, of) ==
  IF room # "hours" THEN NoStaff ELSE IF of # NoStaff THEN of ELSE Me(salon, holder[t])

----------------------------------------------------------------------------
(* What a page offers.                                                       *)

\* The forms that carry a resource, as they are drawn
Drawn(t) == LET p == page[t]  s == p.read IN
  CASE p.room = "editor" -> IF s.service.here THEN {ServiceForm(s), PerformersForm(s)} ELSE {}
    [] p.room = "hours" -> {WeekForm(s, p.of)}
    [] p.room = "team" -> {EditForm(s, q) : q \in Here(s)}
    [] p.room = "profile" -> {ProfileForm(s)}
    [] OTHER -> {}

\* The switch, offered only when pressing it would work
OffersSwitch(s) == CanPublish(s) \/ s.profile.published

\* Readiness: the checklist at the head of the diary, and its way to the switch
Checklist(s) ==
  IF s.profile.published THEN "none" ELSE IF CanPublish(s) THEN "publish" ELSE "missing"

\* nextStep: the first thing missing, on every other room while nothing is public
Pointer(s) ==
  CASE s.profile.published -> "none"
    [] ~s.profile.published /\ ~HasService(s) -> "service"
    [] ~s.profile.published /\ HasService(s) /\ ~HasHours(s) -> "hours"
    [] ~s.profile.published /\ HasService(s) /\ HasHours(s) ->
         IF Serving(s) = {} THEN "staff" ELSE "publish"

\* What the rooms say of publishing, each in its own words
SaysPublish(p) ==
  CASE p.room = "home" -> Checklist(p.read) = "publish"
    [] p.room = "profile" -> OffersSwitch(p.read)
    [] OTHER -> Pointer(p.read) = "publish"

\* What a hand may change on a drawn form before it is sent
\* Shape and Visibility
Reshaped(f, modes, delay, on) == [f EXCEPT !.modes = modes, !.delay = delay, !.on = on]
EditedService(f) ==
  {Reshaped(f, m, d, o) : m \in SUBSET Modes, d \in {0, 1}, o \in BOOLEAN}
\* The seven rows, and "Appliquer" over all of them
EditedWeek(f) ==
  {[f EXCEPT !.open = o] : o \in SUBSET Days}
    \cup {[f EXCEPT !.open = Days, !.week = [d \in Days |-> w]] : w \in Windows}
\* The two boxes of a member
Ticked(f, on, bookable) == [f EXCEPT !.on = on, !.bookable = bookable]
Edited(f) ==
  CASE f.verb \in {"create", "service"} -> EditedService(f)
    [] f.verb = "performers" -> {[f EXCEPT !.ticked = c] : c \in SUBSET f.ticked}
    [] f.verb = "hours" -> EditedWeek(f)
    [] f.verb = "member" -> {Ticked(f, o, b) : o \in BOOLEAN, b \in BOOLEAN}
    [] f.verb = "profile" -> {[f EXCEPT !.text = x] : x \in {0, 1}}

\* The buttons that carry no more than an identifier and a wish
NewService == Edited([Blank EXCEPT !.verb = "create", !.modes = {"ON_SITE"}, !.on = TRUE])
AlbumButtons(s) ==
  {[Blank EXCEPT !.verb = "removePhoto", !.id = s.album[i]] : i \in PhotoSlots \ FreeSlots(s)}
    \cup {[Blank EXCEPT !.verb = "addPhoto"] : i \in FreeSlots(s)}
ClosureDialog(p) == {[Blank EXCEPT !.verb = "close", !.of = p]}
ClosureList(s, p) ==
  {[Blank EXCEPT !.verb = "reopen", !.of = p, !.id = c.id] : c \in {c \in s.closures : c.of = p}}
AddDialog == {[Blank EXCEPT !.verb = "add", !.on = TRUE, !.bookable = b] : b \in BOOLEAN}
InviteMenu(s) ==
  {[Blank EXCEPT !.verb = "invite", !.of = q] : q \in {q \in Here(s) : ~s.team[q].owner}}
TransferDialogs(s, a) ==
  {[Blank EXCEPT !.verb = "transfer", !.of = q] :
     q \in {q \in Here(s) : IsOwner(s, a) /\ s.team[q].active /\ q # Me(s, a)}}
\* canDeactivate
DeactivateDialogs(s) ==
  {[EditForm(s, q) EXCEPT !.on = FALSE] :
     q \in {q \in Here(s) : s.team[q].active /\ ~s.team[q].owner}}
Switch(s) ==
  IF OffersSwitch(s) THEN {[Blank EXCEPT !.verb = "publish", !.on = ~s.profile.published]} ELSE {}
CodeForm(s) == {[Blank EXCEPT !.verb = "join", !.id = s.team[q].code] : q \in Here(s)}
RegisterForm == {[Blank EXCEPT !.verb = "register"]}

Buttons(t) == LET p == page[t]  s == p.read  a == holder[t] IN
  CASE p.room = "editor" -> IF s.service.here THEN AlbumButtons(s) ELSE NewService
    [] p.room = "hours" -> ClosureDialog(p.of) \cup ClosureList(s, p.of)
    [] p.room = "team" ->
         AddDialog \cup InviteMenu(s) \cup TransferDialogs(s, a) \cup DeactivateDialogs(s)
    [] p.room = "profile" -> Switch(s)
    [] p.room = "join" -> CodeForm(s)
    [] p.room = "register" -> RegisterForm
    [] OTHER -> {}

----------------------------------------------------------------------------
(* The browser and the server.                                               *)

Idle == [step |-> "idle", form |-> Blank, said |-> "OK"]

Room(f) ==
  CASE f.verb = "create" -> "home"
    [] f.verb \in Commands \ {"create"} -> "editor"
    [] f.verb \in {"hours", "close", "reopen"} -> "hours"
    [] f.verb \in {"add", "member", "invite", "transfer"} -> "team"
    [] f.verb \in {"profile", "publish"} -> "profile"
    [] f.verb \in Thresholds -> "home"
\* A refusal comes back to the form it is about
RefusedRoom(f) ==
  IF f.verb \in Thresholds THEN f.verb ELSE IF f.verb = "create" THEN "editor" ELSE Room(f)

\* setPublished asks for the profile first. A team row and the profile are
\* checked by one statement and written by another, and a transfer is checked by
\* two; what the rest need is asked where they write.
FirstStep(f) ==
  CASE f.verb = "publish" -> "reading"
    [] f.verb \in {"member", "profile", "transfer"} -> "checking"
    [] OTHER -> "writing"

\* A link, or the address typed again
Visit(t) ==
  /\ flight[t].step = "idle"
  /\ \E room \in Doors(salon, holder[t]) :
       \E of \in IF room = "hours" THEN Here(salon) \cup {NoStaff} ELSE {NoStaff} :
         page' = [page EXCEPT ![t] = Page(t, room, Whose(t, room, of))]
  /\ UNCHANGED <<salon, away, booked, holder, flight, minted, presses, others>>

Press(t) ==
  /\ flight[t].step = "idle" /\ presses < MaxPresses
  /\ \E f \in Buttons(t) \cup UNION {Edited(g) : g \in Drawn(t)} :
       flight' = [flight EXCEPT ![t] =
                    [step |-> IF RefusedHere(f) # "OK" THEN "back" ELSE FirstStep(f),
                     form |-> f, said |-> RefusedHere(f)]]
  /\ presses' = presses + 1
  /\ UNCHANGED <<salon, away, booked, holder, page, minted, others>>

Said(t, step, said) ==
  flight' = [flight EXCEPT ![t].step = step, ![t].said = said]

\* setPublished reads the profile back, whole, before it returns it
ReadBack(t) ==
  /\ flight[t].step = "reading"
  /\ IF Member(salon, holder[t])
     THEN flight' = [flight EXCEPT ![t].step = "checking",
                                   ![t].form = AsRequest(salon.profile, @.on)]
     ELSE Said(t, "back", "FORBIDDEN")
  /\ UNCHANGED <<salon, away, booked, holder, page, minted, presses, others>>

\* The checks of the service, on what it reads; the write is a later statement
Check(t) ==
  /\ flight[t].step = "checking" /\ flight[t].form.verb # "transfer"
  /\ LET a == Answer(salon, holder[t], flight[t].form) IN
       Said(t, IF a = "OK" THEN "writing" ELSE "back", a)
  /\ UNCHANGED <<salon, away, booked, holder, page, minted, presses, others>>

\* SELECT ... INTO v_provider: the row that gives is an active owner's
FindOwner(t) == LET a == Answer(salon, holder[t], flight[t].form) IN
  /\ flight[t].step = "checking" /\ flight[t].form.verb = "transfer"
  /\ IF a = "OK"
     THEN flight' = [flight EXCEPT ![t].step = "heir",
                                   ![t].form = [@ EXCEPT !.from = Me(salon, holder[t])]]
     ELSE Said(t, "back", a)
  /\ UNCHANGED <<salon, away, booked, holder, page, minted, presses, others>>

\* IF NOT EXISTS: so is, for now, the one that takes
FindHeir(t) == LET f == flight[t].form  found == Heir(salon, f.from, f.of) IN
  /\ flight[t].step = "heir"
  /\ Said(t, IF found THEN "writing" ELSE "back", IF found THEN "OK" ELSE "VALIDATION_FAILED")
  /\ UNCHANGED <<salon, away, booked, holder, page, minted, presses, others>>

Checked(f) == f.verb \in {"member", "profile", "publish", "transfer"}

Write(t) == LET f == flight[t].form  a == holder[t]
                no == IF Checked(f) THEN Constraint(salon, f) ELSE Answer(salon, a, f) IN
  /\ flight[t].step = "writing"
  /\ Mints(f) => minted < MaxMinted
  /\ f.verb = "add" => Here(salon) # Staff
  /\ IF no # "OK" THEN UNCHANGED <<salon, away, minted>>
     ELSE /\ salon' = Written(salon, a, f)
          /\ away' = IF f.verb = "register" THEN away \cup {a} ELSE away
          /\ minted' = IF Mints(f) THEN minted + 1 ELSE minted
  /\ Said(t, "back", no)
  /\ UNCHANGED <<booked, holder, page, presses, others>>

\* What another tab has written while t's own statements were running
Overtaking(t) ==
  {flight[u].form : u \in {u \in Tabs \ {t} : flight[u].step = "back" /\ flight[u].said = "OK"}}

\* Refused by an index: a handle somebody has taken; a transfer whose two active rows
\* it met in the wrong order; a slot or a performer that another's insert has put there
Refusable(t) == LET f == flight[t].form IN
  CASE f.verb = "register" -> TRUE
    [] f.verb = "transfer" -> f.from \in Reigning(salon) /\ salon.team[f.of].active
    [] f.verb = "addPhoto" -> \E g \in Overtaking(t) : g.verb = "addPhoto"
    [] f.verb = "performers" -> \E g \in Overtaking(t) : /\ g.verb = "performers"
                                                        /\ g.ticked \cap f.ticked # {}
    [] OTHER -> FALSE
Unlucky(t) ==
  /\ flight[t].step = "writing" /\ Refusable(t)
  /\ Said(t, "back", IF flight[t].form.verb = "register" THEN "SLUG_UNAVAILABLE" ELSE "UNKNOWN")
  /\ UNCHANGED <<salon, away, booked, holder, page, minted, presses, others>>

\* DELETE and INSERT at READ COMMITTED: what another replacement of the same rows has
\* inserted is out of this one's sight, and stays beside its own
Mingle(t) == LET f == flight[t].form IN
  /\ flight[t].step = "writing" /\ Answer(salon, holder[t], f) = "OK"
  /\ \/ /\ f.verb = "performers" /\ f.ticked \cap salon.performs = {}
        /\ \E g \in Overtaking(t) : g.verb = "performers"
        /\ salon' = [salon EXCEPT !.performs = @ \cup f.ticked]
     \/ /\ f.verb = "hours"
        /\ \E g \in Overtaking(t) : g.verb = "hours" /\ g.of = f.of
        /\ salon' = [salon EXCEPT !.hours[f.of] = [d \in Days |-> @[d] \cup Segments(f, d)]]
  /\ Said(t, "back", "OK")
  /\ UNCHANGED <<away, booked, holder, page, minted, presses, others>>

\* The redirect, followed: the page is read again
Land(t) == LET f == flight[t].form  said == flight[t].said IN
  /\ flight[t].step = "back"
  /\ page' = [page EXCEPT ![t] =
       Page(t, IF said = "OK" THEN Room(f) ELSE RefusedRoom(f),
            Whose(t, Room(f), f.of))]
  /\ flight' = [flight EXCEPT ![t] = Idle]
  /\ UNCHANGED <<salon, away, booked, holder, minted, presses, others>>

\* A customer books with somebody, or comes and goes; a code's seven days end
CustomersAndClocks ==
  /\ others < MaxOthers
  /\ \/ \E p \in Serving(salon) \ booked :
          /\ salon.profile.published /\ Gate(salon) /\ p \in salon.performs
          /\ booked' = booked \cup {p} /\ UNCHANGED salon
     \/ \E p \in booked : booked' = booked \ {p} /\ UNCHANGED salon
     \/ \E p \in Here(salon) : /\ salon.team[p].code # 0
                               /\ salon' = [salon EXCEPT !.team[p].code = 0]
                               /\ UNCHANGED booked
  /\ others' = others + 1
  /\ UNCHANGED <<away, holder, page, flight, minted, presses>>

\* A salon that has opened, with two people to be given or with one, or one
\* whose founder has only said when they work. A week of several segments has come
\* through the API, or of two forms that were saved at once.
Salon(mate, trading, week) ==
  [team |-> [p \in Staff |->
     CASE p = Founder -> [Vacant EXCEPT !.here = TRUE, !.owner = TRUE, !.active = TRUE,
                                        !.bookable = TRUE, !.account = OwnerAccount]
       [] p = Mate -> [Vacant EXCEPT !.here = TRUE, !.active = TRUE, !.account = mate,
                                     !.bookable = trading /\ week # Windows]
       [] OTHER -> Vacant],
   service |-> IF trading THEN [here |-> TRUE, active |-> TRUE, modes |-> Modes,
                                delay |-> 1, extras |-> 1] ELSE NoService,
   performs |-> IF trading THEN {Founder, Mate} ELSE {},
   album |-> [i \in PhotoSlots |-> 0],
   hours |-> [p \in Staff |-> [d \in Days |-> IF p = Founder THEN week ELSE {}]],
   closures |-> {},
   profile |-> [published |-> trading, text |-> 0, extras |-> 1]]

Init ==
  /\ holder \in {h \in [Tabs -> Accounts] : h[First] = OwnerAccount}
  /\ \E mate \in {MateAccount, NoAccount}, trading \in BOOLEAN,
       week \in {Windows, {CHOOSE w \in Windows : TRUE}} :
       /\ mate = NoAccount <=> \E t \in Tabs : holder[t] \notin {OwnerAccount, MateAccount}
       /\ week = Windows => trading /\ MateAccount \in {holder[t] : t \in Tabs}
       /\ salon = Salon(mate, trading, week)
       /\ booked = IF trading THEN {Founder} ELSE {}
  /\ away = {}
  /\ page = [t \in Tabs |-> Page(t, "home", NoStaff)]
  /\ flight = [t \in Tabs |-> Idle]
  /\ minted = 0 /\ presses = 0 /\ others = 0

Next ==
  \/ \E t \in Tabs :
       \/ Visit(t) \/ Press(t) \/ Land(t)
       \/ ReadBack(t) \/ Check(t) \/ FindOwner(t) \/ FindHeir(t)
       \/ Write(t) \/ Unlucky(t) \/ Mingle(t)
  \/ CustomersAndClocks

Spec == Init /\ [][Next]_vars

----------------------------------------------------------------------------
(* Properties.                                                               *)

SalonType(s) ==
  /\ s.team \in [Staff -> [here : BOOLEAN, owner : BOOLEAN, active : BOOLEAN,
                           bookable : BOOLEAN, account : Accounts \cup {NoAccount},
                           code : 0..MaxMinted]]
  /\ s.service \in [here : BOOLEAN, active : BOOLEAN, modes : SUBSET Modes, delay : {0, 1},
                    extras : {0, 1}]
  /\ s.performs \subseteq Here(s)
  /\ s.album \in [PhotoSlots -> 0..MaxMinted]
  /\ \A i, j \in PhotoSlots : i # j /\ s.album[i] # 0 => s.album[i] # s.album[j]
  /\ s.hours \in [Staff -> [Days -> SUBSET Windows]]
  /\ s.closures \subseteq [id : 1..MaxMinted, of : Staff]
  /\ s.profile \in [published : BOOLEAN, text : {0, 1}, extras : {0, 1}]
  /\ "DROP_OFF" \in s.service.modes <=> s.service.delay # 0
  /\ \E p \in Here(s) : s.team[p].owner
  /\ Cardinality(Reigning(s)) <= 1

\* The rows are rows the schema admits: somebody has the owner's role and one active
\* member at most (V040's index; an heir disabled under a transfer leaves none), one
\* membership an account, one photograph a slot, a promised delay exactly where things
\* are dropped off.
TypeOK ==
  /\ SalonType(salon)
  /\ \A p \in Staff : salon.team[p].active => ~HeldElsewhere(salon, p)
  /\ booked \subseteq {p \in Staff : salon.team[p].active}
  /\ away \subseteq Accounts /\ holder \in [Tabs -> Accounts]
  /\ \A t \in Tabs : SalonType(page[t].read)
  /\ minted \in 0..MaxMinted /\ presses \in 0..MaxPresses /\ others \in 0..MaxOthers

Fresh(t) == flight[t].step = "idle" /\ page[t].read = salon

\* "Readiness answers with the same predicates the gate uses, so this and
\* publishing cannot disagree" (profile/page.tsx): on a page that is up to date,
\* the checklist, the pointer of the other rooms and the switch say that
\* publishing works exactly when it does.
SwitchAgreesWithGate ==
  \A t \in Tabs : Fresh(t) /\ IsOwner(salon, holder[t]) /\ page[t].room \in Rooms =>
    LET p == page[t]
        works == Answer(salon, holder[t], AsRequest(salon.profile, ~salon.profile.published)) = "OK"
    IN SaysPublish(p) <=> works /\ (p.room # "profile" => ~salon.profile.published)

\* A week the seven rows can hold: one segment a day
Faithful(f) == f.verb = "hours" => \A d \in Days : Cardinality(salon.hours[f.of][d]) <= 1

\* Every request replaces its resource whole, so a form sent as it was drawn must
\* change nothing: whatever its room does not draw has to travel with it.
UntouchedFormsChangeNothing ==
  \A t \in Tabs : Fresh(t) =>
    \A f \in Drawn(t) :
      Faithful(f) /\ RefusedHere(f) = "OK" /\ Answer(salon, holder[t], f) = "OK"
        => Written(salon, holder[t], f) = salon

\* A page goes live or dark by the switch, pressed on a page that showed it as it then
\* was, or by the words' form, drawn before it had last gone live or dark: the words of
\* an up-to-date page never move it, and the switch never undoes what it did not show.
EachFormItsOwn == [][
  salon'.profile.published # salon.profile.published =>
    \E t \in Tabs : LET drawn == page[t].read.profile.published IN
      /\ flight[t].step = "writing" /\ flight'[t].step = "back"
      /\ \/ flight[t].form.verb = "publish" /\ drawn = salon.profile.published
         \/ flight[t].form.verb = "profile" /\ drawn # salon.profile.published]_vars

=============================================================================
