--------------------------- MODULE SessionProofs ---------------------------
(****************************************************************************)
(* The cookies of a browser agree, a sign-out is no question and an ended     *)
(* session opens nothing for longer than its last token, for any number of    *)
(* tabs, paths, sign-ins and outages, and however the answers arrive.         *)
(****************************************************************************)
EXTENDS Session, FiniteSetTheorems, TLAPS

\* A session somebody was given: it carries a hint for the sign-out, and its token
\* was issued before now, and before its end at the realm.
Good(s) ==
  /\ s \in Sealed
  /\ s.hint = TRUE
  /\ s.expires + Margin <= now + Life
  /\ s.expires + Margin <= realm.ended[s.at] + Life

\* The jar holds the pieces of one session with the hint, or neither.
JarIsWhole(j) ==
  /\ DOMAIN j = {"pieces", "hint", "pkce"}
  /\ j.pkce.next \in Paths
  /\ \/ j.pieces = [i \in 1..MaxChunks |-> Gap] /\ j.hint = FALSE
     \/ j.hint = TRUE /\ \E s \in Sealed : Good(s) /\ j.pieces = Chunks(s)

\* A response writes a whole session, clears one, or leaves it.
CookiesAreWhole(c) ==
  /\ DOMAIN c = {"session", "of", "pkce", "started"}
  /\ c.session \in {"keep", "write", "clear"}
  /\ c.session = "write" => Good(c.of)
  /\ c.started.next \in Paths

\* What a tab waits for has a session wherever its handler was given one.
TabIsWhole(x) ==
  /\ DOMAIN x = {"at", "to", "wants", "state", "sess", "started", "cookies", "since"}
  /\ x.to \in Paths \cup (Screens \ {"question"}) \cup Handlers
  /\ x.wants \in Paths
  /\ x.started.next \in Paths
  /\ x.sess = Nobody \/ Good(x.sess)
  /\ x.at \in {"renewing", "rendering"} \/ (x.at # "idle" /\ x.to = "end") => Good(x.sess)
  /\ x.at = "answered" => x.to \notin {"callback", "logout"}
  /\ x.at = "sent" /\ x.to = "callback" => x.since \in 0..MaxSignIns
  /\ CookiesAreWhole(x.cookies)

RealmIsSound ==
  /\ DOMAIN realm = {"answers", "ended", "sso", "last"}
  /\ realm.ended \in [1..MaxSignIns -> 0..Forever]
  /\ realm.sso \in 0..MaxSignIns /\ realm.last \in 0..MaxSignIns
  /\ now \in 0..MaxNow

IInv ==
  /\ RealmIsSound
  /\ JarIsWhole(jar)
  /\ DOMAIN tab = Tabs
  /\ \A t \in Tabs : TabIsWhole(tab[t])

----------------------------------------------------------------------------
(* The cookies.                                                              *)

\* A whole session is read back from its own pieces, and from nothing else.
LEMMA PiecesAreRead ==
  ASSUME NEW s \in Sealed
  PROVE  /\ ReadSealed(Chunks(s)) = s
         /\ s # Nobody
<1> DEFINE p == Chunks(s)
<1>1. s.pieces \in 1..2 /\ 1..s.pieces \subseteq 1..MaxChunks /\ 1 \in 1..MaxChunks
  BY ChunkAssumption DEF Sealed, Lengths
<1>2. \A i \in 1..MaxChunks : p[i] = IF i <= s.pieces THEN [of |-> s, i |-> i] ELSE Gap
  BY DEF Chunks
<1>3. \A i \in 1..MaxChunks : [of |-> s, i |-> i] # Gap
  <2>1. SUFFICES ASSUME NEW i \in 1..MaxChunks, [of |-> s, i |-> i] = Gap PROVE FALSE
    OBVIOUS
  <2>2. [of |-> s, i |-> i].i = 0
    BY <2>1 DEF Gap
  <2> QED
    BY <2>2
<1>4. \A i \in 1..MaxChunks : p[i] # Gap <=> i <= s.pieces
  BY <1>2, <1>3
<1>5. Prefix(p) = 1..s.pieces
  BY <1>1, <1>4, ChunkAssumption DEF Prefix
<1>6. Prefix(p) # {} /\ p[1].of = s /\ \A i \in Prefix(p) : p[i].of = s
  <2>1. \A i \in 1..s.pieces : p[i] = [of |-> s, i |-> i] /\ [of |-> s, i |-> i].of = s
    BY <1>1, <1>2
  <2>2. 1 \in 1..s.pieces
    BY <1>1
  <2> HIDE DEF p
  <2> QED
    BY <1>5, <2>1, <2>2
<1>7. s # Nobody
  BY <1>1 DEF Nobody
<1> HIDE DEF p
<1>8. ReadSealed(p) = s
  BY <1>5, <1>6 DEF ReadSealed
<1> QED
  BY <1>7, <1>8 DEF p

\* With no pieces there is nobody.
LEMMA NoPiecesNobody == ReadSealed([i \in 1..MaxChunks |-> Gap]) = Nobody
<1> DEFINE p == [i \in 1..MaxChunks |-> Gap]
<1>1. Prefix(p) = {}
  <2>1. SUFFICES ASSUME NEW i \in Prefix(p) PROVE FALSE
    OBVIOUS
  <2>2. i \in 1..MaxChunks /\ i \in 1..i
    BY <2>1, ChunkAssumption DEF Prefix
  <2> QED
    BY <2>1, <2>2 DEF Prefix
<1> QED
  BY <1>1 DEF ReadSealed

\* What a request reads of a whole jar: nobody, or somebody's whole session.
LEMMA JarIsRead ==
  ASSUME NEW j, JarIsWhole(j)
  PROVE  ReadSealed(j.pieces) = Nobody \/ Good(ReadSealed(j.pieces))
<1>1. CASE j.pieces = [i \in 1..MaxChunks |-> Gap]
  BY <1>1, NoPiecesNobody
<1>2. CASE \E s \in Sealed : Good(s) /\ j.pieces = Chunks(s)
  BY <1>2, PiecesAreRead
<1> QED
  BY <1>1, <1>2 DEF JarIsWhole

\* A whole jar is one whose cookies agree.
LEMMA WholeJarsAgree == ASSUME JarIsWhole(jar) PROVE CookiesAgree
<1>1. CASE jar.pieces = [i \in 1..MaxChunks |-> Gap] /\ jar.hint = FALSE
  BY <1>1, NoPiecesNobody DEF CookiesAgree
<1>2. CASE jar.hint = TRUE /\ \E s \in Sealed : Good(s) /\ jar.pieces = Chunks(s)
  BY <1>2, PiecesAreRead DEF CookiesAgree
<1> QED
  BY <1>1, <1>2 DEF JarIsWhole

----------------------------------------------------------------------------
(* What is made of whole parts is whole.                                     *)

\* Even the path kept for nobody's attempt is a path.
LEMMA NobodyStartsSomewhere == NotStarted.next \in Paths
  BY PathAssumption DEF NotStarted

\* The cookies of each response of the code.
LEMMA ResponsesAreWhole ==
  /\ CookiesAreWhole(Keep)
  /\ CookiesAreWhole(Clearing)
  /\ \A s : Good(s) => CookiesAreWhole(Writing(s))
  /\ \A st : st.next \in Paths => CookiesAreWhole(Starting(st))
  /\ \A c : CookiesAreWhole(c) => CookiesAreWhole(Ending(c))
<1>1. CookiesAreWhole(Keep) /\ CookiesAreWhole(Clearing)
  BY NobodyStartsSomewhere DEF CookiesAreWhole, Keep, Clearing
<1>2. ASSUME NEW s, Good(s) PROVE CookiesAreWhole(Writing(s))
  <2>1. /\ DOMAIN Writing(s) = {"session", "of", "pkce", "started"}
        /\ Writing(s).session = "write" /\ Writing(s).of = s
        /\ Writing(s).started = NotStarted
    BY DEF Writing, Keep
  <2> QED
    BY <1>2, <2>1, NobodyStartsSomewhere DEF CookiesAreWhole
<1>3. ASSUME NEW st, st.next \in Paths PROVE CookiesAreWhole(Starting(st))
  <2>1. /\ DOMAIN Starting(st) = {"session", "of", "pkce", "started"}
        /\ Starting(st).session = "keep" /\ Starting(st).started = st
    BY DEF Starting, Keep
  <2> QED
    BY <1>3, <2>1 DEF CookiesAreWhole
<1>4. ASSUME NEW c, CookiesAreWhole(c) PROVE CookiesAreWhole(Ending(c))
  BY <1>4 DEF CookiesAreWhole, Ending
<1> QED
  BY <1>1, <1>2, <1>3, <1>4

\* A response that arrives leaves a whole jar whole.
LEMMA AppliedIsWhole ==
  ASSUME NEW j, JarIsWhole(j), NEW c, CookiesAreWhole(c)
  PROVE  JarIsWhole(Applied(j, c))
<1> DEFINE k == CASE c.session = "write" -> WriteSealed(j, c.of)
                  [] c.session = "clear" -> ClearSealed(j)
                  [] OTHER -> j
<1>1. JarIsWhole(k)
  <2>1. CASE c.session = "write"
    BY <2>1 DEF JarIsWhole, CookiesAreWhole, WriteSealed, Good
  <2>2. CASE c.session = "clear"
    BY <2>2 DEF JarIsWhole, ClearSealed
  <2>3. CASE c.session = "keep"
    BY <2>3
  <2> QED
    BY <2>1, <2>2, <2>3 DEF CookiesAreWhole
<1>2. Applied(j, c) = CASE c.pkce = "set" -> [k EXCEPT !.pkce = c.started]
                        [] c.pkce = "delete" -> [k EXCEPT !.pkce = NotStarted]
                        [] OTHER -> k
  BY DEF Applied
<1> HIDE DEF k
<1>3. CASE c.pkce = "set"
  BY <1>1, <1>2, <1>3 DEF JarIsWhole, CookiesAreWhole
<1>4. CASE c.pkce = "delete"
  BY <1>1, <1>2, <1>4, NobodyStartsSomewhere DEF JarIsWhole
<1>5. CASE c.pkce \notin {"set", "delete"}
  BY <1>1, <1>2, <1>5
<1> QED
  BY <1>3, <1>4, <1>5

\* A request leaves with what its handler reads of a whole jar.
LEMMA SentIsWhole ==
  ASSUME NEW j, JarIsWhole(j), NEW wants \in Paths, NEW state,
         NEW to \in Paths \cup {"login", "realm", "logout"}
  PROVE  TabIsWhole(Sent(to, wants, state, j))
<1>1. ReadSealed(j.pieces) = Nobody \/ Good(ReadSealed(j.pieces))
  BY JarIsRead
<1>2. to \in Paths \cup (Screens \ {"question"}) \cup Handlers /\ to # "end" /\ to # "callback"
  BY PathAssumption DEF Handlers
<1>3. CookiesAreWhole(Keep)
  BY ResponsesAreWhole
<1> DEFINE x == Sent(to, wants, state, j)
<1>4. /\ DOMAIN x = {"at", "to", "wants", "state", "sess", "started", "cookies", "since"}
      /\ x.at = "sent" /\ x.to = to /\ x.wants = wants /\ x.cookies = Keep
      /\ x.started = NotStarted
  BY <1>2 DEF Sent, Blank
<1>5. x.sess = Nobody \/ Good(x.sess)
  <2>1. x.sess = IF to \in Paths \cup {"logout"} THEN ReadSealed(j.pieces) ELSE Nobody
    BY DEF Sent, Blank
  <2> QED
    BY <1>1, <2>1
<1> HIDE DEF x
<1>6. TabIsWhole(x)
  BY <1>2, <1>3, <1>4, <1>5, NobodyStartsSomewhere DEF TabIsWhole
<1> QED
  BY <1>6 DEF x

\* A request sent back by the realm, for a session of the realm or none.
LEMMA CallbackIsWhole ==
  ASSUME NEW j, JarIsWhole(j), NEW wants \in Paths, NEW state, NEW r \in 0..MaxSignIns
  PROVE  TabIsWhole([Sent("callback", wants, state, j) EXCEPT !.since = r])
<1>1. CookiesAreWhole(Keep) /\ "callback" \notin Paths \cup {"logout"}
  BY ResponsesAreWhole, PathAssumption DEF Handlers
<1> DEFINE y == Sent("callback", wants, state, j)
           x == [y EXCEPT !.since = r]
<1>2. /\ DOMAIN y = {"at", "to", "wants", "state", "sess", "started", "cookies", "since"}
      /\ y.at = "sent" /\ y.to = "callback" /\ y.wants = wants /\ y.cookies = Keep
      /\ y.started = j.pkce
  BY DEF Sent, Blank
<1>3. y.sess = Nobody
  <2>1. y.sess = IF "callback" \in Paths \cup {"logout"} THEN ReadSealed(j.pieces) ELSE Nobody
    BY DEF Sent, Blank
  <2> QED
    BY <1>1, <2>1
<1>4. j.pkce.next \in Paths
  BY DEF JarIsWhole
<1> HIDE DEF y
<1>5. /\ DOMAIN x = DOMAIN y /\ x.since = r
      /\ x.at = y.at /\ x.to = y.to /\ x.wants = y.wants /\ x.cookies = y.cookies
      /\ x.started = y.started /\ x.sess = y.sess
  BY <1>2
<1> HIDE DEF x
<1>6. TabIsWhole(x)
  BY <1>1, <1>2, <1>3, <1>4, <1>5 DEF TabIsWhole, Handlers
<1> QED
  BY <1>6 DEF x, y

\* A request to the realm's end-session endpoint, with somebody's hint.
LEMMA EndingIsWhole ==
  ASSUME NEW j, NEW wants \in Paths, NEW s, Good(s)
  PROVE  TabIsWhole([Sent("end", wants, 0, j) EXCEPT !.sess = s])
<1> DEFINE y == Sent("end", wants, 0, j)
           x == [y EXCEPT !.sess = s]
<1>1. /\ DOMAIN y = {"at", "to", "wants", "state", "sess", "started", "cookies", "since"}
      /\ y.at = "sent" /\ y.to = "end" /\ y.wants = wants /\ y.cookies = Keep
      /\ y.started = NotStarted
  BY DEF Sent, Blank
<1> HIDE DEF y
<1>2. /\ DOMAIN x = DOMAIN y /\ x.sess = s
      /\ x.at = y.at /\ x.to = y.to /\ x.wants = y.wants /\ x.cookies = y.cookies
      /\ x.started = y.started
  BY <1>1
<1> HIDE DEF x
<1>3. CookiesAreWhole(Keep)
  BY ResponsesAreWhole
<1>4. TabIsWhole(x)
  BY <1>1, <1>2, <1>3, NobodyStartsSomewhere DEF TabIsWhole, Handlers
<1> QED
  BY <1>4 DEF x, y

\* A response on its way, and a screen that is shown.
LEMMA AnsweredIsWhole ==
  ASSUME NEW t, TabIsWhole(tab[t]), NEW cookies, CookiesAreWhole(cookies),
         NEW to \in Paths \cup (Screens \ {"question"}) \cup {"login", "realm", "end"},
         to = "end" => Good(tab[t].sess)
  PROVE  TabIsWhole(Answered(t, to, cookies))
<1> DEFINE x == Answered(t, to, cookies)
<1>1. /\ DOMAIN x = {"at", "to", "wants", "state", "sess", "started", "cookies", "since"}
      /\ x.at = "answered" /\ x.to = to /\ x.cookies = cookies /\ x.started = NotStarted
  BY DEF Answered, Blank
<1>0. /\ to \in Paths \cup (Screens \ {"question"}) \cup Handlers
      /\ to \notin {"callback", "logout"}
  BY PathAssumption DEF Handlers, Screens
<1>2. x.wants = IF to \in Screens \cup {"end"} THEN NotStarted.next ELSE tab[t].wants
  BY DEF Answered, Blank
<1>3. x.sess = IF to = "end" THEN tab[t].sess ELSE Nobody
  BY DEF Answered, Blank
<1>4. /\ x.wants \in Paths
      /\ x.sess = Nobody \/ Good(x.sess)
      /\ to = "end" => Good(x.sess)
  BY <1>2, <1>3, NobodyStartsSomewhere DEF TabIsWhole
<1> HIDE DEF x
<1>5. TabIsWhole(x)
  BY <1>0, <1>1, <1>4, NobodyStartsSomewhere DEF TabIsWhole
<1> QED
  BY <1>5 DEF x

\* A screen on which a tab comes to rest.
LEMMA ShownIsWhole ==
  ASSUME NEW t, TabIsWhole(tab[t]), NEW screen \in Screens \ {"question"}
  PROVE  TabIsWhole(Shows(t, screen))
<1>1. CookiesAreWhole(Keep) /\ screen # "end" /\ screen # "callback"
  BY ResponsesAreWhole DEF Screens
<1> QED
  BY <1>1, NobodyStartsSomewhere DEF Shows, Blank, TabIsWhole

\* A token issued now, for a session the realm still has.
LEMMA TokensAreGood ==
  ASSUME RealmIsSound, NEW r \in 0..MaxSignIns, Grants(r), NEW s \in Tokens(r, TRUE)
  PROVE  Good(s)
<1>1. r \in 1..MaxSignIns /\ realm.ended[r] \in Nat /\ realm.ended[r] > now /\ now \in 0..MaxNow
  BY BoundAssumption, LifeAssumption DEF Grants, Alive, RealmIsSound, Forever
<1>2. Expiry(now) \in 0..(MaxNow + Life) /\ Expiry(now) + Margin = now + Life
  BY <1>1, BoundAssumption, LifeAssumption DEF Expiry
<1>3. 1 + (now % 2) \in 1..2
  BY <1>1
<1>4. s = [at |-> r, expires |-> Expiry(now), hint |-> TRUE, pieces |-> 1 + (now % 2)]
  BY DEF Tokens
<1>5. s.at = r /\ s.expires = Expiry(now) /\ s.hint = TRUE /\ s \in Sealed
  BY <1>1, <1>2, <1>3, <1>4 DEF Sealed, Lengths
<1> QED
  BY <1>1, <1>2, <1>5, BoundAssumption, LifeAssumption DEF Good

----------------------------------------------------------------------------
(* Time passes, sessions end, and what was whole stays whole.                *)

\* What any step does to the realm: no session ends in the past.
RealmGoesOn ==
  /\ RealmIsSound'
  /\ now <= now'
  /\ \A r \in 1..MaxSignIns : realm'.ended[r] = realm.ended[r] \/ now <= realm'.ended[r]

\* A session somebody was given stays one.
LEMMA GoodStays ==
  ASSUME RealmIsSound, RealmGoesOn
  PROVE  \A s : Good(s) => Good(s)'
<1>1. SUFFICES ASSUME NEW s, Good(s) PROVE Good(s)'
  OBVIOUS
<1>2. s \in Sealed /\ s.at \in 1..MaxSignIns /\ s.expires \in Nat
  BY <1>1, BoundAssumption, LifeAssumption DEF Good, Sealed
<1>3. now \in Nat /\ now' \in Nat /\ realm.ended[s.at] \in Nat /\ realm'.ended[s.at] \in Nat
  BY <1>2, BoundAssumption, LifeAssumption DEF RealmGoesOn, RealmIsSound, Forever
<1>4. /\ s.expires + Margin <= now + Life
      /\ s.expires + Margin <= realm.ended[s.at] + Life
  BY <1>1 DEF Good
<1>5. now <= now' /\ (realm'.ended[s.at] = realm.ended[s.at] \/ now <= realm'.ended[s.at])
  BY <1>2 DEF RealmGoesOn
<1>6. /\ s.expires + Margin <= now' + Life
      /\ s.expires + Margin <= realm'.ended[s.at] + Life
  BY <1>2, <1>3, <1>4, <1>5, LifeAssumption
<1> QED
  BY <1>1, <1>6 DEF Good

\* So do the jar and the tabs that hold it.
LEMMA WholeStays ==
  ASSUME RealmIsSound, RealmGoesOn
  PROVE  /\ \A x : TabIsWhole(x) => TabIsWhole(x)'
         /\ \A j : JarIsWhole(j) => JarIsWhole(j)'
<1>1. \A s : Good(s) => Good(s)'
  BY GoodStays
<1>2. \A c : CookiesAreWhole(c) => CookiesAreWhole(c)'
  BY <1>1 DEF CookiesAreWhole
<1>3. \A x : TabIsWhole(x) => TabIsWhole(x)'
  BY <1>1, <1>2 DEF TabIsWhole
<1>4. \A j : JarIsWhole(j) => JarIsWhole(j)'
  BY <1>1 DEF JarIsWhole
<1> QED
  BY <1>3, <1>4

\* A step that gives one tab a whole state, and the jar whole contents.
LEMMA OneTabMoves ==
  ASSUME IInv, RealmGoesOn, NEW t \in Tabs, NEW x, TabIsWhole(x),
         tab' = [tab EXCEPT ![t] = x], NEW j, JarIsWhole(j), jar' = j
  PROVE  IInv'
<1>1. RealmIsSound /\ RealmIsSound'
  BY DEF IInv, RealmGoesOn
<1>2. TabIsWhole(x)' /\ JarIsWhole(j)' /\ \A u \in Tabs : TabIsWhole(tab[u]) 
  BY <1>1, WholeStays DEF IInv
<1>3. DOMAIN tab' = Tabs
  BY DEF IInv
<1>4. \A u \in Tabs : tab'[u] = IF u = t THEN x ELSE tab[u]
  BY DEF IInv
<1> QED
  BY <1>1, <1>2, <1>3, <1>4, WholeStays DEF IInv

\* A step that leaves the realm and the clock alone.
LEMMA StandingRealm == ASSUME IInv, UNCHANGED <<realm, now>> PROVE RealmGoesOn
  BY DEF IInv, RealmIsSound, RealmGoesOn

----------------------------------------------------------------------------
(* Every step keeps the invariant: the person.                               *)

\* A page asked for, with what the jar holds.
LEMMA VisitStep == ASSUME IInv, NEW t \in Tabs, NEW p \in Paths, Visit(t, p) PROVE IInv'
<1>1. RealmGoesOn
  BY StandingRealm DEF Visit
<1>2. TabIsWhole(Sent(p, p, 0, jar)) /\ JarIsWhole(jar)
  BY SentIsWhole DEF IInv
<1> QED
  BY <1>1, <1>2, OneTabMoves DEF Visit

\* The sign-out button, with what the jar holds.
LEMMA SignOutStep == ASSUME IInv, NEW t \in Tabs, SignOut(t) PROVE IInv'
<1>1. RealmGoesOn
  BY StandingRealm DEF SignOut
<1>2. tab[t].wants \in Paths /\ JarIsWhole(jar)
  BY DEF IInv, TabIsWhole
<1>3. TabIsWhole(Sent("logout", tab[t].wants, 0, jar))
  BY <1>2, SentIsWhole
<1>4. tab' = [tab EXCEPT ![t] = Sent("logout", tab[t].wants, 0, jar)] /\ jar' = jar
  BY DEF SignOut
<1> QED
  BY <1>1, <1>2, <1>3, <1>4, OneTabMoves

\* A password opens a realm session, the latest or the next one.
LEMMA TypePasswordStep == ASSUME IInv, NEW t \in Tabs, TypePassword(t) PROVE IInv'
<1> DEFINE r == IF Alive(realm.sso) THEN realm.sso ELSE realm.last + 1
           x == [Sent("callback", tab[t].wants, tab[t].state, jar) EXCEPT !.since = r]
<1>1. r \in 0..MaxSignIns
  BY BoundAssumption DEF TypePassword, IInv, RealmIsSound
<1>2. realm' = [realm EXCEPT !.sso = r, !.last = IF r > @ THEN r ELSE @]
  BY DEF TypePassword
<1>3. tab' = [tab EXCEPT ![t] = x] /\ jar' = jar /\ now' = now
  BY DEF TypePassword
<1>4. tab[t].wants \in Paths /\ JarIsWhole(jar)
  BY DEF IInv, TabIsWhole
<1> HIDE DEF r
<1>5. TabIsWhole(x)
  BY <1>1, <1>4, CallbackIsWhole
<1>6. RealmGoesOn
  BY <1>1, <1>2, <1>3 DEF IInv, RealmIsSound, RealmGoesOn
<1> HIDE DEF x
<1> QED
  BY <1>3, <1>4, <1>5, <1>6, OneTabMoves

----------------------------------------------------------------------------
(* The proxy, and the page it lets through.                                  *)

\* proxy() sends nobody on, and lets nobody through, without a session.
LEMMA ProxyStep == ASSUME IInv, NEW t \in Tabs, Proxy(t) PROVE IInv'
<1> DEFINE x == tab[t]
<1>1. RealmGoesOn
  BY StandingRealm DEF Proxy
<1>2. TabIsWhole(x) /\ JarIsWhole(jar) /\ jar' = jar
  BY DEF IInv, Proxy
<1>3. x.to \in Paths /\ x.to # "end"
  BY PathAssumption DEF Proxy, Handlers
<1>4. CASE x.sess = Nobody
  <2>1. tab' = [tab EXCEPT ![t] = Answered(t, "login", Keep)]
    BY <1>4 DEF Proxy, SignIn
  <2>2. TabIsWhole(Answered(t, "login", Keep))
    BY <1>2, AnsweredIsWhole, ResponsesAreWhole
  <2> QED
    BY <1>1, <1>2, <2>1, <2>2, OneTabMoves
<1>5. CASE x.sess # Nobody /\ x.sess.expires > now
  <2> DEFINE y == [x EXCEPT !.at = "rendering", !.since = now]
  <2>1. tab' = [tab EXCEPT ![t] = y]
    BY <1>5 DEF Proxy
  <2>2. TabIsWhole(y)
    BY <1>2, <1>3, <1>5 DEF TabIsWhole
  <2> QED
    BY <1>1, <1>2, <2>1, <2>2, OneTabMoves
<1>6. CASE x.sess # Nobody /\ ~(x.sess.expires > now)
  <2> DEFINE y == [x EXCEPT !.at = "renewing"]
  <2>1. tab' = [tab EXCEPT ![t] = y]
    BY <1>6 DEF Proxy
  <2>2. TabIsWhole(y)
    BY <1>2, <1>3, <1>6 DEF TabIsWhole
  <2> QED
    BY <1>1, <1>2, <2>1, <2>2, OneTabMoves
<1> QED
  BY <1>4, <1>5, <1>6

\* refresh() hands over and writes the same fresh tokens, or clears.
LEMMA RenewStep == ASSUME IInv, NEW t \in Tabs, Renew(t) PROVE IInv'
<1> DEFINE x == tab[t]
<1>1. RealmGoesOn
  BY StandingRealm DEF Renew
<1>2. TabIsWhole(x) /\ JarIsWhole(jar) /\ jar' = jar /\ RealmIsSound
  BY DEF IInv, Renew
<1>3. Good(x.sess) /\ x.sess.at \in 0..MaxSignIns /\ x.sess.hint = TRUE
  <2>1. Good(x.sess)
    BY <1>2 DEF TabIsWhole, Renew
  <2>2. x.sess \in Sealed /\ x.sess.hint = TRUE
    BY <2>1 DEF Good
  <2>3. x.sess.at \in 1..MaxSignIns
    BY <2>2 DEF Sealed
  <2> QED
    BY <2>1, <2>2, <2>3, BoundAssumption
<1>4. ASSUME Grants(x.sess.at), NEW s \in Tokens(x.sess.at, x.sess.hint),
             tab' = [tab EXCEPT ![t] = [@ EXCEPT !.at = "rendering", !.sess = s,
                                                 !.since = now, !.cookies = Writing(s)]]
      PROVE  IInv'
  <2> DEFINE y == [x EXCEPT !.at = "rendering", !.sess = s, !.since = now,
                            !.cookies = Writing(s)]
  <2>1. Good(s)
    BY <1>2, <1>3, <1>4, TokensAreGood
  <2>2. CookiesAreWhole(Writing(s))
    BY <2>1, ResponsesAreWhole
  <2>3. TabIsWhole(y)
    BY <1>2, <2>1, <2>2 DEF TabIsWhole
  <2>4. tab' = [tab EXCEPT ![t] = y]
    BY <1>4
  <2> QED
    BY <1>1, <1>2, <2>3, <2>4, OneTabMoves
<1>5. ASSUME tab' = [tab EXCEPT ![t] = SignIn(t, Clearing)] PROVE IInv'
  <2>1. TabIsWhole(Answered(t, "login", Clearing))
    BY <1>2, AnsweredIsWhole, ResponsesAreWhole
  <2> QED
    BY <1>1, <1>2, <1>5, <2>1, OneTabMoves DEF SignIn
<1> QED
  BY <1>4, <1>5 DEF Renew

\* api() leaves the response the cookies the proxy gave it.
LEMMA RenderStep == ASSUME IInv, NEW t \in Tabs, Render(t) PROVE IInv'
<1>1. RealmGoesOn
  BY StandingRealm DEF Render
<1>2. TabIsWhole(tab[t]) /\ JarIsWhole(jar) /\ jar' = jar
  BY DEF IInv, Render
<1>3. PICK to \in {"page", "error"} :
        tab' = [tab EXCEPT ![t] = Answered(t, to, tab[t].cookies)]
  BY DEF Render
<1>4. to \in Screens \ {"question"} /\ to # "end" /\ CookiesAreWhole(tab[t].cookies)
  BY <1>2 DEF Screens, TabIsWhole
<1>5. TabIsWhole(Answered(t, to, tab[t].cookies))
  BY <1>2, <1>4, AnsweredIsWhole
<1> QED
  BY <1>1, <1>2, <1>3, <1>5, OneTabMoves

----------------------------------------------------------------------------
(* The handlers.                                                             *)

\* The login handler writes an attempt that leads back to a path.
LEMMA LoginStep == ASSUME IInv, NEW t \in Tabs, Login(t) PROVE IInv'
<1> DEFINE st == [state |-> Fresh, next |-> Next_(t)]
<1>1. RealmGoesOn
  BY StandingRealm DEF Login
<1>2. TabIsWhole(tab[t]) /\ JarIsWhole(jar) /\ jar' = jar
  BY DEF IInv, Login
<1>3. st.next \in Paths
  BY <1>2 DEF TabIsWhole, Next_
<1>4. TabIsWhole(Answered(t, "realm", Starting(st)))
  <2> HIDE DEF st
  <2> QED
    BY <1>2, <1>3, AnsweredIsWhole, ResponsesAreWhole
<1>5. TabIsWhole(Shows(t, "error"))
  BY <1>2, ShownIsWhole DEF Screens
<1>6. \/ tab' = [tab EXCEPT ![t] = Answered(t, "realm", Starting(st))]
      \/ tab' = [tab EXCEPT ![t] = Shows(t, "error")]
  BY DEF Login
<1> HIDE DEF st
<1> QED
  BY <1>1, <1>2, <1>4, <1>5, <1>6, OneTabMoves

\* The realm answers with a code for its SSO session, or a screen.
LEMMA AuthorizeStep == ASSUME IInv, NEW t \in Tabs, Authorize(t) PROVE IInv'
<1> DEFINE x == [Sent("callback", tab[t].wants, tab[t].state, jar) EXCEPT !.since = realm.sso]
<1>1. RealmGoesOn
  BY StandingRealm DEF Authorize
<1>2. TabIsWhole(tab[t]) /\ JarIsWhole(jar) /\ jar' = jar
  BY DEF IInv, Authorize
<1>3. tab[t].wants \in Paths /\ realm.sso \in 0..MaxSignIns
  BY <1>2 DEF TabIsWhole, IInv, RealmIsSound
<1>4. TabIsWhole(x)
  BY <1>2, <1>3, CallbackIsWhole
<1>5. TabIsWhole(Shows(t, "error")) /\ TabIsWhole(Shows(t, "password"))
  BY <1>2, ShownIsWhole DEF Screens
<1>6. \/ tab' = [tab EXCEPT ![t] = x]
      \/ tab' = [tab EXCEPT ![t] = Shows(t, "error")]
      \/ tab' = [tab EXCEPT ![t] = Shows(t, "password")]
  BY DEF Authorize
<1> HIDE DEF x
<1> QED
  BY <1>1, <1>2, <1>4, <1>5, <1>6, OneTabMoves

\* The callback writes fresh tokens, or none.
LEMMA CallbackStep == ASSUME IInv, NEW t \in Tabs, Callback(t) PROVE IInv'
<1>1. RealmGoesOn
  BY StandingRealm DEF Callback
<1>2. TabIsWhole(tab[t]) /\ JarIsWhole(jar) /\ jar' = jar /\ RealmIsSound
  BY DEF IInv, Callback
<1>3. /\ tab[t].since \in 0..MaxSignIns
      /\ tab[t].started.next \in Paths /\ tab[t].started.next # "end"
  BY <1>2, PathAssumption DEF TabIsWhole, Callback, Handlers
<1>4. ASSUME Grants(tab[t].since), NEW s \in Tokens(tab[t].since, TRUE)
      PROVE  TabIsWhole(Answered(t, tab[t].started.next, Ending(Writing(s))))
  <2>1. Good(s)
    BY <1>2, <1>3, <1>4, TokensAreGood
  <2>2. CookiesAreWhole(Ending(Writing(s)))
    BY <2>1, ResponsesAreWhole
  <2> QED
    BY <1>2, <1>3, <2>2, AnsweredIsWhole
<1>5. TabIsWhole(Answered(t, "home", Ending(Keep)))
  BY <1>2, AnsweredIsWhole, ResponsesAreWhole DEF Screens
<1>6. \/ /\ Grants(tab[t].since)
         /\ \E s \in Tokens(tab[t].since, TRUE) :
              tab' = [tab EXCEPT ![t] = Answered(t, tab[t].started.next, Ending(Writing(s)))]
      \/ tab' = [tab EXCEPT ![t] = Answered(t, "home", Ending(Keep))]
  BY DEF Callback
<1> QED
  BY <1>1, <1>2, <1>4, <1>5, <1>6, OneTabMoves

\* The logout handler clears, and goes on to the realm with a session only.
LEMMA LogoutStep == ASSUME IInv, NEW t \in Tabs, Logout(t) PROVE IInv'
<1>1. RealmGoesOn
  BY StandingRealm DEF Logout
<1>2. TabIsWhole(tab[t]) /\ JarIsWhole(jar) /\ jar' = jar /\ CookiesAreWhole(Clearing)
  BY ResponsesAreWhole DEF IInv, Logout
<1>3. TabIsWhole(Answered(t, "home", Clearing)) /\ TabIsWhole(Shows(t, "error"))
  BY <1>2, AnsweredIsWhole, ShownIsWhole DEF Screens
<1>4. CASE tab[t].sess # Nobody
  <2>1. TabIsWhole(Answered(t, "end", Clearing))
    BY <1>2, <1>4, AnsweredIsWhole DEF TabIsWhole
  <2>2. \/ tab' = [tab EXCEPT ![t] = Answered(t, "end", Clearing)]
        \/ tab' = [tab EXCEPT ![t] = Shows(t, "error")]
    BY <1>4 DEF Logout
  <2> QED
    BY <1>1, <1>2, <1>3, <2>1, <2>2, OneTabMoves
<1>5. CASE tab[t].sess = Nobody
  <2>1. tab' = [tab EXCEPT ![t] = Answered(t, "home", Clearing)]
    BY <1>5 DEF Logout
  <2> QED
    BY <1>1, <1>2, <1>3, <2>1, OneTabMoves
<1> QED
  BY <1>4, <1>5

\* A realm session that ends now ends no earlier than now.
LEMMA AnEndIsSound ==
  ASSUME RealmIsSound, NEW r \in 1..MaxSignIns, NEW sso \in 0..MaxSignIns,
         realm' = [realm EXCEPT !.ended[r] = now, !.sso = sso], now' = now
  PROVE  RealmGoesOn
<1>1. now \in 0..Forever /\ now \in Nat
  BY BoundAssumption, LifeAssumption DEF RealmIsSound, Forever
<1>2. /\ DOMAIN realm' = DOMAIN realm /\ realm'.sso = sso /\ realm'.last = realm.last
      /\ realm'.ended = [realm.ended EXCEPT ![r] = now]
  BY DEF RealmIsSound
<1>3. realm'.ended \in [1..MaxSignIns -> 0..Forever]
  BY <1>1, <1>2 DEF RealmIsSound
<1>4. \A q \in 1..MaxSignIns : realm'.ended[q] = realm.ended[q] \/ now <= realm'.ended[q]
  BY <1>1, <1>2 DEF RealmIsSound
<1> QED
  BY <1>1, <1>2, <1>3, <1>4 DEF RealmIsSound, RealmGoesOn

\* The realm is always given a hint, so it never asks.
LEMMA EndSessionStep == ASSUME IInv, NEW t \in Tabs, EndSession(t) PROVE IInv'
<1>1. TabIsWhole(tab[t]) /\ JarIsWhole(jar) /\ jar' = jar /\ now' = now
  BY DEF IInv, EndSession
<1>2. Good(tab[t].sess)
  BY <1>1 DEF TabIsWhole, EndSession
<1>3. tab[t].sess.hint = TRUE /\ tab[t].sess.at \in 1..MaxSignIns
  <2>1. tab[t].sess \in Sealed
    BY <1>2 DEF Good
  <2> QED
    BY <1>2, <2>1 DEF Good, Sealed
<1>4. RealmGoesOn
  <2>1. CASE realm' = realm
    BY <1>1, <2>1, StandingRealm
  <2>2. CASE realm' = [realm EXCEPT !.ended[tab[t].sess.at] = now,
                                    !.sso = IF @ = tab[t].sess.at THEN 0 ELSE @]
    <3> DEFINE sso == IF realm.sso = tab[t].sess.at THEN 0 ELSE realm.sso
    <3>1. RealmIsSound /\ sso \in 0..MaxSignIns
      BY BoundAssumption DEF IInv, RealmIsSound
    <3>2. realm' = [realm EXCEPT !.ended[tab[t].sess.at] = now, !.sso = sso]
      BY <2>2
    <3> HIDE DEF sso
    <3> QED
      BY <1>1, <1>3, <3>1, <3>2, AnEndIsSound
  <2> QED
    BY <2>1, <2>2 DEF EndSession
<1>5. \/ tab' = [tab EXCEPT ![t] = Shows(t, "error")]
      \/ tab' = [tab EXCEPT ![t] = Shows(t, "home")]
  BY <1>3 DEF EndSession
<1>6. TabIsWhole(Shows(t, "error")) /\ TabIsWhole(Shows(t, "home"))
  BY <1>1, ShownIsWhole DEF Screens
<1> QED
  BY <1>1, <1>4, <1>5, <1>6, OneTabMoves

----------------------------------------------------------------------------
(* The browser, the clock and the realm's own life.                          *)

\* A response arrives: a whole jar, and a request that reads it.
LEMMA ReceiveStep == ASSUME IInv, NEW t \in Tabs, Receive(t) PROVE IInv'
<1> DEFINE j == Applied(jar, tab[t].cookies)
           to == tab[t].to
<1>1. RealmGoesOn
  BY StandingRealm DEF Receive
<1>2. TabIsWhole(tab[t]) /\ JarIsWhole(j) /\ jar' = j
  BY AppliedIsWhole DEF IInv, TabIsWhole, Receive
<1>3. /\ tab[t].wants \in Paths
      /\ to \in Paths \cup (Screens \ {"question"}) \cup {"login", "realm", "end"}
  BY <1>2 DEF TabIsWhole, Receive, Handlers
<1> HIDE DEF j
<1>4. CASE to \in Paths \cup {"login"}
  <2>1. tab' = [tab EXCEPT ![t] = Sent(to, tab[t].wants, 0, j)]
    <3>1. CASE to \in Paths
      BY <3>1, PathAssumption DEF Receive, Handlers, j
    <3>2. CASE to = "login"
      BY <3>2, PathAssumption DEF Receive, Handlers, j
    <3> QED
      BY <1>4, <3>1, <3>2
  <2>2. TabIsWhole(Sent(to, tab[t].wants, 0, j))
    BY <1>2, <1>3, <1>4, SentIsWhole
  <2> QED
    BY <1>1, <1>2, <2>1, <2>2, OneTabMoves
<1>5. CASE to = "realm"
  <2>1. tab' = [tab EXCEPT ![t] = Sent(to, tab[t].wants, tab[t].cookies.started.state, j)]
    BY <1>5, PathAssumption DEF Receive, Handlers, j
  <2>2. TabIsWhole(Sent(to, tab[t].wants, tab[t].cookies.started.state, j))
    BY <1>2, <1>3, <1>5, SentIsWhole
  <2> QED
    BY <1>1, <1>2, <2>1, <2>2, OneTabMoves
<1>6. CASE to = "end"
  <2> DEFINE x == [Sent(to, tab[t].wants, 0, j) EXCEPT !.sess = tab[t].sess]
  <2>1. tab' = [tab EXCEPT ![t] = x]
    BY <1>6, PathAssumption DEF Receive, Handlers, j
  <2>2. Good(tab[t].sess)
    BY <1>2, <1>6 DEF TabIsWhole, Receive
  <2>3. TabIsWhole(x)
    BY <1>3, <1>6, <2>2, EndingIsWhole
  <2> HIDE DEF x
  <2> QED
    BY <1>1, <1>2, <2>1, <2>3, OneTabMoves
<1>7. CASE to \in Screens \ {"question"}
  <2>1. tab' = [tab EXCEPT ![t] = Shows(t, to)]
    BY <1>7, PathAssumption DEF Receive, Screens, j
  <2>2. TabIsWhole(Shows(t, to))
    BY <1>2, <1>7, ShownIsWhole
  <2> QED
    BY <1>1, <1>2, <2>1, <2>2, OneTabMoves
<1> QED
  BY <1>3, <1>4, <1>5, <1>6, <1>7

\* The tabs and the jar stand while the realm goes on.
LEMMA OnlyTheRealmMoves ==
  ASSUME IInv, RealmGoesOn, UNCHANGED <<jar, tab>> PROVE IInv'
<1>1. RealmIsSound /\ RealmIsSound' /\ DOMAIN tab' = Tabs
  BY DEF IInv, RealmGoesOn
<1>2. JarIsWhole(jar) /\ \A u \in Tabs : TabIsWhole(tab[u])
  BY DEF IInv
<1>3. tab' = tab /\ jar' = jar
  OBVIOUS
<1> QED
  BY <1>1, <1>2, <1>3, WholeStays DEF IInv

\* Time passes.
LEMMA TickStep == ASSUME IInv, Tick PROVE IInv'
<1>1. RealmGoesOn
  BY BoundAssumption DEF Tick, IInv, RealmIsSound, RealmGoesOn
<1> QED
  BY <1>1, OnlyTheRealmMoves DEF Tick

\* The realm forgets its SSO session.
LEMMA ForgetStep == ASSUME IInv, Forget PROVE IInv'
<1>1. RealmIsSound /\ now' = now /\ realm.sso \in 1..MaxSignIns /\ 0 \in 0..MaxSignIns
  BY BoundAssumption DEF Forget, Alive, IInv, RealmIsSound
<1>2. RealmGoesOn
  BY <1>1, AnEndIsSound DEF Forget
<1> QED
  BY <1>2, OnlyTheRealmMoves DEF Forget

\* The realm's health is nobody's cookie.
LEMMA OutageStep == ASSUME IInv, NEW a, Outage(a) PROVE IInv'
<1>1. RealmGoesOn
  BY DEF Outage, IInv, RealmIsSound, RealmGoesOn
<1> QED
  BY <1>1, OnlyTheRealmMoves DEF Outage

----------------------------------------------------------------------------
(* The theorems.                                                             *)

\* A browser with no cookie is whole.
LEMMA InitHolds == Init => IInv
<1> SUFFICES ASSUME Init PROVE IInv
  OBVIOUS
<1>1. RealmIsSound
  BY BoundAssumption, LifeAssumption DEF Init, RealmIsSound, Forever
<1>2. JarIsWhole(jar)
  BY NobodyStartsSomewhere DEF Init, JarIsWhole
<1>3. TabIsWhole(Blank)
  BY NobodyStartsSomewhere, ResponsesAreWhole DEF Blank, TabIsWhole, Screens
<1> QED
  BY <1>1, <1>2, <1>3 DEF Init, IInv

\* Every step keeps the invariant.
LEMMA NextHolds == IInv /\ [Next]_vars => IInv'
<1> SUFFICES ASSUME IInv, [Next]_vars PROVE IInv'
  OBVIOUS
<1>1. CASE UNCHANGED vars
  <2>1. RealmGoesOn
    BY <1>1, StandingRealm DEF vars
  <2> QED
    BY <1>1, <2>1, OnlyTheRealmMoves DEF vars
<1>2. ASSUME NEW t \in Tabs, Handle(t) PROVE IInv'
  BY <1>2, ProxyStep, RenewStep, RenderStep, LoginStep, AuthorizeStep, CallbackStep,
     LogoutStep, EndSessionStep, ReceiveStep DEF Handle
<1>3. ASSUME NEW t \in Tabs, SignOut(t) \/ TypePassword(t) \/ \E p \in Paths : Visit(t, p)
      PROVE  IInv'
  BY <1>3, SignOutStep, TypePasswordStep, VisitStep
<1>4. ASSUME Tick \/ Forget \/ \E a \in {"up", "booting", "off"} : Outage(a) PROVE IInv'
  BY <1>4, TickStep, ForgetStep, OutageStep
<1> QED
  BY <1>1, <1>2, <1>3, <1>4 DEF Next

\* Whatever order answers arrive in, what is in the jar, under way and in a
\* handler's hands is one whole session or none.
THEOREM InvariantHolds == Spec => []IInv
  BY InitHolds, NextHolds, PTL DEF Spec

\* writeSealed() and clearSealed(), which set or delete every piece and the hint
\* in each response, never leave a mixture in the jar.
THEOREM CookiesAlwaysAgree == Spec => []CookiesAgree
<1>1. IInv => CookiesAgree
  BY WholeJarsAgree DEF IInv
<1> QED
  BY <1>1, InvariantHolds, PTL

\* The hint that token() carries forward is there for every sign-out.
THEOREM SignOutIsNeverAQuestion == Spec => []SignOutIsNoQuestion
<1>1. IInv => SignOutIsNoQuestion
  BY PathAssumption DEF IInv, TabIsWhole, SignOutIsNoQuestion, Screens, Handlers
<1> QED
  BY <1>1, InvariantHolds, PTL

\* A page is shown only by Render, for a session that has not expired.
LEMMA OnlyRenderedWhileCurrent ==
  ASSUME IInv, Next, NEW t \in Tabs,
         tab[t].at = "rendering", tab'[t].to = "page", tab'[t].at = "answered"
  PROVE  tab[t].sess.expires > now
<1>1. DOMAIN tab = Tabs
  BY DEF IInv
<1>2. tab'[t] # tab[t]
  OBVIOUS
<1>3. PICK u \in Tabs : Handle(u) \/ SignOut(u) \/ TypePassword(u) \/ \E p \in Paths : Visit(u, p)
  BY <1>2 DEF Next, Tick, Forget, Outage
<1>4. \E x : tab' = [tab EXCEPT ![u] = x]
  <2>1. CASE Proxy(u)
    BY <2>1 DEF Proxy
  <2>2. CASE Renew(u)
    BY <2>2 DEF Renew
  <2>3. CASE Render(u)
    BY <2>3 DEF Render
  <2>4. CASE Login(u)
    BY <2>4 DEF Login
  <2>5. CASE Authorize(u)
    BY <2>5 DEF Authorize
  <2>6. CASE Callback(u)
    BY <2>6 DEF Callback
  <2>7. CASE Logout(u)
    BY <2>7 DEF Logout
  <2>8. CASE EndSession(u)
    BY <2>8 DEF EndSession
  <2>9. CASE Receive(u)
    BY <2>9 DEF Receive
  <2>10. CASE SignOut(u)
    BY <2>10 DEF SignOut
  <2>11. CASE TypePassword(u)
    BY <2>11 DEF TypePassword
  <2>12. CASE \E p \in Paths : Visit(u, p)
    BY <2>12 DEF Visit
  <2> QED
    BY <1>3, <2>1, <2>2, <2>3, <2>4, <2>5, <2>6, <2>7, <2>8, <2>9, <2>10, <2>11, <2>12
       DEF Handle
<1>5. u = t
  BY <1>1, <1>2, <1>4
<1>6. Render(t)
  BY <1>3, <1>5 DEF Handle, Proxy, Renew, Login, Authorize, Callback, Logout, EndSession,
     Receive, Idle, SignOut, TypePassword, Visit
<1>7. CASE CurrentSession(tab[t].sess) /\ ApiTakes(tab[t].sess)
  BY <1>7 DEF CurrentSession
<1>8. CASE ~(CurrentSession(tab[t].sess) /\ ApiTakes(tab[t].sess))
  <2>1. tab'[t] = Answered(t, "error", tab[t].cookies)
    BY <1>1, <1>6, <1>8 DEF Render
  <2>2. Answered(t, "error", tab[t].cookies).to = "error"
    BY DEF Answered, Blank
  <2> QED
    BY <2>1, <2>2
<1> QED
  BY <1>7, <1>8

\* A page opened for a session that has ended at the realm was opened with a token
\* issued before its end: none is issued after it, and none outlives Life.
THEOREM AccessDies == Spec => AccessDiesWithTheRealm
<1> DEFINE Step == \A t \in Tabs :
                     tab[t].at = "rendering" /\ tab'[t].to = "page" /\ tab'[t].at = "answered"
                       => now < realm.ended[tab[t].sess.at] + Life - Margin
<1>1. IInv /\ [Next]_vars => [Step]_vars
  <2> SUFFICES ASSUME IInv, Next, NEW t \in Tabs,
                      tab[t].at = "rendering", tab'[t].to = "page", tab'[t].at = "answered"
               PROVE  now < realm.ended[tab[t].sess.at] + Life - Margin
    OBVIOUS
  <2> DEFINE s == tab[t].sess
  <2>1. Good(s)
    BY DEF IInv, TabIsWhole
  <2>2. s.expires > now
    BY OnlyRenderedWhileCurrent
  <2>3. s \in Sealed /\ s.at \in 1..MaxSignIns /\ s.expires \in Nat
    BY <2>1, BoundAssumption, LifeAssumption DEF Good, Sealed
  <2>4. now \in Nat /\ realm.ended[s.at] \in Nat
    BY <2>3, BoundAssumption, LifeAssumption DEF IInv, RealmIsSound, Forever
  <2>5. s.expires + Margin <= realm.ended[s.at] + Life
    BY <2>1 DEF Good
  <2> HIDE DEF s
  <2>6. now < realm.ended[s.at] + Life - Margin
    BY <2>2, <2>3, <2>4, <2>5, LifeAssumption
  <2> QED
    BY <2>6 DEF s
<1> QED
  BY <1>1, InvariantHolds, PTL DEF Spec, AccessDiesWithTheRealm


----------------------------------------------------------------------------
(* Attempts, and the types.                                                  *)

\* The attempts a browser carries are begun with a state, or were never begun; and
\* a tab that asks to sign in has none of its own.
AttemptsAreTyped(x) ==
  /\ x.state \in States \cup {0}
  /\ x.cookies.started \in Started \cup {NotStarted}
  /\ x.at = "idle" => x.to \in Screens
  /\ x.at = "sent" /\ x.to = "login" => x.state = 0

Surroundings ==
  /\ realm.answers \in {"up", "booting", "off"}
  /\ discovered \in {"unasked", "known", "broken"}
  /\ outages \in 0..MaxOutages

Typed ==
  /\ Surroundings
  /\ jar.pkce \in Started \cup {NotStarted}
  /\ \A t \in Tabs : AttemptsAreTyped(tab[t])

\* A set has no more images than members.
LEMMA ImagesAreFew ==
  ASSUME NEW S, IsFiniteSet(S), NEW f
  PROVE  /\ IsFiniteSet({f[x] : x \in S})
         /\ Cardinality({f[x] : x \in S}) <= Cardinality(S)
<1> DEFINE T == {f[x] : x \in S}
           g == [x \in S |-> f[x]]
<1>1. g \in Surjection(S, T)
  BY DEF Surjection
<1> HIDE DEF g, T
<1>2. IsFiniteSet(T) /\ Cardinality(T) <= Cardinality(S)
  BY <1>1, FS_Surjection
<1> QED
  BY <1>2 DEF T

\* Two states for each tab and one for the jar leave a fresh one for a tab that has
\* none: the randomness of login/route.ts, counted.
LEMMA FreshIsThere ==
  ASSUME NEW t \in Tabs, tab[t].state = 0
  PROVE  Fresh \in States
<1> DEFINE n == Cardinality(Tabs)
           at == [u \in Tabs |-> tab[u].state]
           set == [u \in Tabs |-> tab[u].cookies.started.state]
           U == {at[u] : u \in Tabs \ {t}}
           V == {set[u] : u \in Tabs}
           used == (U \cup V) \cup {jar.pkce.state}
<1>1. n \in Nat /\ IsFiniteSet(Tabs \ {t}) /\ Cardinality(Tabs \ {t}) = n - 1
  BY TabsAssumption, FS_CardinalityType, FS_RemoveElement
<1>2. IsFiniteSet(U) /\ Cardinality(U) <= n - 1 /\ Cardinality(U) \in Nat
  <2> HIDE DEF at, n
  <2> QED
    BY <1>1, ImagesAreFew, FS_CardinalityType
<1>3. IsFiniteSet(V) /\ Cardinality(V) <= n /\ Cardinality(V) \in Nat
  <2> HIDE DEF set
  <2> QED
    BY TabsAssumption, ImagesAreFew, FS_CardinalityType
<1>4. IsFiniteSet(States) /\ Cardinality(States) = 2 * n + 1
  BY <1>1, FS_Interval DEF States
<1>5. PICK s \in States : s \notin used
  <2> HIDE DEF U, V, n
  <2>1. /\ IsFiniteSet(U \cup V) /\ Cardinality(U \cup V) \in Nat
        /\ Cardinality(U \cup V) <= 2 * n - 1
    <3>1. IsFiniteSet(U \cap V)
      BY <1>2, FS_Subset
    <3>2. Cardinality(U \cap V) \in Nat
      BY <3>1, FS_CardinalityType
    <3>3. /\ IsFiniteSet(U \cup V)
          /\ Cardinality(U \cup V) = Cardinality(U) + Cardinality(V) - Cardinality(U \cap V)
      BY <1>2, <1>3, FS_Union
    <3>4. Cardinality(U \cup V) \in Nat
      BY <3>3, FS_CardinalityType
    <3>5. Cardinality(U) + Cardinality(V) - Cardinality(U \cap V) <= 2 * n - 1
      BY <1>1, <1>2, <1>3, <3>2
    <3> QED
      BY <3>3, <3>4, <3>5
  <2>2. IsFiniteSet(used) /\ Cardinality(used) <= 2 * n
    <3> DEFINE W == U \cup V
    <3>1. /\ IsFiniteSet(W) /\ Cardinality(W) \in Nat /\ Cardinality(W) <= 2 * n - 1
      BY <2>1
    <3> HIDE DEF W
    <3>2. /\ IsFiniteSet(W \cup {jar.pkce.state})
          /\ Cardinality(W \cup {jar.pkce.state})
                = IF jar.pkce.state \in W THEN Cardinality(W) ELSE Cardinality(W) + 1
      BY <3>1, FS_AddElement
    <3>3. Cardinality(W \cup {jar.pkce.state}) <= 2 * n
      BY <1>1, <3>1, <3>2
    <3> QED
      BY <3>2, <3>3 DEF W
  <2> HIDE DEF used
  <2>3. Cardinality(used) \in Nat
    BY <2>2, FS_CardinalityType
  <2>4. ~(States \subseteq used)
    BY <1>1, <1>4, <2>2, <2>3, FS_Subset
  <2> QED
    BY <2>4
<1>6. s # jar.pkce.state /\ s # 0
  BY <1>1, <1>5 DEF States
<1>7. ASSUME NEW u \in Tabs PROVE s \notin {tab[u].state, tab[u].cookies.started.state}
  <2>1. s # tab[u].cookies.started.state
    BY <1>5
  <2>2. CASE u = t
    BY <1>6, <2>1, <2>2
  <2>3. CASE u # t
    BY <1>5, <2>1, <2>3
  <2> QED
    BY <2>2, <2>3
<1> HIDE DEF used
<1>8. \E x \in States : /\ x # jar.pkce.state
                        /\ \A u \in Tabs : x \notin {tab[u].state, tab[u].cookies.started.state}
  BY <1>5, <1>6, <1>7
<1> QED
  BY <1>8, Zenon DEF Fresh

\* A request, a response and a screen have the attempts they are given.
LEMMA SentIsTyped ==
  ASSUME NEW to, NEW wants, NEW state \in States \cup {0}, NEW j, to = "login" => state = 0
  PROVE  AttemptsAreTyped(Sent(to, wants, state, j))
<1> DEFINE x == Sent(to, wants, state, j)
<1>1. x.at = "sent" /\ x.to = to /\ x.state = state /\ x.cookies.started = NotStarted
  BY DEF Sent, Blank, Keep
<1> HIDE DEF x
<1>2. AttemptsAreTyped(x)
  BY <1>1 DEF AttemptsAreTyped
<1> QED
  BY <1>2 DEF x

\* So has a request that is given a realm session besides.
LEMMA GivenIsTyped ==
  ASSUME NEW to, NEW wants, NEW state \in States \cup {0}, NEW j, to # "login", NEW r
  PROVE  /\ AttemptsAreTyped([Sent(to, wants, state, j) EXCEPT !.since = r])
         /\ AttemptsAreTyped([Sent(to, wants, state, j) EXCEPT !.sess = r])
<1> DEFINE x == Sent(to, wants, state, j)
           y == [x EXCEPT !.since = r]
           z == [x EXCEPT !.sess = r]
<1>1. /\ DOMAIN x = {"at", "to", "wants", "state", "sess", "started", "cookies", "since"}
      /\ x.at = "sent" /\ x.to = to /\ x.state = state /\ x.cookies.started = NotStarted
  BY DEF Sent, Blank, Keep
<1> HIDE DEF x
<1>2. y.at = x.at /\ y.to = x.to /\ y.state = x.state /\ y.cookies = x.cookies
  BY <1>1
<1>3. z.at = x.at /\ z.to = x.to /\ z.state = x.state /\ z.cookies = x.cookies
  BY <1>1
<1> HIDE DEF y, z
<1>4. AttemptsAreTyped(y) /\ AttemptsAreTyped(z)
  BY <1>1, <1>2, <1>3 DEF AttemptsAreTyped
<1> QED
  BY <1>4 DEF x, y, z

\* A response carries the attempt it starts, and nothing else of one.
LEMMA AnsweredIsTyped ==
  ASSUME NEW t, NEW to, NEW c, c.started \in Started \cup {NotStarted}
  PROVE  AttemptsAreTyped(Answered(t, to, c))
<1> DEFINE x == Answered(t, to, c)
<1>1. x.at = "answered" /\ x.state = 0 /\ x.cookies = c
  BY DEF Answered, Blank
<1> HIDE DEF x
<1>2. AttemptsAreTyped(x)
  BY <1>1 DEF AttemptsAreTyped
<1> QED
  BY <1>2 DEF x

\* The password screen keeps the state it was asked with; the others keep none.
LEMMA ShownIsTyped ==
  ASSUME NEW t, AttemptsAreTyped(tab[t]), NEW screen \in Screens
  PROVE  AttemptsAreTyped(Shows(t, screen))
<1> DEFINE x == Shows(t, screen)
<1>1. /\ x.at = "idle" /\ x.to = screen /\ x.cookies.started = NotStarted
      /\ x.state = IF screen = "password" THEN tab[t].state ELSE 0
  BY DEF Shows, Blank, Keep
<1> HIDE DEF x
<1>2. AttemptsAreTyped(x)
  BY <1>1 DEF AttemptsAreTyped
<1> QED
  BY <1>2 DEF x

\* What each response starts.
LEMMA ResponsesStart ==
  /\ Keep.started = NotStarted /\ Clearing.started = NotStarted
  /\ \A s : Writing(s).started = NotStarted
  /\ \A st : Starting(st).started = st
  /\ Ending(Keep).started = NotStarted
  /\ \A s : Ending(Writing(s)).started = NotStarted
  BY DEF Keep, Clearing, Writing, Starting, Ending

\* A jar keeps the attempt it has, or is given the response's.
LEMMA AppliedIsTyped ==
  ASSUME NEW j, JarIsWhole(j), NEW c, CookiesAreWhole(c),
         j.pkce \in Started \cup {NotStarted}, c.started \in Started \cup {NotStarted}
  PROVE  Applied(j, c).pkce \in Started \cup {NotStarted}
<1> DEFINE k == CASE c.session = "write" -> WriteSealed(j, c.of)
                  [] c.session = "clear" -> ClearSealed(j)
                  [] OTHER -> j
<1>1. DOMAIN k = DOMAIN j /\ k.pkce = j.pkce
  <2>1. CASE c.session = "write"
    BY <2>1 DEF JarIsWhole, WriteSealed
  <2>2. CASE c.session = "clear"
    BY <2>2 DEF JarIsWhole, ClearSealed
  <2>3. CASE c.session = "keep"
    BY <2>3
  <2> QED
    BY <2>1, <2>2, <2>3 DEF CookiesAreWhole
<1>2. Applied(j, c) = CASE c.pkce = "set" -> [k EXCEPT !.pkce = c.started]
                        [] c.pkce = "delete" -> [k EXCEPT !.pkce = NotStarted]
                        [] OTHER -> k
  BY DEF Applied
<1> HIDE DEF k
<1>3. CASE c.pkce = "set"
  BY <1>1, <1>2, <1>3 DEF JarIsWhole
<1>4. CASE c.pkce = "delete"
  BY <1>1, <1>2, <1>4 DEF JarIsWhole
<1>5. CASE c.pkce \notin {"set", "delete"}
  BY <1>1, <1>2, <1>5
<1> QED
  BY <1>3, <1>4, <1>5

\* A step of one tab, in surroundings that keep their types.
LEMMA OneTabIsTyped ==
  ASSUME IInv, Typed, NEW t \in Tabs, NEW x, AttemptsAreTyped(x),
         tab' = [tab EXCEPT ![t] = x],
         Surroundings', jar'.pkce \in Started \cup {NotStarted}
  PROVE  Typed'
<1>1. \A u \in Tabs : tab'[u] = IF u = t THEN x ELSE tab[u]
  BY DEF IInv
<1>2. \A u \in Tabs : AttemptsAreTyped(tab'[u])
  BY <1>1 DEF Typed
<1>3. \A u \in Tabs : AttemptsAreTyped(tab[u])'
  BY <1>2 DEF AttemptsAreTyped
<1> QED
  BY <1>3 DEF Typed


\* Discovery is asked, known or broken whatever the realm answers.
LEMMA DiscoveryIsTyped ==
  ASSUME Typed, Discover \/ UNCHANGED discovered, UNCHANGED <<realm, outages>>
  PROVE  Surroundings'
<1>1. CASE UNCHANGED discovered
  BY <1>1 DEF Typed, Surroundings
<1>2. CASE Discover
  BY <1>2 DEF Typed, Surroundings, Discover
<1> QED
  BY <1>1, <1>2

\* Every step keeps the attempts typed: the person,
LEMMA PersonIsTyped ==
  ASSUME IInv, Typed, NEW t \in Tabs,
         SignOut(t) \/ TypePassword(t) \/ \E p \in Paths : Visit(t, p)
  PROVE  Typed'
<1>0. AttemptsAreTyped(tab[t]) /\ jar.pkce \in Started \cup {NotStarted}
  BY DEF Typed
<1>1. CASE SignOut(t)
  <2>1. AttemptsAreTyped(Sent("logout", tab[t].wants, 0, jar))
    BY SentIsTyped
  <2>2. Surroundings' /\ jar' = jar
    BY <1>1 DEF SignOut, Typed, Surroundings
  <2> QED
    BY <1>0, <1>1, <2>1, <2>2, OneTabIsTyped DEF SignOut
<1>2. CASE TypePassword(t)
  <2> DEFINE r == IF Alive(realm.sso) THEN realm.sso ELSE realm.last + 1
             x == [Sent("callback", tab[t].wants, tab[t].state, jar) EXCEPT !.since = r]
  <2>1. tab' = [tab EXCEPT ![t] = x] /\ jar' = jar
        /\ realm' = [realm EXCEPT !.sso = r, !.last = IF r > @ THEN r ELSE @]
    BY <1>2 DEF TypePassword
  <2>2. AttemptsAreTyped(x)
    BY <1>0, GivenIsTyped DEF AttemptsAreTyped
  <2>3. Surroundings'
    BY <1>2, <2>1 DEF TypePassword, Typed, Surroundings, IInv, RealmIsSound
  <2> HIDE DEF x
  <2> QED
    BY <1>0, <2>1, <2>2, <2>3, OneTabIsTyped
<1>3. ASSUME NEW p \in Paths, Visit(t, p) PROVE Typed'
  <2>1. AttemptsAreTyped(Sent(p, p, 0, jar))
    BY SentIsTyped
  <2>2. Surroundings' /\ jar' = jar
    BY <1>3 DEF Visit, Typed, Surroundings
  <2> QED
    BY <1>0, <1>3, <2>1, <2>2, OneTabIsTyped DEF Visit
<1> QED
  BY <1>1, <1>2, <1>3

\* the proxy and the page behind it,
LEMMA ProxyIsTyped ==
  ASSUME IInv, Typed, NEW t \in Tabs, Proxy(t) \/ Renew(t) \/ Render(t)
  PROVE  Typed'
<1>1. /\ AttemptsAreTyped(tab[t]) /\ jar.pkce \in Started \cup {NotStarted}
      /\ tab[t].cookies.started \in Started \cup {NotStarted}
      /\ DOMAIN tab[t] = {"at", "to", "wants", "state", "sess", "started", "cookies", "since"}
  BY DEF Typed, AttemptsAreTyped, IInv, TabIsWhole
<1>2. Surroundings' /\ jar' = jar
  BY DiscoveryIsTyped DEF Proxy, Renew, Render
<1>3. \A to : /\ AttemptsAreTyped(Answered(t, to, Keep))
              /\ AttemptsAreTyped(Answered(t, to, Clearing))
              /\ AttemptsAreTyped(Answered(t, to, tab[t].cookies))
  BY <1>1, AnsweredIsTyped, ResponsesStart
<1>4. ASSUME NEW now_ PROVE AttemptsAreTyped([tab[t] EXCEPT !.at = "rendering", !.since = now_])
  BY <1>1 DEF AttemptsAreTyped
<1>5. AttemptsAreTyped([tab[t] EXCEPT !.at = "renewing"])
  BY <1>1 DEF AttemptsAreTyped
<1>6. ASSUME NEW s
      PROVE  AttemptsAreTyped([tab[t] EXCEPT !.at = "rendering", !.sess = s, !.since = now,
                                             !.cookies = Writing(s)])
  BY <1>1, ResponsesStart DEF AttemptsAreTyped
<1>7. \/ tab' = [tab EXCEPT ![t] = Answered(t, "login", Keep)]
      \/ tab' = [tab EXCEPT ![t] = Answered(t, "login", Clearing)]
      \/ \E to : tab' = [tab EXCEPT ![t] = Answered(t, to, tab[t].cookies)]
      \/ tab' = [tab EXCEPT ![t] = [tab[t] EXCEPT !.at = "rendering", !.since = now]]
      \/ tab' = [tab EXCEPT ![t] = [tab[t] EXCEPT !.at = "renewing"]]
      \/ \E s : tab' = [tab EXCEPT ![t] = [tab[t] EXCEPT !.at = "rendering", !.sess = s,
                                               !.since = now, !.cookies = Writing(s)]]
  <2>1. CASE Proxy(t)
    BY <2>1 DEF Proxy, SignIn
  <2>2. CASE Renew(t)
    BY <2>2 DEF Renew, SignIn
  <2>3. CASE Render(t)
    BY <2>3 DEF Render
  <2> QED
    BY <2>1, <2>2, <2>3
<1>8. PICK x : AttemptsAreTyped(x) /\ tab' = [tab EXCEPT ![t] = x]
  BY <1>3, <1>4, <1>5, <1>6, <1>7
<1> QED
  BY <1>1, <1>2, <1>8, OneTabIsTyped

\* the handlers,
LEMMA HandlerIsTyped ==
  ASSUME IInv, Typed, NEW t \in Tabs,
         Login(t) \/ Authorize(t) \/ Callback(t) \/ Logout(t) \/ EndSession(t)
  PROVE  Typed'
<1>1. /\ AttemptsAreTyped(tab[t]) /\ jar.pkce \in Started \cup {NotStarted}
      /\ tab[t].state \in States \cup {0} /\ tab[t].wants \in Paths
  BY DEF Typed, AttemptsAreTyped, IInv, TabIsWhole
<1>2. \A screen \in Screens : AttemptsAreTyped(Shows(t, screen))
  BY <1>1, ShownIsTyped
<1>3. CASE Login(t)
  <2> DEFINE st == [state |-> Fresh, next |-> Next_(t)]
  <2>1. st \in Started
    <3>1. tab[t].state = 0
      BY <1>1, <1>3 DEF Login, AttemptsAreTyped
    <3>2. Fresh \in States /\ Next_(t) \in Paths
      BY <1>1, <3>1, FreshIsThere DEF Next_
    <3> QED
      BY <3>2 DEF Started
  <2> HIDE DEF st
  <2>2. AttemptsAreTyped(Answered(t, "realm", Starting(st)))
    BY <2>1, AnsweredIsTyped, ResponsesStart
  <2>3. AttemptsAreTyped(Shows(t, "error"))
    BY <1>2 DEF Screens
  <2>4. \/ tab' = [tab EXCEPT ![t] = Answered(t, "realm", Starting(st))]
        \/ tab' = [tab EXCEPT ![t] = Shows(t, "error")]
    BY <1>3 DEF Login, st
  <2>5. Surroundings' /\ jar' = jar
    BY <1>3, DiscoveryIsTyped DEF Login
  <2> QED
    BY <1>1, <2>2, <2>3, <2>4, <2>5, OneTabIsTyped
<1>4. CASE Authorize(t)
  <2> DEFINE x == [Sent("callback", tab[t].wants, tab[t].state, jar) EXCEPT !.since = realm.sso]
  <2>1. AttemptsAreTyped(x)
    BY <1>1, GivenIsTyped
  <2>2. AttemptsAreTyped(Shows(t, "error")) /\ AttemptsAreTyped(Shows(t, "password"))
    BY <1>2 DEF Screens
  <2>3. \/ tab' = [tab EXCEPT ![t] = x]
        \/ tab' = [tab EXCEPT ![t] = Shows(t, "error")]
        \/ tab' = [tab EXCEPT ![t] = Shows(t, "password")]
    BY <1>4 DEF Authorize
  <2>4. Surroundings' /\ jar' = jar
    BY <1>4, DiscoveryIsTyped DEF Authorize
  <2> HIDE DEF x
  <2> QED
    BY <1>1, <2>1, <2>2, <2>3, <2>4, OneTabIsTyped
<1>5. CASE Callback(t)
  <2>1. \A to, s : AttemptsAreTyped(Answered(t, to, Ending(Writing(s))))
    BY AnsweredIsTyped, ResponsesStart
  <2>2. \A to : AttemptsAreTyped(Answered(t, to, Ending(Keep)))
    BY AnsweredIsTyped, ResponsesStart
  <2>3. \/ \E to, s : tab' = [tab EXCEPT ![t] = Answered(t, to, Ending(Writing(s)))]
        \/ \E to : tab' = [tab EXCEPT ![t] = Answered(t, to, Ending(Keep))]
    BY <1>5 DEF Callback
  <2>4. PICK x : AttemptsAreTyped(x) /\ tab' = [tab EXCEPT ![t] = x]
    BY <2>1, <2>2, <2>3
  <2>5. Surroundings' /\ jar' = jar
    BY <1>5, DiscoveryIsTyped DEF Callback
  <2> QED
    BY <1>1, <2>4, <2>5, OneTabIsTyped
<1>6. CASE Logout(t)
  <2>1. \A to : AttemptsAreTyped(Answered(t, to, Clearing))
    BY AnsweredIsTyped, ResponsesStart
  <2>2. AttemptsAreTyped(Shows(t, "error"))
    BY <1>2 DEF Screens
  <2>3. \/ \E to : tab' = [tab EXCEPT ![t] = Answered(t, to, Clearing)]
        \/ tab' = [tab EXCEPT ![t] = Shows(t, "error")]
    BY <1>6 DEF Logout
  <2>4. Surroundings' /\ jar' = jar
    BY <1>6, DiscoveryIsTyped DEF Logout
  <2> QED
    BY <1>1, <2>1, <2>2, <2>3, <2>4, OneTabIsTyped
<1>7. CASE EndSession(t)
  <2>1. PICK screen \in {"error", "home", "question"} :
            tab' = [tab EXCEPT ![t] = Shows(t, screen)]
    BY <1>7 DEF EndSession
  <2>2. AttemptsAreTyped(Shows(t, screen))
    BY <1>2 DEF Screens
  <2>3. jar' = jar /\ realm'.answers = realm.answers /\ UNCHANGED <<discovered, outages>>
    BY <1>7 DEF EndSession, IInv, RealmIsSound
  <2>4. Surroundings'
    BY <2>3 DEF Typed, Surroundings
  <2> QED
    BY <1>1, <2>1, <2>2, <2>3, <2>4, OneTabIsTyped
<1> QED
  BY <1>3, <1>4, <1>5, <1>6, <1>7

\* and the browser.
LEMMA ReceiveIsTyped ==
  ASSUME IInv, Typed, NEW t \in Tabs, Receive(t)
  PROVE  Typed'
<1> DEFINE j == Applied(jar, tab[t].cookies)
           to == tab[t].to
           c == tab[t].cookies
<1>1. /\ AttemptsAreTyped(tab[t]) /\ jar.pkce \in Started \cup {NotStarted}
      /\ c.started \in Started \cup {NotStarted} /\ TabIsWhole(tab[t])
  BY DEF Typed, AttemptsAreTyped, IInv
<1>2. j.pkce \in Started \cup {NotStarted} /\ jar' = j
  BY <1>1, AppliedIsTyped DEF IInv, TabIsWhole, Receive
<1>3. Surroundings'
  BY DEF Receive, Typed, Surroundings
<1>4. to \in Paths \cup Screens \cup {"login", "realm", "end"}
  BY <1>1 DEF TabIsWhole, Receive, Handlers
<1> HIDE DEF j
<1>5. CASE to \in Paths \cup {"login"}
  <2>1. tab' = [tab EXCEPT ![t] = Sent(to, tab[t].wants, 0, j)]
    <3>1. CASE to \in Paths
      BY <3>1, PathAssumption DEF Receive, Handlers, j
    <3>2. CASE to = "login"
      BY <3>2, PathAssumption DEF Receive, Handlers, j
    <3> QED
      BY <1>5, <3>1, <3>2
  <2>2. AttemptsAreTyped(Sent(to, tab[t].wants, 0, j))
    BY SentIsTyped
  <2> QED
    BY <1>2, <1>3, <2>1, <2>2, OneTabIsTyped
<1>6. CASE to = "realm"
  <2>1. tab' = [tab EXCEPT ![t] = Sent(to, tab[t].wants, c.started.state, j)]
    BY <1>6, PathAssumption DEF Receive, Handlers, j
  <2>2. c.started.state \in States \cup {0}
    BY <1>1 DEF Started, NotStarted
  <2>3. AttemptsAreTyped(Sent(to, tab[t].wants, c.started.state, j))
    BY <1>6, <2>2, SentIsTyped
  <2> QED
    BY <1>2, <1>3, <2>1, <2>3, OneTabIsTyped
<1>7. CASE to = "end"
  <2> DEFINE x == [Sent(to, tab[t].wants, 0, j) EXCEPT !.sess = tab[t].sess]
  <2>1. tab' = [tab EXCEPT ![t] = x]
    BY <1>7, PathAssumption DEF Receive, Handlers, j
  <2>2. AttemptsAreTyped(x)
    BY <1>7, GivenIsTyped
  <2> HIDE DEF x
  <2> QED
    BY <1>2, <1>3, <2>1, <2>2, OneTabIsTyped
<1>8. CASE to \in Screens
  <2>1. tab' = [tab EXCEPT ![t] = Shows(t, to)]
    BY <1>8, PathAssumption DEF Receive, Screens, j
  <2>2. AttemptsAreTyped(Shows(t, to))
    BY <1>1, <1>8, ShownIsTyped
  <2> QED
    BY <1>2, <1>3, <2>1, <2>2, OneTabIsTyped
<1> QED
  BY <1>4, <1>5, <1>6, <1>7, <1>8

\* The clock and the realm's life touch no attempt.
LEMMA ElsewhereIsTyped ==
  ASSUME IInv, Typed,
         Tick \/ Forget \/ (\E a \in {"up", "booting", "off"} : Outage(a)) \/ UNCHANGED vars
  PROVE  Typed'
<1>1. UNCHANGED <<jar, tab, discovered>>
  BY DEF Tick, Forget, Outage, vars
<1>2. Surroundings'
  <2>1. CASE Tick \/ UNCHANGED vars
    BY <2>1 DEF Tick, vars, Typed, Surroundings
  <2>2. CASE Forget
    BY <2>2 DEF Forget, Typed, Surroundings, IInv, RealmIsSound
  <2>3. ASSUME NEW a \in {"up", "booting", "off"}, Outage(a) PROVE Surroundings'
    <3>1. realm'.answers = a
      BY <2>3 DEF Outage, IInv, RealmIsSound
    <3>2. outages' \in 0..MaxOutages /\ UNCHANGED discovered
      BY <2>3, BoundAssumption DEF Outage, Typed, Surroundings
    <3> QED
      BY <3>1, <3>2 DEF Typed, Surroundings
  <2> QED
    BY <2>1, <2>2, <2>3
<1>3. \A u \in Tabs : AttemptsAreTyped(tab[u])'
  BY <1>1 DEF Typed, AttemptsAreTyped
<1> QED
  BY <1>1, <1>2, <1>3 DEF Typed

\* So the attempts keep their types.
LEMMA TypedStays == IInv /\ Typed /\ [Next]_vars => Typed'
<1> SUFFICES ASSUME IInv, Typed, [Next]_vars PROVE Typed'
  OBVIOUS
<1>1. ASSUME NEW t \in Tabs, Handle(t) PROVE Typed'
  BY <1>1, ProxyIsTyped, HandlerIsTyped, ReceiveIsTyped DEF Handle
<1> QED
  BY <1>1, PersonIsTyped, ElsewhereIsTyped DEF Next

\* A browser that never signed in has begun no attempt.
LEMMA TypedBegins == Init => Typed
<1> SUFFICES ASSUME Init PROVE Typed
  OBVIOUS
<1>1. AttemptsAreTyped(Blank)
  BY DEF Blank, Keep, AttemptsAreTyped, Screens
<1> QED
  BY <1>1, BoundAssumption DEF Init, Typed, Surroundings

\* A whole jar holds pieces of the sealed kind, and gaps.
LEMMA PiecesAreTyped ==
  ASSUME NEW j, JarIsWhole(j)
  PROVE  /\ j.pieces \in [1..MaxChunks -> [of : Sealed \cup {Nobody}, i : 0..MaxChunks]]
         /\ j.hint \in BOOLEAN
<1> DEFINE Piece == [of : Sealed \cup {Nobody}, i : 0..MaxChunks]
<1>1. Gap \in Piece
  BY ChunkAssumption DEF Gap
<1>2. CASE j.pieces = [i \in 1..MaxChunks |-> Gap] /\ j.hint = FALSE
  BY <1>1, <1>2
<1>3. ASSUME NEW s \in Sealed, j.pieces = Chunks(s), j.hint = TRUE
      PROVE  j.pieces \in [1..MaxChunks -> Piece]
  <2>1. \A i \in 1..MaxChunks : [of |-> s, i |-> i] \in Piece
    BY ChunkAssumption
  <2> HIDE DEF Piece
  <2> QED
    BY <1>1, <1>3, <2>1 DEF Chunks
<1> QED
  BY <1>2, <1>3 DEF JarIsWhole

\* Cookies, tabs, realm and discovery hold what the code can put in them; an attempt
\* is always begun with a state nobody else has.
THEOREM TypeCorrect == Spec => []TypeOK
<1>1. IInv /\ Typed => TypeOK
  <2> SUFFICES ASSUME IInv, Typed PROVE TypeOK
    OBVIOUS
  <2>1. /\ jar.pieces \in [1..MaxChunks -> [of : Sealed \cup {Nobody}, i : 0..MaxChunks]]
        /\ jar.hint \in BOOLEAN /\ jar.pkce \in Started \cup {NotStarted}
    BY PiecesAreTyped DEF IInv, Typed
  <2>2. \A t \in Tabs : /\ tab[t].sess \in Sealed \cup {Nobody}
                        /\ tab[t].wants \in Paths
                        /\ tab[t].at = "idle" => tab[t].to \in Screens
    BY DEF IInv, TabIsWhole, Good, Typed, AttemptsAreTyped
  <2> QED
    BY <2>1, <2>2 DEF IInv, RealmIsSound, Typed, Surroundings, TypeOK
<1> QED
  BY <1>1, TypedBegins, TypedStays, InvariantHolds, PTL DEF Spec

=============================================================================
