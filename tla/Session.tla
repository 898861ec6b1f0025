------------------------------- MODULE Session -------------------------------
(****************************************************************************)
(* Signing in, staying in and signing out: the sealed session in its numbered *)
(* cookies (lib/session.ts, lib/sealed.mts), the proxy that renews it         *)
(* (proxy.ts), the calls made with it (lib/api.ts), the three handlers of     *)
(* app/api/auth, and the realm they talk to (lib/oidc.ts).                    *)
(*                                                                          *)
(* One browser, several tabs, one cookie jar. A request carries the cookies   *)
(* the jar held when it LEFT; a response changes the jar when it ARRIVES.     *)
(* Between the two another tab may sign in, be renewed or sign out.           *)
(****************************************************************************)
EXTENDS Naturals, FiniteSets

CONSTANTS
  Tabs,         \* the browser's tabs: one request of each in flight at a time
  Paths,        \* the paths of proxy.ts's matcher
  Life,         \* seconds an access token is good for (accessTokenLifespan)
  Margin,       \* the "minute early" of token()
  MaxChunks,    \* MAX_CHUNKS
  MaxNow,       \* bound: the clock
  MaxSignIns,   \* bound: passwords typed, hence sessions at the realm
  MaxOutages    \* bound: changes of the realm's availability

ASSUME TabsAssumption == IsFiniteSet(Tabs)
ASSUME LifeAssumption == Life \in Nat /\ Margin \in Nat /\ Margin < Life
ASSUME ChunkAssumption == MaxChunks \in Nat \ {0, 1}
ASSUME BoundAssumption == {MaxNow, MaxSignIns, MaxOutages} \subseteq Nat

VARIABLES
  jar,         \* the browser's cookies: the pieces, the hint, the PKCE cookie
  tab,         \* what each tab is waiting for, or shows
  realm,       \* whether Keycloak answers, its sessions' ends, and the SSO one
  discovered,  \* the module-level promise of discover()
  now,         \* epoch seconds
  outages      \* changes of the realm's availability so far

vars == <<jar, tab, realm, discovered, now, outages>>

Screens == {"home", "page", "password", "question", "error"}
Handlers == {"login", "realm", "callback", "logout", "end"}   \* where redirects lead
\* Some path is matched by the proxy, and none that a redirect alone leads to.
ASSUME PathAssumption == Paths # {} /\ Paths \cap (Screens \cup Handlers) = {}
Lengths == 1..2       \* sealed sessions need one piece or two (session.ts:25-27)
States == 1..(2 * Cardinality(Tabs) + 1)   \* randomBytes(16): any not in use

Sealed == [at : 1..MaxSignIns, expires : 0..(MaxNow + Life), hint : BOOLEAN, pieces : Lengths]
Nobody == [at |-> 0, expires |-> 0, hint |-> FALSE, pieces |-> 0]
Started == [state : States, next : Paths]
NotStarted == [state |-> 0, next |-> CHOOSE p \in Paths : TRUE]
Gap == [of |-> Nobody, i |-> 0]
Forever == MaxNow + Life + 1

----------------------------------------------------------------------------
(* The cookies. *)

\* chunk(): the numbered pieces of one sealed value, and no more
Chunks(s) == [i \in 1..MaxChunks |-> IF i <= s.pieces THEN [of |-> s, i |-> i] ELSE Gap]

\* readSealed(): pieces up to the first gap; unseal() takes only a whole value
Prefix(pieces) == {i \in 1..MaxChunks : \A j \in 1..i : pieces[j] # Gap}
ReadSealed(pieces) ==
  LET read == Prefix(pieces) IN
    IF read = {} THEN Nobody
    ELSE LET s == pieces[1].of IN
           IF read = 1..s.pieces /\ \A i \in read : pieces[i].of = s THEN s ELSE Nobody

\* Mutant: the pieces a shorter session does not need are left where they are.
WriteSealedOver(j, s) ==
  [j EXCEPT !.pieces = [i \in 1..MaxChunks |->
                          IF i <= s.pieces THEN [of |-> s, i |-> i] ELSE j.pieces[i]],
            !.hint = TRUE]
\* Mutant: one cookie, of which the browser keeps what fits.
WriteSealedInOne(j, s) ==
  [j EXCEPT !.pieces = [i \in 1..MaxChunks |-> IF i = 1 THEN [of |-> s, i |-> 1] ELSE Gap],
            !.hint = TRUE]
\* writeSealed(): every piece set or deleted, and the hint with them
WriteSealed(j, s) == [j EXCEPT !.pieces = Chunks(s), !.hint = TRUE]

\* clearSealed()
ClearSealed(j) == [j EXCEPT !.pieces = [i \in 1..MaxChunks |-> Gap], !.hint = FALSE]

\* What the Set-Cookie headers of one response do to the jar.
Keep == [session |-> "keep", of |-> Nobody, pkce |-> "keep", started |-> NotStarted]
Writing(s) == [Keep EXCEPT !.session = "write", !.of = s]
Clearing == [Keep EXCEPT !.session = "clear"]
Starting(st) == [Keep EXCEPT !.pkce = "set", !.started = st]
Ending(c) == [c EXCEPT !.pkce = "delete"]

Applied(j, c) ==
  LET k == CASE c.session = "write" -> WriteSealed(j, c.of)
             [] c.session = "clear" -> ClearSealed(j)
             [] OTHER -> j
  IN CASE c.pkce = "set" -> [k EXCEPT !.pkce = c.started]
       [] c.pkce = "delete" -> [k EXCEPT !.pkce = NotStarted]
       [] OTHER -> k

----------------------------------------------------------------------------
(* The realm, as oidc.ts uses it. *)

Alive(r) == r # 0 /\ realm.ended[r] > now

\* discover(): the answer kept for good, as a promise that was kept or broken.
\* A refusal forgets the promise; a fetch that fails leaves it broken.
Knows == discovered = "known" \/ (discovered = "unasked" /\ realm.answers = "up")
Discover ==
  discovered' = IF discovered # "unasked" THEN discovered
                ELSE [up |-> "known", booting |-> "unasked", off |-> "broken"][realm.answers]

\* token(): the endpoint answers, for a session the realm still has
Grants(r) == Knows /\ realm.answers = "up" /\ Alive(r)

\* Mutant: milliseconds, where seconds are meant.
ExpiryInMillis(t) == 1000 * (t + Life - Margin)
\* Mutant: the margin is forgotten.
ExpiryAtTheEnd(t) == t + Life
\* token(): a minute early
Expiry(t) == t + Life - Margin

\* Mutant: nothing is carried forward.
TokensAsAnswered(r, previous) ==
  {[at |-> r, expires |-> Expiry(now), hint |-> h, pieces |-> n] : h \in BOOLEAN, n \in {1 + (now % 2)}}
\* token(): a fresh session of realm session r. A refresh may bring no id_token,
\* and then the previous one is carried forward. Tokens differ in length.
Tokens(r, previous) ==
  {[at |-> r, expires |-> Expiry(now), hint |-> h, pieces |-> n] :
     h \in {TRUE, previous}, n \in {1 + (now % 2)}}

----------------------------------------------------------------------------
(* A tab: "idle" on a screen, or a request at one of the steps of its way.    *)
(*   sent       on its way to the frontend, with the cookies it left with     *)
(*   renewing   in the proxy, refresh() awaited                               *)
(*   rendering  let through by the proxy with a session                       *)
(*   answered   the response on its way back, with its cookies and its target *)

Blank == [at |-> "idle", to |-> "home", wants |-> NotStarted.next, state |-> 0,
          sess |-> Nobody, started |-> NotStarted, cookies |-> Keep, since |-> 0]

\* A request leaves with the cookies the jar holds that its handler reads.
Sent(to, wants, state, j) ==
  [Blank EXCEPT !.at = "sent", !.to = to, !.wants = wants, !.state = state,
                !.sess = IF to \in Paths \cup {"logout"} THEN ReadSealed(j.pieces) ELSE Nobody,
                !.started = IF to = "callback" THEN j.pkce ELSE NotStarted]
Answered(t, to, cookies) ==
  [Blank EXCEPT !.at = "answered", !.to = to, !.cookies = cookies,
                !.wants = IF to \in Screens \cup {"end"} THEN @ ELSE tab[t].wants,
                !.sess = IF to = "end" THEN tab[t].sess ELSE Nobody]
Shows(t, screen) ==
  IF screen = "password" THEN [Blank EXCEPT !.to = screen, !.wants = tab[t].wants, !.state = tab[t].state]
  ELSE [Blank EXCEPT !.to = screen]
Idle(t) == tab[t].at = "idle"

Init ==
  /\ jar = [pieces |-> [i \in 1..MaxChunks |-> Gap], hint |-> FALSE, pkce |-> NotStarted]
  /\ tab = [t \in Tabs |-> Blank]
  /\ realm = [answers |-> "up", ended |-> [r \in 1..MaxSignIns |-> Forever], sso |-> 0, last |-> 0]
  /\ discovered = "unasked"
  /\ now = 0
  /\ outages = 0

----------------------------------------------------------------------------
(* The person. *)

\* A link or an address: a page behind the proxy.
Visit(t, p) ==
  /\ Idle(t)
  /\ tab' = [tab EXCEPT ![t] = Sent(p, p, 0, jar)]
  /\ UNCHANGED <<jar, realm, discovered, now, outages>>

\* The sign-out button: a POST, from a page of the dashboard.
SignOut(t) ==
  /\ Idle(t) /\ tab[t].to = "page"
  /\ tab' = [tab EXCEPT ![t] = Sent("logout", @.wants, 0, jar)]
  /\ UNCHANGED <<jar, realm, discovered, now, outages>>

\* A password typed at the realm, which answers the attempt it was asked for.
TypePassword(t) ==
  /\ Idle(t) /\ tab[t].to = "password"
  /\ realm.answers = "up" /\ realm.last < MaxSignIns
  /\ LET r == IF Alive(realm.sso) THEN realm.sso ELSE realm.last + 1 IN
     /\ realm' = [realm EXCEPT !.sso = r, !.last = IF r > @ THEN r ELSE @]
     /\ tab' = [tab EXCEPT ![t] =
                  [Sent("callback", tab[t].wants, tab[t].state, jar) EXCEPT !.since = r]]
  /\ UNCHANGED <<jar, discovered, now, outages>>

----------------------------------------------------------------------------
(* The proxy, and the page it lets through. *)

\* signIn(): to the login handler, which is told where to come back
SignIn(t, cookies) == Answered(t, "login", cookies)

\* proxy()
Proxy(t) ==
  /\ tab[t].at = "sent" /\ tab[t].to \in Paths
  /\ tab' = [tab EXCEPT ![t] =
       IF @.sess = Nobody THEN SignIn(t, Keep)
       ELSE IF @.sess.expires > now
              THEN [@ EXCEPT !.at = "rendering", !.since = now]
              ELSE [@ EXCEPT !.at = "renewing"]]
  /\ UNCHANGED <<jar, realm, discovered, now, outages>>

\* proxy(), after refresh(): written for the browser and for the render alike,
\* or cleared, whatever the reason it failed
Renew(t) ==
  /\ tab[t].at = "renewing"
  /\ Discover
  /\ \/ /\ Grants(tab[t].sess.at)
        /\ \E s \in Tokens(tab[t].sess.at, tab[t].sess.hint) :
             tab' = [tab EXCEPT ![t] = [@ EXCEPT !.at = "rendering", !.sess = s,
                                                 !.since = now, !.cookies = Writing(s)]]
     \/ /\ ~Grants(tab[t].sess.at)
        /\ tab' = [tab EXCEPT ![t] = SignIn(t, Clearing)]
  /\ UNCHANGED <<jar, realm, now, outages>>

\* currentSession(): null for an expired session
CurrentSession(s) == s # Nobody /\ s.expires > now

\* The backend reads the token's own end, not the realm's sessions.
ApiTakes(s) == s.expires + Margin > now

\* api(), and the page or the error boundary
Render(t) ==
  /\ tab[t].at = "rendering"
  /\ tab' = [tab EXCEPT ![t] =
       Answered(t, IF CurrentSession(@.sess) /\ ApiTakes(@.sess) THEN "page" ELSE "error",
                @.cookies)]
  /\ UNCHANGED <<jar, realm, discovered, now, outages>>

----------------------------------------------------------------------------
(* The handlers of app/api/auth. *)

Fresh == CHOOSE s \in States :
           /\ s # jar.pkce.state
           /\ \A t \in Tabs : s \notin {tab[t].state, tab[t].cookies.started.state}

\* GET login: next kept beside the verifier
Next_(t) == tab[t].wants

\* login/route.ts
Login(t) ==
  /\ tab[t].at = "sent" /\ tab[t].to = "login"
  /\ Discover
  /\ tab' = [tab EXCEPT ![t] =
       IF Knows
         THEN Answered(t, "realm", Starting([state |-> Fresh, next |-> Next_(t)]))
         ELSE Shows(t, "error")]
  /\ UNCHANGED <<jar, realm, now, outages>>

\* The realm's authorize endpoint: a code at once for somebody it knows, bound
\* to the challenge of this attempt.
Authorize(t) ==
  /\ tab[t].at = "sent" /\ tab[t].to = "realm"
  /\ tab' = [tab EXCEPT ![t] =
       IF realm.answers # "up" THEN Shows(t, "error")
       ELSE IF Alive(realm.sso)
         THEN [Sent("callback", @.wants, @.state, jar) EXCEPT !.since = realm.sso]
         ELSE Shows(t, "password")]
  /\ UNCHANGED <<jar, realm, discovered, now, outages>>

\* callback/route.ts: this browser's attempt, and a code for its verifier
OwnAttempt(t) == tab[t].started # NotStarted /\ tab[t].state = tab[t].started.state
Callback(t) ==
  /\ tab[t].at = "sent" /\ tab[t].to = "callback"
  /\ IF OwnAttempt(t) THEN Discover ELSE UNCHANGED discovered
  /\ \/ /\ OwnAttempt(t) /\ Grants(tab[t].since)
        /\ \E s \in Tokens(tab[t].since, TRUE) :
             tab' = [tab EXCEPT ![t] = Answered(t, tab[t].started.next, Ending(Writing(s)))]
     \/ /\ ~(OwnAttempt(t) /\ Grants(tab[t].since))
        /\ tab' = [tab EXCEPT ![t] = Answered(t, "home", Ending(Keep))]
  /\ UNCHANGED <<jar, realm, now, outages>>

\* logout/route.ts: cleared here, and the browser sent on to end it at the realm
Logout(t) ==
  /\ tab[t].at = "sent" /\ tab[t].to = "logout"
  /\ IF tab[t].sess # Nobody THEN Discover ELSE UNCHANGED discovered
  /\ tab' = [tab EXCEPT ![t] =
       IF @.sess = Nobody THEN Answered(t, "home", Clearing)
       ELSE IF Knows THEN Answered(t, "end", Clearing) ELSE Shows(t, "error")]
  /\ UNCHANGED <<jar, realm, now, outages>>

\* The realm's end_session_endpoint: without a hint it asks, and nobody answers.
EndSession(t) ==
  /\ tab[t].at = "sent" /\ tab[t].to = "end"
  /\ LET ends == realm.answers = "up" /\ tab[t].sess.hint
     IN /\ realm' = IF ends /\ Alive(tab[t].sess.at)
                      THEN [realm EXCEPT !.ended[tab[t].sess.at] = now,
                                         !.sso = IF @ = tab[t].sess.at THEN 0 ELSE @]
                      ELSE realm
        /\ tab' = [tab EXCEPT ![t] =
             Shows(t, IF realm.answers # "up" THEN "error"
                      ELSE IF ends THEN "home" ELSE "question")]
  /\ UNCHANGED <<jar, discovered, now, outages>>

----------------------------------------------------------------------------
(* The browser, the clock and the realm's own life. *)

\* A response arrives: its cookies first, then where it leads.
Receive(t) ==
  /\ tab[t].at = "answered"
  /\ LET j == Applied(jar, tab[t].cookies)
         to == tab[t].to
     IN /\ jar' = j
        /\ tab' = [tab EXCEPT ![t] =
             CASE to \in Paths -> Sent(to, @.wants, 0, j)
               [] to = "login" -> Sent(to, @.wants, 0, j)
               [] to = "realm" -> Sent(to, @.wants, @.cookies.started.state, j)
               [] to = "end" -> [Sent(to, @.wants, 0, j) EXCEPT !.sess = tab[t].sess]
               [] OTHER -> Shows(t, to)]
  /\ UNCHANGED <<realm, discovered, now, outages>>

Tick == now < MaxNow /\ now' = now + 1 /\ UNCHANGED <<jar, tab, realm, discovered, outages>>

\* ssoSessionIdleTimeout: the realm forgets the person.
Forget ==
  /\ Alive(realm.sso)
  /\ realm' = [realm EXCEPT !.ended[realm.sso] = now, !.sso = 0]
  /\ UNCHANGED <<jar, tab, discovered, now, outages>>

\* Keycloak stops, boots, answers.
Outage(a) ==
  /\ outages < MaxOutages /\ a # realm.answers
  /\ outages' = outages + 1
  /\ realm' = [realm EXCEPT !.answers = a]
  /\ UNCHANGED <<jar, tab, discovered, now>>

Handle(t) ==
  Proxy(t) \/ Renew(t) \/ Render(t) \/ Login(t) \/ Authorize(t) \/ Callback(t)
    \/ Logout(t) \/ EndSession(t) \/ Receive(t)

Next ==
  \/ \E t \in Tabs : Handle(t) \/ SignOut(t) \/ TypePassword(t) \/ \E p \in Paths : Visit(t, p)
  \/ Tick \/ Forget
  \/ \E a \in {"up", "booting", "off"} : Outage(a)

\* A request that left is handled and its answer arrives; people, the clock and
\* the realm's health promise nothing.
Fairness == \A t \in Tabs : WF_vars(Handle(t))

Spec == Init /\ [][Next]_vars /\ Fairness

----------------------------------------------------------------------------
(* Properties. *)

\* Cookies, tabs, the realm and discovery hold what the code can put in them: a
\* tab at rest shows a screen, and the jar no piece beyond MAX_CHUNKS.
TypeOK ==
  /\ jar.pieces \in [1..MaxChunks -> [of : Sealed \cup {Nobody}, i : 0..MaxChunks]]
  /\ jar.hint \in BOOLEAN /\ jar.pkce \in Started \cup {NotStarted}
  /\ \A t \in Tabs : /\ tab[t].sess \in Sealed \cup {Nobody}
                     /\ tab[t].wants \in Paths
                     /\ tab[t].at = "idle" => tab[t].to \in Screens
  /\ realm.ended \in [1..MaxSignIns -> 0..Forever]
  /\ realm.sso \in 0..MaxSignIns /\ realm.last \in 0..MaxSignIns
  /\ discovered \in {"unasked", "known", "broken"}
  /\ now \in 0..MaxNow /\ outages \in 0..MaxOutages

\* However the answers of several tabs arrive, the jar holds all the pieces of
\* one session or none at all, and the header's hint says which: no session is
\* left unreadable behind a "signed in" header (session.ts:90-93, 106-108).
CookiesAgree ==
  /\ ReadSealed(jar.pieces) = Nobody => \A i \in 1..MaxChunks : jar.pieces[i] = Gap
  /\ jar.hint <=> ReadSealed(jar.pieces) # Nobody

\* A session that ended at the realm, by a sign-out or by idling, opens pages
\* only while its last token lasts: a late answer that brings its cookies back
\* after a sign-out cannot bring back more than that.
AccessDiesWithTheRealm ==
  [][\A t \in Tabs :
       tab[t].at = "rendering" /\ tab'[t].to = "page" /\ tab'[t].at = "answered"
         => now < realm.ended[tab[t].sess.at] + Life - Margin]_vars

\* A sign-out that got as far as the realm is never answered with a question
\* nobody will answer (oidc.ts:155-159): renewal does not lose the hint.
SignOutIsNoQuestion == \A t \in Tabs : tab[t].to # "question"

\* Nobody goes round for ever: every address typed ends on a screen, the sign-in
\* loop of session.ts:28-31 included.
EndsSomewhere == \A t \in Tabs : (tab[t].at # "idle") ~> Idle(t)

=============================================================================
