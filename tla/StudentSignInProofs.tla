------------------------- MODULE StudentSignInProofs -------------------------
(***************************************************************************)
(* One accepted session and one use of each access code, for any number of *)
(* browsers, requests under way, codes and versions.                       *)
(***************************************************************************)
EXTENDS StudentSignIn, FiniteSetTheorems, TLAPS

Accounts == [version : Nat, active : BOOLEAN, code : Nat, fresh : BOOLEAN, pending : Nat,
             password : Passwords \cup {Unset}, setupId : SetupIds \cup {Unset},
             provider : Identities \cup {Unset}]
Snapshots == [version : Nat, active : BOOLEAN, code : Nat, pending : Nat,
              password : Passwords \cup {Unset}, setupId : SetupIds \cup {Unset}]
Cookies == [level : {Unset, "setup", "full"}, version : Nat]

\* A request under way, by where it is.
SentVisits == [at : {"sent"}, browser : Browsers, session : Cookies]
SignInVisits == [at : {"sign-in"}, browser : Browsers, refused : {Keeps, NoCookie},
                 secret : Passwords \cup Nat, seen : Snapshots]
PasswordVisits == [at : {"password", "reload"}, browser : Browsers, secret : Passwords,
                   id : SetupIds, session : [level : {"setup", "full"}, version : Nat],
                   seen : Snapshots]
CallbackVisits == [at : {"callback"}, browser : Browsers, mode : {"link", "signin"},
                   version : Nat]
AnsweredVisits == [at : {"answered"}, browser : Browsers, set : Cookies \cup {Keeps},
                   unbinds : BOOLEAN]
IsVisit(x) ==
    \/ x = NoVisit
    \/ x \in SentVisits \/ x \in SignInVisits \/ x \in PasswordVisits
    \/ x \in CallbackVisits \/ x \in AnsweredVisits

SignInTypes ==
    /\ account \in Accounts
    /\ cookie \in [Browsers -> Cookies]
    /\ attempt \in [Browsers -> [mode : {Unset, "link", "signin"}, version : Nat]]
    /\ visit = [v \in Visits |-> visit[v]]
    /\ \A v \in Visits : IsVisit(visit[v])
    /\ issued \in Codes
    /\ chosen \in [Codes -> SUBSET (Passwords \cup Identities)]

-----------------------------------------------------------------------------
Real(c) == c.level \in {"setup", "full"}

\* The session a request carries to the server or back.
Carried(x) == CASE x.at \in {"sent", "password", "reload"} -> x.session
                [] x.at = "answered" -> x.set
                [] OTHER -> NoCookie

\* Who has which session: in the browser, in a request, or in an answer.
Sessions ==
    {<<b, cookie[b]>> : b \in {a \in Browsers : Real(cookie[a])}}
      \cup {<<visit[v].browser, Carried(visit[v])>> : v \in {w \in Visits : Real(Carried(visit[w]))}}

\* What the requests that choose a password have read of the account.
Snaps == {visit[v].seen : v \in {w \in Visits : visit[w].at = "password"}}
SeenOf(a) == [version |-> a.version, active |-> a.active, code |-> a.code,
              pending |-> a.pending, password |-> a.password, setupId |-> a.setupId]

\* The set-up of s is complete: a session of the version before it is of the same browser.
SameBrowser(H, s) ==
    s.setupId # Unset =>
        \A h, k \in H : h[2].level = "setup" /\ h[2].version + 1 = s.version
                        /\ k[2].version = s.version => h[1] = k[1]

\* The sessions H and the snapshots S fit the account a: a version has one browser; a version
\* whose set-up is complete has no set-up session.
SessionsFit(H, S, a) ==
    /\ H \subseteq Browsers \X [level : {"setup", "full"}, version : Nat]
    /\ \A h \in H : h[2].version <= a.version
    /\ \A h, k \in H : h[2].version = k[2].version => h[1] = k[1]
    /\ a.setupId # Unset => \A h \in H : h[2].level = "setup" => h[2].version # a.version
    /\ SameBrowser(H, SeenOf(a))
    /\ \A s \in S : /\ s \in Snapshots /\ s.version <= a.version /\ SameBrowser(H, s)
                    /\ s.version = a.version => s = SeenOf(a)

\* Only the last code can be unused or pending, and then nothing was chosen through it; what
\* was chosen through it is the account's password or identity, and nothing else is.
CodesFit(a, n, ch) ==
    /\ a.code \in {0, n} /\ a.pending \in {0, n}
    /\ a.code # 0 \/ a.pending # 0 => ch[n] = {}
    /\ \A c \in Codes : c > n => ch[c] = {}
    /\ \A c \in Codes : ch[c] = {} \/ \E x \in Passwords \cup Identities : ch[c] = {x}
    /\ ch[n] \subseteq {a.password, a.provider}
    /\ a.password # Unset \/ a.provider # Unset => ch[n] # {}

\* An accepted set-up session stands on a pending code, an accepted full one on a choice.
SessionsStand(H, a, n, ch) ==
    \A h \in H : h[2].version = a.version =>
        IF h[2].level = "setup" THEN a.pending = n ELSE ch[n] # {}

SignInInvariant ==
    /\ SignInTypes
    /\ SessionsFit(Sessions, Snaps, account)
    /\ CodesFit(account, issued, chosen)
    /\ SessionsStand(Sessions, account, issued, chosen)

-----------------------------------------------------------------------------
(* Sessions and snapshots, as sets.                                        *)

\* A session is a browser and a real cookie.
Holdings == Browsers \X [level : {"setup", "full"}, version : Nat]

LEMMA SnapshotsAreTyped == ASSUME NEW a \in Accounts PROVE SeenOf(a) \in Snapshots
  BY DEF Accounts, Snapshots, SeenOf

\* Sessions may go, and a request may read the account.
LEMMA FewerFit ==
    ASSUME NEW H, NEW S, NEW a \in Accounts, NEW n, NEW ch, NEW G, NEW R,
           SessionsFit(H, S, a), SessionsStand(H, a, n, ch),
           G \subseteq H, \A s \in R : s \in S \/ s = SeenOf(a)
    PROVE  SessionsFit(G, R, a) /\ SessionsStand(G, a, n, ch)
<1>1. SeenOf(a) \in Snapshots /\ SeenOf(a).version = a.version /\ a.version \in Nat
  BY SnapshotsAreTyped DEF SeenOf, Accounts
<1>2. \A s : SameBrowser(H, s) => SameBrowser(G, s)
  BY DEF SameBrowser
<1>3. SessionsFit(G, R, a)
  BY <1>1, <1>2 DEF SessionsFit
<1> QED BY <1>3 DEF SessionsStand

\* A lost answer is given again: browser b, which has a session of version w, or the set-up
\* session that version w completed, gets a full session of that version.
LEMMA RenewedFit ==
    ASSUME NEW H, NEW S, NEW a \in Accounts, NEW n, NEW ch, NEW G,
           SessionsFit(H, S, a), SessionsStand(H, a, n, ch), CodesFit(a, n, ch),
           NEW s, s \in S \/ s = SeenOf(a), s.setupId # Unset, s.password # Unset,
           NEW h \in H,
           h[2].version # s.version => h[2].level = "setup" /\ h[2].version + 1 = s.version,
           NEW c, c = [level |-> "full", version |-> s.version],
           \A g \in G : g \in H \/ g = <<h[1], c>>
    PROVE  SessionsFit(G, S, a) /\ SessionsStand(G, a, n, ch)
<1> DEFINE new == <<h[1], c>>
<1>1. /\ s \in Snapshots /\ s.version \in Nat /\ s.version <= a.version /\ a.version \in Nat
      /\ SameBrowser(H, s)
      /\ s.version = a.version => s = SeenOf(a)
  BY SnapshotsAreTyped DEF SessionsFit, SeenOf, Accounts, Snapshots
<1>2. /\ h[1] \in Browsers /\ h \in Holdings
      /\ new \in Holdings /\ new[1] = h[1] /\ new[2] = c /\ c.level = "full"
      /\ c.version = s.version
  BY <1>1 DEF SessionsFit, Holdings
<1>3. \A k \in H : k[2].version \in Nat
  BY DEF SessionsFit
\* Whoever has a session of this version is b.
<1>4. \A k \in H : k[2].version = s.version => k[1] = h[1]
  BY <1>1 DEF SessionsFit, SameBrowser
<1>5. \A k \in H : k[2].level = "setup" /\ k[2].version + 1 = s.version => k[1] = h[1]
  BY <1>1, <1>3 DEF SessionsFit, SameBrowser
<1> HIDE DEF new
<1>6. \A g, k \in G : g[2].version = k[2].version => g[1] = k[1]
  BY <1>2, <1>4 DEF SessionsFit, new
<1>7. ASSUME NEW t, SameBrowser(H, t) PROVE SameBrowser(G, t)
  <2> SUFFICES ASSUME t.setupId # Unset, NEW g \in G, NEW k \in G, g[2].level = "setup",
                      g[2].version + 1 = t.version, k[2].version = t.version
               PROVE  g[1] = k[1]
    BY DEF SameBrowser
  <2>1. g \in H
    BY <1>2 DEF new
  <2>2. CASE k \in H
    BY <1>7, <2>1, <2>2 DEF SameBrowser
  <2>3. CASE k = new
    BY <1>2, <1>5, <2>1, <2>3
  <2> QED BY <2>2, <2>3 DEF new
<1>8. SessionsFit(G, S, a)
  <2>1. G \subseteq Holdings /\ \A g \in G : g[2].version <= a.version
    BY <1>1, <1>2 DEF SessionsFit, Holdings, new
  <2>2. a.setupId # Unset => \A g \in G : g[2].level = "setup" => g[2].version # a.version
    BY <1>2 DEF SessionsFit, new
  <2> QED BY <1>6, <1>7, <2>1, <2>2 DEF SessionsFit, Holdings
<1>9. SessionsStand(G, a, n, ch)
  <2>1. s.version = a.version => a.password # Unset
    BY <1>1 DEF SeenOf
  <2>2. s.version = a.version => ch[n] # {}
    BY <2>1 DEF CodesFit
  <2> QED BY <1>2, <2>2 DEF SessionsStand, new
<1> QED BY <1>8, <1>9

\* A new version of the account, for which browser b gets the first session; its set-up may
\* be complete if it was before, or if b had the set-up session.
LEMMA OpenedFit ==
    ASSUME NEW H, NEW S, NEW a \in Accounts, NEW G, NEW m \in Accounts,
           SessionsFit(H, S, a), m.version = a.version + 1,
           NEW b \in Browsers, NEW c \in [level : {"setup", "full"}, version : Nat],
           c.version = m.version,
           \A g \in G : g \in H \/ g = <<b, c>>,
           m.setupId # Unset =>
              /\ c.level = "full"
              /\ a.setupId = Unset => \E h \in H : h[1] = b /\ h[2].version = a.version,
           NEW n, NEW ch, IF c.level = "setup" THEN m.pending = n ELSE ch[n] # {}
    PROVE  SessionsFit(G, S, m) /\ SessionsStand(G, m, n, ch)
<1> DEFINE new == <<b, c>>
<1>1. /\ new \in Holdings /\ new[1] = b /\ new[2] = c
      /\ a.version \in Nat /\ m.version \in Nat /\ m.version > a.version
  BY DEF Holdings, Accounts
<1> HIDE DEF new
<1>2. \A k \in H : k[2].version \in Nat /\ k[2].version <= a.version /\ k[2].version < m.version
  BY <1>1 DEF SessionsFit
<1>3. \A g \in G : g \in H \/ g = new
  BY DEF new
<1>4. \A g, k \in G : g[2].version = k[2].version => g[1] = k[1]
  BY <1>1, <1>2, <1>3 DEF SessionsFit
<1>5. ASSUME NEW t \in S PROVE SameBrowser(G, t)
  <2> SUFFICES ASSUME t.setupId # Unset, NEW g \in G, NEW k \in G, g[2].level = "setup",
                      g[2].version + 1 = t.version, k[2].version = t.version
               PROVE  g[1] = k[1]
    BY DEF SameBrowser
  <2>1. SameBrowser(H, t) /\ t.version \in Nat /\ t.version <= a.version
    BY DEF SessionsFit, Snapshots
  <2>2. g \in H /\ k \in H
    BY <1>1, <1>3, <2>1
  <2> QED BY <2>1, <2>2 DEF SameBrowser
<1>6. SameBrowser(G, SeenOf(m))
  <2> SUFFICES ASSUME m.setupId # Unset, NEW g \in G, NEW k \in G, g[2].level = "setup",
                      g[2].version + 1 = m.version, k[2].version = m.version
               PROVE  g[1] = k[1]
    BY DEF SameBrowser, SeenOf
  <2>1. g \in H /\ g[2].version = a.version
    BY <1>1, <1>2, <1>3
  <2>2. k = new
    BY <1>2, <1>3
  <2>3. a.setupId = Unset
    BY <2>1 DEF SessionsFit
  <2> QED BY <1>1, <2>1, <2>2, <2>3 DEF SessionsFit
<1>7. m.setupId # Unset => \A g \in G : g[2].level = "setup" => g[2].version # m.version
  BY <1>1, <1>2, <1>3
<1>8. G \subseteq Holdings /\ \A g \in G : g[2].version <= m.version
  BY <1>1, <1>2, <1>3 DEF SessionsFit, Holdings
<1>9. \A t \in S : t \in Snapshots /\ t.version \in Nat /\ t.version < m.version
  BY <1>1 DEF SessionsFit, Snapshots
<1>10. SessionsFit(G, S, m)
  BY <1>4, <1>5, <1>6, <1>7, <1>8, <1>9 DEF SessionsFit, Holdings
<1>11. SessionsStand(G, m, n, ch)
  BY <1>1, <1>2, <1>3 DEF SessionsStand
<1> QED BY <1>10, <1>11

\* A new version without a session.
LEMMA BumpedFit ==
    ASSUME NEW H, NEW S, NEW a \in Accounts, NEW G, NEW m \in Accounts,
           SessionsFit(H, S, a), m.version = a.version + 1, G \subseteq H, NEW n, NEW ch
    PROVE  SessionsFit(G, S, m) /\ SessionsStand(G, m, n, ch)
<1>1. a.version \in Nat /\ m.version \in Nat /\ m.version > a.version
  BY DEF Accounts
<1>2. \A k \in G : k[2].version \in Nat /\ k[2].version < m.version
  BY <1>1 DEF SessionsFit
<1>3. \A t \in S : /\ t \in Snapshots /\ t.version \in Nat /\ t.version < m.version
                   /\ SameBrowser(G, t)
  BY <1>1 DEF SessionsFit, Snapshots, SameBrowser
<1>4. SameBrowser(G, SeenOf(m))
  BY <1>2 DEF SameBrowser, SeenOf
<1>5. SessionsFit(G, S, m)
  <2>1. /\ G \subseteq Browsers \X [level : {"setup", "full"}, version : Nat]
        /\ \A h, k \in G : h[2].version = k[2].version => h[1] = k[1]
    BY DEF SessionsFit
  <2>2. \A g \in G : g[2].version <= m.version /\ g[2].version # m.version
    BY <1>1, <1>2
  <2>3. \A s \in S : s.version <= m.version /\ s.version # m.version
    BY <1>1, <1>3
  <2> QED BY <1>3, <1>4, <2>1, <2>2, <2>3 DEF SessionsFit
<1> QED BY <1>2, <1>5 DEF SessionsStand

-----------------------------------------------------------------------------
(* What a step does to requests, sessions and snapshots.                   *)

LEMMA VisitAt ==
    ASSUME NEW x, IsVisit(x)
    PROVE  /\ x.at = "sent" => x \in SentVisits
           /\ x.at = "sign-in" => x \in SignInVisits
           /\ x.at \in {"password", "reload"} => x \in PasswordVisits
           /\ x.at = "callback" => x \in CallbackVisits
           /\ x.at = "answered" => x \in AnsweredVisits
  BY DEF IsVisit, NoVisit, SentVisits, SignInVisits, PasswordVisits, CallbackVisits, AnsweredVisits

LEMMA SomeCookies ==
    /\ NoCookie \in Cookies /\ ~Real(NoCookie) /\ ~Real(Keeps)
    /\ \A c \in Cookies : c.level # Unset => Real(c)
    /\ \A c \in Cookies \cup {Keeps} : Real(c) => c \in Cookies
  BY DEF NoCookie, Cookies, Real, Keeps, Unset

LEMMA CarriedIs ==
    ASSUME NEW x
    PROVE  /\ x \in SentVisits \cup PasswordVisits => Carried(x) = x.session
           /\ x \in AnsweredVisits => Carried(x) = x.set
           /\ x \in SignInVisits \cup CallbackVisits \cup {NoVisit} => Carried(x) = NoCookie
  BY DEF SentVisits, SignInVisits, PasswordVisits, CallbackVisits, AnsweredVisits, NoVisit, Carried

\* A session under way is a session.
LEMMA CarriedIsHeld ==
    ASSUME NEW v \in Visits, Real(Carried(visit[v]))
    PROVE  <<visit[v].browser, Carried(visit[v])>> \in Sessions
  BY DEF Sessions

LEMMA OneVisit ==
    ASSUME SignInTypes, NEW v \in Visits, NEW x, IsVisit(x),
           visit' = [visit EXCEPT ![v] = x], cookie' = cookie
    PROVE  /\ visit' = [w \in Visits |-> visit'[w]]
           /\ \A w \in Visits : IsVisit(visit'[w])
           /\ \A h \in Sessions' : h \notin Sessions =>
                 Real(Carried(x)) /\ h = <<x.browser, Carried(x)>>
           /\ \A s \in Snaps' : s \notin Snaps => x.at = "password" /\ s = x.seen
<1>1. visit'[v] = x /\ \A w \in Visits \ {v} : visit'[w] = visit[w]
  BY DEF SignInTypes
<1>2. visit' = [w \in Visits |-> visit'[w]]
  BY DEF SignInTypes
<1>3. \A w \in Visits : IsVisit(visit'[w])
  BY <1>1 DEF SignInTypes
<1>4. ASSUME NEW h \in Sessions', h \notin Sessions
      PROVE  Real(Carried(x)) /\ h = <<x.browser, Carried(x)>>
  <2>1. ~ \E b \in Browsers : Real(cookie[b]) /\ h = <<b, cookie[b]>>
    BY <1>4 DEF Sessions
  <2>2. PICK w \in Visits : /\ Real(Carried(visit'[w]))
                            /\ h = <<visit'[w].browser, Carried(visit'[w])>>
    BY <2>1 DEF Sessions
  <2>3. w = v
    BY <1>1, <1>4, <2>2 DEF Sessions
  <2> QED BY <1>1, <2>2, <2>3
<1>5. ASSUME NEW s \in Snaps', s \notin Snaps
      PROVE  x.at = "password" /\ s = x.seen
  <2>1. PICK w \in Visits : visit'[w].at = "password" /\ s = visit'[w].seen
    BY DEF Snaps
  <2>2. w = v
    BY <1>1, <1>5, <2>1 DEF Snaps
  <2> QED BY <1>1, <2>1, <2>2
<1> QED BY <1>2, <1>3, <1>4, <1>5

\* Steps that leave the account alone and make no session.
LEMMA QuietFits ==
    ASSUME SignInInvariant, SignInTypes', account' = account, issued' = issued, chosen' = chosen,
           \A h \in Sessions' : h \in Sessions, \A s \in Snaps' : s \notin Snaps => s = Seen
    PROVE  SignInInvariant'
<1>1. Seen = SeenOf(account) /\ account \in Accounts
  BY DEF Seen, SeenOf, SignInInvariant, SignInTypes
<1>2. Sessions' \subseteq Sessions /\ \A s \in Snaps' : s \in Snaps \/ s = SeenOf(account)
  BY <1>1
<1>3. /\ SessionsFit(Sessions', Snaps', account)
      /\ SessionsStand(Sessions', account, issued, chosen)
  BY <1>1, <1>2, FewerFit DEF SignInInvariant
<1> QED BY <1>3 DEF SignInInvariant

QuietAttempts == attempt' \in [Browsers -> [mode : {Unset, "link", "signin"}, version : Nat]]

LEMMA QuietVisit ==
    ASSUME SignInInvariant, NEW v \in Visits, NEW x, IsVisit(x), visit' = [visit EXCEPT ![v] = x],
           UNCHANGED <<account, cookie, issued, chosen>>, QuietAttempts,
           Real(Carried(x)) => <<x.browser, Carried(x)>> \in Sessions,
           x.at = "password" => x.seen = Seen
    PROVE  SignInInvariant'
<1>1. SignInTypes
  BY DEF SignInInvariant
<1>2. /\ visit' = [w \in Visits |-> visit'[w]]
      /\ \A w \in Visits : IsVisit(visit'[w])
      /\ \A h \in Sessions' : h \notin Sessions =>
            Real(Carried(x)) /\ h = <<x.browser, Carried(x)>>
      /\ \A s \in Snaps' : s \notin Snaps => x.at = "password" /\ s = x.seen
  BY <1>1, OneVisit
<1>3. SignInTypes'
  BY <1>1, <1>2 DEF SignInTypes, QuietAttempts
<1> QED BY <1>2, <1>3, QuietFits

\* The answer of request v to browser b sets this cookie.
Answered(v, b, set) == \E x \in AnsweredVisits :
    visit' = [visit EXCEPT ![v] = x] /\ x.browser = b /\ x.set = set

LEMMA AnswersAreAnswered ==
    ASSUME NEW v, NEW b \in Browsers, NEW set \in Cookies \cup {Keeps}
    PROVE  /\ Answer(v, b, set) => Answered(v, b, set)
           /\ AnswerWith(v, b, set, TRUE) => Answered(v, b, set)
<1>1. ASSUME NEW unbinds \in BOOLEAN,
             visit' = [visit EXCEPT ![v] = [at |-> "answered", browser |-> b, set |-> set,
                                            unbinds |-> unbinds]]
      PROVE  Answered(v, b, set)
  <2> DEFINE x == [at |-> "answered", browser |-> b, set |-> set, unbinds |-> unbinds]
  <2>1. x \in AnsweredVisits /\ x.browser = b /\ x.set = set
    BY DEF AnsweredVisits
  <2> QED BY <1>1, <2>1 DEF Answered
<1>2. ASSUME Answer(v, b, set) PROVE Answered(v, b, set)
  <2> DEFINE unbinds == set.level \in {"setup", "full"}
  <2>1. /\ unbinds \in BOOLEAN
        /\ visit' = [visit EXCEPT ![v] = [at |-> "answered", browser |-> b, set |-> set,
                                          unbinds |-> unbinds]]
    BY <1>2 DEF Answer, AnswerWith
  <2> HIDE DEF unbinds
  <2> QED BY <1>1, <2>1
<1>3. ASSUME AnswerWith(v, b, set, TRUE) PROVE Answered(v, b, set)
  <2> DEFINE unbinds == TRUE
  <2>1. /\ unbinds \in BOOLEAN
        /\ visit' = [visit EXCEPT ![v] = [at |-> "answered", browser |-> b, set |-> set,
                                          unbinds |-> unbinds]]
    BY <1>3 DEF AnswerWith
  <2> HIDE DEF unbinds
  <2> QED BY <1>1, <2>1
<1> QED BY <1>2, <1>3

LEMMA QuietAnswer ==
    ASSUME SignInInvariant, NEW v \in Visits, NEW b \in Browsers, NEW set \in {Keeps, NoCookie},
           Answered(v, b, set), UNCHANGED <<account, cookie, issued, chosen>>, QuietAttempts
    PROVE  SignInInvariant'
<1>1. PICK x \in AnsweredVisits :
        visit' = [visit EXCEPT ![v] = x] /\ x.browser = b /\ x.set = set
  BY DEF Answered
<1>2. IsVisit(x) /\ x.at = "answered" /\ Carried(x) = set
  BY <1>1, CarriedIs DEF IsVisit, AnsweredVisits
<1>3. ~Real(set)
  BY SomeCookies
<1> QED BY <1>1, <1>2, <1>3, QuietVisit

\* A sign-in, a choice of a password or a provider.
LEMMA OpenedAnswer ==
    ASSUME SignInInvariant, NEW v \in Visits, NEW b \in Browsers, NEW level \in {"setup", "full"},
           Answered(v, b, Cookie(level, account')), account' \in Accounts,
           account'.version = account.version + 1,
           UNCHANGED <<cookie, attempt, issued>>,
           chosen' \in [Codes -> SUBSET (Passwords \cup Identities)],
           CodesFit(account', issued, chosen'),
           account'.setupId # Unset =>
              /\ level = "full"
              /\ account.setupId = Unset =>
                    \E h \in Sessions : h[1] = b /\ h[2].version = account.version,
           IF level = "setup" THEN account'.pending = issued ELSE chosen'[issued] # {}
    PROVE  SignInInvariant'
<1> DEFINE c == Cookie(level, account')
<1>1. PICK x \in AnsweredVisits :
        visit' = [visit EXCEPT ![v] = x] /\ x.browser = b /\ x.set = c
  BY DEF Answered
<1>2. IsVisit(x) /\ x.at = "answered" /\ Carried(x) = c
  BY <1>1, CarriedIs DEF IsVisit, AnsweredVisits
<1>3. /\ c \in [level : {"setup", "full"}, version : Nat]
      /\ c.level = level /\ c.version = account'.version
  BY DEF Cookie, Accounts
<1> HIDE DEF c
<1>4. SignInTypes /\ account \in Accounts
  BY DEF SignInInvariant, SignInTypes
<1>5. /\ visit' = [w \in Visits |-> visit'[w]]
      /\ \A w \in Visits : IsVisit(visit'[w])
      /\ \A h \in Sessions' : h \notin Sessions =>
            Real(Carried(x)) /\ h = <<x.browser, Carried(x)>>
      /\ \A s \in Snaps' : s \notin Snaps => x.at = "password" /\ s = x.seen
  BY <1>1, <1>2, <1>4, OneVisit
<1>6. (\A h \in Sessions' : h \in Sessions \/ h = <<b, c>>) /\ Snaps' \subseteq Snaps
  BY <1>1, <1>2, <1>5
<1>7. /\ SessionsFit(Sessions', Snaps, account')
      /\ SessionsStand(Sessions', account', issued, chosen')
  <2> DEFINE m == account'
             ch == chosen'
             G == Sessions'
  <2>1. m.setupId # Unset =>
           /\ c.level = "full"
           /\ account.setupId = Unset =>
                 \E h \in Sessions : h[1] = b /\ h[2].version = account.version
    BY <1>3
  <2>2. IF c.level = "setup" THEN m.pending = issued ELSE ch[issued] # {}
    BY <1>3
  <2>3. SessionsFit(Sessions, Snaps, account)
    BY DEF SignInInvariant
  <2>4. /\ m \in Accounts /\ m.version = account.version + 1 /\ c.version = m.version
        /\ \A g \in G : g \in Sessions \/ g = <<b, c>>
    BY <1>3, <1>6
  <2> HIDE DEF m, ch, G
  <2>5. SessionsFit(G, Snaps, m) /\ SessionsStand(G, m, issued, ch)
    BY <1>3, <1>4, <2>1, <2>2, <2>3, <2>4, OpenedFit
  <2> QED BY <2>5 DEF m, ch, G
<1>8. /\ SessionsFit(Sessions', Snaps', account')
      /\ SessionsStand(Sessions', account', issued, chosen')
  BY <1>6, <1>7, FewerFit
<1>9. SignInTypes'
  BY <1>4, <1>5 DEF SignInTypes
<1> QED BY <1>8, <1>9 DEF SignInInvariant

\* A replayed set-up, or a check, gives a completed session again.
LEMMA RenewedAnswer ==
    ASSUME SignInInvariant, NEW v \in Visits, NEW b \in Browsers,
           UNCHANGED <<account, cookie, attempt, issued, chosen>>,
           NEW s, s \in Snaps \/ s = Seen, s.setupId # Unset, s.password # Unset,
           NEW c, <<b, c>> \in Sessions,
           c.version # s.version => c.level = "setup" /\ c.version + 1 = s.version,
           Answered(v, b, Cookie("full", s))
    PROVE  SignInInvariant'
<1> DEFINE d == Cookie("full", s)
           h == <<b, c>>
<1>1. PICK x \in AnsweredVisits :
        visit' = [visit EXCEPT ![v] = x] /\ x.browser = b /\ x.set = d
  BY DEF Answered
<1>2. IsVisit(x) /\ x.at = "answered" /\ Carried(x) = d
  BY <1>1, CarriedIs DEF IsVisit, AnsweredVisits
<1>3. /\ d = [level |-> "full", version |-> s.version]
      /\ h \in Sessions /\ h[1] = b /\ h[2] = c
  BY DEF Cookie
<1> HIDE DEF d, h
<1>4. SignInTypes /\ account \in Accounts /\ Seen = SeenOf(account)
  BY DEF SignInInvariant, SignInTypes, Seen, SeenOf
<1>5. /\ visit' = [w \in Visits |-> visit'[w]]
      /\ \A w \in Visits : IsVisit(visit'[w])
      /\ \A k \in Sessions' : k \notin Sessions =>
            Real(Carried(x)) /\ k = <<x.browser, Carried(x)>>
      /\ \A t \in Snaps' : t \notin Snaps => x.at = "password" /\ t = x.seen
  BY <1>1, <1>2, <1>4, OneVisit
<1>6. (\A k \in Sessions' : k \in Sessions \/ k = <<h[1], d>>) /\ Snaps' \subseteq Snaps
  BY <1>1, <1>2, <1>3, <1>5
<1>7. s \in Snaps \/ s = SeenOf(account)
  BY <1>4
<1>8. h[2].version # s.version => h[2].level = "setup" /\ h[2].version + 1 = s.version
  BY <1>3
<1>9. /\ SessionsFit(Sessions', Snaps, account)
      /\ SessionsStand(Sessions', account, issued, chosen)
  BY <1>3, <1>4, <1>6, <1>7, <1>8, RenewedFit DEF SignInInvariant
<1>10. /\ SessionsFit(Sessions', Snaps', account')
       /\ SessionsStand(Sessions', account', issued', chosen')
  BY <1>4, <1>6, <1>9, FewerFit
<1>11. SignInTypes'
  BY <1>4, <1>5 DEF SignInTypes
<1> QED BY <1>10, <1>11 DEF SignInInvariant

\* Every session is made stale.
LEMMA BumpedAccount ==
    ASSUME SignInInvariant, SignInTypes', account'.version = account.version + 1,
           \A h \in Sessions' : h \in Sessions, \A s \in Snaps' : s \in Snaps,
           CodesFit(account', issued', chosen')
    PROVE  SignInInvariant'
<1>1. account \in Accounts /\ account' \in Accounts
  BY DEF SignInInvariant, SignInTypes
<1>2. /\ SessionsFit(Sessions', Snaps, account')
      /\ SessionsStand(Sessions', account', issued', chosen')
  BY <1>1, BumpedFit DEF SignInInvariant
<1>3. SessionsFit(Sessions', Snaps', account')
  BY <1>1, <1>2, FewerFit
<1> QED BY <1>2, <1>3 DEF SignInInvariant
-----------------------------------------------------------------------------
(* The steps of a visit.                                                   *)

LEMMA SameAttempts == ASSUME SignInInvariant, attempt' = attempt PROVE QuietAttempts
  BY DEF SignInInvariant, SignInTypes, QuietAttempts

LEMMA OneAttempt ==
    ASSUME SignInInvariant, NEW b \in Browsers,
           NEW t \in [mode : {Unset, "link", "signin"}, version : Nat],
           attempt' = [attempt EXCEPT ![b] = t]
    PROVE  QuietAttempts
  BY DEF SignInInvariant, SignInTypes, QuietAttempts

\* What the invariant says of the account and of a request.
LEMMA VisitFacts ==
    ASSUME SignInInvariant, NEW v \in Visits
    PROVE  /\ account \in Accounts /\ account.version \in Nat /\ IsVisit(visit[v])
           /\ Seen \in Snapshots /\ Seen.version = account.version
           /\ Seen.setupId = account.setupId /\ Seen.password = account.password
           /\ cookie \in [Browsers -> Cookies] /\ issued \in Codes
           /\ chosen \in [Codes -> SUBSET (Passwords \cup Identities)]
           /\ CodesFit(account, issued, chosen)
<1>1. SignInTypes /\ CodesFit(account, issued, chosen)
  BY DEF SignInInvariant
<1> QED BY <1>1 DEF SignInTypes, Accounts, Snapshots, Seen

LEMMA BumpIs ==
    ASSUME NEW a \in Accounts
    PROVE  /\ Bump(a) \in Accounts /\ Bump(a).version = a.version + 1
           /\ Bump(a).active = a.active /\ Bump(a).code = a.code /\ Bump(a).fresh = a.fresh
           /\ Bump(a).pending = a.pending /\ Bump(a).password = a.password
           /\ Bump(a).setupId = a.setupId /\ Bump(a).provider = a.provider
  BY DEF Bump, Accounts

LEMMA Sending ==
    ASSUME SignInInvariant, NEW v \in Visits, NEW b \in Browsers, Send(v, b)
    PROVE  SignInInvariant'
<1> DEFINE x == [at |-> "sent", browser |-> b, session |-> cookie[b]]
<1>1. x \in SentVisits /\ x.at = "sent" /\ x.browser = b /\ x.session = cookie[b]
  BY VisitFacts DEF SentVisits
<1>2. /\ visit' = [visit EXCEPT ![v] = x]
      /\ UNCHANGED <<account, cookie, issued, chosen>> /\ attempt' = attempt
  BY DEF Send
<1> HIDE DEF x
<1>3. Carried(x) = cookie[b] /\ IsVisit(x)
  BY <1>1, CarriedIs DEF IsVisit
<1>4. Real(Carried(x)) => <<x.browser, Carried(x)>> \in Sessions
  BY <1>1, <1>3 DEF Sessions
<1>5. QuietAttempts
  BY <1>2, SameAttempts
<1> QED BY <1>1, <1>2, <1>3, <1>4, <1>5, QuietVisit

\* The answers that set no session.
LEMMA Refusing ==
    ASSUME SignInInvariant, NEW v \in Visits, visit[v].browser \in Browsers,
           NEW set \in {Keeps, NoCookie},
           Answer(v, visit[v].browser, set) \/ AnswerWith(v, visit[v].browser, set, TRUE),
           UNCHANGED <<account, cookie, issued, chosen>>, QuietAttempts
    PROVE  SignInInvariant'
<1>1. set \in Cookies \cup {Keeps}
  BY SomeCookies
<1>2. Answered(v, visit[v].browser, set)
  BY <1>1, AnswersAreAnswered
<1> QED BY <1>2, QuietAnswer

LEMMA SignInBegins ==
    ASSUME SignInInvariant, NEW v \in Visits, NEW secret \in Passwords \cup 1..issued,
           BeginCreateSession(v, secret)
    PROVE  SignInInvariant'
<1> DEFINE r == visit[v]
           refused == IF r.session = NoCookie THEN Keeps ELSE NoCookie
           x == [at |-> "sign-in", browser |-> r.browser, refused |-> refused,
                 secret |-> secret, seen |-> Seen]
<1>1. /\ UNCHANGED <<account, cookie, issued, chosen>> /\ attempt' = attempt
      /\ r.at = "sent" /\ r.browser \in Browsers
  BY VisitFacts, VisitAt DEF BeginCreateSession, Sent, SentVisits
<1>2. QuietAttempts
  BY <1>1, SameAttempts
<1>3. CASE Answer(v, r.browser, Keeps)
  BY <1>1, <1>2, <1>3, Refusing
<1>4. CASE visit' = [visit EXCEPT ![v] = x]
  <2>1. x \in SignInVisits /\ x.at = "sign-in"
    BY <1>1, VisitFacts DEF SignInVisits, Codes
  <2> HIDE DEF x
  <2>2. IsVisit(x) /\ Carried(x) = NoCookie
    BY <2>1, CarriedIs DEF IsVisit
  <2> QED BY <1>1, <1>2, <1>4, <2>1, <2>2, SomeCookies, QuietVisit
<1> QED BY <1>3, <1>4 DEF BeginCreateSession

LEMMA PasswordBegins ==
    ASSUME SignInInvariant, NEW v \in Visits, NEW p \in Passwords, NEW id \in SetupIds,
           BeginPassword(v, p, id)
    PROVE  SignInInvariant'
<1> DEFINE r == visit[v]
           x == [at |-> "password", browser |-> r.browser, secret |-> p,
                 id |-> id, session |-> r.session, seen |-> Seen]
<1>1. /\ UNCHANGED <<account, cookie, issued, chosen>> /\ attempt' = attempt
      /\ visit' = [visit EXCEPT ![v] = x] /\ r.session.level # Unset
      /\ r \in SentVisits /\ r.browser \in Browsers /\ r.session \in Cookies
  BY VisitFacts, VisitAt DEF BeginPassword, Sent, SentVisits
<1>2. QuietAttempts
  BY <1>1, SameAttempts
<1>3. /\ x \in PasswordVisits /\ x.browser = r.browser /\ x.session = r.session
      /\ x.seen = Seen
  BY <1>1, VisitFacts DEF PasswordVisits, Cookies
<1> HIDE DEF x
<1>4. IsVisit(x) /\ Carried(x) = r.session /\ Carried(r) = r.session
  BY <1>1, <1>3, CarriedIs DEF IsVisit
<1>5. <<x.browser, Carried(x)>> \in Sessions
  BY <1>1, <1>3, <1>4, SomeCookies, CarriedIsHeld
<1> QED BY <1>1, <1>2, <1>3, <1>4, <1>5, QuietVisit

LEMMA CallbackBegins ==
    ASSUME SignInInvariant, NEW v \in Visits, BeginCallback(v)
    PROVE  SignInInvariant'
<1> DEFINE b == visit[v].browser
           x == [at |-> "callback", browser |-> b, mode |-> attempt[b].mode,
                 version |-> attempt[b].version]
<1>1. /\ UNCHANGED <<account, cookie, issued, chosen>>
      /\ attempt' = [attempt EXCEPT ![b] = NoAttempt]
      /\ b \in Browsers /\ attempt[b].mode # Unset
      /\ attempt \in [Browsers -> [mode : {Unset, "link", "signin"}, version : Nat]]
  BY VisitFacts, VisitAt DEF BeginCallback, Sent, SentVisits, SignInInvariant, SignInTypes
<1>2. QuietAttempts
  BY <1>1, OneAttempt DEF NoAttempt
<1>3. CASE AnswerWith(v, b, Keeps, TRUE)
  BY <1>1, <1>2, <1>3, Refusing
<1>4. CASE visit' = [visit EXCEPT ![v] = x]
  <2>1. x \in CallbackVisits /\ x.at = "callback"
    BY <1>1 DEF CallbackVisits
  <2> HIDE DEF x
  <2>2. IsVisit(x) /\ Carried(x) = NoCookie
    BY <2>1, CarriedIs DEF IsVisit
  <2> QED BY <1>1, <1>2, <1>4, <2>1, <2>2, SomeCookies, QuietVisit
<1> QED BY <1>3, <1>4 DEF BeginCallback

LEMMA SignInEnds ==
    ASSUME SignInInvariant, NEW v \in Visits, EndCreateSession(v)
    PROVE  SignInInvariant'
<1> DEFINE r == visit[v]
           b == r.browser
<1>1. /\ UNCHANGED <<cookie, issued, chosen>> /\ attempt' = attempt
      /\ r.at = "sign-in" /\ b \in Browsers /\ r.refused \in {Keeps, NoCookie}
      /\ r.seen \in Snapshots
  BY VisitFacts, VisitAt DEF EndCreateSession, SignInVisits
<1>2. QuietAttempts
  BY <1>1, SameAttempts
<1>3. /\ account \in Accounts /\ account.version \in Nat
      /\ CodesFit(account, issued, chosen) /\ issued \in Codes
      /\ chosen' \in [Codes -> SUBSET (Passwords \cup Identities)]
  BY <1>1, VisitFacts
<1>4. CASE Answer(v, b, r.refused) /\ UNCHANGED account
  BY <1>1, <1>2, <1>4, Refusing
<1>5. CASE /\ r.seen.password # Unset /\ account.password = r.seen.password
           /\ Replace(v, b, Bump(account), "full")
  <2>1. account' = Bump(account) /\ Answer(v, b, Cookie("full", account'))
    BY <1>5 DEF Replace
  <2>2. /\ account' \in Accounts /\ account'.version = account.version + 1
        /\ account'.setupId = account.setupId
        /\ CodesFit(account', issued, chosen')
    BY <1>1, <1>3, <2>1 DEF Bump, Accounts, CodesFit
  <2>3. chosen'[issued] # {}
    BY <1>1, <1>3, <1>5 DEF CodesFit
  <2>4. Cookie("full", account') \in Cookies \cup {Keeps}
    BY <2>2 DEF Cookie, Cookies, Accounts
  <2>5. Answered(v, b, Cookie("full", account'))
    BY <1>1, <2>1, <2>4, AnswersAreAnswered
  <2> QED BY <1>1, <1>3, <2>2, <2>3, <2>5, OpenedAnswer
<1>6. CASE /\ r.seen.password = Unset /\ account.code = r.seen.code /\ r.seen.code # 0
           /\ Replace(v, b,
                      [Bump(account) EXCEPT !.code = 0, !.pending = account.code,
                                            !.password = Unset, !.setupId = Unset],
                      "setup")
  <2>1. /\ account' = [Bump(account) EXCEPT !.code = 0, !.pending = account.code,
                                            !.password = Unset, !.setupId = Unset]
        /\ Answer(v, b, Cookie("setup", account'))
    BY <1>6 DEF Replace
  <2>2. /\ account' \in Accounts /\ account'.version = account.version + 1
        /\ account'.setupId = Unset /\ account'.code = 0 /\ account'.pending = account.code
        /\ account'.password = Unset /\ account'.provider = account.provider
    BY <1>1, <1>3, <2>1, BumpIs DEF Accounts
  <2>3. account'.pending = issued /\ chosen'[issued] = {}
    BY <1>1, <1>3, <1>6, <2>2 DEF CodesFit
  <2>4. CodesFit(account', issued, chosen')
    BY <1>1, <1>3, <2>2, <2>3 DEF CodesFit
  <2>5. Cookie("setup", account') \in Cookies \cup {Keeps}
    BY <2>2 DEF Cookie, Cookies, Accounts
  <2>6. Answered(v, b, Cookie("setup", account'))
    BY <1>1, <2>1, <2>5, AnswersAreAnswered
  <2> QED BY <1>1, <1>3, <2>2, <2>3, <2>4, <2>6, OpenedAnswer
<1> QED BY <1>4, <1>5, <1>6 DEF EndCreateSession, SecretFits

LEMMA PasswordEnds ==
    ASSUME SignInInvariant, NEW v \in Visits, EndPassword(v)
    PROVE  SignInInvariant'
<1> DEFINE r == visit[v]
           b == r.browser
<1>1. /\ UNCHANGED <<cookie, issued>> /\ attempt' = attempt
      /\ r.at = "password" /\ b \in Browsers
      /\ r.session \in Cookies
      /\ r.seen \in Snapshots /\ r \in PasswordVisits /\ r.id \in SetupIds
      /\ r.secret \in Passwords
  BY VisitFacts, VisitAt DEF EndPassword, PasswordVisits, Cookies
<1>2. QuietAttempts
  BY <1>1, SameAttempts
<1>3. /\ account \in Accounts /\ account.version \in Nat
      /\ CodesFit(account, issued, chosen) /\ issued \in Codes
      /\ chosen \in [Codes -> SUBSET (Passwords \cup Identities)]
  BY VisitFacts
<1>4. Carried(r) = r.session
  BY <1>1, CarriedIs
<1>5. r.session.level # Unset => <<b, r.session>> \in Sessions
  BY <1>1, <1>4, SomeCookies, CarriedIsHeld
<1>6. r.seen \in Snaps
  BY <1>1 DEF Snaps
<1>7. r.id # Unset /\ r.secret # Unset
  BY <1>1, SignInAssumption
<1>8. CASE /\ Completed(r.seen, r) /\ r.session.level # Unset
           /\ Answer(v, b, Cookie("full", r.seen)) /\ UNCHANGED <<account, chosen>>
  <2>1. Cookie("full", r.seen) \in Cookies \cup {Keeps}
    BY <1>1 DEF Cookie, Cookies, Snapshots
  <2>2. Answered(v, b, Cookie("full", r.seen))
    BY <1>1, <1>8, <2>1, AnswersAreAnswered
  <2>3. /\ r.seen.setupId # Unset /\ r.seen.password # Unset
        /\ r.session.version # r.seen.version =>
             r.session.level = "setup" /\ r.session.version + 1 = r.seen.version
    BY <1>7, <1>8 DEF Completed
  <2> QED BY <1>1, <1>5, <1>6, <1>8, <2>2, <2>3, RenewedAnswer
<1>9. CASE /\ MayChoose(r) /\ StillPending(r)
           /\ Replace(v, b, [Bump(account) EXCEPT !.code = 0, !.pending = 0, !.fresh = FALSE,
                                                  !.password = r.secret, !.setupId = r.id],
                      "full")
           /\ chosen' = [chosen EXCEPT ![r.seen.pending] = @ \cup {r.secret}]
  <2>1. /\ account' = [Bump(account) EXCEPT !.code = 0, !.pending = 0, !.fresh = FALSE,
                                            !.password = r.secret, !.setupId = r.id]
        /\ Answer(v, b, Cookie("full", account'))
    BY <1>9 DEF Replace
  <2>2. /\ account' \in Accounts /\ account'.version = account.version + 1
        /\ account'.setupId = r.id /\ account'.code = 0 /\ account'.pending = 0
        /\ account'.password = r.secret /\ account'.provider = account.provider
    BY <1>1, <1>3, <2>1, BumpIs DEF Accounts
  <2>3. r.seen.pending = issued /\ chosen[issued] = {} /\ account.provider = Unset
    BY <1>3, <1>9 DEF MayChoose, StillPending, CodesFit
  <2>4. /\ chosen' \in [Codes -> SUBSET (Passwords \cup Identities)]
        /\ chosen'[issued] = {r.secret}
        /\ \A c \in Codes : c # issued => chosen'[c] = chosen[c]
    BY <1>1, <1>3, <1>9, <2>3
  <2>5. CodesFit(account', issued, chosen')
    BY <1>1, <1>3, <2>2, <2>4 DEF CodesFit, Codes
  <2>6. Cookie("full", account') \in Cookies \cup {Keeps}
    BY <2>2 DEF Cookie, Cookies, Accounts
  <2>7. Answered(v, b, Cookie("full", account'))
    BY <1>1, <2>1, <2>6, AnswersAreAnswered
  <2>8. \E h \in Sessions : h[1] = b /\ h[2].version = account.version
    <3>1. <<b, r.session>> \in Sessions
      BY <1>5, <1>9 DEF MayChoose, Unset
    <3>2. r.session.version = account.version
      BY <1>9 DEF MayChoose, StillPending, Unchanged
    <3> QED BY <3>1, <3>2
  <2>9. chosen'[issued] # {}
    BY <2>4
  <2> QED BY <1>1, <1>3, <2>2, <2>4, <2>5, <2>7, <2>8, <2>9, OpenedAnswer
<1>10. CASE visit' = [visit EXCEPT ![v].at = "reload"] /\ UNCHANGED <<account, chosen>>
  <2> DEFINE x == [r EXCEPT !.at = "reload"]
  <2>1. /\ x \in PasswordVisits /\ x.at = "reload" /\ x.browser = b
        /\ x.session = r.session
    BY <1>1 DEF PasswordVisits
  <2>2. visit' = [visit EXCEPT ![v] = x]
    BY <1>10
  <2> HIDE DEF x
  <2>3. IsVisit(x) /\ Carried(x) = r.session
    BY <2>1, CarriedIs DEF IsVisit
  <2>4. Real(Carried(x)) => <<x.browser, Carried(x)>> \in Sessions
    BY <1>4, <2>1, <2>3, CarriedIsHeld
  <2> QED BY <1>1, <1>2, <1>10, <2>1, <2>2, <2>3, <2>4, QuietVisit
<1>11. CASE \E set \in {Keeps, NoCookie} : Answer(v, b, set) /\ UNCHANGED <<account, chosen>>
  BY <1>1, <1>2, <1>11, Refusing
<1>12. r.session.level # Unset
  BY <1>1 DEF PasswordVisits, Unset
<1> QED BY <1>8, <1>9, <1>10, <1>11, <1>12 DEF EndPassword

LEMMA PasswordReloads ==
    ASSUME SignInInvariant, NEW v \in Visits, ReloadPassword(v)
    PROVE  SignInInvariant'
<1> DEFINE r == visit[v]
           b == r.browser
<1>1. /\ UNCHANGED <<account, cookie, issued, chosen>> /\ attempt' = attempt
      /\ r.at = "reload" /\ b \in Browsers /\ r \in PasswordVisits /\ r.id \in SetupIds
      /\ r.session \in [level : {"setup", "full"}, version : Nat]
  BY VisitFacts, VisitAt DEF ReloadPassword, PasswordVisits
<1>2. QuietAttempts
  BY <1>1, SameAttempts
<1>3. /\ Seen.version = account.version /\ account.version \in Nat
      /\ Seen.setupId = account.setupId /\ Seen.password = account.password
  BY VisitFacts
<1>4. CASE /\ Completed(account, r) /\ account.version = r.session.version + 1
           /\ Answer(v, b, Cookie("full", account))
  <2>1. <<b, r.session>> \in Sessions
    BY <1>1, CarriedIs, CarriedIsHeld DEF Real
  <2>2. Cookie("full", account) \in Cookies \cup {Keeps}
    BY <1>3 DEF Cookie, Cookies
  <2>3. Cookie("full", account) = Cookie("full", Seen)
    BY <1>3 DEF Cookie
  <2>4. Answered(v, b, Cookie("full", Seen))
    BY <1>1, <1>4, <2>2, <2>3, AnswersAreAnswered
  <2>5. /\ Seen.setupId # Unset /\ Seen.password # Unset
        /\ r.session.version # Seen.version =>
             r.session.level = "setup" /\ r.session.version + 1 = Seen.version
    BY <1>1, <1>3, <1>4, SignInAssumption DEF Completed
  <2> QED BY <1>1, <2>1, <2>4, <2>5, RenewedAnswer
<1>5. CASE Answer(v, b, Keeps)
  BY <1>1, <1>2, <1>5, Refusing
<1> QED BY <1>4, <1>5 DEF ReloadPassword

LEMMA SessionIsChecked ==
    ASSUME SignInInvariant, NEW v \in Visits, NEW id \in SetupIds \cup {"absent"},
           GetSession(v, id)
    PROVE  SignInInvariant'
<1> DEFINE r == visit[v]
           b == r.browser
           c == r.session
<1>1. /\ UNCHANGED <<account, cookie, issued, chosen>> /\ attempt' = attempt
      /\ c.level # Unset /\ r.at = "sent" /\ b \in Browsers /\ r \in SentVisits
      /\ c \in Cookies
  BY VisitFacts, VisitAt DEF GetSession, Sent, SentVisits
<1>2. QuietAttempts
  BY <1>1, SameAttempts
<1>3. /\ Seen.version = account.version /\ account.version \in Nat
      /\ Seen.setupId = account.setupId /\ Seen.password = account.password
  BY VisitFacts
<1>4. CASE /\ c.level = "setup" /\ account.version = c.version + 1
           /\ account.password # Unset /\ account.setupId = id
           /\ Answer(v, b, Cookie("full", account))
  <2>1. <<b, c>> \in Sessions
    BY <1>1, CarriedIs, CarriedIsHeld, SomeCookies
  <2>2. Cookie("full", account) \in Cookies \cup {Keeps}
    BY <1>3 DEF Cookie, Cookies
  <2>3. Cookie("full", account) = Cookie("full", Seen)
    BY <1>3 DEF Cookie
  <2>4. Answered(v, b, Cookie("full", Seen))
    BY <1>1, <1>4, <2>2, <2>3, AnswersAreAnswered
  <2>5. /\ Seen.setupId # Unset /\ Seen.password # Unset
        /\ c.version # Seen.version => c.level = "setup" /\ c.version + 1 = Seen.version
    BY <1>3, <1>4, SignInAssumption DEF Unset
  <2> QED BY <1>1, <2>1, <2>4, <2>5, RenewedAnswer
<1>5. CASE \E set \in {Keeps, NoCookie} : Answer(v, b, set)
  BY <1>1, <1>2, <1>5, Refusing
<1> QED BY <1>4, <1>5 DEF GetSession

LEMMA CallbackEnds ==
    ASSUME SignInInvariant, NEW v \in Visits, NEW i \in Identities, EndCallback(v, i)
    PROVE  SignInInvariant'
<1> DEFINE r == visit[v]
           b == r.browser
<1>1. /\ UNCHANGED <<cookie, issued>> /\ attempt' = attempt
      /\ r.at = "callback" /\ b \in Browsers /\ i # Unset
  BY VisitFacts, VisitAt, SignInAssumption DEF EndCallback, CallbackVisits
<1>2. QuietAttempts
  BY <1>1, SameAttempts
<1>3. /\ account \in Accounts /\ account.version \in Nat
      /\ CodesFit(account, issued, chosen) /\ issued \in Codes
      /\ chosen \in [Codes -> SUBSET (Passwords \cup Identities)]
  BY VisitFacts
<1>4. CASE /\ MayLink(r)
           /\ Replace(v, b, [Bump(account) EXCEPT !.code = 0, !.pending = 0, !.fresh = FALSE,
                                                  !.password = Unset, !.setupId = Unset,
                                                  !.provider = i],
                      "full")
           /\ chosen' = [chosen EXCEPT ![account.pending] = @ \cup {i}]
  <2>1. /\ account' = [Bump(account) EXCEPT !.code = 0, !.pending = 0, !.fresh = FALSE,
                                            !.password = Unset, !.setupId = Unset,
                                            !.provider = i]
        /\ Answer(v, b, Cookie("full", account'))
    BY <1>4 DEF Replace
  <2>2. /\ account' \in Accounts /\ account'.version = account.version + 1
        /\ account'.setupId = Unset /\ account'.code = 0 /\ account'.pending = 0
        /\ account'.password = Unset /\ account'.provider = i
    BY <1>1, <1>3, <2>1, BumpIs DEF Accounts
  <2>3. account.pending = issued /\ chosen[issued] = {}
    BY <1>3, <1>4 DEF MayLink, CodesFit
  <2>4. /\ chosen' \in [Codes -> SUBSET (Passwords \cup Identities)]
        /\ chosen'[issued] = {i} /\ chosen'[issued] # {}
        /\ \A c \in Codes : c # issued => chosen'[c] = chosen[c]
    BY <1>1, <1>3, <1>4, <2>3
  <2>5. CodesFit(account', issued, chosen')
    BY <1>1, <1>3, <2>2, <2>4 DEF CodesFit, Codes
  <2>6. Cookie("full", account') \in Cookies \cup {Keeps}
    BY <2>2 DEF Cookie, Cookies, Accounts
  <2>7. Answered(v, b, Cookie("full", account'))
    BY <1>1, <2>1, <2>6, AnswersAreAnswered
  <2> QED BY <1>1, <1>3, <2>2, <2>4, <2>5, <2>7, OpenedAnswer
<1>5. CASE /\ account.provider = i /\ Replace(v, b, ProviderSignedIn(account), "full")
           /\ UNCHANGED chosen
  <2>1. account' = Bump(account) /\ Answer(v, b, Cookie("full", account'))
    BY <1>5 DEF Replace, ProviderSignedIn
  <2>2. /\ account' \in Accounts /\ account'.version = account.version + 1
        /\ account'.setupId = account.setupId
        /\ CodesFit(account', issued, chosen')
    BY <1>1, <1>3, <1>5, <2>1, BumpIs DEF CodesFit
  <2>3. chosen'[issued] # {}
    BY <1>1, <1>3, <1>5 DEF CodesFit
  <2>4. Cookie("full", account') \in Cookies \cup {Keeps}
    BY <2>2 DEF Cookie, Cookies, Accounts
  <2>5. Answered(v, b, Cookie("full", account'))
    BY <1>1, <2>1, <2>4, AnswersAreAnswered
  <2> QED BY <1>1, <1>3, <1>5, <2>2, <2>3, <2>5, OpenedAnswer
<1>6. CASE AnswerWith(v, b, Keeps, TRUE) /\ UNCHANGED <<account, chosen>>
  BY <1>1, <1>2, <1>6, Refusing
<1> QED BY <1>4, <1>5, <1>6 DEF EndCallback

LEMMA SessionIsDeleted ==
    ASSUME SignInInvariant, NEW v \in Visits, DeleteSession(v)
    PROVE  SignInInvariant'
<1> DEFINE b == visit[v].browser
           x == [at |-> "answered", browser |-> b, set |-> NoCookie, unbinds |-> TRUE]
<1>1. /\ UNCHANGED <<cookie, issued, chosen>> /\ attempt' = attempt
      /\ visit' = [visit EXCEPT ![v] = x]
      /\ account' = account \/ account' = Bump(account)
  BY DEF DeleteSession, AnswerWith
<1>2. QuietAttempts
  BY <1>1, SameAttempts
<1>3. b \in Browsers
  BY VisitFacts, VisitAt DEF DeleteSession, Sent, SentVisits
<1>4. x \in AnsweredVisits /\ x.at = "answered" /\ x.set = NoCookie
  BY <1>3, SomeCookies DEF AnsweredVisits
<1> HIDE DEF x
<1>5. IsVisit(x) /\ ~Real(Carried(x))
  BY <1>4, CarriedIs, SomeCookies DEF IsVisit
<1>6. CASE account' = account
  BY <1>1, <1>2, <1>4, <1>5, <1>6, QuietVisit
<1>7. CASE account' = Bump(account)
  <2>4. SignInTypes /\ account \in Accounts /\ CodesFit(account, issued, chosen)
    BY DEF SignInInvariant, SignInTypes
  <2>5. /\ visit' = [w \in Visits |-> visit'[w]]
        /\ \A w \in Visits : IsVisit(visit'[w])
        /\ \A h \in Sessions' : h \notin Sessions =>
              Real(Carried(x)) /\ h = <<x.browser, Carried(x)>>
        /\ \A s \in Snaps' : s \notin Snaps => x.at = "password" /\ s = x.seen
    BY <1>1, <1>5, <2>4, OneVisit
  <2>6. /\ account' \in Accounts /\ account'.version = account.version + 1
        /\ CodesFit(account', issued', chosen')
    BY <1>1, <1>7, <2>4, BumpIs DEF CodesFit
  <2>7. SignInTypes'
    BY <1>1, <2>4, <2>5, <2>6 DEF SignInTypes
  <2>8. (\A h \in Sessions' : h \in Sessions) /\ (\A s \in Snaps' : s \in Snaps)
    BY <1>4, <1>5, <2>5
  <2> QED BY <2>6, <2>7, <2>8, BumpedAccount
<1> QED BY <1>1, <1>6, <1>7

LEMMA AnswerArrives ==
    ASSUME SignInInvariant, NEW v \in Visits, Delivered(v)
    PROVE  SignInInvariant'
<1> DEFINE r == visit[v]
           b == r.browser
<1>1. /\ UNCHANGED <<account, issued, chosen>> /\ r \in AnsweredVisits /\ b \in Browsers
      /\ r.set \in Cookies \cup {Keeps} /\ visit' = [visit EXCEPT ![v] = NoVisit]
  BY VisitFacts, VisitAt DEF Delivered, AnsweredVisits
<1>2. attempt' = attempt \/ attempt' = [attempt EXCEPT ![b] = NoAttempt]
  BY DEF Delivered
<1>3. NoAttempt \in [mode : {Unset, "link", "signin"}, version : Nat]
  BY DEF NoAttempt
<1>4. QuietAttempts
  BY <1>1, <1>2, <1>3, SameAttempts, OneAttempt
<1>5. IsVisit(NoVisit) /\ NoVisit.at = "idle" /\ ~Real(Carried(NoVisit))
  BY CarriedIs, SomeCookies DEF IsVisit, NoVisit
<1>6. CASE cookie' = cookie
  BY <1>1, <1>4, <1>5, <1>6, QuietVisit
<1>7. CASE cookie' = [cookie EXCEPT ![b] = r.set] /\ r.set # Keeps
  <2>1. SignInTypes /\ Carried(r) = r.set /\ r.set \in Cookies
    BY <1>1, <1>7, CarriedIs DEF SignInInvariant
  <2>2. Real(r.set) => <<b, r.set>> \in Sessions
    BY <2>1, CarriedIsHeld
  <2>3. /\ visit'[v] = NoVisit /\ \A w \in Visits \ {v} : visit'[w] = visit[w]
        /\ visit' = [w \in Visits |-> visit'[w]]
    BY <1>1, <2>1 DEF SignInTypes
  <2>4. /\ cookie' \in [Browsers -> Cookies] /\ cookie'[b] = r.set
        /\ \A a \in Browsers : a # b => cookie'[a] = cookie[a]
    BY <1>1, <1>7, <2>1 DEF SignInTypes
  <2>5. SignInTypes'
    BY <1>1, <1>4, <1>5, <2>1, <2>3, <2>4 DEF SignInTypes, QuietAttempts
  <2>6. ASSUME NEW h \in Sessions' PROVE h \in Sessions
    <3>1. CASE \E a \in Browsers : Real(cookie'[a]) /\ h = <<a, cookie'[a]>>
      BY <2>2, <2>4, <3>1 DEF Sessions
    <3>2. CASE \E w \in Visits : /\ Real(Carried(visit'[w]))
                                 /\ h = <<visit'[w].browser, Carried(visit'[w])>>
      BY <1>5, <2>3, <3>2 DEF Sessions
    <3> QED BY <3>1, <3>2 DEF Sessions
  <2>7. ASSUME NEW s \in Snaps', s \notin Snaps PROVE s = Seen
    BY <1>5, <2>3, <2>7 DEF Snaps
  <2> QED BY <1>1, <2>5, <2>6, <2>7, QuietFits
<1> QED BY <1>6, <1>7 DEF Delivered

-----------------------------------------------------------------------------
(* The other steps.                                                        *)

LEMMA SameSets ==
    ASSUME visit' = visit, cookie' = cookie
    PROVE  Sessions' = Sessions /\ Snaps' = Snaps
  BY DEF Sessions, Snaps

LEMMA VisitsKeep ==
    ASSUME SignInInvariant, UNCHANGED <<account, cookie, visit, issued, chosen>>, QuietAttempts
    PROVE  SignInInvariant'
<1>1. SignInTypes'
  BY DEF SignInInvariant, SignInTypes, QuietAttempts
<1> QED BY <1>1, SameSets, QuietFits

LEMMA AttemptBegins ==
    ASSUME SignInInvariant, NEW b \in Browsers, Connect(b) \/ StartProviderSignIn(b)
    PROVE  SignInInvariant'
<1>1. account.version \in Nat
  BY DEF SignInInvariant, SignInTypes, Accounts
<1>2. PICK t \in [mode : {Unset, "link", "signin"}, version : Nat] :
        attempt' = [attempt EXCEPT ![b] = t]
  BY <1>1 DEF Connect, StartProviderSignIn
<1>3. QuietAttempts
  BY <1>2, OneAttempt
<1> QED BY <1>3, VisitsKeep DEF Connect, StartProviderSignIn

LEMMA CookieExpires ==
    ASSUME SignInInvariant, NEW b \in Browsers, SessionExpires(b)
    PROVE  SignInInvariant'
<1>1. /\ UNCHANGED <<account, attempt, visit, issued, chosen>> /\ SignInTypes
      /\ cookie' = [cookie EXCEPT ![b] = NoCookie]
  BY DEF SessionExpires, SignInInvariant
<1>2. SignInTypes'
  BY <1>1, SomeCookies DEF SignInTypes
<1>3. \A h \in Sessions' : h \in Sessions
  BY <1>1, SomeCookies DEF Sessions, SignInTypes
<1>4. Snaps' = Snaps
  BY <1>1 DEF Snaps
<1> QED BY <1>1, <1>2, <1>3, <1>4, QuietFits

LEMMA AccessCodeExpires ==
    ASSUME SignInInvariant, CodeExpires
    PROVE  SignInInvariant'
<1>1. /\ UNCHANGED <<cookie, attempt, visit, issued, chosen>> /\ SignInTypes
      /\ account' = [account EXCEPT !.fresh = FALSE] /\ account \in Accounts
  BY DEF CodeExpires, SignInInvariant, SignInTypes
<1>2. /\ account' \in Accounts /\ account'.version = account.version
      /\ account'.setupId = account.setupId /\ account'.pending = account.pending
      /\ account'.code = account.code /\ account'.password = account.password
      /\ account'.provider = account.provider /\ account'.active = account.active
  BY <1>1 DEF Accounts
<1>3. SignInTypes' /\ SeenOf(account') = SeenOf(account)
  BY <1>1, <1>2 DEF SignInTypes, SeenOf
<1>4. /\ SessionsFit(Sessions, Snaps, account') /\ CodesFit(account', issued, chosen)
      /\ SessionsStand(Sessions, account', issued, chosen)
  BY <1>2, <1>3 DEF SignInInvariant, SessionsFit, CodesFit, SessionsStand
<1> QED BY <1>1, <1>3, <1>4, SameSets DEF SignInInvariant

LEMMA TeacherChangesAccount ==
    ASSUME SignInInvariant, ResetAccessCode \/ Deactivate \/ Activate
    PROVE  SignInInvariant'
<1>1. /\ UNCHANGED <<cookie, attempt, visit, chosen>> /\ SignInTypes /\ account \in Accounts
      /\ CodesFit(account, issued, chosen) /\ issued \in Codes /\ account.version \in Nat
  BY DEF ResetAccessCode, Deactivate, Activate, SignInInvariant, SignInTypes, Accounts
<1>2. CASE ResetAccessCode
  <2>1. issued' = issued + 1 /\ issued' \in Codes
    BY <1>1, <1>2, SignInAssumption DEF ResetAccessCode, Codes
  <2>2. /\ account' \in Accounts /\ account'.version = account.version + 1
        /\ account'.code = issued' /\ account'.pending = 0
        /\ account'.password = Unset /\ account'.provider = Unset
    <3> DEFINE k == NewAccount
               version == account.version + 1
               n == issued'
    <3>1. k \in Accounts /\ k.pending = 0 /\ k.password = Unset /\ k.provider = Unset
      BY DEF NewAccount, Accounts
    <3>2. /\ account' = [k EXCEPT !.version = version, !.code = n]
          /\ version \in Nat /\ n \in Nat
      BY <1>1, <1>2, <2>1 DEF ResetAccessCode, Codes
    <3> HIDE DEF k, version, n
    <3>3. /\ account' \in Accounts /\ account'.version = version /\ account'.code = n
          /\ account'.pending = 0 /\ account'.password = Unset /\ account'.provider = Unset
      BY <3>1, <3>2 DEF Accounts
    <3> QED BY <3>3 DEF version, n
  <2>3. chosen'[issued'] = {}
    BY <1>1, <2>1 DEF CodesFit, Codes
  <2>4. CodesFit(account', issued', chosen')
    BY <1>1, <2>1, <2>2, <2>3 DEF CodesFit, Codes
  <2>5. SignInTypes'
    BY <1>1, <2>1, <2>2 DEF SignInTypes
  <2> QED BY <1>1, <2>2, <2>4, <2>5, SameSets, BumpedAccount
<1>3. CASE Deactivate
  <2>1. /\ account' \in Accounts /\ account'.version = account.version + 1
        /\ account'.code = 0 /\ account'.pending = 0
        /\ account'.password = account.password /\ account'.provider = account.provider
        /\ issued' = issued
    <3> DEFINE k == Bump(account)
    <3>1. /\ k \in Accounts /\ k.version = account.version + 1
          /\ k.password = account.password /\ k.provider = account.provider
      BY <1>1, BumpIs
    <3>2. /\ account' = [k EXCEPT !.active = FALSE, !.code = 0, !.fresh = FALSE,
                                  !.setupId = Unset, !.pending = 0]
          /\ issued' = issued
      BY <1>3 DEF Deactivate
    <3> HIDE DEF k
    <3> QED BY <3>1, <3>2 DEF Accounts
  <2>2. SignInTypes' /\ CodesFit(account', issued', chosen')
    BY <1>1, <2>1 DEF SignInTypes, CodesFit
  <2> QED BY <1>1, <2>1, <2>2, SameSets, BumpedAccount
<1>4. CASE Activate
  <2>1. /\ account' \in Accounts /\ account'.version = account.version + 1
        /\ account'.code = account.code /\ account'.pending = account.pending
        /\ account'.password = account.password /\ account'.provider = account.provider
        /\ issued' = issued
    <3> DEFINE k == Bump(account)
    <3>1. /\ k \in Accounts /\ k.version = account.version + 1
          /\ k.code = account.code /\ k.pending = account.pending
          /\ k.password = account.password /\ k.provider = account.provider
      BY <1>1, BumpIs
    <3>2. account' = [k EXCEPT !.active = TRUE] /\ issued' = issued
      BY <1>4 DEF Activate
    <3> HIDE DEF k
    <3> QED BY <3>1, <3>2 DEF Accounts
  <2>2. SignInTypes' /\ CodesFit(account', issued', chosen')
    BY <1>1, <2>1 DEF SignInTypes, CodesFit
  <2> QED BY <1>1, <2>1, <2>2, SameSets, BumpedAccount
<1> QED BY <1>2, <1>3, <1>4

-----------------------------------------------------------------------------
(* The theorems.                                                           *)

LEMMA SignInStarts == SignInInit => SignInInvariant
<1> SUFFICES ASSUME SignInInit PROVE SignInInvariant
  OBVIOUS
<1>1. 1 \in Codes
  BY SignInAssumption DEF Codes
<1>2. account \in Accounts /\ account.version = 0 /\ account.setupId = Unset
  BY DEF SignInInit, NewAccount, Accounts
<1>3. SignInTypes
  BY <1>1, <1>2, SomeCookies DEF SignInInit, SignInTypes, IsVisit, NoAttempt
<1>4. Sessions = {} /\ Snaps = {}
  <2>1. \A v \in Visits : visit[v].at # "password" /\ ~Real(Carried(visit[v]))
    BY CarriedIs, SomeCookies DEF SignInInit, NoVisit
  <2>2. \A b \in Browsers : ~Real(cookie[b])
    BY SomeCookies DEF SignInInit
  <2> QED BY <2>1, <2>2 DEF Sessions, Snaps
<1>5. SessionsFit({}, {}, account) /\ SessionsStand({}, account, issued, chosen)
  BY DEF SessionsFit, SessionsStand, SameBrowser
<1>6. CodesFit(account, issued, chosen)
  BY <1>1 DEF SignInInit, NewAccount, CodesFit
<1> QED BY <1>3, <1>4, <1>5, <1>6 DEF SignInInvariant

LEMMA SignInSteps == SignInInvariant /\ [SignInNext]_signInVars => SignInInvariant'
<1> SUFFICES ASSUME SignInInvariant, [SignInNext]_signInVars PROVE SignInInvariant'
  OBVIOUS
<1>1. ASSUME NEW v \in Visits, VisitStep(v) PROVE SignInInvariant'
  BY <1>1, Sending, SignInBegins, PasswordBegins, SessionIsChecked, CallbackBegins,
     SessionIsDeleted, SignInEnds, PasswordEnds, PasswordReloads, CallbackEnds, AnswerArrives
     DEF VisitStep
<1>2. ASSUME NEW b \in Browsers, Connect(b) \/ StartProviderSignIn(b) \/ SessionExpires(b)
      PROVE  SignInInvariant'
  BY <1>2, AttemptBegins, CookieExpires
<1>3. CASE CodeExpires \/ ResetAccessCode \/ Deactivate \/ Activate
  BY <1>3, AccessCodeExpires, TeacherChangesAccount
<1>4. CASE UNCHANGED signInVars
  <2>1. UNCHANGED <<account, cookie, visit, issued, chosen>> /\ attempt' = attempt
    BY <1>4 DEF signInVars
  <2> QED BY <2>1, SameAttempts, VisitsKeep
<1> QED BY <1>1, <1>2, <1>3, <1>4 DEF SignInNext

\* The sessions under way belong to versions of the account, one browser to a version, and
\* the codes, the password and the provider tell what each code has put in place.
THEOREM SignInIsInvariant == SignInSpec => []SignInInvariant
  BY SignInStarts, SignInSteps, PTL DEF SignInSpec

LEMMA CurrentIsHeld ==
    ASSUME SignInInvariant, NEW b \in Browsers, NEW c \in CurrentOf(b)
    PROVE  <<b, c>> \in Sessions /\ Real(c) /\ c.version = account.version
<1>1. c \in SessionsOf(b) /\ Real(c) /\ c.version = account.version
  BY DEF CurrentOf, Real
<1>2. CASE c = cookie[b]
  BY <1>1, <1>2 DEF Sessions
<1>3. ASSUME NEW v \in Visits, visit[v].at = "answered", visit[v].browser = b, c = visit[v].set
      PROVE  <<b, c>> \in Sessions
  BY <1>1, <1>3, VisitFacts, VisitAt, CarriedIs, CarriedIsHeld
<1> QED BY <1>1, <1>2, <1>3 DEF SessionsOf

\* At most one browser has, or is about to get, a session that the server accepts: every
\* credential change and sign-in of studentController.ts takes a new version, and what is
\* answered again belongs to the browser that had the set-up session.
THEOREM OneBrowserSignsIn == SignInSpec => []OneBrowserAtATime
<1>1. SignInInvariant => OneBrowserAtATime
  <2> SUFFICES ASSUME SignInInvariant, NEW a \in Browsers, NEW b \in Browsers,
                      NEW c \in CurrentOf(a), NEW d \in CurrentOf(b)
               PROVE  a = b
    BY DEF OneBrowserAtATime
  <2>1. /\ <<a, c>> \in Sessions /\ <<b, d>> \in Sessions
        /\ c.version = d.version
    BY CurrentIsHeld
  <2>2. \A h, k \in Sessions : h[2].version = k[2].version => h[1] = k[1]
    BY DEF SignInInvariant, SessionsFit
  <2> QED BY <2>1, <2>2
<1> QED BY <1>1, SignInIsInvariant, PTL

\* A code of the teacher puts at most one password or identity in place, and an accepted
\* session stands on what the last code has given.
THEOREM CodesStayUsedOnce == SignInSpec => []CodesAreUsedOnce
<1>1. SignInInvariant => CodesAreUsedOnce
  <2> SUFFICES ASSUME SignInInvariant PROVE CodesAreUsedOnce
    OBVIOUS
  <2>1. CodesFit(account, issued, chosen) /\ SessionsStand(Sessions, account, issued, chosen)
        /\ issued \in Codes
    BY DEF SignInInvariant, SignInTypes
  <2>2. ASSUME NEW c \in Codes PROVE Cardinality(chosen[c]) <= 1
    <3>1. CASE chosen[c] = {}
      BY <3>1, FS_EmptySet
    <3>2. ASSUME NEW x, chosen[c] = {x} PROVE Cardinality(chosen[c]) <= 1
      BY <3>2, FS_Singleton
    <3> QED BY <2>1, <3>1, <3>2 DEF CodesFit
  <2>3. ASSUME NEW b \in Browsers, NEW c \in CurrentOf(b)
        PROVE  IF c.level = "setup"
               THEN account.pending = issued /\ chosen[issued] = {}
               ELSE chosen[issued] # {} /\ chosen[issued] \subseteq {account.password, account.provider}
    <3>1. IF c.level = "setup" THEN account.pending = issued ELSE chosen[issued] # {}
      BY <2>1, <2>3, CurrentIsHeld DEF SessionsStand
    <3>2. issued # 0
      BY <2>1 DEF Codes
    <3> QED BY <2>1, <3>1, <3>2 DEF CodesFit
  <2> QED BY <2>2, <2>3 DEF CodesAreUsedOnce
<1> QED BY <1>1, SignInIsInvariant, PTL
=============================================================================
