----------------------------- MODULE StudentSignIn -----------------------------
(* How a student gets and loses a session (controllers/students/studentController.ts,
   studentOAuthController.ts, security/sessionLifecycle.ts): a single-use access code opens a
   setup session, a setup session chooses a password or links a provider, either of them
   opens full sessions. The session itself is a signed cookie in the browser; what makes it
   valid is that it carries the account's sessionVersion.

   A handler reads the account and updates it later under a filter, so that requests of
   several browsers, or of two tabs of one, overtake each other; its answer, which may
   replace the cookie, arrives after others or never. Other accounts, lock-out, retention and
   the pending deletion (StudentRecords) are left out. *)
EXTENDS Naturals, FiniteSets
CONSTANTS
    Browsers, Visits,       \* visits: requests under way
    Passwords, SetupIds,    \* what a student may choose; X-Password-Setup-Request-ID
    Identities,             \* provider and subject
    MaxCodes, MaxVersion    \* bounds: codes issued, versions used

VARIABLES
    account,    \* the student document
    cookie,     \* [Browsers -> session]
    attempt,    \* [Browsers -> the OAuth attempt its binding cookie fits]
    visit,      \* [Visits -> request under way]
    issued,     \* access codes issued, which are numbered
    chosen      \* history: [code -> passwords and identities put in place through it]
signInVars == <<account, cookie, attempt, visit, issued, chosen>>

Unset == "none"
ASSUME SignInAssumption ==
    MaxCodes \in Nat \ {0} /\ Unset \notin Passwords \cup SetupIds \cup Identities

NoCookie == [level |-> Unset, version |-> 0]
NoAttempt == [mode |-> Unset, version |-> 0]
NoVisit == [at |-> "idle"]
Codes == 1..MaxCodes

\* `code` and `pending` are accessCodeHash and pendingSetupCodeHash, 0 when unset; `fresh` is
\* that accessCodeExpiresAt lies ahead.
NewAccount == [version |-> 0, active |-> TRUE, code |-> 1, fresh |-> TRUE, pending |-> 0,
               password |-> Unset, setupId |-> Unset, provider |-> Unset]

SignInInit ==
    /\ account = NewAccount
    /\ cookie = [b \in Browsers |-> NoCookie]
    /\ attempt = [b \in Browsers |-> NoAttempt]
    /\ visit = [v \in Visits |-> NoVisit]
    /\ issued = 1
    /\ chosen = [c \in Codes |-> {}]

-----------------------------------------------------------------------------
Cookie(level, a) == [level |-> level, version |-> a.version]
Keeps == [level |-> "keeps", version |-> 0]

\* hasLiveAuthenticatedIdentity: a session that is not live is cleared in passing.
Live(c) == c.level # Unset /\ account.active /\ c.version = account.version

\* The answer, with the cookie it sets; a sign-in, a sign-out and a callback also clear the
\* OAuth binding.
AnswerWith(v, b, set, unbinds) ==
    visit' = [visit EXCEPT ![v] = [at |-> "answered", browser |-> b, set |-> set,
                                   unbinds |-> unbinds]]
Answer(v, b, set) == AnswerWith(v, b, set, set.level \in {"setup", "full"})
Replace(v, b, a, level) == account' = a /\ Answer(v, b, Cookie(level, a))

\* Every change of a credential and every sign-in makes all other cookies stale.
Bump(a) == [a EXCEPT !.version = @ + 1]
Room == account.version < MaxVersion

\* A request leaves the browser with the cookie of that moment.
Send(v, b) ==
    /\ visit[v].at = "idle"
    /\ visit' = [visit EXCEPT ![v] = [at |-> "sent", browser |-> b, session |-> cookie[b]]]
    /\ UNCHANGED <<account, cookie, attempt, issued, chosen>>
Sent(v) == visit[v].at = "sent"

-----------------------------------------------------------------------------
\* What a handler uses of the account it read; the rest is read again by the filter.
Seen == [version |-> account.version, active |-> account.active, code |-> account.code,
         pending |-> account.pending, password |-> account.password, setupId |-> account.setupId]

\* createStudentSession up to the reading of the account: refused for a live session.
BeginCreateSession(v, secret) == LET r == visit[v] IN
    /\ Sent(v)
    /\ IF Live(r.session) THEN Answer(v, r.browser, Keeps)
       ELSE visit' = [visit EXCEPT ![v] = [at |-> "sign-in", browser |-> r.browser,
                                           refused |-> IF r.session = NoCookie THEN Keeps
                                                       ELSE NoCookie,
                                           secret |-> secret, seen |-> Seen]]
    /\ UNCHANGED <<account, cookie, attempt, issued, chosen>>

\* A password counts before a code, as the account was when it was read.
SecretFits(r) ==
    /\ r.seen.active
    /\ IF r.seen.password # Unset THEN r.secret = r.seen.password
       ELSE r.seen.code # 0 /\ r.secret = r.seen.code

Unchanged(r) == account.active /\ account.version = r.seen.version

\* The update under the filter; an access code is used up and opens a setup session.
EndCreateSession(v) == LET r == visit[v] IN
    /\ r.at = "sign-in"
    /\ \/ /\ SecretFits(r) /\ Unchanged(r) /\ Room
          /\ \/ /\ r.seen.password # Unset /\ account.password = r.seen.password
                /\ Replace(v, r.browser, Bump(account), "full")
             \/ /\ r.seen.password = Unset /\ account.code = r.seen.code /\ account.fresh
                /\ Replace(v, r.browser,
                           [Bump(account) EXCEPT !.code = 0, !.pending = account.code,
                                                 !.password = Unset, !.setupId = Unset],
                           "setup")
       \/ /\ ~SecretFits(r) \/ ~Unchanged(r) \/ (r.seen.password = Unset /\ ~account.fresh)
          /\ Answer(v, r.browser, r.refused)
          /\ UNCHANGED account
    /\ UNCHANGED <<cookie, attempt, issued, chosen>>

-----------------------------------------------------------------------------
\* setStudentPassword: the session is checked, the account read.
BeginPassword(v, p, id) == LET r == visit[v] IN
    /\ Sent(v) /\ r.session.level # Unset
    /\ visit' = [visit EXCEPT ![v] = [at |-> "password", browser |-> r.browser, secret |-> p,
                                      id |-> id, session |-> r.session, seen |-> Seen]]
    /\ UNCHANGED <<account, cookie, attempt, issued, chosen>>

\* The same request was completed before: by this session, or by its setup session.
Completed(a, r) ==
    /\ a.active /\ a.password # Unset /\ a.setupId = r.id
    /\ \/ a.version = r.session.version
       \/ r.session.level = "setup" /\ a.version = r.session.version + 1

MayChoose(r) ==
    /\ r.session.level = "setup"
    /\ r.seen.version = r.session.version
    /\ r.seen.pending # 0

\* Mutant: the update asks only that the account is active.
StillPendingIgnored(r) == account.active

\* The filter of the update: the account is as it was read.
StillPending(r) == Unchanged(r) /\ account.pending = r.seen.pending

\* Replays answer the session again if the password is the same; a request that finds the
\* account changed looks once more whether it was its own twin.
EndPassword(v) == LET r == visit[v] IN
    /\ r.at = "password"
    /\ \/ /\ Completed(r.seen, r)
          /\ Answer(v, r.browser, IF r.secret = r.seen.password THEN Cookie("full", r.seen)
                                  ELSE Keeps)
          /\ UNCHANGED <<account, chosen>>
       \/ /\ ~Completed(r.seen, r) /\ r.seen.active /\ MayChoose(r)
          /\ IF StillPending(r)
             THEN /\ Room
                  /\ Replace(v, r.browser,
                             [Bump(account) EXCEPT !.code = 0, !.pending = 0, !.fresh = FALSE,
                                                   !.password = r.secret, !.setupId = r.id],
                             "full")
                  /\ chosen' = [chosen EXCEPT ![r.seen.pending] = @ \cup {r.secret}]
             ELSE /\ visit' = [visit EXCEPT ![v].at = "reload"]
                  /\ UNCHANGED <<account, chosen>>
       \/ /\ ~Completed(r.seen, r) /\ ~(r.seen.active /\ MayChoose(r))
          /\ Answer(v, r.browser, IF r.seen.active THEN Keeps ELSE NoCookie)
          /\ UNCHANGED <<account, chosen>>
    /\ UNCHANGED <<cookie, attempt, issued>>

ReloadPassword(v) == LET r == visit[v] IN
    /\ r.at = "reload"
    /\ IF /\ Completed(account, r) /\ account.version = r.session.version + 1
          /\ account.password = r.secret
       THEN Answer(v, r.browser, Cookie("full", account))
       ELSE Answer(v, r.browser, Keeps)
    /\ UNCHANGED <<account, cookie, attempt, issued, chosen>>

-----------------------------------------------------------------------------
\* connectStudentOAuthProvider: a setup session that is current stores an attempt for itself;
\* startStudentOAuthSignIn stores one for nobody.
Connect(b) ==
    /\ cookie[b].level = "setup" /\ Live(cookie[b])
    /\ account.fresh /\ account.pending # 0 /\ account.provider = Unset
    /\ attempt' = [attempt EXCEPT ![b] = [mode |-> "link", version |-> account.version]]
    /\ UNCHANGED <<account, cookie, visit, issued, chosen>>
StartProviderSignIn(b) ==
    /\ ~Live(cookie[b])
    /\ attempt' = [attempt EXCEPT ![b] = [mode |-> "signin", version |-> 0]]
    /\ UNCHANGED <<account, cookie, visit, issued, chosen>>

\* finishStudentOAuth: the attempt is taken out of the database, once, before the provider is
\* asked who this is.
BeginCallback(v) == LET b == visit[v].browser IN
    /\ Sent(v) /\ attempt[b].mode # Unset
    /\ attempt' = [attempt EXCEPT ![b] = NoAttempt]
    /\ IF attempt[b].mode = "signin" /\ Live(visit[v].session)
       THEN AnswerWith(v, b, Keeps, TRUE)
       ELSE visit' = [visit EXCEPT ![v] = [at |-> "callback", browser |-> b,
                                           mode |-> attempt[b].mode,
                                           version |-> attempt[b].version]]
    /\ UNCHANGED <<account, cookie, issued, chosen>>

MayLink(r) ==
    /\ account.fresh /\ account.active /\ account.provider = Unset /\ account.pending # 0
    /\ account.version = r.version

\* Mutant: a provider sign-in leaves the other sessions alone.
ProviderSignedInOnly(a) == a

ProviderSignedIn(a) == Bump(a)

EndCallback(v, i) == LET r == visit[v] IN
    /\ r.at = "callback"
    /\ \/ /\ r.mode = "link" /\ MayLink(r) /\ Room
          /\ Replace(v, r.browser,
                     [Bump(account) EXCEPT !.code = 0, !.pending = 0, !.fresh = FALSE,
                                           !.password = Unset, !.setupId = Unset,
                                           !.provider = i],
                     "full")
          /\ chosen' = [chosen EXCEPT ![account.pending] = @ \cup {i}]
       \/ /\ r.mode = "signin" /\ account.active /\ account.provider = i /\ Room
          /\ Replace(v, r.browser, ProviderSignedIn(account), "full")
          /\ UNCHANGED chosen
       \/ AnswerWith(v, r.browser, Keeps, TRUE) /\ UNCHANGED <<account, chosen>>
    /\ UNCHANGED <<cookie, attempt, issued>>

-----------------------------------------------------------------------------
\* getStudentSession: a setup session whose password was set although its answer was lost
\* becomes the full session, for the request that set it; a stale one is cleared.
GetSession(v, id) == LET c == visit[v].session IN
    /\ Sent(v) /\ c.level # Unset
    /\ Answer(v, visit[v].browser,
              IF /\ account.active /\ c.level = "setup" /\ account.version = c.version + 1
                 /\ account.password # Unset /\ account.setupId = id
              THEN Cookie("full", account)
              ELSE IF Live(c) THEN Keeps ELSE NoCookie)
    /\ UNCHANGED <<account, cookie, attempt, issued, chosen>>

\* deleteStudentSession: the revocation is a no-op for a stale version, and may fail; the
\* cookie goes in any case.
DeleteSession(v) == LET c == visit[v].session IN
    /\ Sent(v)
    /\ \/ /\ c.level # Unset /\ c.version = account.version /\ Room
          /\ account' = Bump(account)
       \/ UNCHANGED account
    /\ AnswerWith(v, visit[v].browser, NoCookie, TRUE)
    /\ UNCHANGED <<cookie, attempt, issued, chosen>>

\* The answer reaches the browser, or is lost.
Delivered(v) == LET r == visit[v] IN
    /\ r.at = "answered"
    /\ visit' = [visit EXCEPT ![v] = NoVisit]
    /\ \/ /\ cookie' = IF r.set = Keeps THEN cookie ELSE [cookie EXCEPT ![r.browser] = r.set]
          /\ attempt' = IF r.unbinds THEN [attempt EXCEPT ![r.browser] = NoAttempt] ELSE attempt
       \/ UNCHANGED <<cookie, attempt>>
    /\ UNCHANGED <<account, issued, chosen>>

\* A session or a code outlives its time.
SessionExpires(b) ==
    /\ cookie[b].level # Unset
    /\ cookie' = [cookie EXCEPT ![b] = NoCookie]
    /\ UNCHANGED <<account, attempt, visit, issued, chosen>>
CodeExpires ==
    /\ account.fresh
    /\ account' = [account EXCEPT !.fresh = FALSE]
    /\ UNCHANGED <<cookie, attempt, visit, issued, chosen>>

\* The teacher's handlers read the version and update under it; a change in between makes
\* them answer a conflict, so that each is one step.
ResetAccessCode ==
    /\ issued < MaxCodes /\ Room
    /\ issued' = issued + 1
    /\ account' = [NewAccount EXCEPT !.version = account.version + 1, !.code = issued + 1]
    /\ UNCHANGED <<cookie, attempt, visit, chosen>>
Deactivate ==
    /\ Room
    /\ account' = [Bump(account) EXCEPT !.active = FALSE, !.code = 0, !.fresh = FALSE,
                                        !.setupId = Unset, !.pending = 0]
    /\ UNCHANGED <<cookie, attempt, visit, issued, chosen>>
Activate ==
    /\ account.password # Unset \/ account.provider # Unset \/ (account.code # 0 /\ account.fresh)
    /\ Room
    /\ account' = [Bump(account) EXCEPT !.active = TRUE]
    /\ UNCHANGED <<cookie, attempt, visit, issued, chosen>>

VisitStep(v) ==
    \/ \E b \in Browsers : Send(v, b)
    \/ \E secret \in Passwords \cup 1..issued : BeginCreateSession(v, secret)
    \/ \E p \in Passwords, id \in SetupIds : BeginPassword(v, p, id)
    \/ \E id \in SetupIds \cup {"absent"} : GetSession(v, id)
    \/ BeginCallback(v) \/ DeleteSession(v)
    \/ EndCreateSession(v) \/ EndPassword(v) \/ ReloadPassword(v)
    \/ \E i \in Identities : EndCallback(v, i)
    \/ Delivered(v)

SignInNext ==
    \/ \E v \in Visits : VisitStep(v)
    \/ \E b \in Browsers : Connect(b) \/ StartProviderSignIn(b) \/ SessionExpires(b)
    \/ CodeExpires \/ ResetAccessCode \/ Deactivate \/ Activate
SignInSpec == SignInInit /\ [][SignInNext]_signInVars

-----------------------------------------------------------------------------
\* The sessions of a browser: its cookie, and those of answers on their way to it.
SessionsOf(b) == {cookie[b]} \cup
    {visit[v].set : v \in {w \in Visits : visit[w].at = "answered" /\ visit[w].browser = b}}
CurrentOf(b) == {c \in SessionsOf(b) : c.level \in {"setup", "full"} /\ c.version = account.version}

\* However sign-ins, retries, provider callbacks and lost answers of several browsers overtake
\* each other, at most one browser has, or is about to get, a session that the server accepts.
OneBrowserAtATime ==
    \A a, b \in Browsers : CurrentOf(a) # {} /\ CurrentOf(b) # {} => a = b

\* An access code puts at most one password or provider identity in place, which a later code
\* replaces; an accepted setup session stands on a code that was used and has chosen nothing,
\* an accepted full session on a password or an identity chosen through the last code.
CodesAreUsedOnce ==
    /\ \A c \in Codes : Cardinality(chosen[c]) <= 1
    /\ \A b \in Browsers : \A c \in CurrentOf(b) : account.active =>
          IF c.level = "setup"
          THEN account.pending = issued /\ chosen[issued] = {}
          ELSE chosen[issued] # {} /\ chosen[issued] \subseteq {account.password, account.provider}
=============================================================================
