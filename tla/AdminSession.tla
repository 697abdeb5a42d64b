---------------------------- MODULE AdminSession ----------------------------
(***************************************************************************)
(* Signing in to the admin console and out of it: the tabs of the owner's  *)
(* browser, its two cookies, and the Worker, which keeps no session at all *)
(* but only checks what it signed.                                         *)
(*                                                                         *)
(* A request that the page waits for is a call; its answer first sets the  *)
(* cookies of the browser and then reaches the page.  Signatures are       *)
(* genuine; a session is known by its csrf value, random and never used    *)
(* twice.                                                                  *)
(***************************************************************************)
EXTENDS Naturals, FiniteSets

CONSTANTS
  Tab,
  Call,        \* calls under way at one time
  Key,         \* csrf values, and with them sessions
  State,       \* OAuth states (random: never used twice)
  None,        \* nothing
  SessionTtl,  \* SESSION_TTL_SECONDS
  OAuthTtl     \* OAUTH_TTL_SECONDS

VARIABLES
  now,
  signed,   \* session -> when it was signed, or None
  cookie,   \* __Host-StaticLayerSession, or None
  oauth,    \* __Host-SL-OAuth: the state and when it was set, or None
  started,  \* the states ever given out
  page,     \* tab -> what is in it
  call,     \* slot -> the call under way, or None
  acts,     \* how often the owner did something
  taken,    \* history: state -> the sessions it brought the browser
  raced,    \* history: the states that two calls held at one time
  excuse    \* history: tab -> why it may misjudge its session

browser == <<cookie, oauth, page>>
history == <<taken, raced, excuse>>
session == <<now, signed, cookie, oauth, started, page, call, acts, history>>

SignOp == {"restore", "login", "logout", "callback"}
Excuse == {"elsewhere", "crossed", "lost", "expired"}

\* console, or out of it: the login view, GitHub's page, an error page.
Page == [view: {"login", "app", "github", "error"}, csrf: Key \cup {None},
         state: State \cup {None},   \* as GitHub's page was given it
         reloading: BOOLEAN]         \* the form post of the login is under way

OAuthCookie == [state: State, set: Nat]

\* key and oauth are the cookies as sent; brings is the session it returns.
SignCall ==
  [op: SignOp \cup {"start"}, tab: Tab, pc: {"sent", "answered", "taken"},
   heard: BOOLEAN,   \* the page is still there
   ok: BOOLEAN, clears: BOOLEAN,
   key: Key \cup {None}, oauth: State \cup {None},
   state: State \cup {None}, brings: Key \cup {None}]

ASSUME AdminSessionAssumption ==
  /\ SessionTtl \in Nat \ {0} /\ OAuthTtl \in Nat \ {0}
  /\ None \notin Nat \cup Key \cup State \cup SignCall \cup OAuthCookie

SessionTypeOK(calls) ==
  /\ now \in Nat
  /\ signed \in [Key -> Nat \cup {None}]
  /\ cookie \in Key \cup {None}
  /\ oauth \in OAuthCookie \cup {None}
  /\ started \in SUBSET State
  /\ page \in [Tab -> Page]
  /\ call \in [Call -> calls \cup {None}]
  /\ acts \in Nat
  /\ taken \in [State -> Nat]
  /\ raced \in SUBSET State
  /\ excuse \in [Tab -> SUBSET Excuse]

LoginPage == [view |-> "login", csrf |-> None, state |-> None, reloading |-> FALSE]

SessionInit ==
  /\ now = 0
  /\ signed = [k \in Key |-> None]
  /\ cookie = None
  /\ oauth = None
  /\ started = {}
  /\ page = [t \in Tab |-> LoginPage]
  /\ call = [j \in Call |-> None]
  /\ acts = 0
  /\ taken = [st \in State |-> 0]
  /\ raced = {}
  /\ excuse = [t \in Tab |-> {}]

\* The owner has signed in before, and has the console open in every tab.
SessionOpened(k) ==
  /\ now = 0
  /\ signed = [x \in Key |-> IF x = k THEN 0 ELSE None]
  /\ cookie = k
  /\ oauth = None
  /\ started = {}
  /\ page = [t \in Tab |-> [LoginPage EXCEPT !.view = "app", !.csrf = k]]
  /\ call = [j \in Call |-> None]
  /\ acts = 0
  /\ taken = [st \in State |-> 0]
  /\ raced = {}
  /\ excuse = [t \in Tab |-> {}]

-----------------------------------------------------------------------------
(* Calls.                                                                  *)

Busy(j) == call[j] # None
At(j, pc) == Busy(j) /\ call[j].pc = pc
OfTab(t) == {j \in Call : Busy(j) /\ call[j].tab = t /\ call[j].heard}
Signing(t) == {j \in OfTab(t) : call[j].op \in SignOp}

\* The browser drops a cookie at its Max-Age.
SessionCookie == IF cookie # None /\ now < signed[cookie] + SessionTtl THEN cookie ELSE None
StateCookie == IF oauth # None /\ now < oauth.set + OAuthTtl THEN oauth.state ELSE None

NewCall(t, op) ==
  [op |-> op, tab |-> t, pc |-> "sent", heard |-> TRUE, ok |-> FALSE, clears |-> FALSE,
   key |-> SessionCookie, oauth |-> StateCookie, state |-> None, brings |-> None]

\* Two sign-ins or sign-outs of one tab under way at once.
Crosses(t) == IF Signing(t) # {} THEN {"crossed"} ELSE {}

Sends(t, j, op) ==
  /\ ~Busy(j)
  /\ call' = [call EXCEPT ![j] = NewCall(t, op)]
  /\ excuse' = [excuse EXCEPT ![t] = @ \cup Crosses(t)]

Acts == acts' = acts + 1

\* The calls of a page that is left are heard by nobody.
Left(t) ==
  [i \in Call |-> IF i \in OfTab(t) THEN [call[i] EXCEPT !.heard = FALSE] ELSE call[i]]

\* admin.html is loaded into the tab; it asks at once for its session.
Loads(t, j) ==
  /\ page' = [page EXCEPT ![t] = LoginPage]
  /\ call' = [Left(t) EXCEPT ![j] = NewCall(t, "restore")]
  /\ excuse' = [excuse EXCEPT ![t] = {}]

-----------------------------------------------------------------------------
(* The owner.                                                              *)

Open(t, j) ==
  /\ Acts /\ ~Busy(j)
  /\ Loads(t, j)
  /\ UNCHANGED <<now, signed, cookie, oauth, started, taken, raced>>

\* The form post that follows a login loads the page anew.
Reload(t, j) ==
  /\ page[t].reloading /\ ~Busy(j)
  /\ Loads(t, j)
  /\ UNCHANGED <<now, signed, cookie, oauth, started, acts, taken, raced>>

Login(t, j) ==
  /\ Acts /\ page[t].view = "login"
  /\ Sends(t, j, "login")
  /\ UNCHANGED <<now, signed, browser, started, taken, raced>>

\* The page does not wait for the answer.
SignOut(t, j) ==
  /\ Acts /\ page[t].view = "app"
  /\ Sends(t, j, "logout")
  /\ page' = [page EXCEPT ![t] = [@ EXCEPT !.view = "login", !.csrf = None]]
  /\ UNCHANGED <<now, signed, cookie, oauth, started, taken, raced>>

GithubStart(t, j) ==
  /\ Acts /\ page[t].view = "login" /\ ~Busy(j)
  /\ page' = [page EXCEPT ![t] = [LoginPage EXCEPT !.view = "github"]]
  /\ call' = [Left(t) EXCEPT ![j] = NewCall(t, "start")]
  /\ UNCHANGED <<now, signed, cookie, oauth, started, history>>

\* The owner consents, the first time or having gone back to GitHub's page.
Consent(t, j, st) ==
  /\ Acts /\ ~Busy(j)
  /\ page[t].state = st /\ st # None
  /\ page' = [page EXCEPT ![t] =
       [@ EXCEPT !.view = "github", !.csrf = None, !.reloading = FALSE]]
  /\ call' = [Left(t) EXCEPT ![j] = [NewCall(t, "callback") EXCEPT !.state = st]]
  /\ raced' = IF \E i \in Call : Busy(i) /\ call[i].op = "callback" /\ call[i].state = st
              THEN raced \cup {st} ELSE raced
  /\ UNCHANGED <<now, signed, cookie, oauth, started, taken, excuse>>

-----------------------------------------------------------------------------
(* The Worker.                                                             *)

\* Faulty variant: the signature is checked, and not the expiry signed with it.
VerifiedForever(key) == key # None

\* verifySession: absolute, never prolonged.
Verified(key) == key # None /\ now < signed[key] + SessionTtl

Answers(j, c) == call' = [call EXCEPT ![j] = [c EXCEPT !.pc = "answered"]]

Unsigned == {k \in Key : signed[k] = None}
Signs(k) == signed' = [signed EXCEPT ![k] = now]

\* The password is right, or it is not and the rate limit may refuse too.
HandleLogin(j) ==
  /\ At(j, "sent") /\ call[j].op = "login"
  /\ \/ \E k \in Unsigned :
          Signs(k) /\ Answers(j, [call[j] EXCEPT !.ok = TRUE, !.brings = k])
     \/ Answers(j, call[j]) /\ UNCHANGED signed
  /\ UNCHANGED <<now, browser, started, acts, history>>

HandleLogout(j) ==
  /\ At(j, "sent") /\ call[j].op = "logout"
  /\ Answers(j, [call[j] EXCEPT !.ok = TRUE, !.clears = TRUE])
  /\ UNCHANGED <<now, signed, browser, started, acts, history>>

CsrfOf(key) == IF Verified(key) THEN key ELSE None

\* GET /api/admin/session gives the page the csrf value of its cookie.
HandleSession(j) ==
  /\ At(j, "sent") /\ call[j].op = "restore"
  /\ Answers(j, [call[j] EXCEPT !.ok = CsrfOf(call[j].key) # None,
                                !.brings = CsrfOf(call[j].key)])
  /\ UNCHANGED <<now, signed, browser, started, acts, history>>

HandleStart(j, st) ==
  /\ At(j, "sent") /\ call[j].op = "start"
  /\ st \notin started
  /\ started' = started \cup {st}
  /\ Answers(j, [call[j] EXCEPT !.ok = TRUE, !.state = st])
  /\ UNCHANGED <<now, signed, browser, acts, history>>

\* Faulty variant: the state cookie goes only when the account is refused.
ClearsIfDenied(k) == k = None

\* Allowed or denied, the state cookie goes.
ClearsState(k) == TRUE

\* The state must be the cookie's.  GitHub then takes the code or does not,
\* and the account is on the list or is not.
HandleCallback(j) ==
  LET c == call[j] IN
  /\ At(j, "sent") /\ c.op = "callback"
  /\ \/ Answers(j, c) /\ UNCHANGED signed
     \/ /\ c.oauth = c.state
        /\ Answers(j, [c EXCEPT !.clears = ClearsState(None)])
        /\ UNCHANGED signed
     \/ /\ c.oauth = c.state
        /\ \E k \in Unsigned :
             Signs(k) /\ Answers(j, [c EXCEPT !.ok = TRUE, !.clears = ClearsState(k),
                                              !.brings = k])
  /\ UNCHANGED <<now, browser, started, acts, history>>

-----------------------------------------------------------------------------
(* The answers, at the browser.                                            *)

\* Whoever else has a console open, or is about to, may now be mistaken.
Elsewhere(t) ==
  [u \in Tab |-> IF u = t THEN excuse[u] ELSE excuse[u] \cup {"elsewhere"}]

\* Set-Cookie of a login or a logout.
TakeCookie(j) ==
  LET c == call[j] IN
  /\ At(j, "answered") /\ c.heard /\ c.op \in {"login", "logout"} /\ c.ok
  /\ cookie' = c.brings
  /\ call' = [call EXCEPT ![j].pc = "taken"]
  /\ excuse' = Elsewhere(c.tab)
  /\ UNCHANGED <<now, signed, oauth, started, page, acts, taken, raced>>

Finished(j) == call' = [call EXCEPT ![j] = None]

\* The page takes the csrf value and shows the console.
SignedIn(c) ==
  IF c.ok THEN [page[c.tab] EXCEPT !.view = "app", !.csrf = c.brings,
                                   !.reloading = @ \/ c.op = "login"]
  ELSE page[c.tab]

Restored(j) ==
  /\ At(j, "answered") /\ call[j].heard /\ call[j].op = "restore"
  /\ page' = [page EXCEPT ![call[j].tab] = SignedIn(call[j])]
  /\ Finished(j)
  /\ UNCHANGED <<now, signed, cookie, oauth, started, acts, history>>

LoggedIn(j) ==
  /\ call[j] # None /\ call[j].heard /\ call[j].op = "login"
  /\ At(j, IF call[j].ok THEN "taken" ELSE "answered")
  /\ page' = [page EXCEPT ![call[j].tab] = SignedIn(call[j])]
  /\ Finished(j)
  /\ UNCHANGED <<now, signed, cookie, oauth, started, acts, history>>

\* Nothing waits for this answer: it is a logout's, or its page has gone.
LoggedOut(j) ==
  /\ At(j, "taken") /\ (call[j].op = "logout" \/ ~call[j].heard)
  /\ Finished(j)
  /\ UNCHANGED <<now, signed, browser, started, acts, history>>

\* The redirect to GitHub, with the state cookie.
Redirected(j) ==
  LET c == call[j] IN
  /\ At(j, "answered") /\ c.heard /\ c.op = "start"
  /\ oauth' = [state |-> c.state, set |-> now]
  /\ page' = [page EXCEPT ![c.tab].state = c.state]
  /\ Finished(j)
  /\ UNCHANGED <<now, signed, cookie, started, acts, history>>

\* The redirect back to admin.html, or an error page in its place.
Returned(j) ==
  LET c == call[j] IN
  /\ At(j, "answered") /\ c.heard /\ c.op = "callback"
  /\ oauth' = IF c.clears THEN None ELSE oauth
  /\ IF c.ok \/ c.clears
     THEN /\ page' = [page EXCEPT ![c.tab] = [LoginPage EXCEPT !.state = c.state]]
          /\ call' = [call EXCEPT ![j] =
               [NewCall(c.tab, "restore") EXCEPT !.key = IF c.ok THEN c.brings ELSE @]]
     ELSE /\ page' = [page EXCEPT ![c.tab].view = "error"]
          /\ Finished(j)
  /\ IF c.ok
     THEN /\ cookie' = c.brings
          /\ taken' = [taken EXCEPT ![c.state] = @ + 1]
          /\ excuse' = [Elsewhere(c.tab) EXCEPT ![c.tab] = {}]
     ELSE /\ excuse' = [excuse EXCEPT ![c.tab] = {}]
          /\ UNCHANGED <<cookie, taken>>
  /\ UNCHANGED <<now, signed, started, acts, raced>>

\* The answer is lost, or the fetch is rejected: the page does nothing more.
Lost(j) ==
  LET c == call[j] IN
  /\ Busy(j) /\ c.op \in SignOp \cup {"start"} /\ c.pc # "taken"
  /\ Finished(j)
  /\ page' = IF c.heard /\ c.op \in {"start", "callback"}
             THEN [page EXCEPT ![c.tab].view = "error"] ELSE page
  /\ excuse' = IF c.heard THEN [excuse EXCEPT ![c.tab] = @ \cup {"lost"}] ELSE excuse
  /\ UNCHANGED <<now, signed, cookie, oauth, started, acts, taken, raced>>

\* The cookies of an answer may be set although its page has gone.
TakenUnheard(j) ==
  LET c == call[j] IN
  /\ At(j, "answered") /\ ~c.heard
  /\ oauth' = IF c.op = "start" THEN [state |-> c.state, set |-> now]
              ELSE IF c.op = "callback" /\ c.clears THEN None ELSE oauth
  /\ IF c.op \in {"login", "logout", "callback"} /\ c.ok
     THEN /\ cookie' = c.brings
          /\ excuse' = [u \in Tab |-> excuse[u] \cup {"elsewhere"}]
     ELSE UNCHANGED <<cookie, excuse>>
  /\ taken' = IF c.op = "callback" /\ c.ok THEN [taken EXCEPT ![c.state] = @ + 1] ELSE taken
  /\ Finished(j)
  /\ UNCHANGED <<now, signed, started, page, acts, raced>>

\* The steps that neither open nor leave a console.
SignStep(j) ==
  \/ HandleLogin(j) \/ HandleLogout(j) \/ HandleSession(j) \/ HandleCallback(j)
  \/ \E st \in State : HandleStart(j, st)
  \/ TakeCookie(j) \/ LoggedOut(j) \/ Redirected(j) \/ Lost(j) \/ TakenUnheard(j)

-----------------------------------------------------------------------------
(* Time.                                                                   *)

\* The absolute expiry of a session is reached with the next tick.
Ends(k) == signed[k] # None /\ now + 1 = signed[k] + SessionTtl

\* The tab shows a console of it, or has an answer on its way that will.
Holds(t, k) == page[t].csrf = k \/ \E j \in Signing(t) : call[j].brings = k

\* Nothing tells a page that its session has ended.
SessionTick ==
  /\ now' = now + 1
  /\ excuse' = [t \in Tab |->
       IF \E k \in Key : Ends(k) /\ Holds(t, k) THEN excuse[t] \cup {"expired"} ELSE excuse[t]]
  /\ UNCHANGED <<signed, browser, started, call, acts, taken, raced>>

-----------------------------------------------------------------------------
(* Properties.                                                             *)

\* A tab at rest shows the console exactly when the browser has a session that
\* is not over, and writes with its csrf value; unless two of its own sign-ins or
\* sign-outs crossed, one was lost, another tab signed in or out, or the session
\* reached its expiry while the tab showed it or was being told of it.  In that
\* last case admin.js has no timer: the console stays until the page is loaded
\* again, and each of its calls is refused.
ConsoleKnowsItsSession ==
  \A t \in Tab :
    excuse[t] = {} /\ Signing(t) = {}
    => /\ page[t].view = "app" => SessionCookie # None /\ page[t].csrf = SessionCookie
       /\ page[t].view = "login" => SessionCookie = None

\* github-oauth.ts: a start signs the browser in at most once, however often
\* the owner consents, unless two callbacks of it were under way at once.
StartSignsInOnce ==
  \A st \in State : taken[st] > 1 => st \in raced

=============================================================================
