---------------------------- MODULE ConsoleProofs ----------------------------
(***************************************************************************)
(* Proofs about the admin console and its session, for any number of tabs, *)
(* calls, loads, sessions and comments, any lifetimes, and any plan of the *)
(* owner.                                                                  *)
(***************************************************************************)
EXTENDS Console, TLAPS

USE AdminSessionAssumption, ConsoleAssumption

-----------------------------------------------------------------------------
(* Calls.                                                                  *)

Sign(i) == call[i] # None /\ call[i].op \in SignOp \cup {"start"}
Writes(i) == call[i] # None /\ call[i].op \in WriteOp

\* What a sign-in call is given, and what a write is about.
SignFit(c) ==
  /\ c.op = "callback" => c.state \in State
  /\ c.op = "start" /\ c.pc = "answered" => c.state \in State
  /\ (c.op = "callback" /\ c.ok) => c.oauth = c.state /\ c.clears
  /\ c.op = "logout" => c.brings = None
  /\ c.pc = "taken" => c.op \in {"login", "logout"} /\ c.ok

WriteFit(w) ==
  /\ w.op \in {"moderate", "bulk", "pin", "reply"} => w.kind \in Kind
  /\ w.op \in {"patchpoll", "deletepoll"} => w.poll \in Poll
  /\ w.op = "patchpoll" => w.verb \in {"open", "closed"}
  /\ w.op \in {"add", "remove"} => w.entry \in Entry
  /\ w.op \in {"save", "reset"} => w.form \in Form
  /\ w.pc = "writing" => w.op \in {"save", "reset"}

CallTyped(c) ==
  \/ c = None
  \/ c \in SignCall /\ SignFit(c)
  \/ c \in WriteCall /\ WriteFit(c)

CallsTyped == call = [i \in Call |-> call[i]] /\ \A i \in Call : CallTyped(call[i])

SessionTyped ==
  /\ now \in Nat /\ acts \in Nat
  /\ signed \in [Key -> Nat \cup {None}]
  /\ cookie \in Key \cup {None} /\ oauth \in OAuthCookie \cup {None}
  /\ started \in SUBSET State /\ raced \in SUBSET State
  /\ page \in [Tab -> Page]
  /\ taken \in [State -> Nat]
  /\ excuse \in [Tab -> SUBSET Excuse]

TablesTyped ==
  /\ plan \in Plans
  /\ db \in Tables
  /\ \A e \in db.entries : 1 <= e.id /\ e.id <= db.lastId
  /\ \A e, f \in db.entries : (e.id = f.id \/ e.value = f.value) => e = f

LoadTyped(l, v) ==
  l # None => l \in Load(v) /\ (l.served => l.content \in Content(v))

ViewsTyped ==
  /\ shows = [t \in Tab |-> [v \in View |-> shows[t][v]]]
  /\ \A t \in Tab, v \in View : shows[t][v] \in Content(v)
  /\ loads = [t \in Tab |-> [v \in View |-> [i \in Slot |-> loads[t][v][i]]]]
  /\ \A t \in Tab, v \in View, i \in Slot : LoadTyped(loads[t][v][i], v)
  /\ selected \in [Tab -> [Kind -> SUBSET Comment]]
  /\ stale \in [Tab -> SUBSET View]
  /\ ghosts \in [Tab -> SUBSET Comment]

Typed == SessionTyped /\ CallsTyped /\ TablesTyped /\ ViewsTyped

-----------------------------------------------------------------------------
(* A state is used once.                                                   *)

\* Call i asks for a state and is given st; call i comes back with st.
Gives(i, st) == Sign(i) /\ call[i].op = "start" /\ call[i].state = st
Returns(i, st) == Sign(i) /\ call[i].op = "callback" /\ call[i].state = st
Kept(st) == oauth # None /\ oauth.state = st

\* Whoever knows a state was given it.
KnownStates ==
  /\ \A i \in Call : Sign(i) /\ call[i].state # None => call[i].state \in started
  /\ \A t \in Tab : page[t].state # None => page[t].state \in started
  /\ oauth # None => oauth.state \in started
  /\ \A st \in State : taken[st] # 0 => st \in started

\* While it is given, nobody else knows it.
GivenOnce ==
  \A st \in State, i \in Call : Gives(i, st) =>
    /\ \A k \in Call : ~Returns(k, st) /\ (Gives(k, st) => k = i)
    /\ ~Kept(st) /\ taken[st] = 0
    /\ \A t \in Tab : page[t].state # st

\* Unless two calls held it at one time, one at most comes back with it, and
\* when it has signed the browser in, its cookie is gone.
SpentOnce ==
  \A st \in State \ raced :
    /\ \A i, k \in Call : Returns(i, st) /\ Returns(k, st) => i = k
    /\ taken[st] <= 1
    /\ taken[st] = 1 => ~Kept(st) /\ \A i \in Call : Returns(i, st) => call[i].oauth # st

StartInv == KnownStates /\ GivenOnce /\ SpentOnce

-----------------------------------------------------------------------------
(* What a tab knows of its session.                                        *)

Minted(k) == k # None => signed[k] # None

AllMinted ==
  /\ Minted(cookie)
  /\ \A i \in Call : Sign(i) => Minted(call[i].key) /\ Minted(call[i].brings)

\* The calls of tab t that sign in or out.
Signers(t) == {i \in Call : Sign(i) /\ call[i].tab = t /\ call[i].heard}

\* A tab that goes to GitHub or comes back is there, and does nothing else.
AtGithub(t) ==
  \A i \in Signers(t) : call[i].op \in {"start", "callback"} =>
    page[t].view = "github" /\ \A k \in Signers(t) : k = i

\* What a call of a tab with no excuse has found, and will tell it.
Honest(c) ==
  /\ c.op \in {"restore", "login", "logout"} => page[c.tab].view = "login"
  /\ c.op = "restore" =>
       /\ c.key = cookie \/ (c.key = None /\ SessionCookie = None)
       /\ c.pc = "answered" =>
            IF c.ok THEN c.brings = SessionCookie /\ SessionCookie # None ELSE SessionCookie = None
  /\ c.op = "login" =>
       /\ IF c.pc = "taken" THEN c.brings = SessionCookie /\ SessionCookie # None
          ELSE SessionCookie = None
       /\ c.pc = "sent" => ~c.ok
       /\ c.pc = "answered" /\ c.ok => Verified(c.brings)
  /\ c.op = "logout" /\ c.pc = "taken" => cookie = None

Settled(t) ==
  /\ page[t].view = "app" => SessionCookie # None /\ page[t].csrf = SessionCookie
  /\ page[t].view = "login" => SessionCookie = None

Knows(t) ==
  /\ \A i, k \in Signers(t) : i = k
  /\ \A i \in Signers(t) : Honest(call[i])
  /\ Signers(t) = {} => Settled(t)

KnowInv ==
  /\ AllMinted
  /\ \A t \in Tab : AtGithub(t) /\ (excuse[t] = {} => Knows(t))

-----------------------------------------------------------------------------
(* What a write may touch.                                                 *)

Gone(c) == db.comment[c] = "gone"

\* Bulk writes that are done: their answer will clear what was ticked.
Clears(t, j) ==
  j \in OfTab(t) /\ call[j].op = "bulk" /\ call[j].pc = "answered" /\ call[j].ok
Clearing(t, k, c) == \E j \in Call : Clears(t, j) /\ call[j].kind = k /\ c \in call[j].ids

\* A ticked comment can still be seen, or is known to have left its list.
Seen(t, k, c) ==
  \/ Gone(c) \/ c \in ghosts[t] \/ Clearing(t, k, c)
  \/ db.comment[c] = StatusOf(k) /\ c \in Listed(t, k)
TabSees(t) == \A k \in Kind : \A c \in selected[t][k] : Seen(t, k, c)

\* A load that is clean brings what is in the tables.
Current(l, v) == l # None /\ l.clean => l.served /\ l.content = Read(db, v)

\* No entry in the table but e has its id, or ever will.
Identified(e) == e.id <= db.lastId /\ \A f \in db.entries : f.id = e.id => f = e
Brings(l, e) == l # None /\ l.served /\ e \in l.content

\* What a write is about.
Aimed(w) ==
  /\ \A c \in w.ids : c \in w.may \/ Gone(c)
  /\ w.op = "bulk" => w.verb \in VerbsOf(w.kind)
  /\ w.op = "remove" => Identified(w.entry)

HitsInv ==
  /\ \A t \in Tab : TabSees(t)
  /\ \A t \in Tab, v \in View, i \in Slot : Current(loads[t][v][i], v)
  /\ \A t \in Tab, e \in Entry :
       e \in shows[t]["lists"] \/ (\E i \in Slot : Brings(loads[t]["lists"][i], e)) => Identified(e)
  /\ \A j \in Call : Writes(j) => Aimed(call[j])

-----------------------------------------------------------------------------
(* What the views show.                                                    *)

\* Write j of tab t has changed view v, and the tab will load it again or give
\* it up.
Awaits(t, j, v) ==
  /\ j \in OfTab(t) /\ call[j].op \in WriteOp /\ call[j].pc # "sent"
  /\ IF call[j].op \in {"save", "reset"} THEN v = "settings"
     ELSE call[j].ok /\ v \in Reloads(call[j])
Awaited(t, v) == \E j \in Call : Awaits(t, j, v)
Underway(t, v) == \E i \in Slot : loads[t][v][i] # None

\* View v shows its tables, but for reactions that are off.
Agrees(t, v) == Matches(t, v) \/ (v = "settings" /\ OffShownAsDefault(t))

Fresh(t, v) ==
  v \in plan.views /\ v \notin stale[t] => Agrees(t, v) \/ Underway(t, v) \/ Awaited(t, v)

\* A clean save has stored what it has written so far.
SaveStored(w) ==
  w.op \in {"save", "reset"} /\ w.clean =>
    /\ w.pc = "writing" \/ w.ok => db.settings.difficulty = w.form.difficulty
    /\ w.ok => db.settings.reactions = w.form.reactions

ViewsInv ==
  /\ \A j \in Call : Writes(j) => SaveStored(call[j])
  /\ \A t \in Tab, v \in View : Fresh(t, v)

-----------------------------------------------------------------------------
(* Types: calls.                                                           *)

LEMMA CallFacts ==
  ASSUME CallsTyped, NEW i \in Call
  PROVE  /\ CallTyped(call[i])
         /\ Sign(i) => call[i] \in SignCall /\ SignFit(call[i]) /\ ~Writes(i)
         /\ Writes(i) => call[i] \in WriteCall /\ WriteFit(call[i])
         /\ call[i] # None => Sign(i) \/ Writes(i)
         /\ call[i] # None => call[i].tab \in Tab /\ call[i].heard \in BOOLEAN
<1>1. CallTyped(call[i])
  BY DEF CallsTyped
<1>2. CASE call[i] = None
  BY <1>1, <1>2 DEF Sign, Writes
<1>3. CASE call[i] # None /\ call[i] \in SignCall /\ SignFit(call[i])
  <2>1. call[i].op \in SignOp \cup {"start"} /\ call[i].op \notin WriteOp
        /\ call[i].tab \in Tab /\ call[i].heard \in BOOLEAN
    BY <1>3 DEF SignCall, SignOp, WriteOp, PollOp
  <2> QED BY <1>1, <1>3, <2>1 DEF Sign, Writes
<1>4. CASE call[i] # None /\ call[i] \in WriteCall /\ WriteFit(call[i])
  <2>1. call[i].op \in WriteOp /\ call[i].op \notin SignOp \cup {"start"}
        /\ call[i].tab \in Tab /\ call[i].heard \in BOOLEAN
    BY <1>4 DEF WriteCall, SignOp, WriteOp, PollOp
  <2> QED BY <1>1, <1>4, <2>1 DEF Sign, Writes
<1> QED BY <1>1, <1>2, <1>3, <1>4 DEF CallTyped

LEMMA CookieFacts ==
  ASSUME SessionTyped
  PROVE  SessionCookie \in Key \cup {None} /\ StateCookie \in State \cup {None}
BY DEF SessionTyped, SessionCookie, StateCookie, OAuthCookie

LEMMA NewCallFacts ==
  ASSUME SessionTyped, NEW t \in Tab, NEW op \in SignOp \cup {"start"}, NEW c, c = NewCall(t, op)
  PROVE  /\ c \in SignCall /\ c # None /\ (op # "callback" => SignFit(c))
         /\ c.op = op /\ c.tab = t /\ c.pc = "sent" /\ c.heard /\ ~c.ok /\ ~c.clears
         /\ c.key = SessionCookie /\ c.oauth = StateCookie
         /\ c.state = None /\ c.brings = None
<1>1. SessionCookie \in Key \cup {None} /\ StateCookie \in State \cup {None}
  BY CookieFacts
<1>2. c \in SignCall
  BY <1>1 DEF NewCall, SignCall
<1>3. /\ c.op = op /\ c.tab = t /\ c.pc = "sent" /\ c.heard /\ ~c.ok /\ ~c.clears
      /\ c.key = SessionCookie /\ c.oauth = StateCookie /\ c.state = None /\ c.brings = None
  BY DEF NewCall
<1>4. op # "callback" => SignFit(c)
  BY <1>3 DEF SignFit
<1> QED BY <1>2, <1>3, <1>4

LEMMA CallsKept ==
  ASSUME CallsTyped, call' = [i \in Call |-> call'[i]],
         \A i \in Call : call'[i] = call[i] \/ CallTyped(call'[i])
  PROVE  CallsTyped'
BY DEF CallsTyped, CallTyped, SignFit, WriteFit

LEMMA SlotTyped ==
  ASSUME CallsTyped, NEW j \in Call, NEW c, CallTyped(c), call' = [call EXCEPT ![j] = c]
  PROVE  CallsTyped' /\ call'[j] = c /\ \A i \in Call \ {j} : call'[i] = call[i]
<1>1. call' = [i \in Call |-> call'[i]] /\ call'[j] = c
      /\ \A i \in Call \ {j} : call'[i] = call[i]
  BY DEF CallsTyped
<1>2. \A i \in Call : call'[i] = call[i] \/ CallTyped(call'[i])
  BY <1>1
<1> QED BY <1>1, <1>2, CallsKept

\* A call that is heard no more is the same in all else.
Deaf(a, b) ==
  /\ b.op = a.op /\ b.tab = a.tab /\ b.pc = a.pc /\ b.ok = a.ok /\ b.key = a.key
  /\ b.op \in SignOp \cup {"start"} =>
       b.clears = a.clears /\ b.oauth = a.oauth /\ b.state = a.state /\ b.brings = a.brings
  /\ b.op \in WriteOp =>
       /\ b.csrf = a.csrf /\ b.kind = a.kind /\ b.ids = a.ids /\ b.may = a.may
       /\ b.verb = a.verb /\ b.poll = a.poll /\ b.entry = a.entry /\ b.form = a.form
       /\ b.clean = a.clean

LEMMA DeafTyped ==
  ASSUME CallsTyped, NEW i \in Call, call[i] # None, NEW b, b = [call[i] EXCEPT !.heard = FALSE]
  PROVE  /\ CallTyped(b) /\ b # None /\ b.heard = FALSE
         /\ Deaf(call[i], b)
<1>1. CASE Sign(i)
  <2>1. call[i] \in SignCall /\ SignFit(call[i])
    BY <1>1, CallFacts
  <2>2. b \in SignCall /\ b.heard = FALSE /\ Deaf(call[i], b)
    BY <2>1 DEF SignCall, Deaf, SignOp, WriteOp, PollOp
  <2>3. SignFit(b)
    BY <2>1, <2>2 DEF SignFit, Deaf, SignCall
  <2> QED BY <2>2, <2>3 DEF CallTyped
<1>2. CASE Writes(i)
  <2>1. call[i] \in WriteCall /\ WriteFit(call[i])
    BY <1>2, CallFacts
  <2>2. b \in WriteCall /\ b.heard = FALSE /\ Deaf(call[i], b)
    BY <2>1 DEF WriteCall, Deaf, SignOp, WriteOp, PollOp
  <2>3. WriteFit(b)
    BY <2>1, <2>2 DEF WriteFit, Deaf, WriteCall
  <2> QED BY <2>2, <2>3 DEF CallTyped
<1> QED BY <1>1, <1>2, CallFacts

\* The page of tab t is left for call c in slot j.
LeftFor(t, j, c) == ~Busy(j) /\ call' = [Left(t) EXCEPT ![j] = c]

LEMMA LeftTyped ==
  ASSUME CallsTyped, NEW t \in Tab, NEW j \in Call, NEW c, CallTyped(c), LeftFor(t, j, c)
  PROVE  /\ CallsTyped' /\ call'[j] = c
         /\ \A i \in Call \ {j} :
              IF i \in OfTab(t) THEN call'[i] # None /\ call'[i].heard = FALSE /\ Deaf(call[i], call'[i])
              ELSE call'[i] = call[i]
<1>1. call' = [i \in Call |-> call'[i]] /\ call'[j] = c
      /\ \A i \in Call \ {j} : call'[i] = IF i \in OfTab(t) THEN [call[i] EXCEPT !.heard = FALSE]
                                          ELSE call[i]
  BY DEF LeftFor, Left
<1>2. ASSUME NEW i \in Call \ {j}
      PROVE  /\ call'[i] = call[i] \/ CallTyped(call'[i])
             /\ IF i \in OfTab(t) THEN call'[i] # None /\ call'[i].heard = FALSE /\ Deaf(call[i], call'[i])
                ELSE call'[i] = call[i]
  <2>1. CASE i \in OfTab(t)
    <3>1. call[i] # None /\ call'[i] = [call[i] EXCEPT !.heard = FALSE]
      BY <1>1, <2>1 DEF OfTab, Busy
    <3> QED BY <2>1, <3>1, DeafTyped
  <2>2. CASE i \notin OfTab(t)
    BY <1>1, <2>2
  <2> QED BY <2>1, <2>2
<1>3. CallsTyped'
  BY <1>1, <1>2, CallsKept
<1> QED BY <1>1, <1>2, <1>3

-----------------------------------------------------------------------------
(* Types: signing in and out.                                              *)

LEMMA PageTyped ==
  LoginPage \in Page /\ LoginPage.view = "login" /\ LoginPage.csrf = None
  /\ LoginPage.state = None /\ LoginPage.reloading = FALSE
BY DEF LoginPage, Page

LEMMA LoadsTyped ==
  ASSUME SessionTyped, CallsTyped, NEW t \in Tab, NEW j \in Call, ~Busy(j), Loads(t, j)
  PROVE  CallsTyped' /\ page' \in [Tab -> Page] /\ excuse' \in [Tab -> SUBSET Excuse]
<1> DEFINE c == NewCall(t, "restore")
<1>1. CallTyped(c)
  BY NewCallFacts DEF SignOp, CallTyped
<1>2. LeftFor(t, j, c)
  BY DEF Loads, LeftFor
<1> HIDE DEF c
<1>3. CallsTyped'
  BY <1>1, <1>2, LeftTyped
<1> QED BY <1>3, PageTyped DEF Loads, SessionTyped

LEMMA SendsTyped ==
  ASSUME SessionTyped, CallsTyped, NEW t \in Tab, NEW j \in Call,
         NEW op \in {"login", "logout"}, Sends(t, j, op)
  PROVE  CallsTyped' /\ excuse' \in [Tab -> SUBSET Excuse]
<1> DEFINE c == NewCall(t, op)
<1>1. CallTyped(c)
  BY NewCallFacts DEF SignOp, CallTyped
<1>2. call' = [call EXCEPT ![j] = c]
  BY DEF Sends
<1> HIDE DEF c
<1>3. CallsTyped'
  BY <1>1, <1>2, SlotTyped
<1>4. Crosses(t) \subseteq Excuse
  BY DEF Crosses, Excuse
<1> QED BY <1>3, <1>4 DEF Sends, SessionTyped

LEMMA OwnerTyped ==
  ASSUME SessionTyped, CallsTyped, NEW t \in Tab, NEW j \in Call,
         \/ Open(t, j) \/ Reload(t, j) \/ Login(t, j) \/ SignOut(t, j) \/ GithubStart(t, j)
         \/ \E st \in State : Consent(t, j, st)
  PROVE  SessionTyped' /\ CallsTyped'
<1>1. CASE Open(t, j) \/ Reload(t, j)
  <2>1. ~Busy(j) /\ Loads(t, j)
        /\ (acts' = acts + 1 \/ acts' = acts)
        /\ UNCHANGED <<now, signed, cookie, oauth, started, taken, raced>>
    BY <1>1, Zenon DEF Open, Reload, Acts
  <2> QED BY <2>1, LoadsTyped DEF SessionTyped
<1>2. CASE Login(t, j)
  <2>1. CallsTyped' /\ excuse' \in [Tab -> SUBSET Excuse]
    BY <1>2, SendsTyped DEF Login
  <2> QED BY <1>2, <2>1 DEF Login, Acts, SessionTyped, browser
<1>3. CASE SignOut(t, j)
  <2>1. CallsTyped' /\ excuse' \in [Tab -> SUBSET Excuse]
    BY <1>3, SendsTyped DEF SignOut
  <2>2. page' \in [Tab -> Page]
    <3> DEFINE p == [page[t] EXCEPT !.view = "login", !.csrf = None]
    <3>1. page' = [page EXCEPT ![t] = p]
      BY <1>3, Zenon DEF SignOut
    <3>2. page[t] \in Page
      BY DEF SessionTyped
    <3>3. p \in Page
      BY <3>2 DEF Page
    <3> HIDE DEF p
    <3> QED BY <3>1, <3>3 DEF SessionTyped
  <2> QED BY <1>3, <2>1, <2>2 DEF SignOut, Acts, SessionTyped
<1>4. CASE GithubStart(t, j)
  <2> DEFINE c == NewCall(t, "start")
  <2>1. CallTyped(c)
    BY NewCallFacts DEF CallTyped
  <2>2. LeftFor(t, j, c)
    BY <1>4 DEF GithubStart, LeftFor
  <2> HIDE DEF c
  <2>3. CallsTyped'
    BY <2>1, <2>2, LeftTyped
  <2>4. page' \in [Tab -> Page]
    BY <1>4, PageTyped DEF GithubStart, SessionTyped, Page
  <2> QED BY <1>4, <2>3, <2>4 DEF GithubStart, Acts, SessionTyped, history
<1>5. ASSUME NEW st \in State, Consent(t, j, st) PROVE SessionTyped' /\ CallsTyped'
  <2> DEFINE n == NewCall(t, "callback")
             c == [n EXCEPT !.state = st]
  <2>1. n \in SignCall /\ n.op = "callback" /\ n.pc = "sent" /\ ~n.ok
    BY NewCallFacts DEF SignOp
  <2> HIDE DEF n
  <2>2. CallTyped(c)
    <3>1. c \in SignCall /\ c.op = "callback" /\ c.pc = "sent" /\ ~c.ok /\ c.state = st
      BY <2>1 DEF SignCall
    <3> QED BY <3>1 DEF CallTyped, SignFit
  <2>3. LeftFor(t, j, c)
    BY <1>5 DEF Consent, LeftFor, n
  <2> HIDE DEF c
  <2>4. CallsTyped'
    BY <2>2, <2>3, LeftTyped
  <2>5. page' \in [Tab -> Page]
    <3> DEFINE p == [page[t] EXCEPT !.view = "github", !.csrf = None, !.reloading = FALSE]
    <3>1. page' = [page EXCEPT ![t] = p]
      BY <1>5, Zenon DEF Consent
    <3>2. page[t] \in Page
      BY DEF SessionTyped
    <3>3. p \in Page
      BY <3>2 DEF Page
    <3> HIDE DEF p
    <3> QED BY <3>1, <3>3 DEF SessionTyped
  <2>6. raced' \in SUBSET State
    BY <1>5 DEF Consent, SessionTyped
  <2> QED BY <1>5, <2>4, <2>5, <2>6 DEF Consent, Acts, SessionTyped
<1> QED BY <1>1, <1>2, <1>3, <1>4, <1>5

\* A call of a sign-in is answered, or finished.
LEMMA AnswerTyped ==
  ASSUME CallsTyped, NEW j \in Call, NEW c \in SignCall, SignFit([c EXCEPT !.pc = "answered"]),
         Answers(j, c)
  PROVE  CallsTyped'
<1> DEFINE b == [c EXCEPT !.pc = "answered"]
<1>1. b \in SignCall
  BY DEF SignCall
<1>2. CallTyped(b)
  BY <1>1 DEF CallTyped
<1>3. call' = [call EXCEPT ![j] = b]
  BY DEF Answers
<1> HIDE DEF b
<1> QED BY <1>2, <1>3, SlotTyped

LEMMA FinishTyped ==
  ASSUME CallsTyped, NEW j \in Call, Finished(j)
  PROVE  CallsTyped' /\ call'[j] = None /\ \A i \in Call \ {j} : call'[i] = call[i]
<1>1. CallTyped(None) /\ call' = [call EXCEPT ![j] = None]
  BY DEF CallTyped, Finished
<1> QED BY <1>1, SlotTyped

\* What a step finds in its slot.
LEMMA Found ==
  ASSUME CallsTyped, NEW j \in Call, NEW pc, At(j, pc)
  PROVE  /\ call[j] # None /\ call[j].pc = pc /\ call[j].tab \in Tab
         /\ call[j].op \in SignOp \cup {"start"} =>
              Sign(j) /\ call[j] \in SignCall /\ SignFit(call[j])
         /\ call[j].op \in WriteOp => Writes(j) /\ call[j] \in WriteCall /\ WriteFit(call[j])
BY CallFacts DEF At, Busy, Sign, Writes

LEMMA SignHandledTyped ==
  ASSUME SessionTyped, CallsTyped, NEW j \in Call,
         \/ HandleLogin(j) \/ HandleLogout(j) \/ HandleSession(j) \/ HandleCallback(j)
         \/ \E st \in State : HandleStart(j, st)
  PROVE  SessionTyped' /\ CallsTyped'
<1> USE DEF SignOp
<1> DEFINE c == call[j]
<1>0. \A k \in Key : Signs(k) => signed' \in [Key -> Nat \cup {None}]
  BY DEF Signs, SessionTyped
<1>1. CASE HandleLogin(j)
  <2>1. c \in SignCall /\ SignFit(c) /\ c.op = "login"
    BY <1>1, Found DEF HandleLogin
  <2>2. ASSUME NEW k \in Key, Signs(k), Answers(j, [c EXCEPT !.ok = TRUE, !.brings = k])
        PROVE  CallsTyped' /\ signed' \in [Key -> Nat \cup {None}]
    <3> DEFINE d == [c EXCEPT !.ok = TRUE, !.brings = k]
    <3>1. d \in SignCall /\ SignFit([d EXCEPT !.pc = "answered"])
      BY <2>1 DEF SignCall, SignFit
    <3> HIDE DEF d
    <3> QED BY <1>0, <2>2, <3>1, AnswerTyped DEF d
  <2>3. ASSUME Answers(j, c), UNCHANGED signed
        PROVE  CallsTyped' /\ signed' \in [Key -> Nat \cup {None}]
    <3>1. SignFit([c EXCEPT !.pc = "answered"])
      BY <2>1 DEF SignCall, SignFit
    <3> QED BY <2>1, <2>3, <3>1, AnswerTyped DEF SessionTyped
  <2>4. CallsTyped' /\ signed' \in [Key -> Nat \cup {None}]
    BY <1>1, <2>2, <2>3 DEF HandleLogin, Unsigned
  <2> QED BY <1>1, <2>4 DEF HandleLogin, SessionTyped, browser, history
<1>2. CASE HandleLogout(j)
  <2>1. c \in SignCall /\ SignFit(c) /\ c.op = "logout"
    BY <1>2, Found DEF HandleLogout
  <2> DEFINE d == [c EXCEPT !.ok = TRUE, !.clears = TRUE]
  <2>2. d \in SignCall /\ SignFit([d EXCEPT !.pc = "answered"])
    BY <2>1 DEF SignCall, SignFit
  <2> HIDE DEF d
  <2>3. CallsTyped'
    BY <1>2, <2>2, AnswerTyped DEF HandleLogout, d
  <2> QED BY <1>2, <2>3 DEF HandleLogout, SessionTyped, browser, history
<1>3. CASE HandleSession(j)
  <2>1. c \in SignCall /\ SignFit(c) /\ c.op = "restore"
    BY <1>3, Found DEF HandleSession
  <2> DEFINE d == [c EXCEPT !.ok = CsrfOf(c.key) # None, !.brings = CsrfOf(c.key)]
  <2>2. CsrfOf(c.key) \in Key \cup {None}
    BY <2>1 DEF CsrfOf, SignCall
  <2>3. d \in SignCall /\ SignFit([d EXCEPT !.pc = "answered"])
    BY ZenonT(40), <2>1, <2>2 DEF SignCall, SignFit
  <2> HIDE DEF d
  <2>4. CallsTyped'
    BY <1>3, <2>3, AnswerTyped DEF HandleSession, d
  <2> QED BY <1>3, <2>4 DEF HandleSession, SessionTyped, browser, history
<1>4. ASSUME NEW st \in State, HandleStart(j, st) PROVE SessionTyped' /\ CallsTyped'
  <2>1. c \in SignCall /\ SignFit(c) /\ c.op = "start"
    BY <1>4, Found DEF HandleStart
  <2> DEFINE d == [c EXCEPT !.ok = TRUE, !.state = st]
  <2>2. d \in SignCall /\ SignFit([d EXCEPT !.pc = "answered"])
    BY <2>1 DEF SignCall, SignFit
  <2> HIDE DEF d
  <2>3. CallsTyped'
    BY <1>4, <2>2, AnswerTyped DEF HandleStart, d
  <2> QED BY <1>4, <2>3 DEF HandleStart, SessionTyped, browser, history
<1>5. CASE HandleCallback(j)
  <2>1. c \in SignCall /\ SignFit(c) /\ c.op = "callback"
    BY <1>5, Found DEF HandleCallback
  <2>2. ASSUME NEW k \in Key, Signs(k), c.oauth = c.state,
               Answers(j, [c EXCEPT !.ok = TRUE, !.clears = ClearsState(k), !.brings = k])
        PROVE  CallsTyped' /\ signed' \in [Key -> Nat \cup {None}]
    <3> DEFINE d == [c EXCEPT !.ok = TRUE, !.clears = ClearsState(k), !.brings = k]
    <3>1. d \in SignCall /\ SignFit([d EXCEPT !.pc = "answered"])
      BY <2>1, <2>2 DEF SignCall, SignFit, ClearsState
    <3> HIDE DEF d
    <3> QED BY <1>0, <2>2, <3>1, AnswerTyped DEF d
  <2>3. ASSUME c.oauth = c.state, Answers(j, [c EXCEPT !.clears = ClearsState(None)]),
               UNCHANGED signed
        PROVE  CallsTyped' /\ signed' \in [Key -> Nat \cup {None}]
    <3> DEFINE d == [c EXCEPT !.clears = ClearsState(None)]
    <3>1. d \in SignCall /\ SignFit([d EXCEPT !.pc = "answered"])
      BY <2>1, <2>3 DEF SignCall, SignFit, ClearsState
    <3> HIDE DEF d
    <3> QED BY <2>3, <3>1, AnswerTyped DEF d, SessionTyped
  <2>4. ASSUME Answers(j, c), UNCHANGED signed
        PROVE  CallsTyped' /\ signed' \in [Key -> Nat \cup {None}]
    <3>1. SignFit([c EXCEPT !.pc = "answered"])
      BY <2>1 DEF SignCall, SignFit
    <3> QED BY <2>1, <2>4, <3>1, AnswerTyped DEF SessionTyped
  <2>5. CallsTyped' /\ signed' \in [Key -> Nat \cup {None}]
    BY <1>5, <2>2, <2>3, <2>4 DEF HandleCallback, Unsigned
  <2> QED BY <1>5, <2>5 DEF HandleCallback, SessionTyped, browser, history
<1> QED BY <1>1, <1>2, <1>3, <1>4, <1>5

LEMMA SignTakenTyped ==
  ASSUME SessionTyped, CallsTyped, NEW j \in Call,
         \/ TakeCookie(j) \/ Restored(j) \/ LoggedIn(j) \/ LoggedOut(j) \/ Redirected(j)
         \/ Lost(j) \/ TakenUnheard(j)
  PROVE  SessionTyped' /\ CallsTyped'
<1> USE DEF SignOp
<1> DEFINE c == call[j]
<1>0. ASSUME NEW t \in Tab PROVE Elsewhere(t) \in [Tab -> SUBSET Excuse]
  BY DEF Elsewhere, SessionTyped, Excuse
<1>s. ASSUME c \in SignCall PROVE SignedIn(c) \in Page /\ c.tab \in Tab
  <2>1. page[c.tab] \in Page /\ c.brings \in Key \cup {None} /\ c.tab \in Tab
        /\ c.op \in SignOp \cup {"start"}
    BY <1>s DEF SessionTyped, SignCall
  <2> QED BY <2>1 DEF SignedIn, Page
<1>1. CASE TakeCookie(j)
  <2>1. c \in SignCall /\ SignFit(c) /\ c.op \in {"login", "logout"} /\ c.ok /\ c.tab \in Tab
        /\ c.brings \in Key \cup {None}
    BY <1>1, Found DEF TakeCookie, SignCall
  <2> DEFINE d == [c EXCEPT !.pc = "taken"]
  <2>2. CallTyped(d)
    BY <2>1 DEF CallTyped, SignCall, SignFit
  <2>3. call' = [call EXCEPT ![j] = d]
    BY <1>1 DEF TakeCookie
  <2> HIDE DEF d
  <2>4. CallsTyped'
    BY <2>2, <2>3, SlotTyped
  <2> QED BY <1>0, <1>1, <2>1, <2>4 DEF TakeCookie, SessionTyped
<1>2. CASE Restored(j) \/ LoggedIn(j)
  <2>1. c \in SignCall
    BY <1>2, Found, CallFacts DEF Restored, LoggedIn, Sign
  <2>2. page' = [page EXCEPT ![c.tab] = SignedIn(c)] /\ Finished(j)
        /\ UNCHANGED <<now, signed, cookie, oauth, started, acts, history>>
    BY <1>2, Zenon DEF Restored, LoggedIn
  <2>3. page' \in [Tab -> Page]
    BY <1>s, <2>1, <2>2 DEF SessionTyped
  <2> QED BY <2>2, <2>3, FinishTyped DEF SessionTyped, history
<1>3. CASE LoggedOut(j)
  BY <1>3, FinishTyped DEF LoggedOut, SessionTyped, browser, history
<1>4. CASE Redirected(j)
  <2>1. c \in SignCall /\ SignFit(c) /\ c.op = "start" /\ c.pc = "answered" /\ c.tab \in Tab
        /\ c.state \in State
    BY <1>4, Found DEF Redirected, SignFit
  <2>2. oauth' \in OAuthCookie
    BY <1>4, <2>1 DEF Redirected, OAuthCookie, SessionTyped
  <2>3. page' \in [Tab -> Page]
    <3> DEFINE p == [page[c.tab] EXCEPT !.state = c.state]
    <3>1. page' = [page EXCEPT ![c.tab] = p]
      BY <1>4, Zenon DEF Redirected
    <3>2. page[c.tab] \in Page
      BY <2>1 DEF SessionTyped
    <3>3. p \in Page
      BY <2>1, <3>2 DEF Page
    <3> HIDE DEF p
    <3> QED BY <2>1, <3>1, <3>3 DEF SessionTyped
  <2> QED BY <1>4, <2>2, <2>3, FinishTyped DEF Redirected, SessionTyped, history
<1>5. CASE Lost(j)
  <2>1. c.tab \in Tab
    BY <1>5, CallFacts DEF Lost, Busy
  <2>2. page' \in [Tab -> Page]
    BY SMTT(30), <1>5, <2>1 DEF Lost, SessionTyped, Page
  <2>3. excuse' \in [Tab -> SUBSET Excuse]
    BY <1>5, <2>1 DEF Lost, SessionTyped, Excuse
  <2> QED BY <1>5, <2>2, <2>3, FinishTyped DEF Lost, SessionTyped
<1>6. CASE TakenUnheard(j)
  <2>0. c # None /\ c.pc = "answered"
    BY <1>6 DEF TakenUnheard, At, Busy
  <2>1. c.op \in SignOp \cup {"start"} => c \in SignCall /\ SignFit(c)
    BY <1>6, Found DEF TakenUnheard
  <2>2. cookie' \in Key \cup {None}
    <3>1. CASE c.op \in {"login", "logout", "callback"} /\ c.ok
      BY <1>6, <2>1, <3>1 DEF TakenUnheard, SignCall
    <3> QED BY <1>6, <3>1 DEF TakenUnheard, SessionTyped
  <2>3. excuse' \in [Tab -> SUBSET Excuse]
    BY <1>6 DEF TakenUnheard, SessionTyped, Excuse
  <2>4. oauth' \in OAuthCookie \cup {None}
    <3>1. CASE c.op = "start"
      <4>1. c.state \in State /\ now \in Nat
        BY <2>0, <2>1, <3>1 DEF SignFit, SessionTyped
      <4> QED BY <1>6, <3>1, <4>1 DEF TakenUnheard, OAuthCookie
    <3> QED BY <1>6, <3>1 DEF TakenUnheard, SessionTyped
  <2>5. taken' \in [State -> Nat]
    <3>1. CASE c.op = "callback"
      <4>1. c.state \in State
        BY <2>1, <3>1 DEF SignFit
      <4> QED BY <1>6, <4>1 DEF TakenUnheard, SessionTyped
    <3> QED BY <1>6, <3>1 DEF TakenUnheard, SessionTyped
  <2> QED BY <1>6, <2>2, <2>3, <2>4, <2>5, FinishTyped DEF TakenUnheard, SessionTyped
<1> QED BY <1>1, <1>2, <1>3, <1>4, <1>5, <1>6

LEMMA TickTypes ==
  ASSUME SessionTyped, CallsTyped, SessionTick
  PROVE  SessionTyped' /\ CallsTyped'
<1>1. excuse' \in [Tab -> SUBSET Excuse]
  BY Zenon DEF SessionTick, SessionTyped, Excuse
<1>2. CallsTyped' /\ now' \in Nat /\ UNCHANGED <<signed, cookie, oauth, page, started, acts, taken, raced>>
  BY DEF SessionTick, SessionTyped, CallsTyped, CallTyped, browser
<1> QED BY <1>1, <1>2 DEF SessionTyped

LEMMA ReturnedTyped ==
  ASSUME SessionTyped, CallsTyped, NEW j \in Call, Returned(j)
  PROVE  SessionTyped' /\ CallsTyped'
<1> USE DEF SignOp
<1> DEFINE c == call[j]
           n == NewCall(c.tab, "restore")
           d == [n EXCEPT !.key = IF c.ok THEN c.brings ELSE @]
<1>1. c \in SignCall /\ SignFit(c) /\ c.op = "callback" /\ c.tab \in Tab /\ c.state \in State
      /\ c.brings \in Key \cup {None}
  BY Found DEF Returned, SignCall, SignFit
<1>2. n \in SignCall /\ SignFit(n) /\ n.op = "restore" /\ n.pc = "sent" /\ ~n.ok
  BY <1>1, NewCallFacts
<1> HIDE DEF n
<1>3. CallTyped(d)
  <2>1. d \in SignCall /\ d.op = "restore" /\ d.pc = "sent"
    BY <1>1, <1>2 DEF SignCall
  <2> QED BY <2>1 DEF CallTyped, SignFit
<1>4. call' = [call EXCEPT ![j] = d] \/ Finished(j)
  BY DEF Returned, n
<1> HIDE DEF d
<1>5. CallsTyped'
  BY <1>3, <1>4, SlotTyped, FinishTyped
<1>6. oauth' \in OAuthCookie \cup {None} /\ cookie' \in Key \cup {None}
  BY <1>1 DEF Returned, SessionTyped
<1>7. page' \in [Tab -> Page]
  <2> DEFINE p == [LoginPage EXCEPT !.state = c.state]
             q == [page[c.tab] EXCEPT !.view = "error"]
  <2>1. p \in Page /\ q \in Page
    <3>1. page[c.tab] \in Page
      BY <1>1 DEF SessionTyped
    <3> QED BY <1>1, <3>1, PageTyped DEF Page
  <2>2. page' = [page EXCEPT ![c.tab] = p] \/ page' = [page EXCEPT ![c.tab] = q]
    BY DEF Returned
  <2> HIDE DEF p, q
  <2> QED BY <1>1, <2>1, <2>2 DEF SessionTyped
<1>8. taken' \in [State -> Nat]
  <2>1. taken' = taken \/ taken' = [taken EXCEPT ![c.state] = taken[c.state] + 1]
    BY DEF Returned
  <2> QED BY <1>1, <2>1 DEF SessionTyped
<1>9. excuse' \in [Tab -> SUBSET Excuse]
  <2>1. Elsewhere(c.tab) \in [Tab -> SUBSET Excuse]
    BY DEF Elsewhere, SessionTyped, Excuse
  <2>2. \/ excuse' = [Elsewhere(c.tab) EXCEPT ![c.tab] = {}]
        \/ excuse' = [excuse EXCEPT ![c.tab] = {}]
    BY DEF Returned
  <2> QED BY <1>1, <2>1, <2>2 DEF SessionTyped
<1> QED BY <1>5, <1>6, <1>7, <1>8, <1>9 DEF Returned, SessionTyped

-----------------------------------------------------------------------------
(* Types: views and tables.                                                *)

LEMMA ConsoleSame ==
  ASSUME TablesTyped, ViewsTyped, UNCHANGED console
  PROVE  TablesTyped' /\ ViewsTyped'
<1>1. UNCHANGED <<plan, db, shows, selected, loads, stale, ghosts>>
  BY DEF console, views
<1> QED BY <1>1 DEF TablesTyped, ViewsTyped

LEMMA BlankTyped ==
  /\ Blank = [v \in View |-> Blank[v]]
  /\ \A v \in View : Blank[v] \in Content(v)
  /\ NoneSelected \in [Kind -> SUBSET Comment]
  /\ NoLoads = [v \in View |-> [i \in Slot |-> NoLoads[v][i]]]
  /\ \A v \in View, i \in Slot : NoLoads[v][i] = None
<1>1. ASSUME NEW v \in View PROVE Blank[v] \in Content(v)
  BY DEF Blank, Content, View, Kind, Form
<1> QED BY <1>1 DEF Blank, NoneSelected, NoLoads

LEMMA LeavesTyped ==
  ASSUME TablesTyped, ViewsTyped, NEW t \in Tab, Leaves(t)
  PROVE  TablesTyped' /\ ViewsTyped'
<1>1. shows' = [shows EXCEPT ![t] = Blank] /\ loads' = [loads EXCEPT ![t] = NoLoads]
      /\ selected' = [selected EXCEPT ![t] = NoneSelected]
      /\ stale' = [stale EXCEPT ![t] = View] /\ ghosts' = [ghosts EXCEPT ![t] = {}]
      /\ plan' = plan /\ db' = db
  BY DEF Leaves
<1>2. TablesTyped'
  BY <1>1 DEF TablesTyped
<1>3. /\ shows' = [u \in Tab |-> [v \in View |-> shows'[u][v]]]
      /\ \A u \in Tab, v \in View : shows'[u][v] \in Content(v)
  BY ZenonT(40), <1>1, BlankTyped DEF ViewsTyped
<1>4. /\ loads' = [u \in Tab |-> [v \in View |-> [i \in Slot |-> loads'[u][v][i]]]]
      /\ \A u \in Tab, v \in View, i \in Slot : LoadTyped(loads'[u][v][i], v)
  <2>1. loads' = [u \in Tab |-> loads'[u]] /\ loads'[t] = NoLoads
        /\ \A u \in Tab \ {t} : loads'[u] = loads[u]
    BY <1>1 DEF ViewsTyped
  <2>2. ASSUME NEW u \in Tab
        PROVE  /\ loads'[u] = [v \in View |-> [i \in Slot |-> loads'[u][v][i]]]
               /\ \A v \in View, i \in Slot : LoadTyped(loads'[u][v][i], v)
    <3>1. CASE u = t
      BY <2>1, <3>1, BlankTyped DEF LoadTyped
    <3>2. CASE u # t
      <4>1. loads'[u] = loads[u]
        BY <2>1, <3>2
      <4> QED BY <4>1 DEF ViewsTyped
    <3> QED BY <3>1, <3>2
  <2> QED BY <2>1, <2>2
<1>5. selected' \in [Tab -> [Kind -> SUBSET Comment]] /\ stale' \in [Tab -> SUBSET View]
      /\ ghosts' \in [Tab -> SUBSET Comment]
  BY <1>1, BlankTyped DEF ViewsTyped
<1> QED BY <1>2, <1>3, <1>4, <1>5 DEF ViewsTyped

LEMMA NewLoadTyped ==
  ASSUME SessionTyped, NEW v \in View
  PROVE  NewLoad \in Load(v) /\ NewLoad # None /\ ~NewLoad.served /\ ~NewLoad.clean
<1>1. NewLoad \in Load(v) /\ ~NewLoad.served /\ ~NewLoad.clean
  BY CookieFacts DEF NewLoad, Load
<1> QED BY <1>1

\* Loads begin, and those under way go on.
LEMMA LoadingFacts ==
  ASSUME SessionTyped, ViewsTyped, NEW t \in Tab, NEW vs, Loading(t, vs)
  PROVE  /\ loads' = [u \in Tab |-> [v \in View |-> [i \in Slot |-> loads'[u][v][i]]]]
         /\ \A u \in Tab, v \in View, i \in Slot :
              /\ LoadTyped(loads'[u][v][i], v)
              /\ \/ loads'[u][v][i] = loads[u][v][i]
                 \/ u = t /\ loads[u][v][i] = None /\ loads'[u][v][i] = NewLoad
         /\ \A v \in View : v \in vs \cap plan.views => \E i \in Slot : loads'[t][v][i] # None
<1>1. PICK slot \in [vs \cap plan.views -> Slot] :
        /\ \A v \in DOMAIN slot : loads[t][v][slot[v]] = None
        /\ loads' = [loads EXCEPT ![t] =
             [v \in View |-> IF v \in DOMAIN slot THEN [@[v] EXCEPT ![slot[v]] = NewLoad]
                             ELSE @[v]]]
  BY DEF Loading
<1>2. /\ loads = [u \in Tab |-> [v \in View |-> [i \in Slot |-> loads[u][v][i]]]]
      /\ \A u \in Tab, v \in View, i \in Slot : LoadTyped(loads[u][v][i], v)
  BY DEF ViewsTyped
<1>3. /\ loads' = [u \in Tab |-> loads'[u]]
      /\ loads'[t] = [v \in View |-> IF v \in DOMAIN slot THEN [loads[t][v] EXCEPT ![slot[v]] = NewLoad]
                                     ELSE loads[t][v]]
      /\ \A u \in Tab \ {t} : loads'[u] = loads[u]
  BY <1>1, <1>2
<1>4. ASSUME NEW v \in View
      PROVE  /\ loads'[t][v] = [i \in Slot |-> loads'[t][v][i]]
             /\ \A i \in Slot : \/ loads'[t][v][i] = loads[t][v][i]
                                \/ loads[t][v][i] = None /\ loads'[t][v][i] = NewLoad
             /\ v \in DOMAIN slot => loads'[t][v][slot[v]] = NewLoad
  <2>1. CASE v \in DOMAIN slot
    <3>1. slot[v] \in Slot /\ loads[t][v] = [i \in Slot |-> loads[t][v][i]]
      BY <1>1, <1>2, <2>1
    <3>2. loads'[t][v] = [loads[t][v] EXCEPT ![slot[v]] = NewLoad]
      BY <1>3, <2>1
    <3> QED BY <1>1, <2>1, <3>1, <3>2
  <2>2. CASE v \notin DOMAIN slot
    <3>1. loads[t][v] = [i \in Slot |-> loads[t][v][i]] /\ loads'[t][v] = loads[t][v]
      BY <1>2, <1>3, <2>2
    <3> QED BY <2>2, <3>1
  <2> QED BY <2>1, <2>2
<1>5. loads' = [u \in Tab |-> [v \in View |-> [i \in Slot |-> loads'[u][v][i]]]]
  <2>1. ASSUME NEW u \in Tab PROVE loads'[u] = [v \in View |-> [i \in Slot |-> loads'[u][v][i]]]
    BY <1>2, <1>3, <1>4
  <2> QED BY <1>3, <2>1
<1>6. ASSUME NEW u \in Tab, NEW v \in View, NEW i \in Slot
      PROVE  /\ LoadTyped(loads'[u][v][i], v)
             /\ \/ loads'[u][v][i] = loads[u][v][i]
                \/ u = t /\ loads[u][v][i] = None /\ loads'[u][v][i] = NewLoad
  <2>1. CASE u = t
    <3>1. \/ loads'[t][v][i] = loads[t][v][i]
          \/ loads[t][v][i] = None /\ loads'[t][v][i] = NewLoad
      BY <1>4
    <3>2. LoadTyped(loads[t][v][i], v) /\ LoadTyped(NewLoad, v)
      BY <1>2, NewLoadTyped DEF LoadTyped
    <3> QED BY <2>1, <3>1, <3>2
  <2>2. CASE u # t
    <3>1. loads'[u] = loads[u]
      BY <1>3, <2>2
    <3> QED BY <1>2, <3>1
  <2> QED BY <2>1, <2>2
<1>7. ASSUME NEW v \in View, v \in vs \cap plan.views
      PROVE  \E i \in Slot : loads'[t][v][i] # None
  BY <1>1, <1>4, <1>7, NewLoadTyped
<1> QED BY <1>5, <1>6, <1>7

LEMMA ReadTyped ==
  ASSUME NEW d \in Tables, NEW v \in View
  PROVE  Read(d, v) \in Content(v)
<1>1. CASE v \in Kind
  <2>1. Read(d, v) = Cards(d, StatusOf(v)) /\ Content(v) = SUBSET Card
    BY <1>1 DEF Read, Content, Kind
  <2>2. \A c \in Comment : [comment |-> c, pinned |-> c \in d.pinned] \in Card
    BY DEF Card
  <2>3. Cards(d, StatusOf(v)) \subseteq Card
    BY <2>2 DEF Cards
  <2> QED BY <2>1, <2>3
<1>2. CASE v = "polls"
  <2>1. \A p \in Poll : [poll |-> p, open |-> d.poll[p] = "open"] \in [poll: Poll, open: BOOLEAN]
    OBVIOUS
  <2>2. /\ Content(v) = SUBSET [poll: Poll, open: BOOLEAN]
        /\ Read(d, v) = {[poll |-> p, open |-> d.poll[p] = "open"] :
                           p \in {x \in Poll : d.poll[x] \in {"open", "closed"}}}
    BY <1>2 DEF Read, Content, Kind
  <2>3. {[poll |-> p, open |-> d.poll[p] = "open"] :
           p \in {x \in Poll : d.poll[x] \in {"open", "closed"}}}
        \subseteq [poll: Poll, open: BOOLEAN]
    BY <2>1
  <2> QED BY <2>2, <2>3
<1>3. CASE v = "lists"
  BY <1>3 DEF Read, Content, Kind, Tables
<1>4. CASE v = "settings"
  <2>1. d.settings \in [difficulty: {"default", "other"}, reactions: {"default", "other", "blank"}]
    BY DEF Tables
  <2>2. Read(d, v) = [d.settings EXCEPT !.reactions =
                        IF d.settings.reactions = "blank" THEN "default" ELSE d.settings.reactions]
    BY <1>4, Zenon DEF Read, Kind
  <2>3. Read(d, v) \in Form
    BY <2>1, <2>2 DEF Form
  <2> QED BY <1>4, <2>3 DEF Content, Kind
<1> QED BY <1>1, <1>2, <1>3, <1>4 DEF View

\* One load of one view becomes l.
LoadSet(t, v, i, l) == loads' = [loads EXCEPT ![t][v][i] = l]

LEMMA LoadSetFacts ==
  ASSUME ViewsTyped, NEW t \in Tab, NEW v \in View, NEW i \in Slot, NEW l, LoadTyped(l, v),
         LoadSet(t, v, i, l)
  PROVE  /\ loads' = [u \in Tab |-> [x \in View |-> [k \in Slot |-> loads'[u][x][k]]]]
         /\ loads'[t][v][i] = l
         /\ \A u \in Tab, x \in View, k \in Slot :
              /\ LoadTyped(loads'[u][x][k], x)
              /\ u # t \/ x # v \/ k # i => loads'[u][x][k] = loads[u][x][k]
<1>1. /\ loads = [u \in Tab |-> [x \in View |-> [k \in Slot |-> loads[u][x][k]]]]
      /\ \A u \in Tab, x \in View, k \in Slot : LoadTyped(loads[u][x][k], x)
  BY DEF ViewsTyped
<1>2. loads' = [loads EXCEPT ![t] = [loads[t] EXCEPT ![v] = [loads[t][v] EXCEPT ![i] = l]]]
  BY DEF LoadSet
<1>3. /\ loads' = [u \in Tab |-> loads'[u]]
      /\ loads'[t] = [x \in View |-> loads'[t][x]]
      /\ loads'[t][v] = [k \in Slot |-> IF k = i THEN l ELSE loads[t][v][k]]
      /\ \A u \in Tab \ {t} : loads'[u] = loads[u]
      /\ \A x \in View \ {v} : loads'[t][x] = loads[t][x]
  <2>1. /\ loads' = [u \in Tab |-> loads'[u]]
        /\ loads'[t] = [loads[t] EXCEPT ![v] = [loads[t][v] EXCEPT ![i] = l]]
        /\ \A u \in Tab \ {t} : loads'[u] = loads[u]
    BY <1>1, <1>2
  <2>2. loads[t] = [x \in View |-> loads[t][x]] /\ loads[t][v] = [k \in Slot |-> loads[t][v][k]]
    BY <1>1
  <2>3. /\ loads'[t] = [x \in View |-> loads'[t][x]]
        /\ loads'[t][v] = [loads[t][v] EXCEPT ![i] = l]
        /\ \A x \in View \ {v} : loads'[t][x] = loads[t][x]
    BY <2>1, <2>2
  <2> QED BY <2>1, <2>2, <2>3
<1>4. ASSUME NEW u \in Tab, NEW x \in View
      PROVE  /\ loads'[u][x] = [k \in Slot |-> loads'[u][x][k]]
             /\ \A k \in Slot : /\ LoadTyped(loads'[u][x][k], x)
                                /\ u # t \/ x # v \/ k # i => loads'[u][x][k] = loads[u][x][k]
  <2>1. CASE u = t /\ x = v
    BY <1>1, <1>3, <2>1
  <2>2. CASE ~(u = t /\ x = v)
    <3>1. loads'[u][x] = loads[u][x] /\ loads[u][x] = [k \in Slot |-> loads[u][x][k]]
      BY <1>1, <1>3, <2>2
    <3> QED BY <1>1, <3>1
  <2> QED BY <2>1, <2>2
<1>5. loads' = [u \in Tab |-> [x \in View |-> [k \in Slot |-> loads'[u][x][k]]]]
  <2>1. ASSUME NEW u \in Tab PROVE loads'[u] = [x \in View |-> [k \in Slot |-> loads'[u][x][k]]]
    <3>1. loads'[u] = [x \in View |-> loads'[u][x]]
      BY <1>1, <1>3
    <3> QED BY <1>4, <3>1
  <2> QED BY <1>3, <2>1
<1> QED BY <1>3, <1>4, <1>5

\* What the step of a load makes of it.
LEMMA LoadStepFacts ==
  ASSUME TablesTyped, ViewsTyped, NEW t \in Tab, NEW v \in View, NEW i \in Slot,
         LoadStep(t, v, i)
  PROVE  \E l :
           /\ LoadTyped(l, v) /\ LoadSet(t, v, i, l)
           /\ \/ l = None
              \/ /\ l # None /\ l.served /\ l.content = Read(db, v)
                 /\ UNCHANGED <<session, plan, db, shows, selected, stale, ghosts>>
<1>1. CASE Serve(t, v, i)
  <2> DEFINE m == loads[t][v][i]
             l == [m EXCEPT !.served = TRUE, !.content = Read(db, v), !.clean = TRUE]
  <2>1. m \in Load(v) /\ Read(db, v) \in Content(v)
    BY <1>1, ReadTyped DEF Serve, ViewsTyped, LoadTyped, TablesTyped
  <2>2. l \in Load(v) /\ l.served /\ l.content = Read(db, v)
    BY <2>1 DEF Load
  <2>3. LoadSet(t, v, i, l) /\ UNCHANGED <<session, plan, db, shows, selected, stale, ghosts>>
    BY <1>1, Zenon DEF Serve, LoadSet
  <2> HIDE DEF l
  <2> QED BY <2>1, <2>2, <2>3 DEF LoadTyped
<1>2. CASE Render(t, v, i) \/ LoadFails(t, v, i)
  BY <1>2 DEF Render, LoadFails, LoadSet, LoadTyped
<1> QED BY <1>1, <1>2 DEF LoadStep

LEMMA LoadStepTyped ==
  ASSUME TablesTyped, ViewsTyped, NEW t \in Tab, NEW v \in View, NEW i \in Slot,
         LoadStep(t, v, i)
  PROVE  TablesTyped' /\ ViewsTyped'
<1>1. TablesTyped'
  BY DEF LoadStep, Serve, Render, LoadFails, TablesTyped
<1>2. PICK l : LoadTyped(l, v) /\ LoadSet(t, v, i, l)
  BY LoadStepFacts
<1>3. /\ loads' = [u \in Tab |-> [x \in View |-> [k \in Slot |-> loads'[u][x][k]]]]
      /\ \A u \in Tab, x \in View, k \in Slot : LoadTyped(loads'[u][x][k], x)
  BY <1>2, LoadSetFacts
<1>4. /\ shows' = [u \in Tab |-> [x \in View |-> shows'[u][x]]]
      /\ \A u \in Tab, x \in View : shows'[u][x] \in Content(x)
  <2>1. CASE Render(t, v, i)
    <3> DEFINE m == loads[t][v][i]
    <3>1. m # None /\ m.served /\ LoadTyped(m, v)
      BY <2>1 DEF Render, ViewsTyped
    <3>2. m.content \in Content(v)
      BY <3>1 DEF LoadTyped
    <3>3. shows' = [shows EXCEPT ![t] = [shows[t] EXCEPT ![v] = m.content]]
      BY <2>1 DEF Render
    <3> HIDE DEF m
    <3>4. /\ shows' = [u \in Tab |-> shows'[u]] /\ shows'[t] = [x \in View |-> shows'[t][x]]
          /\ shows'[t][v] = m.content
          /\ \A x \in View \ {v} : shows'[t][x] = shows[t][x]
          /\ \A u \in Tab \ {t} : shows'[u] = shows[u]
      BY <3>3 DEF ViewsTyped
    <3>5. ASSUME NEW u \in Tab
          PROVE  /\ shows'[u] = [x \in View |-> shows'[u][x]]
                 /\ \A x \in View : shows'[u][x] \in Content(x)
      <4>1. CASE u = t
        BY <3>2, <3>4, <4>1 DEF ViewsTyped
      <4>2. CASE u # t
        <5>1. shows'[u] = shows[u]
          BY <3>4, <4>2
        <5> QED BY <5>1 DEF ViewsTyped
      <4> QED BY <4>1, <4>2
    <3> QED BY <3>4, <3>5
  <2>2. CASE shows' = shows
    BY <2>2 DEF ViewsTyped
  <2> QED BY <2>1, <2>2 DEF LoadStep, Serve, LoadFails
<1>5. selected' \in [Tab -> [Kind -> SUBSET Comment]] /\ stale' \in [Tab -> SUBSET View]
      /\ ghosts' \in [Tab -> SUBSET Comment]
  <2>1. selected' = selected
    BY DEF LoadStep, Serve, Render, LoadFails
  <2>2. stale' \in [Tab -> SUBSET View]
    BY DEF LoadStep, Serve, Render, LoadFails, ViewsTyped
  <2>3. ghosts' \in [Tab -> SUBSET Comment]
    <3>1. v \in Kind => selected[t][v] \subseteq Comment
      BY DEF ViewsTyped
    <3>2. \/ ghosts' = ghosts
          \/ v \in Kind /\ ghosts' = [ghosts EXCEPT ![t] = ghosts[t] \cup selected[t][v]]
      BY DEF LoadStep, Serve, Render, LoadFails
    <3> QED BY ZenonT(40), <3>1, <3>2 DEF ViewsTyped
  <2> QED BY <2>1, <2>2, <2>3 DEF ViewsTyped
<1> QED BY <1>1, <1>3, <1>4, <1>5 DEF ViewsTyped

\* The tables become d: loads that have read otherwise are no longer clean.
LEMMA BecomeTyped ==
  ASSUME TablesTyped, ViewsTyped, NEW d, NEW t, NEW own \in SUBSET View, NEW bulk \in BOOLEAN,
         Become(d, t, own, bulk), TablesTyped'
  PROVE  /\ ViewsTyped'
         /\ \A u \in Tab, v \in View, i \in Slot : LET l == loads[u][v][i]  m == loads'[u][v][i] IN
              /\ m # None <=> l # None
              /\ m # None => m.served = l.served /\ m.content = l.content
              /\ m # None /\ m.clean => l.clean /\ v \notin Changed(d)
<1>1. /\ db' = d /\ plan' = plan /\ shows' = shows /\ selected' = selected
      /\ loads' = [u \in Tab |-> [v \in View |-> [i \in Slot |->
           IF loads[u][v][i] # None /\ v \in Changed(d)
           THEN [loads[u][v][i] EXCEPT !.clean = FALSE] ELSE loads[u][v][i]]]]
      /\ stale' = [u \in Tab |-> stale[u] \cup (IF u = t THEN Changed(d) \ own ELSE Changed(d))]
      /\ ghosts' = [u \in Tab |->
           IF u = t /\ bulk THEN ghosts[u]
           ELSE ghosts[u] \cup (Moved(d) \cap UNION {selected[u][k] : k \in Kind})]
  BY DEF Become
<1>2. loads' = [u \in Tab |-> [v \in View |-> [i \in Slot |-> loads'[u][v][i]]]]
  BY <1>1
<1>3. ASSUME NEW u \in Tab, NEW v \in View, NEW i \in Slot
      PROVE  LET l == loads[u][v][i]  m == loads'[u][v][i] IN
             /\ LoadTyped(m, v)
             /\ m # None <=> l # None
             /\ m # None => m.served = l.served /\ m.content = l.content
             /\ m # None /\ m.clean => l.clean /\ v \notin Changed(d)
  <2> DEFINE l == loads[u][v][i]
             m == loads'[u][v][i]
  <2>1. LoadTyped(l, v) /\ m = IF l # None /\ v \in Changed(d) THEN [l EXCEPT !.clean = FALSE] ELSE l
    BY <1>1 DEF ViewsTyped
  <2> HIDE DEF l, m
  <2>2. CASE l # None /\ v \in Changed(d)
    <3>1. l \in Load(v) /\ (l.served => l.content \in Content(v)) /\ m = [l EXCEPT !.clean = FALSE]
      BY <2>1, <2>2 DEF LoadTyped
    <3>2. m \in Load(v) /\ m.served = l.served /\ m.content = l.content /\ m.clean = FALSE
      BY <3>1 DEF Load
    <3> QED BY <2>2, <3>1, <3>2 DEF LoadTyped, l, m
  <2>3. CASE ~(l # None /\ v \in Changed(d))
    <3>1. m = l
      BY <2>1, <2>3
    <3> QED BY <2>1, <2>3, <3>1 DEF l, m
  <2> QED BY <2>2, <2>3
<1>4. stale' \in [Tab -> SUBSET View] /\ ghosts' \in [Tab -> SUBSET Comment]
  <2>1. Changed(d) \subseteq View /\ Moved(d) \subseteq Comment
    BY DEF Changed, Moved
  <2> QED BY <1>1, <2>1 DEF ViewsTyped
<1>5. \A u \in Tab, v \in View, i \in Slot : LoadTyped(loads'[u][v][i], v)
  BY <1>3
<1>6. ViewsTyped'
  <2>1. shows' = [u \in Tab |-> [v \in View |-> shows'[u][v]]]
        /\ \A u \in Tab, v \in View : shows'[u][v] \in Content(v)
    BY <1>1 DEF ViewsTyped
  <2>2. selected' \in [Tab -> [Kind -> SUBSET Comment]]
    BY <1>1 DEF ViewsTyped
  <2> QED BY <1>2, <1>4, <1>5, <2>1, <2>2 DEF ViewsTyped
<1> QED BY <1>3, <1>6

-----------------------------------------------------------------------------
(* Types: writes.                                                          *)

LEMMA WriteFacts ==
  ASSUME SessionTyped, NEW t \in Tab, NEW op \in WriteOp, NEW w, w = Write(t, op)
  PROVE  /\ w \in WriteCall /\ w # None
         /\ w.op = op /\ w.tab = t /\ w.pc = "sent" /\ w.heard /\ ~w.ok /\ w.clean
         /\ w.csrf = page[t].csrf /\ w.key = SessionCookie
         /\ w.ids = {} /\ w.may = {} /\ w.kind = None /\ w.entry = None
<1>1. SessionCookie \in Key \cup {None} /\ page[t].csrf \in Key \cup {None}
  BY CookieFacts DEF SessionTyped, Page
<1>2. w \in WriteCall
  BY <1>1 DEF Write, WriteCall
<1> QED BY <1>2 DEF Write

\* What the owner clicks.
Clicked(w) ==
  /\ w \in WriteCall /\ WriteFit(w) /\ w.pc = "sent" /\ w.heard /\ ~w.ok

LEMMA ClicksTyped ==
  ASSUME Typed, NEW t \in Tab, NEW j \in Call, NEW w, Clicked(w), Clicks(t, j, w)
  PROVE  Typed'
<1>1. CallsTyped'
  <2>1. CallTyped(w) /\ call' = [call EXCEPT ![j] = w]
    BY DEF Clicks, CallTyped, Clicked
  <2> QED BY <2>1, SlotTyped DEF Typed
<1>2. SessionTyped'
  BY DEF Clicks, Acts, Typed, SessionTyped, browser, history
<1> QED BY <1>1, <1>2, ConsoleSame DEF Typed, Clicks

LEMMA ShownFacts ==
  ASSUME ViewsTyped, NEW t \in Tab
  PROVE  /\ \A k \in Kind : shows[t][k] \subseteq Card /\ Listed(t, k) \subseteq Comment
         /\ shows[t]["polls"] \subseteq [poll: Poll, open: BOOLEAN]
         /\ shows[t]["lists"] \subseteq Entry
         /\ shows[t]["settings"] \in Form
<1>1. \A v \in View : shows[t][v] \in Content(v)
  BY DEF ViewsTyped
<1>2. ASSUME NEW k \in Kind PROVE shows[t][k] \subseteq Card /\ Listed(t, k) \subseteq Comment
  <2>1. shows[t][k] \in SUBSET Card
    BY <1>1, <1>2 DEF View, Content, Kind
  <2> QED BY <2>1 DEF Listed, Card
<1>3. shows[t]["polls"] \subseteq [poll: Poll, open: BOOLEAN]
  <2>1. "polls" \in View /\ Content("polls") = SUBSET [poll: Poll, open: BOOLEAN]
    BY DEF View, Content, Kind
  <2> QED BY <1>1, <2>1
<1>4. shows[t]["lists"] \subseteq Entry
  <2>1. "lists" \in View /\ Content("lists") = SUBSET Entry
    BY DEF View, Content, Kind
  <2> QED BY <1>1, <2>1
<1>5. shows[t]["settings"] \in Form
  <2>1. "settings" \in View /\ Content("settings") = Form
    BY DEF View, Content, Kind
  <2> QED BY <1>1, <2>1
<1> QED BY <1>2, <1>3, <1>4, <1>5

\* Whatever is clicked is one of these, about what the tab shows.
AboutShown(t, w) ==
  /\ w.tab = t /\ w.clean
  /\ \/ w.ids \subseteq w.may
     \/ /\ w.op = "bulk" /\ w.ids = selected[t][w.kind]
        /\ w.may = (selected[t][w.kind] \cap Listed(t, w.kind)) \cup ghosts[t] \cup UnderWay(t)
  /\ w.op = "bulk" => w.verb \in VerbsOf(w.kind) /\ w.kind \in Kind
  /\ w.op = "remove" => w.entry \in shows[t]["lists"]

LEMMA ClickFacts ==
  ASSUME Typed, NEW t \in Tab, NEW j \in Call, Click(t, j)
  PROVE  \E w : Clicks(t, j, w) /\ Clicked(w) /\ AboutShown(t, w)
<1> DEFINE Fine(w) == Clicks(t, j, w) /\ Clicked(w) /\ AboutShown(t, w)
<1> SUFFICES \E w : Fine(w)
  OBVIOUS
<1>0. /\ SessionTyped /\ CallsTyped /\ ViewsTyped
      /\ \A k \in Kind : shows[t][k] \subseteq Card /\ Listed(t, k) \subseteq Comment
      /\ shows[t]["polls"] \subseteq [poll: Poll, open: BOOLEAN]
      /\ shows[t]["lists"] \subseteq Entry
      /\ shows[t]["settings"] \in Form
  BY ShownFacts DEF Typed
<1>1. ASSUME NEW k \in Kind, NEW c \in Comment, NEW verb \in Verb, ClickModerate(t, j, k, c, verb)
      PROVE  \E w : Fine(w)
  <2> DEFINE b == Write(t, "moderate")
             w == [b EXCEPT !.kind = k, !.ids = {c}, !.may = {c}, !.verb = verb]
  <2>1. b \in WriteCall /\ b.op = "moderate" /\ b.tab = t /\ b.pc = "sent" /\ b.heard
        /\ ~b.ok /\ b.clean
    BY <1>0, WriteFacts DEF WriteOp
  <2> HIDE DEF b
  <2>2. /\ w \in WriteCall /\ w.op = "moderate" /\ w.tab = t /\ w.pc = "sent" /\ w.heard
        /\ ~w.ok /\ w.clean /\ w.kind = k /\ w.ids = {c} /\ w.may = {c} /\ w.verb = verb
    BY ZenonT(40), <2>1 DEF WriteCall
  <2>3. Clicks(t, j, w)
    BY <1>1 DEF ClickModerate, b
  <2> HIDE DEF w
  <2>4. Clicked(w) /\ AboutShown(t, w)
    BY <2>2 DEF Clicked, AboutShown, WriteFit
  <2> QED BY <2>3, <2>4
<1>2. ASSUME NEW k \in Kind, NEW c \in Comment, ClickReply(t, j, k, c)
      PROVE  \E w : Fine(w)
  <2> DEFINE b == Write(t, "reply")
             w == [b EXCEPT !.kind = k, !.ids = {c}, !.may = {c}]
  <2>1. b \in WriteCall /\ b.op = "reply" /\ b.tab = t /\ b.pc = "sent" /\ b.heard
        /\ ~b.ok /\ b.clean
    BY <1>0, WriteFacts DEF WriteOp
  <2> HIDE DEF b
  <2>2. /\ w \in WriteCall /\ w.op = "reply" /\ w.tab = t /\ w.pc = "sent" /\ w.heard
        /\ ~w.ok /\ w.clean /\ w.kind = k /\ w.ids = {c} /\ w.may = {c}
    BY ZenonT(40), <2>1 DEF WriteCall
  <2>3. Clicks(t, j, w)
    BY <1>2 DEF ClickReply, b
  <2> HIDE DEF w
  <2>4. Clicked(w) /\ AboutShown(t, w)
    BY <2>2 DEF Clicked, AboutShown, WriteFit
  <2> QED BY <2>3, <2>4
<1>3. ASSUME NEW k \in Kind, NEW verb \in Verb, ClickBulk(t, j, k, verb)
      PROVE  \E w : Fine(w)
  <2> DEFINE b == Write(t, "bulk")
             may == (selected[t][k] \cap Listed(t, k)) \cup ghosts[t] \cup UnderWay(t)
             w == [b EXCEPT !.kind = k, !.ids = selected[t][k], !.verb = verb, !.may = may]
  <2>1. b \in WriteCall /\ b.op = "bulk" /\ b.tab = t /\ b.pc = "sent" /\ b.heard
        /\ ~b.ok /\ b.clean
    BY <1>0, WriteFacts DEF WriteOp
  <2>2. selected[t][k] \subseteq Comment /\ ghosts[t] \subseteq Comment
    BY <1>0 DEF ViewsTyped
  <2>3. UnderWay(t) \subseteq Comment
    <3>1. ASSUME NEW i \in OfTab(t), call[i].op = "bulk" PROVE call[i].ids \subseteq Comment
      <4>1. call[i] \in WriteCall
        BY <1>0, <3>1, CallFacts DEF OfTab, Busy, Writes, WriteOp
      <4> QED BY <4>1 DEF WriteCall
    <3> QED BY <3>1 DEF UnderWay
  <2>4. may \subseteq Comment
    BY <2>2, <2>3
  <2> HIDE DEF b, may
  <2>5. w \in WriteCall /\ w.op = "bulk" /\ w.tab = t /\ w.pc = "sent" /\ w.heard /\ ~w.ok
        /\ w.clean /\ w.kind = k /\ w.ids = selected[t][k] /\ w.may = may /\ w.verb = verb
    BY ZenonT(40), <2>1, <2>2, <2>4 DEF WriteCall
  <2>6. Clicks(t, j, w) /\ verb \in VerbsOf(k)
    BY <1>3 DEF ClickBulk, b, may
  <2> HIDE DEF w
  <2>7. Clicked(w) /\ AboutShown(t, w)
    BY <2>5, <2>6 DEF Clicked, AboutShown, WriteFit, may
  <2> QED BY <2>6, <2>7
<1>4. ASSUME NEW k \in Kind, NEW card \in Card, ClickPin(t, j, k, card)
      PROVE  \E w : Fine(w)
  <2> DEFINE b == Write(t, "pin")
             w == [b EXCEPT !.kind = k, !.ids = {card.comment}, !.may = {card.comment},
                            !.verb = IF card.pinned THEN "unpin" ELSE "pin"]
  <2>1. b \in WriteCall /\ b.op = "pin" /\ b.tab = t /\ b.pc = "sent" /\ b.heard
        /\ ~b.ok /\ b.clean
    BY <1>0, WriteFacts DEF WriteOp
  <2> HIDE DEF b
  <2>2. card.comment \in Comment
    BY DEF Card
  <2>3. /\ w \in WriteCall /\ w.op = "pin" /\ w.tab = t /\ w.pc = "sent" /\ w.heard
        /\ ~w.ok /\ w.clean /\ w.kind = k /\ w.ids = {card.comment}
        /\ w.may = {card.comment} /\ w.verb \in {"pin", "unpin"}
    BY ZenonT(40), <2>1, <2>2 DEF WriteCall, Verb
  <2>4. Clicks(t, j, w)
    BY <1>4 DEF ClickPin, b
  <2> HIDE DEF w
  <2>5. Clicked(w) /\ AboutShown(t, w)
    BY <2>3 DEF Clicked, AboutShown, WriteFit
  <2> QED BY <2>4, <2>5
<1>5. ASSUME NEW card \in shows[t]["polls"], ClickPoll(t, j, card)
      PROVE  \E w : Fine(w)
  <2> DEFINE b == Write(t, "patchpoll")
             verb == IF card.open THEN "closed" ELSE "open"
             w == [b EXCEPT !.poll = card.poll, !.verb = verb]
             x == Write(t, "deletepoll")
             y == [x EXCEPT !.poll = card.poll]
  <2>1. b \in WriteCall /\ b.op = "patchpoll" /\ b.tab = t /\ b.pc = "sent" /\ b.heard
        /\ ~b.ok /\ b.clean /\ b.ids = {} /\ b.may = {}
    BY <1>0, WriteFacts DEF WriteOp, PollOp
  <2>2. x \in WriteCall /\ x.op = "deletepoll" /\ x.tab = t /\ x.pc = "sent" /\ x.heard
        /\ ~x.ok /\ x.clean /\ x.ids = {} /\ x.may = {}
    BY <1>0, WriteFacts DEF WriteOp, PollOp
  <2>3. Clicks(t, j, w) \/ Clicks(t, j, y)
    BY <1>5 DEF ClickPoll
  <2> HIDE DEF b, x
  <2>4. card.poll \in Poll
    BY <1>0
  <2>5. Clicked(w) /\ AboutShown(t, w)
    <3>0. verb \in {"open", "closed"}
      OBVIOUS
    <3> HIDE DEF verb
    <3>1. /\ w \in WriteCall /\ w.op = "patchpoll" /\ w.tab = t /\ w.pc = "sent" /\ w.heard /\ ~w.ok
          /\ w.clean /\ w.ids = {} /\ w.may = {} /\ w.poll \in Poll /\ w.verb \in {"open", "closed"}
      BY ZenonT(40), <2>1, <2>4, <3>0 DEF WriteCall, Verb
    <3> HIDE DEF w
    <3> QED BY <3>1 DEF Clicked, AboutShown, WriteFit
  <2>6. Clicked(y) /\ AboutShown(t, y)
    BY <2>2, <2>4 DEF Clicked, AboutShown, WriteCall, WriteFit
  <2> QED BY <2>3, <2>5, <2>6
<1>6. ASSUME ClickCreatePoll(t, j) PROVE \E w : Fine(w)
  <2> DEFINE b == Write(t, "createpoll")
  <2>1. b \in WriteCall /\ b.op = "createpoll" /\ b.tab = t /\ b.pc = "sent" /\ b.heard
        /\ ~b.ok /\ b.clean /\ b.ids = {} /\ b.may = {}
    BY <1>0, WriteFacts DEF WriteOp, PollOp
  <2>2. Clicks(t, j, b)
    BY <1>6 DEF ClickCreatePoll
  <2> HIDE DEF b
  <2> QED BY <2>1, <2>2 DEF Clicked, AboutShown, WriteFit
<1>7. ASSUME NEW x \in Value, ClickAdd(t, j, x) PROVE \E w : Fine(w)
  <2> DEFINE b == Write(t, "add")
             e == [id |-> 0, value |-> x]
             w == [b EXCEPT !.entry = e]
  <2>1. b \in WriteCall /\ b.op = "add" /\ b.tab = t /\ b.pc = "sent" /\ b.heard
        /\ ~b.ok /\ b.clean /\ b.ids = {} /\ b.may = {}
    BY <1>0, WriteFacts DEF WriteOp
  <2>2. e \in Entry
    BY DEF Entry
  <2>3. Clicks(t, j, w)
    BY <1>7 DEF ClickAdd
  <2> HIDE DEF b, e
  <2>4. Clicked(w) /\ AboutShown(t, w)
    BY <2>1, <2>2 DEF Clicked, AboutShown, WriteCall, WriteFit
  <2> QED BY <2>3, <2>4
<1>8. ASSUME NEW e \in shows[t]["lists"], ClickRemove(t, j, e) PROVE \E w : Fine(w)
  <2> DEFINE b == Write(t, "remove")
             w == [b EXCEPT !.entry = e]
  <2>1. b \in WriteCall /\ b.op = "remove" /\ b.tab = t /\ b.pc = "sent" /\ b.heard
        /\ ~b.ok /\ b.clean /\ b.ids = {} /\ b.may = {}
    BY <1>0, WriteFacts DEF WriteOp
  <2>2. Clicks(t, j, w)
    BY <1>8 DEF ClickRemove
  <2> HIDE DEF b
  <2>3. Clicked(w) /\ AboutShown(t, w)
    BY <1>0, <2>1 DEF Clicked, AboutShown, WriteCall, WriteFit
  <2> QED BY <2>2, <2>3
<1>9. ASSUME ClickSave(t, j) \/ ClickReset(t, j) PROVE \E w : Fine(w)
  <2>1. ASSUME NEW op \in {"save", "reset"}, NEW f \in Form,
               Clicks(t, j, [Write(t, op) EXCEPT !.form = f])
        PROVE  \E w : Fine(w)
    <3> DEFINE b == Write(t, op)
               w == [b EXCEPT !.form = f]
    <3>1. b \in WriteCall /\ b.op = op /\ b.tab = t /\ b.pc = "sent" /\ b.heard
          /\ ~b.ok /\ b.clean /\ b.ids = {} /\ b.may = {}
      BY <1>0, WriteFacts DEF WriteOp
    <3>2. Clicks(t, j, w)
      BY <2>1
    <3> HIDE DEF b
    <3>3. Clicked(w) /\ AboutShown(t, w)
      BY <3>1 DEF Clicked, AboutShown, WriteCall, WriteFit
    <3> QED BY <3>2, <3>3
  <2>2. Defaults \in Form
    BY DEF Defaults, Form
  <2> QED BY <1>0, <1>9, <2>1, <2>2 DEF ClickSave, ClickReset
<1> HIDE DEF Fine
<1> QED BY <1>1, <1>2, <1>3, <1>4, <1>5, <1>6, <1>7, <1>8, <1>9 DEF Click

-----------------------------------------------------------------------------
(* Types: the Worker.                                                      *)

\* What a write makes of the tables.
Change(w, d) ==
  /\ d \in Tables
  /\ w.op \notin {"add", "remove"} => d.entries = db.entries /\ d.lastId = db.lastId
  /\ w.op \notin PollOp => d.poll = db.poll
  /\ w.op \notin {"moderate", "bulk", "reply"} => d.comment = db.comment
  /\ w.op # "pin" => d.pinned = db.pinned
  /\ d.settings = db.settings
  /\ w.op \in {"moderate", "bulk"} => \A c \in Comment :
       d.comment[c] = IF c \in w.ids /\ Stored(c) THEN StatusFor(w.verb) ELSE db.comment[c]
  /\ w.op = "reply" => \A c \in Comment : db.comment[c] # "none" => d.comment[c] = db.comment[c]
  /\ w.op = "add" => /\ d.lastId = db.lastId + 1
                     /\ ~Known(w.entry.value)
                     /\ d.entries = db.entries \cup {[id |-> d.lastId, value |-> w.entry.value]}
  /\ w.op = "remove" => /\ d.lastId = db.lastId
                        /\ d.entries = {e \in db.entries : e.id # w.entry.id}

Denied(j) == Writes(j) /\ call[j].pc \in {"sent", "writing"} /\ Answers(j, call[j]) /\ UNCHANGED console

Done(j, d) ==
  Asked(j, WriteOp \ {"save", "reset"}) /\ Succeeds(j, d) /\ Change(call[j], d)

\* One setting of a form is stored.
WithSetting(w, f) == [db EXCEPT !.settings[f] = w.form[f]]

Put(j, f, last) ==
  LET w == call[j]  d == WithSetting(w, f) IN
  /\ Writes(j) /\ w.op \in {"save", "reset"} /\ w.form[f] # "bad"
  /\ IF last THEN f = "reactions" /\ w.pc = "writing" ELSE f = "difficulty" /\ w.pc = "sent"
  /\ d \in Tables
  /\ Become(d, w.tab, Promised(w), FALSE)
  /\ call' = [i \in Call |->
       IF i = j THEN [w EXCEPT !.pc = IF last THEN "answered" ELSE "writing", !.ok = last]
       ELSE IF Busy(i) /\ call[i].op \in {"save", "reset"}
       THEN [call[i] EXCEPT !.clean = FALSE] ELSE call[i]]

LEMMA WorkerShape ==
  ASSUME Typed, NEW j \in Call, WorkerStep(j)
  PROVE  /\ UNCHANGED <<now, signed, browser, started, acts, history>>
         /\ \/ Denied(j)
            \/ \E d : Done(j, d)
            \/ Put(j, "difficulty", FALSE)
            \/ Put(j, "reactions", TRUE)
<1> DEFINE w == call[j]
<1>0. /\ CallsTyped /\ db \in Tables
      /\ db.entries \subseteq Entry /\ db.lastId \in 0..MaxId
      /\ db.comment \in [Comment -> {"none", "pending", "approved", "gone"}]
      /\ db.poll \in [Poll -> {"none", "open", "closed", "gone"}]
      /\ db.pinned \subseteq Comment
      /\ db.settings \in [difficulty: {"default", "other"}, reactions: {"default", "other", "blank"}]
  BY DEF Typed, TablesTyped, Tables
<1>a. ASSUME NEW ops \in SUBSET WriteOp, Asked(j, ops)
      PROVE  Writes(j) /\ w \in WriteCall /\ WriteFit(w) /\ w.op \in ops /\ w.pc = "sent"
  BY <1>0, <1>a, Found DEF Asked
<1>d. ASSUME NEW ops \in SUBSET WriteOp, Asked(j, ops), Denies(j) PROVE Denied(j)
  BY <1>a, <1>d DEF Denied, Denies
<1>1. CASE Refuse(j)
  <2>1. Asked(j, WriteOp) /\ Denies(j)
        /\ UNCHANGED <<now, signed, browser, started, acts, history>>
    BY <1>1 DEF Refuse, Denies
  <2> QED BY <1>d, <2>1
<1>2. CASE HandleComments(j)
  <2> DEFINE hit == {c \in w.ids : Stored(c)}
             p == [db EXCEPT !.pinned = IF w.verb = "pin" THEN @ \cup hit ELSE @ \ hit]
             m == [db EXCEPT !.comment = [c \in Comment |-> IF c \in hit THEN StatusFor(w.verb) ELSE @[c]]]
  <2>1. Asked(j, {"moderate", "bulk", "pin"}) /\ {"moderate", "bulk", "pin"} \subseteq WriteOp
    BY <1>2 DEF HandleComments, WriteOp
  <2>2. w.op \in {"moderate", "bulk", "pin"} /\ w.ids \subseteq Comment
    BY <1>a, <2>1 DEF WriteCall
  <2>3. \/ Denies(j)
        \/ w.op = "pin" /\ Succeeds(j, p)
        \/ w.op # "pin" /\ Succeeds(j, m)
    BY <1>2 DEF HandleComments
  <2>4. ASSUME w.op = "pin" PROVE Change(w, p)
    <3>1. p \in Tables
      BY <1>0, <2>2 DEF Tables
    <3>2. p.entries = db.entries /\ p.lastId = db.lastId /\ p.poll = db.poll
          /\ p.comment = db.comment /\ p.settings = db.settings
      BY <1>0 DEF Tables
    <3> HIDE DEF p
    <3> QED BY <2>4, <3>1, <3>2 DEF Change, PollOp
  <2>5. ASSUME w.op # "pin" PROVE Change(w, m)
    <3>1. \A c \in Comment : (IF c \in hit THEN StatusFor(w.verb) ELSE db.comment[c])
                               \in {"none", "pending", "approved", "gone"}
      BY <1>0 DEF StatusFor
    <3>2. /\ m.entries = db.entries /\ m.lastId = db.lastId /\ m.poll = db.poll
          /\ m.pinned = db.pinned /\ m.settings = db.settings
          /\ m.comment = [c \in Comment |-> IF c \in hit THEN StatusFor(w.verb) ELSE db.comment[c]]
      BY <1>0 DEF Tables
    <3>3. m \in Tables
      BY <1>0, <3>1 DEF Tables
    <3>4. \A c \in Comment : m.comment[c] = IF c \in w.ids /\ Stored(c) THEN StatusFor(w.verb)
                                            ELSE db.comment[c]
      BY <3>2
    <3> HIDE DEF m
    <3> QED BY <2>2, <2>5, <3>2, <3>3, <3>4 DEF Change, PollOp
  <2> HIDE DEF p, m
  <2>6. Asked(j, WriteOp \ {"save", "reset"})
    BY <2>1, <2>2 DEF Asked, WriteOp
  <2>7. Denied(j) \/ \E d : Done(j, d)
    BY <1>d, <2>1, <2>3, <2>4, <2>5, <2>6 DEF Done
  <2> QED BY <1>2, <2>7 DEF HandleComments
<1>3. ASSUME NEW new \in Comment, HandleReply(j, new)
      PROVE  /\ UNCHANGED <<now, signed, browser, started, acts, history>>
             /\ Denied(j) \/ \E d : Done(j, d)
  <2> DEFINE d == [db EXCEPT !.comment[new] = "approved"]
  <2>1. Asked(j, {"reply"}) /\ {"reply"} \subseteq WriteOp /\ Asked(j, WriteOp \ {"save", "reset"})
    BY <1>3 DEF HandleReply, WriteOp, Asked
  <2>2. Denies(j) \/ (db.comment[new] = "none" /\ Succeeds(j, d))
    BY <1>3 DEF HandleReply
  <2>3. ASSUME db.comment[new] = "none" PROVE Change(w, d)
    <3>1. d.entries = db.entries /\ d.lastId = db.lastId /\ d.poll = db.poll
          /\ d.pinned = db.pinned /\ d.settings = db.settings
          /\ d.comment = [db.comment EXCEPT ![new] = "approved"] /\ d \in Tables
      BY <1>0 DEF Tables
    <3>2. \A c \in Comment : db.comment[c] # "none" => d.comment[c] = db.comment[c]
      BY <1>0, <2>3, <3>1
    <3> HIDE DEF d
    <3> QED BY <1>a, <2>1, <3>1, <3>2 DEF Change, PollOp
  <2> HIDE DEF d
  <2> QED BY <1>3, <1>d, <2>1, <2>2, <2>3 DEF Done, HandleReply
<1>4. CASE HandlePolls(j)
  <2>1. Asked(j, PollOp) /\ PollOp \subseteq WriteOp /\ Asked(j, WriteOp \ {"save", "reset"})
    BY <1>4 DEF HandlePolls, WriteOp, Asked, PollOp
  <2>2. ASSUME NEW p \in Poll, NEW s \in {"open", "closed", "gone"}
        PROVE  Change(w, [db EXCEPT !.poll[p] = s])
    <3> DEFINE d == [db EXCEPT !.poll[p] = s]
    <3>1. d.entries = db.entries /\ d.lastId = db.lastId /\ d.comment = db.comment
          /\ d.pinned = db.pinned /\ d.settings = db.settings /\ d \in Tables
      BY <1>0 DEF Tables
    <3> HIDE DEF d
    <3>2. w.op \in PollOp
      BY <2>1 DEF Asked
    <3>3. Change(w, d)
      BY <3>1, <3>2 DEF Change, PollOp
    <3> QED BY <3>3 DEF d
  <2>3. WriteFit(w)
    BY <1>a, <2>1
  <2>4. \/ Denies(j)
        \/ \E p \in Poll, s \in {"open", "closed", "gone"} : Succeeds(j, [db EXCEPT !.poll[p] = s])
    <3>1. CASE w.op = "createpoll"
      BY <1>4, <3>1 DEF HandlePolls
    <3>2. CASE w.op = "patchpoll"
      <4>1. w.poll \in Poll /\ w.verb \in {"open", "closed", "gone"}
        BY <2>3, <3>2 DEF WriteFit
      <4>2. Denies(j) \/ Succeeds(j, [db EXCEPT !.poll[w.poll] = w.verb])
        BY <1>4, <3>2 DEF HandlePolls
      <4> QED BY <4>1, <4>2
    <3>3. CASE w.op = "deletepoll"
      <4>1. w.poll \in Poll
        BY <2>3, <3>3 DEF WriteFit
      <4>2. Denies(j) \/ Succeeds(j, [db EXCEPT !.poll[w.poll] = "gone"])
        BY <1>4, <3>3 DEF HandlePolls
      <4> QED BY <4>1, <4>2
    <3> QED BY <2>1, <3>1, <3>2, <3>3 DEF Asked, PollOp
  <2>5. Denied(j) \/ \E d : Done(j, d)
    BY <1>d, <2>1, <2>2, <2>4 DEF Done
  <2> QED BY <1>4, <2>5 DEF HandlePolls
<1>5. CASE HandleLists(j)
  <2> DEFINE n == [id |-> NextId(db), value |-> w.entry.value]
             a == [db EXCEPT !.entries = @ \cup {n}, !.lastId = NextId(db)]
             x == [db EXCEPT !.entries = {e \in @ : e.id # w.entry.id}]
  <2>1. Asked(j, {"add", "remove"}) /\ {"add", "remove"} \subseteq WriteOp
        /\ Asked(j, WriteOp \ {"save", "reset"}) /\ w.op \in {"add", "remove"}
    BY <1>5 DEF HandleLists, WriteOp, Asked
  <2>2. w.entry \in Entry /\ w.entry.value \in Value
    <3>1. WriteFit(w)
      BY <1>a, <2>1
    <3> QED BY <2>1, <3>1 DEF WriteFit, Entry
  <2>3. \/ Denies(j)
        \/ w.op = "add" /\ ~Known(w.entry.value) /\ NextId(db) <= MaxId /\ Succeeds(j, a)
        \/ w.op = "remove" /\ Succeeds(j, x)
    BY <1>5, <2>1 DEF HandleLists
  <2>4. ASSUME w.op = "add", ~Known(w.entry.value), NextId(db) <= MaxId PROVE Change(w, a)
    <3>1. NextId(db) \in 0..MaxId /\ NextId(db) = db.lastId + 1
      BY <1>0, <2>4 DEF NextId
    <3>2. n \in Entry
      BY <2>2, <3>1 DEF Entry
    <3>3. a.poll = db.poll /\ a.comment = db.comment /\ a.pinned = db.pinned
          /\ a.settings = db.settings /\ a.entries = db.entries \cup {n} /\ a.lastId = NextId(db)
          /\ a \in Tables
      BY <1>0, <3>1, <3>2 DEF Tables
    <3> HIDE DEF a
    <3> QED BY <2>4, <3>1, <3>3 DEF Change, PollOp
  <2>5. ASSUME w.op = "remove" PROVE Change(w, x)
    <3>1. x.poll = db.poll /\ x.comment = db.comment /\ x.pinned = db.pinned
          /\ x.settings = db.settings /\ x.entries = {e \in db.entries : e.id # w.entry.id}
          /\ x.lastId = db.lastId /\ x \in Tables
      BY <1>0 DEF Tables
    <3> HIDE DEF x
    <3> QED BY <2>5, <3>1 DEF Change, PollOp
  <2> HIDE DEF a, x
  <2>6. Denied(j) \/ \E d : Done(j, d)
    BY <1>d, <2>1, <2>3, <2>4, <2>5 DEF Done
  <2> QED BY <1>5, <2>6 DEF HandleLists
<1>6. CASE HandlePut(j)
  <2>1. Writes(j) /\ WriteFit(w) /\ w.op \in {"save", "reset"}
    <3>1. CASE Asked(j, {"save", "reset"})
      BY <1>a, <3>1 DEF WriteOp
    <3>2. CASE At(j, "writing")
      <4>1. ~Sign(j)
        BY <1>0, <3>2, CallFacts DEF At, SignCall
      <4> QED BY <1>0, <3>2, <4>1, CallFacts DEF At, Busy, WriteFit
    <3> QED BY <1>6, <3>1, <3>2 DEF HandlePut
  <2>2. w.form \in Form /\ w.form.difficulty \in {"default", "other", "bad"}
        /\ w.form.reactions \in {"default", "other", "blank", "bad"}
    BY <2>1 DEF WriteFit, Form
  <2>3. ASSUME w.form["difficulty"] # "bad"
        PROVE  [db EXCEPT !.settings["difficulty"] = w.form["difficulty"]] \in Tables
    <3>1. [db.settings EXCEPT !["difficulty"] = w.form["difficulty"]] \in
            [difficulty: {"default", "other"}, reactions: {"default", "other", "blank"}]
      BY <1>0, <2>2, <2>3
    <3> QED BY <1>0, <3>1 DEF Tables
  <2>4. ASSUME w.form["reactions"] # "bad"
        PROVE  [db EXCEPT !.settings["reactions"] = w.form["reactions"]] \in Tables
    <3>1. [db.settings EXCEPT !["reactions"] = w.form["reactions"]] \in
            [difficulty: {"default", "other"}, reactions: {"default", "other", "blank"}]
      BY <1>0, <2>2, <2>4
    <3> QED BY <1>0, <3>1 DEF Tables
  <2>5. \/ w.pc = "sent" /\ PutField(j, "difficulty", FALSE)
        \/ w.pc = "writing" /\ PutField(j, "reactions", TRUE)
    BY <1>6 DEF HandlePut, Asked, At
  <2>6. ASSUME w.pc = "sent", PutField(j, "difficulty", FALSE)
        PROVE  Denied(j) \/ Put(j, "difficulty", FALSE)
    <3>1. CASE w.form["difficulty"] = "bad"
      BY <2>1, <2>6, <3>1 DEF PutField, Denied
    <3>2. CASE w.form["difficulty"] # "bad"
      BY <2>1, <2>3, <2>6, <3>2, Zenon DEF PutField, Put, WithSetting
    <3> QED BY <3>1, <3>2
  <2>7. ASSUME w.pc = "writing", PutField(j, "reactions", TRUE)
        PROVE  Denied(j) \/ Put(j, "reactions", TRUE)
    <3>1. CASE w.form["reactions"] = "bad"
      BY <2>1, <2>7, <3>1 DEF PutField, Denied
    <3>2. CASE w.form["reactions"] # "bad"
      BY <2>1, <2>4, <2>7, <3>2, Zenon DEF PutField, Put, WithSetting
    <3> QED BY <3>1, <3>2
  <2> QED BY <1>6, <2>5, <2>6, <2>7 DEF HandlePut
<1> QED BY <1>1, <1>2, <1>3, <1>4, <1>5, <1>6 DEF WorkerStep

\* A write is answered.
LEMMA WriteAnswered ==
  ASSUME CallsTyped, NEW j \in Call, Writes(j), NEW ok \in BOOLEAN, NEW b,
         b = [[call[j] EXCEPT !.ok = ok] EXCEPT !.pc = "answered"]
  PROVE  /\ CallTyped(b) /\ b # None /\ b \in WriteCall
         /\ b.pc = "answered" /\ b.ok = ok /\ b.op = call[j].op /\ b.tab = call[j].tab
         /\ b.heard = call[j].heard /\ b.ids = call[j].ids /\ b.may = call[j].may
         /\ b.kind = call[j].kind /\ b.entry = call[j].entry /\ b.form = call[j].form
         /\ b.clean = call[j].clean
<1>1. call[j] \in WriteCall /\ WriteFit(call[j])
  BY CallFacts
<1>2. /\ b \in WriteCall
      /\ b.pc = "answered" /\ b.ok = ok /\ b.op = call[j].op /\ b.tab = call[j].tab
      /\ b.heard = call[j].heard /\ b.ids = call[j].ids /\ b.may = call[j].may
      /\ b.kind = call[j].kind /\ b.entry = call[j].entry /\ b.form = call[j].form
      /\ b.clean = call[j].clean /\ b.poll = call[j].poll /\ b.verb = call[j].verb
  BY ZenonT(40), <1>1 DEF WriteCall
<1>3. WriteFit(b)
  BY <1>1, <1>2 DEF WriteFit
<1> QED BY <1>2, <1>3 DEF CallTyped

LEMMA DeniedFacts ==
  ASSUME CallsTyped, NEW j \in Call, Denied(j), Typed
  PROVE  /\ CallsTyped' /\ \A i \in Call \ {j} : call'[i] = call[i]
         /\ call'[j] # None /\ call'[j] = [call[j] EXCEPT !.pc = "answered"]
<1> DEFINE b == [call[j] EXCEPT !.pc = "answered"]
<1>1. call[j] \in WriteCall /\ WriteFit(call[j])
  BY CallFacts DEF Denied
<1>2. b \in WriteCall /\ WriteFit(b)
  BY <1>1 DEF WriteCall, WriteFit
<1>3. call' = [call EXCEPT ![j] = b]
  BY DEF Denied, Answers
<1> HIDE DEF b
<1>4. CallTyped(b) /\ b # None
  BY <1>2 DEF CallTyped
<1> QED BY <1>3, <1>4, SlotTyped DEF b

LEMMA PromisedViews ==
  ASSUME CallsTyped, NEW j \in Call, Writes(j)
  PROVE  Promised(call[j]) \subseteq View
<1>1. WriteFit(call[j])
  BY CallFacts
<1> QED BY <1>1 DEF Promised, WriteFit, View

LEMMA DoneFacts ==
  ASSUME Typed, NEW j \in Call, NEW d, Done(j, d)
  PROVE  /\ CallsTyped' /\ TablesTyped' /\ ViewsTyped' /\ db' = d
         /\ Writes(j) /\ call[j].pc = "sent" /\ \A i \in Call \ {j} : call'[i] = call[i]
         /\ call'[j] # None /\ call'[j] = [[call[j] EXCEPT !.ok = TRUE] EXCEPT !.pc = "answered"]
         /\ Become(d, call[j].tab, Promised(call[j]), call[j].op = "bulk" /\ call[j].heard)
<1> DEFINE w == call[j]
           b == [[w EXCEPT !.ok = TRUE] EXCEPT !.pc = "answered"]
<1>1. Writes(j) /\ w.pc = "sent" /\ w \in WriteCall
  BY Found, CallFacts DEF Done, Asked, At, Busy, Typed, Writes
<1>2. Become(d, w.tab, Promised(w), w.op = "bulk" /\ w.heard) /\ Change(w, d) /\ db' = d
      /\ call' = [call EXCEPT ![j] = b]
  BY DEF Done, Succeeds, Answers, Become
<1> HIDE DEF b
<1>3. CallTyped(b) /\ b # None
  BY <1>1, WriteAnswered DEF Typed, b
<1>4. CallsTyped' /\ call'[j] = b /\ \A i \in Call \ {j} : call'[i] = call[i]
  BY <1>2, <1>3, SlotTyped DEF Typed
<1>5. TablesTyped'
  <2>0. /\ d \in Tables /\ plan' = plan /\ TablesTyped /\ db.lastId \in Nat
        /\ \A e \in db.entries : e.id \in Nat
    <3>1. db.lastId \in 0..MaxId /\ db.entries \subseteq Entry
      BY DEF Typed, TablesTyped, Tables
    <3> QED BY <1>2, <3>1 DEF Become, Change, Typed, Entry
  <2>1. CASE w.op \notin {"add", "remove"}
    BY <1>2, <2>0, <2>1 DEF TablesTyped, Change
  <2>2. CASE w.op = "remove"
    <3>1. d.lastId = db.lastId /\ d.entries \subseteq db.entries
      BY <1>2, <2>2 DEF Change
    <3> QED BY <1>2, <2>0, <3>1 DEF TablesTyped
  <2>3. CASE w.op = "add"
    <3> DEFINE n == [id |-> d.lastId, value |-> w.entry.value]
    <3>1. d.lastId = db.lastId + 1 /\ d.entries = db.entries \cup {n}
          /\ \A e \in db.entries : e.value # w.entry.value
      BY <1>2, <2>3 DEF Change, Known
    <3>2. n.id = d.lastId /\ n.value = w.entry.value
      OBVIOUS
    <3> HIDE DEF n
    <3>3. \A e \in d.entries : 1 <= e.id /\ e.id <= d.lastId
      BY <2>0, <3>1, <3>2 DEF TablesTyped
    <3>4. \A e \in db.entries : e.id # n.id /\ e.value # n.value
      BY <2>0, <3>1, <3>2 DEF TablesTyped
    <3>5. \A e, f \in d.entries : (e.id = f.id \/ e.value = f.value) => e = f
      BY <2>0, <3>1, <3>4 DEF TablesTyped
    <3> QED BY <1>2, <2>0, <3>3, <3>5 DEF TablesTyped
  <2> QED BY <2>1, <2>2, <2>3
<1>6. ViewsTyped'
  BY <1>1, <1>2, <1>5, BecomeTyped, PromisedViews DEF Typed, WriteCall
<1>7. call'[j] # None /\ call'[j] = [[w EXCEPT !.ok = TRUE] EXCEPT !.pc = "answered"]
  BY <1>3, <1>4, Zenon DEF b
<1> QED BY <1>1, <1>2, <1>4, <1>5, <1>6, <1>7

\* The call b of the one that stores a setting, as w was before.
PutBy(w, b, last) ==
  /\ b # None /\ b.op = w.op /\ b.tab = w.tab /\ b.heard = w.heard /\ b.form = w.form
  /\ b.clean = w.clean /\ b.ids = w.ids /\ b.may = w.may /\ b.kind = w.kind
  /\ b.entry = w.entry /\ b.pc = (IF last THEN "answered" ELSE "writing") /\ b.ok = last

\* Another call when a setting is stored: a save no longer clean, or as it was.
PutBeside(i) ==
  \/ call'[i] = call[i] /\ (Writes(i) => call[i].op \notin {"save", "reset"})
  \/ /\ Writes(i) /\ call[i].op \in {"save", "reset"} /\ call[i] \in WriteCall
     /\ call'[i] = [call[i] EXCEPT !.clean = FALSE]

\* The tables, but for the one setting.
PutInto(w, f) ==
  LET d == WithSetting(w, f) IN
  /\ db' = d /\ Become(d, w.tab, Promised(w), FALSE)
  /\ w.form[f] \in {"default", "other", "blank"}
  /\ d.comment = db.comment /\ d.pinned = db.pinned /\ d.poll = db.poll
  /\ d.entries = db.entries /\ d.lastId = db.lastId
  /\ d.settings = [db.settings EXCEPT ![f] = w.form[f]]

LEMMA PutFacts ==
  ASSUME Typed, NEW j \in Call, NEW f, NEW last \in BOOLEAN, Put(j, f, last)
  PROVE  /\ CallsTyped' /\ TablesTyped' /\ ViewsTyped'
         /\ PutInto(call[j], f) /\ PutBy(call[j], call'[j], last)
         /\ \A i \in Call \ {j} : PutBeside(i)
<1> DEFINE w == call[j]
           d == WithSetting(w, f)
           b == [w EXCEPT !.pc = IF last THEN "answered" ELSE "writing", !.ok = last]
<1>1. /\ Writes(j) /\ w.op \in {"save", "reset"} /\ w.form[f] # "bad" /\ d \in Tables
      /\ IF last THEN f = "reactions" /\ w.pc = "writing" ELSE f = "difficulty" /\ w.pc = "sent"
      /\ Become(d, w.tab, Promised(w), FALSE)
      /\ call' = [i \in Call |->
           IF i = j THEN b ELSE IF Busy(i) /\ call[i].op \in {"save", "reset"}
           THEN [call[i] EXCEPT !.clean = FALSE] ELSE call[i]]
  BY DEF Put
<1>2. w \in WriteCall /\ WriteFit(w) /\ CallsTyped /\ TablesTyped /\ ViewsTyped
  BY <1>1, CallFacts DEF Typed
<1>3. w.form[f] \in {"default", "other", "blank"}
  <2>1. w.form \in Form
    BY <1>1, <1>2 DEF WriteFit
  <2> QED BY <1>1, <2>1 DEF Form
<1>4. /\ b \in WriteCall
      /\ b.op = w.op /\ b.tab = w.tab /\ b.heard = w.heard /\ b.form = w.form
      /\ b.clean = w.clean /\ b.ids = w.ids /\ b.may = w.may /\ b.kind = w.kind
      /\ b.entry = w.entry
      /\ b.pc = (IF last THEN "answered" ELSE "writing") /\ b.ok = last
  <2>1. CASE last = TRUE
    <3> DEFINE a == [w EXCEPT !.pc = "answered", !.ok = TRUE]
    <3>1. /\ a \in WriteCall
          /\ a.op = w.op /\ a.tab = w.tab /\ a.heard = w.heard /\ a.form = w.form
          /\ a.clean = w.clean /\ a.ids = w.ids /\ a.may = w.may /\ a.kind = w.kind
          /\ a.entry = w.entry /\ a.pc = "answered" /\ a.ok = TRUE
      BY <1>2 DEF WriteCall
    <3>2. b = a
      BY <2>1
    <3> HIDE DEF a
    <3> QED BY <2>1, <3>1, <3>2
  <2>2. CASE last = FALSE
    <3> DEFINE a == [w EXCEPT !.pc = "writing", !.ok = FALSE]
    <3>1. /\ a \in WriteCall
          /\ a.op = w.op /\ a.tab = w.tab /\ a.heard = w.heard /\ a.form = w.form
          /\ a.clean = w.clean /\ a.ids = w.ids /\ a.may = w.may /\ a.kind = w.kind
          /\ a.entry = w.entry /\ a.pc = "writing" /\ a.ok = FALSE
      BY <1>2 DEF WriteCall
    <3>2. b = a
      BY <2>2
    <3> HIDE DEF a
    <3> QED BY <2>2, <3>1, <3>2
  <2> QED BY <2>1, <2>2
<1>5. CallTyped(b)
  BY <1>1, <1>2, <1>4 DEF CallTyped, WriteFit
<1>6. /\ d.comment = db.comment /\ d.pinned = db.pinned /\ d.poll = db.poll
      /\ d.entries = db.entries /\ d.lastId = db.lastId
      /\ d.settings = [db.settings EXCEPT ![f] = w.form[f]]
  BY <1>2 DEF TablesTyped, Tables, WithSetting
<1> HIDE DEF b, d
<1>7. ASSUME NEW i \in Call \ {j}
      PROVE  PutBeside(i) /\ CallTyped(call'[i])
  <2>1. CASE Busy(i) /\ call[i].op \in {"save", "reset"}
    <3> DEFINE a == [call[i] EXCEPT !.clean = FALSE]
    <3>1. Writes(i) /\ call[i] \in WriteCall /\ WriteFit(call[i])
      BY <1>2, <2>1, CallFacts DEF Busy, Writes, WriteOp
    <3>2. a \in WriteCall /\ a.op = call[i].op /\ a.form = call[i].form /\ a.pc = call[i].pc
      BY ZenonT(40), <3>1 DEF WriteCall
    <3>3. call'[i] = a
      BY <1>1, <2>1
    <3> HIDE DEF a
    <3>4. WriteFit(a)
      BY <2>1, <3>1, <3>2 DEF WriteFit
    <3> QED BY <2>1, <3>1, <3>2, <3>3, <3>4 DEF CallTyped, PutBeside, a
  <2>2. CASE ~(Busy(i) /\ call[i].op \in {"save", "reset"})
    BY <1>1, <1>2, <2>2 DEF CallsTyped, PutBeside, Writes, Busy
  <2> QED BY <2>1, <2>2
<1>8. CallsTyped'
  <2>1. call' = [i \in Call |-> call'[i]] /\ call'[j] = b
    BY <1>1
  <2> QED BY <1>2, <1>5, <1>7, <2>1, CallsKept
<1>9. TablesTyped'
  BY <1>1, <1>2, <1>6 DEF TablesTyped, Become
<1>10. ViewsTyped'
  BY <1>1, <1>2, <1>9, BecomeTyped, PromisedViews
<1>11. call'[j] = b /\ PutBy(w, b, last) /\ db' = d
  <2>1. b # None
    BY <1>4
  <2> QED BY <1>1, <1>4, <2>1 DEF Become, PutBy
<1>12. PutInto(w, f)
  BY <1>1, <1>3, <1>6, <1>11 DEF PutInto, d
<1> QED BY <1>7, <1>8, <1>9, <1>10, <1>11, <1>12

LEMMA WorkerTyped ==
  ASSUME Typed, NEW j \in Call, WorkerStep(j)
  PROVE  Typed'
<1>1. SessionTyped'
  BY WorkerShape DEF Typed, SessionTyped, browser, history
<1>2. CASE Denied(j)
  BY <1>1, <1>2, DeniedFacts, ConsoleSame DEF Typed, Denied
<1>3. ASSUME NEW d, Done(j, d) PROVE Typed'
  BY <1>1, <1>3, DoneFacts DEF Typed
<1>4. ASSUME NEW f, NEW last \in BOOLEAN, Put(j, f, last) PROVE Typed'
  BY <1>1, <1>4, PutFacts DEF Typed
<1> QED BY <1>2, <1>3, <1>4, WorkerShape

-----------------------------------------------------------------------------
(* Types: the rest.                                                        *)

LEMMA SelectionTyped ==
  ASSUME Typed, NEW j \in Call, Writes(j)
  PROVE  SelectionAfter(call[j]) \in [Kind -> SUBSET Comment] /\ call[j].tab \in Tab
<1>1. call[j] \in WriteCall /\ call[j].tab \in Tab
  BY CallFacts DEF Typed, WriteCall
<1>2. selected[call[j].tab] \in [Kind -> SUBSET Comment]
  BY <1>1 DEF Typed, ViewsTyped
<1> QED BY <1>1, <1>2 DEF SelectionAfter

\* Loads begin, and the tables stay.
LEMMA LoadingTyped ==
  ASSUME Typed, NEW t \in Tab, NEW vs, Loading(t, vs), plan' = plan, db' = db, shows' = shows,
         selected' \in [Tab -> [Kind -> SUBSET Comment]], stale' \in [Tab -> SUBSET View],
         ghosts' = ghosts
  PROVE  TablesTyped' /\ ViewsTyped'
<1>1. /\ loads' = [u \in Tab |-> [v \in View |-> [i \in Slot |-> loads'[u][v][i]]]]
      /\ \A u \in Tab, v \in View, i \in Slot : LoadTyped(loads'[u][v][i], v)
  BY LoadingFacts DEF Typed
<1> QED BY <1>1 DEF Typed, TablesTyped, ViewsTyped

LEMMA WriteEndsTyped ==
  ASSUME Typed, NEW j \in Call, WriteDone(j) \/ WriteRefused(j) \/ WriteLost(j)
  PROVE  Typed' /\ Writes(j)
<1> DEFINE w == call[j]
<1>1. Writes(j) /\ w.tab \in Tab /\ Finished(j)
      /\ UNCHANGED <<now, signed, browser, started, acts, history, plan, db, shows>>
  BY CallFacts DEF Typed, WriteDone, WriteRefused, WriteLost, At, Busy, Writes
<1>2. SessionTyped' /\ CallsTyped'
  BY <1>1, FinishTyped DEF Typed, SessionTyped, browser, history
<1>3. "settings" \in View
  BY DEF View
<1>4. CASE WriteDone(j)
  <2>1. Loading(w.tab, Reloads(w)) /\ ghosts' = ghosts
        /\ selected' = [selected EXCEPT ![w.tab] = SelectionAfter(w)]
    BY <1>4 DEF WriteDone
  <2>2. selected' \in [Tab -> [Kind -> SUBSET Comment]]
    BY <1>1, <2>1, SelectionTyped DEF Typed, ViewsTyped
  <2>3. stale' \in [Tab -> SUBSET View]
    BY <1>1, <1>3, <1>4 DEF WriteDone, Typed, ViewsTyped
  <2> QED BY <1>1, <1>2, <2>1, <2>2, <2>3, LoadingTyped DEF Typed
<1>5. CASE WriteRefused(j)
  <2>1. stale' \in [Tab -> SUBSET View] /\ UNCHANGED <<selected, loads, ghosts>>
    BY <1>1, <1>3, <1>5 DEF WriteRefused, Typed, ViewsTyped
  <2> QED BY <1>1, <1>2, <2>1 DEF Typed, TablesTyped, ViewsTyped
<1>6. CASE WriteLost(j)
  <2>1. w.ids \subseteq Comment
    BY <1>1, CallFacts DEF Typed, WriteCall
  <2>2. stale' \in [Tab -> SUBSET View] /\ UNCHANGED <<selected, loads>>
        /\ ghosts' \in [Tab -> SUBSET Comment]
    BY <1>1, <1>6, <2>1 DEF WriteLost, Typed, ViewsTyped
  <2> QED BY <1>1, <1>2, <2>2 DEF Typed, TablesTyped, ViewsTyped
<1> QED BY <1>1, <1>4, <1>5, <1>6

LEMMA LookTyped ==
  ASSUME Typed, NEW t \in Tab, NEW v \in View, Look(t, v)
  PROVE  Typed'
<1>1. SessionTyped' /\ CallsTyped'
  BY DEF Look, Acts, Typed, SessionTyped, CallsTyped, CallTyped, browser, history
<1>2. Loading(t, {v}) /\ UNCHANGED <<plan, db, shows, selected, stale, ghosts>>
  BY DEF Look
<1> QED BY <1>1, <1>2, LoadingTyped DEF Typed, ViewsTyped

LEMMA TickTyped ==
  ASSUME Typed, NEW t \in Tab, NEW k \in Kind, NEW c \in Comment, Tick(t, k, c)
  PROVE  Typed'
<1>1. SessionTyped' /\ CallsTyped' /\ TablesTyped'
  BY DEF Tick, Acts, Typed, SessionTyped, CallsTyped, CallTyped, TablesTyped, browser, history
<1> DEFINE s == IF c \in selected[t][k] THEN selected[t][k] \ {c} ELSE selected[t][k] \cup {c}
<1>2. selected' = [selected EXCEPT ![t] = [selected[t] EXCEPT ![k] = s]]
      /\ UNCHANGED <<shows, loads, stale>>
  BY DEF Tick
<1>3. selected[t] \in [Kind -> SUBSET Comment] /\ s \subseteq Comment
  BY DEF Typed, ViewsTyped
<1> HIDE DEF s
<1>4. [selected[t] EXCEPT ![k] = s] \in [Kind -> SUBSET Comment]
  BY <1>3
<1>5. selected' \in [Tab -> [Kind -> SUBSET Comment]]
  BY <1>2, <1>4 DEF Typed, ViewsTyped
<1>6. ghosts' \in [Tab -> SUBSET Comment]
  BY DEF Tick, Typed, ViewsTyped
<1> QED BY <1>1, <1>2, <1>5, <1>6 DEF Typed, ViewsTyped

LEMMA EditTyped ==
  ASSUME Typed, NEW t \in Tab, NEW f, NEW x, Edit(t, f, x)
  PROVE  Typed'
<1>1. SessionTyped' /\ CallsTyped' /\ TablesTyped'
  BY DEF Edit, Acts, Typed, SessionTyped, CallsTyped, CallTyped, TablesTyped, browser, history
<1> DEFINE s == [shows[t]["settings"] EXCEPT ![f] = x]
<1>2. /\ s \in Form /\ UNCHANGED <<selected, loads, ghosts>>
      /\ shows' = [shows EXCEPT ![t] = [shows[t] EXCEPT !["settings"] = s]]
      /\ stale' = [stale EXCEPT ![t] = stale[t] \cup {"settings"}]
  BY DEF Edit
<1> HIDE DEF s
<1>3. "settings" \in View /\ Content("settings") = Form
  BY DEF View, Content, Kind
<1>4. /\ shows' = [u \in Tab |-> shows'[u]] /\ shows'[t] = [v \in View |-> shows'[t][v]]
      /\ shows'[t]["settings"] = s
      /\ \A v \in View \ {"settings"} : shows'[t][v] = shows[t][v]
      /\ \A u \in Tab \ {t} : shows'[u] = shows[u]
  BY <1>2, <1>3 DEF Typed, ViewsTyped
<1>5. ASSUME NEW u \in Tab
      PROVE  /\ shows'[u] = [v \in View |-> shows'[u][v]]
             /\ \A v \in View : shows'[u][v] \in Content(v)
  <2>1. CASE u = t
    BY <1>2, <1>3, <1>4, <2>1 DEF Typed, ViewsTyped
  <2>2. CASE u # t
    <3>1. shows'[u] = shows[u]
      BY <1>4, <2>2
    <3> QED BY <3>1 DEF Typed, ViewsTyped
  <2> QED BY <2>1, <2>2
<1>6. /\ shows' = [u \in Tab |-> [v \in View |-> shows'[u][v]]]
      /\ \A u \in Tab, v \in View : shows'[u][v] \in Content(v)
  BY <1>4, <1>5
<1>7. stale' \in [Tab -> SUBSET View]
  BY <1>2, <1>3 DEF Typed, ViewsTyped
<1>8. UNCHANGED <<selected, loads, ghosts>> /\ ViewsTyped
  BY <1>2 DEF Typed
<1> QED BY <1>1, <1>6, <1>7, <1>8 DEF Typed, ViewsTyped

LEMMA VisitorTyped ==
  ASSUME Typed, NEW c \in Comment, Visitor(c)
  PROVE  /\ Typed'
         /\ \E d \in Tables :
              /\ Become(d, None, {}, FALSE) /\ d.comment = [db.comment EXCEPT ![c] = "pending"]
              /\ db.comment \in [Comment -> {"none", "pending", "approved", "gone"}]
              /\ d.pinned = db.pinned /\ d.poll = db.poll /\ d.entries = db.entries
              /\ d.lastId = db.lastId /\ d.settings = db.settings
<1> DEFINE d == [db EXCEPT !.comment[c] = "pending"]
<1>1. SessionTyped' /\ CallsTyped'
  BY DEF Visitor, Acts, Typed, SessionTyped, CallsTyped, CallTyped, browser, history
<1>2. /\ d \in Tables /\ d.comment = [db.comment EXCEPT ![c] = "pending"]
      /\ db.comment \in [Comment -> {"none", "pending", "approved", "gone"}]
      /\ d.pinned = db.pinned /\ d.poll = db.poll /\ d.entries = db.entries
      /\ d.lastId = db.lastId /\ d.settings = db.settings
  BY DEF Typed, TablesTyped, Tables
<1>3. Become(d, None, {}, FALSE)
  BY DEF Visitor
<1> HIDE DEF d
<1>4. TablesTyped'
  BY <1>2, <1>3 DEF Typed, TablesTyped, Become
<1>5. ViewsTyped'
  BY <1>3, <1>4, BecomeTyped DEF Typed
<1> QED BY <1>1, <1>2, <1>3, <1>4, <1>5 DEF Typed

LEMMA SessionStepTyped ==
  ASSUME Typed, NEW j \in Call, SessionStep(j)
  PROVE  Typed'
<1>1. CASE SignStep(j) /\ UNCHANGED console
  <2>1. SessionTyped' /\ CallsTyped'
    BY <1>1, SignHandledTyped, SignTakenTyped DEF SignStep, Typed
  <2> QED BY <1>1, <2>1, ConsoleSame DEF Typed
<1>2. CASE /\ Restored(j) \/ LoggedIn(j)
           /\ IF call[j].ok THEN ShowApp(call[j].tab) ELSE UNCHANGED console
  <2>1. SessionTyped' /\ CallsTyped'
    BY <1>2, SignTakenTyped DEF Typed
  <2>2. call[j].tab \in Tab
    BY <1>2, CallFacts DEF Typed, Restored, LoggedIn, At, Busy
  <2>3. CASE ShowApp(call[j].tab)
    BY <2>1, <2>2, <2>3, LoadingTyped DEF ShowApp, Typed, ViewsTyped
  <2> QED BY <1>2, <2>1, <2>3, ConsoleSame DEF Typed
<1>3. CASE Returned(j) /\ Leaves(call[j].tab)
  <2>1. SessionTyped' /\ CallsTyped'
    BY <1>3, ReturnedTyped DEF Typed
  <2>2. call[j].tab \in Tab
    BY <1>3, CallFacts DEF Typed, Returned, At, Busy
  <2> QED BY <1>3, <2>1, <2>2, LeavesTyped DEF Typed
<1> QED BY <1>1, <1>2, <1>3 DEF SessionStep

LEMMA OwnerSignsTyped ==
  ASSUME Typed, NEW t \in Tab, NEW j \in Call, OwnerSigns(t, j)
  PROVE  Typed'
<1>1. SessionTyped' /\ CallsTyped'
  BY OwnerTyped DEF OwnerSigns, Typed
<1>2. UNCHANGED console \/ Leaves(t)
  BY DEF OwnerSigns
<1> QED BY <1>1, <1>2, ConsoleSame, LeavesTyped DEF Typed

\* The steps, one by one.
LEMMA Steps ==
  ASSUME Next
  PROVE  \/ \E j \in Call : \/ SessionStep(j) \/ WorkerStep(j)
                            \/ WriteDone(j) \/ WriteRefused(j) \/ WriteLost(j)
         \/ \E t \in Tab, j \in Call : OwnerSigns(t, j) \/ Click(t, j)
         \/ \E t \in Tab, v \in View : Look(t, v)
         \/ \E t \in Tab, v \in View, i \in Slot : LoadStep(t, v, i)
         \/ \E t \in Tab, k \in Kind, c \in Comment : Tick(t, k, c)
         \/ \E t \in Tab, f \in {"difficulty", "reactions"},
               x \in {"default", "other", "blank", "bad"} : Edit(t, f, x)
         \/ \E c \in Comment : Visitor(c)
         \/ TimePasses
BY DEF Next

LEMMA TypedStep ==
  ASSUME Typed, [Next]_vars
  PROVE  Typed'
<1>1. CASE UNCHANGED vars
  <2>1. UNCHANGED session /\ UNCHANGED console
    BY <1>1 DEF vars
  <2>2. SessionTyped' /\ CallsTyped'
    BY <2>1 DEF session, browser, history, Typed, SessionTyped, CallsTyped, CallTyped
  <2> QED BY <2>1, <2>2, ConsoleSame DEF Typed
<1>2. ASSUME NEW j \in Call,
             SessionStep(j) \/ WorkerStep(j) \/ WriteDone(j) \/ WriteRefused(j) \/ WriteLost(j)
      PROVE  Typed'
  BY <1>2, SessionStepTyped, WorkerTyped, WriteEndsTyped
<1>3. ASSUME NEW t \in Tab, NEW j \in Call, OwnerSigns(t, j) \/ Click(t, j) PROVE Typed'
  <2>1. CASE Click(t, j)
    BY <2>1, ClickFacts, ClicksTyped
  <2> QED BY <1>3, <2>1, OwnerSignsTyped
<1>4. ASSUME NEW t \in Tab, NEW v \in View, NEW i \in Slot, LoadStep(t, v, i) PROVE Typed'
  <2>1. UNCHANGED session
    BY <1>4 DEF LoadStep, Serve, Render, LoadFails
  <2>2. SessionTyped' /\ CallsTyped'
    BY <2>1 DEF session, browser, history, Typed, SessionTyped, CallsTyped, CallTyped
  <2> QED BY <1>4, <2>2, LoadStepTyped DEF Typed
<1>5. CASE TimePasses
  <2>1. SessionTick
    BY <1>5 DEF TimePasses
  <2>2. SessionTyped' /\ CallsTyped'
    BY <2>1, TickTypes DEF Typed
  <2> QED BY <1>5, <2>2, ConsoleSame DEF Typed, TimePasses
<1> QED BY <1>1, <1>2, <1>3, <1>4, <1>5, Steps, LookTyped, TickTyped, EditTyped, VisitorTyped

LEMMA InitTables ==
  ASSUME Init
  PROVE  TablesTyped /\ now = 0 /\ acts = 0
<1>1. PICK waiting \in SUBSET Comment, e \in Value :
        db = [comment |-> [c \in Comment |-> IF c \in waiting THEN "pending" ELSE "none"],
          pinned |-> {}, poll |-> [p \in Poll |-> "none"],
          entries |-> {[id |-> 1, value |-> e]}, lastId |-> 1,
          settings |-> [difficulty |-> "default", reactions |-> "default"]]
  BY DEF Init, TablesInit
<1> DEFINE n == [id |-> 1, value |-> e]
<1>2. n \in Entry /\ n.id = 1
  BY DEF Entry
<1>3. /\ db.entries = {n} /\ db.lastId = 1 /\ db.pinned = {}
      /\ db.comment \in [Comment -> {"none", "pending", "approved", "gone"}]
      /\ db.poll \in [Poll -> {"none", "open", "closed", "gone"}]
      /\ db.settings \in [difficulty: {"default", "other"}, reactions: {"default", "other", "blank"}]
  BY <1>1
<1>4. db \in Tables
  <2>1. db = [comment |-> db.comment, pinned |-> db.pinned, poll |-> db.poll,
              entries |-> db.entries, lastId |-> db.lastId, settings |-> db.settings]
    BY <1>1
  <2>2. db.lastId \in 0..MaxId /\ db.entries \subseteq Entry
    BY <1>2, <1>3
  <2> HIDE DEF n
  <2> QED BY <1>3, <2>1, <2>2 DEF Tables
<1> HIDE DEF n
<1>5. now = 0 /\ acts = 0 /\ plan \in Plans
  BY DEF Init, SessionInit, SessionOpened
<1> QED BY <1>2, <1>3, <1>4, <1>5 DEF TablesTyped

LEMMA InitTyped ==
  ASSUME Init
  PROVE  Typed
<1>1. TablesTyped
  BY InitTables
<1>2. /\ call = [j \in Call |-> None] /\ now = 0 /\ acts = 0 /\ oauth = None /\ started = {}
      /\ taken = [st \in State |-> 0] /\ raced = {} /\ excuse = [t \in Tab |-> {}]
  BY DEF Init, SessionInit, SessionOpened
<1>3. CallsTyped
  BY <1>2 DEF CallsTyped, CallTyped
<1>4. /\ signed \in [Key -> Nat \cup {None}] /\ cookie \in Key \cup {None}
      /\ page \in [Tab -> Page]
      /\ shows = [t \in Tab |-> [v \in View |-> shows[t][v]]]
      /\ \A t \in Tab, v \in View : shows[t][v] \in Content(v)
      /\ stale \in [Tab -> SUBSET View]
  <2>1. CASE ~plan.opened
    <3>1. SessionInit /\ shows = [t \in Tab |-> Blank] /\ stale = [t \in Tab |-> View]
      BY <2>1 DEF Init
    <3> QED BY <3>1, BlankTyped, PageTyped DEF SessionInit
  <2>2. CASE plan.opened
    <3>1. PICK k \in Key :
            /\ SessionOpened(k)
            /\ shows = [t \in Tab |-> [v \in View |-> IF v \in plan.views THEN Read(db, v) ELSE Blank[v]]]
            /\ stale = [t \in Tab |-> View \ plan.views]
      BY <2>2 DEF Init
    <3>2. [LoginPage EXCEPT !.view = "app", !.csrf = k] \in Page
      BY PageTyped DEF Page
    <3>3. page \in [Tab -> Page] /\ signed \in [Key -> Nat \cup {None}] /\ cookie \in Key
      BY <3>1, <3>2 DEF SessionOpened
    <3>4. \A v \in View : (IF v \in plan.views THEN Read(db, v) ELSE Blank[v]) \in Content(v)
      BY <1>1, ReadTyped, BlankTyped DEF TablesTyped
    <3> QED BY <3>1, <3>3, <3>4
  <2> QED BY <2>1, <2>2
<1>5. /\ loads = [t \in Tab |-> [v \in View |-> [i \in Slot |-> loads[t][v][i]]]]
      /\ \A t \in Tab, v \in View, i \in Slot : LoadTyped(loads[t][v][i], v)
  <2>1. loads = [t \in Tab |-> NoLoads]
    BY DEF Init
  <2> QED BY <2>1, BlankTyped DEF LoadTyped
<1>6. selected \in [Tab -> [Kind -> SUBSET Comment]] /\ ghosts \in [Tab -> SUBSET Comment]
  BY BlankTyped DEF Init
<1>7. SessionTyped
  BY <1>2, <1>4 DEF SessionTyped, Excuse
<1> QED BY <1>1, <1>3, <1>4, <1>5, <1>6, <1>7 DEF Typed, ViewsTyped

\* The types of session, calls, tables and views hold of every state.
THEOREM ConsoleTyped == Spec => []Typed
<1>1. Init => Typed
  BY InitTyped
<1>2. Typed /\ [Next]_vars => Typed'
  BY TypedStep
<1> QED BY <1>1, <1>2, PTL DEF Spec

\* Every variable of the admin console and of its session has its type: what a
\* tab shows is what its lists may hold, a load brings what its view shows, and
\* no two entries of a list have one id or one value.
THEOREM ConsoleTypeCorrect == Spec => []ConsoleTypeOK
<1>1. ASSUME Typed PROVE ConsoleTypeOK
  <2>1. call \in [Call -> (SignCall \cup WriteCall) \cup {None}]
    BY <1>1 DEF Typed, CallsTyped, CallTyped
  <2>2. SessionTypeOK(SignCall \cup WriteCall)
    BY <1>1, <2>1 DEF Typed, SessionTyped, SessionTypeOK
  <2>3. \A t \in Tab, v \in View, i \in Slot : loads[t][v][i] \in Load(v) \cup {None}
    BY <1>1 DEF Typed, ViewsTyped, LoadTyped
  <2> QED BY <1>1, <2>2, <2>3 DEF Typed, TablesTyped, ViewsTyped, ConsoleTypeOK
<1> QED BY <1>1, ConsoleTyped, PTL

-----------------------------------------------------------------------------
(* Steps that neither sign in nor sign out.                                *)

OpsApart == WriteOp \cap (SignOp \cup {"start"}) = {}

LEMMA Apart == OpsApart
BY DEF OpsApart, WriteOp, PollOp, SignOp

\* The calls that sign in or out are as they were, and so is the browser.
SignsKept ==
  /\ \A i \in Call : /\ (Sign(i))' <=> Sign(i)
                     /\ Sign(i) => call'[i] = call[i]
  /\ UNCHANGED <<signed, browser, started, taken, raced>>

\* Only time passes, or neither does it.
SameTime == now' = now /\ excuse' = excuse

LEMMA WorkerKeeps ==
  ASSUME Typed, NEW j \in Call, WorkerStep(j)
  PROVE  SignsKept /\ SameTime
<1>1. UNCHANGED <<now, signed, browser, started, acts, history>>
  BY WorkerShape
<1>2. ASSUME NEW i \in Call
      PROVE  ((Sign(i))' <=> Sign(i)) /\ (Sign(i) => call'[i] = call[i])
  <2>0. CallsTyped
    BY DEF Typed
  <2>1. CASE Denied(j)
    <3>1. Writes(j) /\ call[j] \in WriteCall /\ ~Sign(j)
      BY <2>0, <2>1, CallFacts DEF Denied
    <3>2. call'[j] = [call[j] EXCEPT !.pc = "answered"] /\ \A k \in Call \ {j} : call'[k] = call[k]
      BY <2>0, <2>1, DeniedFacts
    <3>3. call'[j].op = call[j].op
      BY <3>1, <3>2 DEF WriteCall
    <3> QED BY <3>3,  <3>1, <3>2, Apart DEF Sign, Writes, OpsApart
  <2>2. ASSUME NEW d, Done(j, d) PROVE ((Sign(i))' <=> Sign(i)) /\ (Sign(i) => call'[i] = call[i])
    <3>1. Writes(j) /\ call[j] \in WriteCall /\ ~Sign(j)
      BY <2>0, <2>2, DoneFacts, CallFacts
    <3>2. /\ call'[j] = [[call[j] EXCEPT !.ok = TRUE] EXCEPT !.pc = "answered"]
          /\ \A k \in Call \ {j} : call'[k] = call[k]
      BY <2>2, DoneFacts
    <3>3. call'[j].op = call[j].op
      <4> DEFINE b == [[call[j] EXCEPT !.ok = TRUE] EXCEPT !.pc = "answered"]
      <4>1. b.op = call[j].op
        BY <3>1 DEF WriteCall
      <4> QED BY <3>2, <4>1
    <3> QED BY <3>3, <3>1, <3>2, Apart DEF Sign, Writes, OpsApart
  <2>3. ASSUME NEW f, NEW last \in BOOLEAN, Put(j, f, last)
        PROVE  ((Sign(i))' <=> Sign(i)) /\ (Sign(i) => call'[i] = call[i])
    <3>1. CASE i = j
      <4>0. call'[j].op = call[j].op
        BY <2>3, PutFacts DEF PutBy
      <4>1. call'[j].op = call[j].op /\ call[j].op \in WriteOp
        BY <2>3, <4>0 DEF Put, WriteOp
      <4> QED BY <3>1, <4>1, Apart DEF Sign, OpsApart
    <3>2. CASE i # j /\ call'[i] # call[i]
      <4>1. Writes(i) /\ call[i] \in WriteCall /\ call'[i] = [call[i] EXCEPT !.clean = FALSE]
        <5>1. PutBeside(i)
          BY <2>3, <3>2, PutFacts
        <5> QED BY <3>2, <5>1 DEF PutBeside
      <4>2. call'[i].op = call[i].op
        BY <4>1 DEF WriteCall
      <4> QED BY <4>1, <4>2, Apart DEF Sign, Writes, OpsApart
    <3> QED BY <3>1, <3>2 DEF Sign
  <2> QED BY <2>1, <2>2, <2>3, WorkerShape
<1> QED BY <1>1, <1>2 DEF SignsKept, SameTime, history

LEMMA EndsKeep ==
  ASSUME Typed, NEW j \in Call, WriteDone(j) \/ WriteRefused(j) \/ WriteLost(j)
  PROVE  SignsKept /\ SameTime
<1>1. Writes(j) /\ Finished(j) /\ UNCHANGED <<now, signed, browser, started, history>>
  BY WriteEndsTyped DEF WriteDone, WriteRefused, WriteLost
<1>2. call'[j] = None /\ \A i \in Call \ {j} : call'[i] = call[i]
  BY <1>1, FinishTyped DEF Typed
<1>3. ~Sign(j)
  BY <1>1, Apart DEF Sign, Writes, OpsApart
<1> QED BY <1>1, <1>2, <1>3 DEF SignsKept, SameTime, history, Sign

LEMMA ClickKeeps ==
  ASSUME Typed, NEW t \in Tab, NEW j \in Call, Click(t, j)
  PROVE  SignsKept /\ SameTime
<1>1. PICK w : Clicks(t, j, w) /\ Clicked(w)
  BY ClickFacts
<1>2. call[j] = None /\ call' = [call EXCEPT ![j] = w]
      /\ UNCHANGED <<now, signed, browser, started, history>>
  BY <1>1 DEF Clicks, Busy
<1>3. call'[j] = w /\ \A i \in Call \ {j} : call'[i] = call[i]
  BY <1>2 DEF Typed, CallsTyped
<1>4. w.op \in WriteOp
  BY <1>1 DEF Clicked, WriteCall
<1> QED BY <1>2, <1>3, <1>4, Apart DEF SignsKept, SameTime, history, Sign, OpsApart

\* The owner signs in or out, or the Worker, the browser or the page goes on.
OwnerStep(t, j) ==
  \/ Open(t, j) \/ Reload(t, j) \/ Login(t, j) \/ SignOut(t, j) \/ GithubStart(t, j)
  \/ \E st \in State : Consent(t, j, st)

LEMMA Frame ==
  ASSUME Typed, [Next]_vars
  PROVE  \/ SignsKept /\ (SameTime \/ SessionTick)
         \/ \E t \in Tab, j \in Call : OwnerStep(t, j)
         \/ \E j \in Call : SignStep(j) \/ Restored(j) \/ LoggedIn(j) \/ Returned(j)
<1>1. ASSUME UNCHANGED <<signed, browser, started, call, taken, raced>> PROVE SignsKept
  BY <1>1 DEF SignsKept, Sign
<1>2. CASE UNCHANGED vars
  BY <1>1, <1>2 DEF vars, session, browser, history, SameTime
<1>3. ASSUME NEW j \in Call, SessionStep(j)
      PROVE  SignStep(j) \/ Restored(j) \/ LoggedIn(j) \/ Returned(j)
  BY <1>3 DEF SessionStep
<1>4. ASSUME NEW t \in Tab, NEW j \in Call, OwnerSigns(t, j) PROVE OwnerStep(t, j)
  BY <1>4 DEF OwnerSigns, OwnerStep
<1>5. ASSUME NEW t \in Tab, NEW v \in View, Look(t, v) PROVE SignsKept /\ SameTime
  BY <1>1, <1>5 DEF Look, history, SameTime
<1>6. ASSUME NEW t \in Tab, NEW v \in View, NEW i \in Slot, LoadStep(t, v, i)
      PROVE  SignsKept /\ SameTime
  BY <1>1, <1>6 DEF LoadStep, Serve, Render, LoadFails, session, browser, history, SameTime
<1>7. ASSUME NEW t \in Tab, NEW k \in Kind, NEW c \in Comment, Tick(t, k, c)
      PROVE  SignsKept /\ SameTime
  BY <1>1, <1>7 DEF Tick, history, SameTime
<1>8. ASSUME NEW t \in Tab, NEW f, NEW x, Edit(t, f, x) PROVE SignsKept /\ SameTime
  BY <1>1, <1>8 DEF Edit, history, SameTime
<1>9. ASSUME NEW c \in Comment, Visitor(c) PROVE SignsKept /\ SameTime
  BY <1>1, <1>9 DEF Visitor, history, SameTime
<1>10. CASE TimePasses
  BY <1>1, <1>10 DEF TimePasses, SessionTick
<1> HIDE DEF SignsKept, SameTime
<1> QED BY <1>2, <1>3, <1>4, <1>5, <1>6, <1>7, <1>8, <1>9, <1>10, Steps, WorkerKeeps, EndsKeep,
           ClickKeeps

-----------------------------------------------------------------------------
(* A start signs in once.                                                  *)

Alike(i) ==
  /\ (Sign(i))' <=> Sign(i)
  /\ Sign(i) => /\ call'[i].op = call[i].op /\ call'[i].state = call[i].state
                /\ call'[i].oauth = call[i].oauth
Silent(i) == (Sign(i))' => call'[i].state = None

\* No state is given, kept or brought back that was not before.
TellsNothing ==
  /\ \A i \in Call : Alike(i) \/ Silent(i)
  /\ oauth' = oauth \/ oauth' = None
  /\ \A t \in Tab : \/ page'[t].state \in {None, page[t].state}
                    \/ \E i \in Call : Returns(i, page'[t].state)
  /\ UNCHANGED <<started, taken, raced>>

LEMMA TellsNothingKeeps ==
  ASSUME StartInv, TellsNothing
  PROVE  StartInv'
<1> USE DEF TellsNothing
<1>1. ASSUME NEW st \in State, NEW i \in Call
      PROVE  /\ (Gives(i, st))' => Gives(i, st)
             /\ (Returns(i, st))' => Returns(i, st) /\ call'[i].oauth = call[i].oauth
  BY DEF Gives, Returns, Alike, Silent
<1>2. \A st : (Kept(st))' => Kept(st)
  BY DEF Kept
<1>3. KnownStates'
  <2>1. ASSUME NEW i \in Call, (Sign(i))', call'[i].state # None PROVE call'[i].state \in started
    BY <2>1 DEF StartInv, KnownStates, Alike, Silent
  <2>2. ASSUME NEW t \in Tab, page'[t].state # None PROVE page'[t].state \in started
    <3>1. CASE page'[t].state = page[t].state
      BY <2>2, <3>1 DEF StartInv, KnownStates
    <3>2. ASSUME NEW i \in Call, Returns(i, page'[t].state) PROVE page'[t].state \in started
      BY <2>2, <3>2 DEF StartInv, KnownStates, Returns
    <3> QED BY <2>2, <3>1, <3>2
  <2>3. oauth' # None => oauth'.state \in started
    BY DEF StartInv, KnownStates
  <2> QED BY <2>1, <2>2, <2>3 DEF StartInv, KnownStates
<1>4. GivenOnce'
  <2> SUFFICES ASSUME NEW st \in State, NEW i \in Call, (Gives(i, st))'
               PROVE  /\ \A k \in Call : (~Returns(k, st))' /\ ((Gives(k, st))' => k = i)
                      /\ (~Kept(st))' /\ taken'[st] = 0
                      /\ \A t \in Tab : page'[t].state # st
    BY DEF GivenOnce
  <2>1. /\ \A k \in Call : ~Returns(k, st) /\ (Gives(k, st) => k = i)
        /\ ~Kept(st) /\ taken[st] = 0
        /\ \A t \in Tab : page[t].state # st
    BY <1>1 DEF StartInv, GivenOnce
  <2>2. \A t \in Tab : page'[t].state # st
    BY <2>1
  <2> QED BY <1>1, <1>2, <2>1, <2>2
<1>5. SpentOnce'
  BY <1>1, <1>2 DEF StartInv, SpentOnce
<1> QED BY <1>3, <1>4, <1>5 DEF StartInv

LEMMA KeptTellsNothing ==
  ASSUME SignsKept
  PROVE  TellsNothing
BY DEF SignsKept, TellsNothing, Alike, browser

\* A page is left for a call that has no state.
LEMMA LeftTellsNothing ==
  ASSUME Typed, NEW t \in Tab, NEW j \in Call, NEW c, CallTyped(c), c.state = None,
         LeftFor(t, j, c) \/ (~Busy(j) /\ call' = [call EXCEPT ![j] = c])
  PROVE  \A i \in Call : Alike(i) \/ Silent(i)
<1>1. CallsTyped
  BY DEF Typed
<1>2. CASE ~Busy(j) /\ call' = [call EXCEPT ![j] = c]
  BY <1>1, <1>2, SlotTyped DEF Alike, Silent, Sign
<1>3. CASE LeftFor(t, j, c)
  <2>1. Silent(j)
    BY <1>1, <1>3, LeftTyped DEF Silent
  <2>2. ASSUME NEW i \in Call \ {j} PROVE Alike(i)
    <3>1. CASE i \in OfTab(t)
      <4>1. call'[i] # None /\ Deaf(call[i], call'[i]) /\ call[i] # None
        BY <1>1, <1>3, <3>1, LeftTyped DEF OfTab, Busy
      <4> QED BY <4>1 DEF Alike, Sign, Deaf
    <3>2. CASE i \notin OfTab(t)
      <4>1. call'[i] = call[i]
        BY <1>1, <1>3, <3>2, LeftTyped
      <4> QED BY <4>1 DEF Alike, Sign
    <3> QED BY <3>1, <3>2
  <2> QED BY <2>1, <2>2
<1> QED BY <1>2, <1>3

LEMMA OwnerTellsNothing ==
  ASSUME Typed, NEW t \in Tab, NEW j \in Call,
         Open(t, j) \/ Reload(t, j) \/ Login(t, j) \/ SignOut(t, j) \/ GithubStart(t, j)
  PROVE  TellsNothing
<1> USE DEF SignOp
<1>0. SessionTyped /\ page \in [Tab -> Page]
  BY DEF Typed, SessionTyped
<1>1. ASSUME NEW op \in SignOp \cup {"start"}, op # "callback", NEW c, c = NewCall(t, op)
      PROVE  CallTyped(c) /\ c.state = None
  BY <1>0, <1>1, NewCallFacts DEF CallTyped
<1>2. UNCHANGED <<oauth, started, taken, raced>>
  BY DEF Open, Reload, Login, SignOut, GithubStart, browser, history
<1>3. \A u \in Tab : page'[u].state \in {None, page[u].state}
  <2>1. page' = [page EXCEPT ![t] = LoginPage] => \A u \in Tab : page'[u].state \in {None, page[u].state}
    BY <1>0, PageTyped
  <2>2. CASE SignOut(t, j)
    <3> DEFINE p == [page[t] EXCEPT !.view = "login", !.csrf = None]
    <3>1. page' = [page EXCEPT ![t] = p] /\ p.state = page[t].state
      BY <1>0, <2>2 DEF SignOut, Page
    <3> HIDE DEF p
    <3> QED BY <1>0, <3>1
  <2>3. CASE GithubStart(t, j)
    <3> DEFINE p == [LoginPage EXCEPT !.view = "github"]
    <3>1. page' = [page EXCEPT ![t] = p] /\ p.state = None
      BY <2>3, PageTyped DEF GithubStart, Page
    <3> HIDE DEF p
    <3> QED BY <1>0, <3>1
  <2> QED BY <2>1, <2>2, <2>3 DEF Open, Reload, Login, Loads, browser
<1>4. \A i \in Call : Alike(i) \/ Silent(i)
  <2>1. ASSUME NEW op \in SignOp \cup {"start"}, op # "callback",
               \/ LeftFor(t, j, NewCall(t, op))
               \/ ~Busy(j) /\ call' = [call EXCEPT ![j] = NewCall(t, op)]
        PROVE  \A i \in Call : Alike(i) \/ Silent(i)
    <3> DEFINE c == NewCall(t, op)
    <3>1. CallTyped(c) /\ c.state = None
      BY <1>1, <2>1
    <3>2. LeftFor(t, j, c) \/ (~Busy(j) /\ call' = [call EXCEPT ![j] = c])
      BY <2>1
    <3> HIDE DEF c
    <3> QED BY <3>1, <3>2, LeftTellsNothing
  <2>2. CASE Open(t, j) \/ Reload(t, j)
    <3>1. LeftFor(t, j, NewCall(t, "restore"))
      BY <2>2 DEF Open, Reload, Loads, LeftFor
    <3> QED BY <2>1, <3>1
  <2>3. CASE Login(t, j)
    <3>1. ~Busy(j) /\ call' = [call EXCEPT ![j] = NewCall(t, "login")]
      BY <2>3 DEF Login, Sends
    <3> QED BY <2>1, <3>1
  <2>4. CASE SignOut(t, j)
    <3>1. ~Busy(j) /\ call' = [call EXCEPT ![j] = NewCall(t, "logout")]
      BY <2>4 DEF SignOut, Sends
    <3> QED BY <2>1, <3>1
  <2>5. CASE GithubStart(t, j)
    <3>1. LeftFor(t, j, NewCall(t, "start"))
      BY <2>5 DEF GithubStart, LeftFor
    <3> QED BY <2>1, <3>1
  <2> QED BY <2>2, <2>3, <2>4, <2>5
<1> QED BY <1>2, <1>3, <1>4 DEF TellsNothing

\* What the Worker and the browser make of a call of a sign-in but a start.
LEMMA HandledTellsNothing ==
  ASSUME Typed, NEW j \in Call,
         \/ HandleLogin(j) \/ HandleLogout(j) \/ HandleSession(j) \/ HandleCallback(j)
         \/ TakeCookie(j) \/ Restored(j) \/ LoggedIn(j) \/ LoggedOut(j) \/ Lost(j)
         \/ TakenUnheard(j) /\ (oauth' = oauth \/ oauth' = None) /\ taken' = taken
  PROVE  TellsNothing
<1> USE DEF SignOp
<1> DEFINE c == call[j]
<1>0. SessionTyped /\ CallsTyped /\ page \in [Tab -> Page]
  BY DEF Typed, SessionTyped
<1>1. c # None /\ c.tab \in Tab
  BY <1>0, CallFacts DEF HandleLogin, HandleLogout, HandleSession, HandleCallback, TakeCookie,
        Restored, LoggedIn, LoggedOut, Lost, TakenUnheard, At, Busy
<1>2. (oauth' = oauth \/ oauth' = None) /\ UNCHANGED <<started, taken, raced>>
  BY DEF HandleLogin, HandleLogout, HandleSession, HandleCallback, TakeCookie,
        Restored, LoggedIn, LoggedOut, Lost, TakenUnheard, browser, history
<1>3. \A u \in Tab : page'[u].state = page[u].state
  <2>1. CASE page' = page
    BY <2>1
  <2>2. CASE page' = [page EXCEPT ![c.tab] = SignedIn(c)]
    <3>1. SignedIn(c).state = page[c.tab].state
      BY <1>0, <1>1 DEF SignedIn, Page
    <3> QED BY <1>0, <1>1, <2>2, <3>1
  <2>3. CASE Lost(j) /\ page' # page
    <3> DEFINE p == [page[c.tab] EXCEPT !.view = "error"]
    <3>1. page' = [page EXCEPT ![c.tab] = p] /\ p.state = page[c.tab].state
      BY <1>0, <1>1, <2>3 DEF Lost, Page
    <3> HIDE DEF p
    <3> QED BY <1>0, <1>1, <3>1
  <2> QED BY <2>1, <2>2, <2>3 DEF HandleLogin, HandleLogout, HandleSession, HandleCallback,
        TakeCookie, Restored, LoggedIn, LoggedOut, TakenUnheard, browser
<1>4. \A i \in Call : Alike(i) \/ Silent(i)
  <2>1. CASE Finished(j)
    <3>1. call'[j] = None /\ \A i \in Call \ {j} : call'[i] = call[i]
      BY <1>0, <2>1, FinishTyped
    <3> QED BY <3>1 DEF Alike, Silent, Sign
  <2>2. ASSUME NEW d, call' = [call EXCEPT ![j] = d], d # None, d.op = c.op, d.state = c.state,
               d.oauth = c.oauth
        PROVE  \A i \in Call : Alike(i) \/ Silent(i)
    <3>1. call'[j] = d /\ \A i \in Call \ {j} : call'[i] = call[i]
      BY <1>0, <2>2 DEF CallsTyped
    <3> QED BY <1>1, <2>2, <3>1 DEF Alike, Sign
  <2>3. CASE \/ HandleLogin(j) \/ HandleLogout(j) \/ HandleSession(j) \/ HandleCallback(j)
             \/ TakeCookie(j)
    <3>1. c \in SignCall
      BY <1>0, <2>3, Found DEF HandleLogin, HandleLogout, HandleSession, HandleCallback, TakeCookie
    <3>2. ASSUME NEW d \in SignCall, d.op = c.op, d.state = c.state, d.oauth = c.oauth,
                 Answers(j, d)
          PROVE  \A i \in Call : Alike(i) \/ Silent(i)
      <4> DEFINE b == [d EXCEPT !.pc = "answered"]
      <4>1. b \in SignCall /\ b.op = d.op /\ b.state = d.state /\ b.oauth = d.oauth
        BY DEF SignCall
      <4>2. call' = [call EXCEPT ![j] = b]
        BY <3>2 DEF Answers
      <4> HIDE DEF b
      <4> QED BY <2>2, <3>2, <4>1, <4>2
    <3>3. CASE Answers(j, c)
      BY <3>1, <3>2, <3>3
    <3>4. ASSUME NEW ok \in BOOLEAN, NEW clears \in BOOLEAN, NEW k \in Key \cup {None},
                 \/ Answers(j, [c EXCEPT !.ok = ok, !.brings = k])
                 \/ Answers(j, [c EXCEPT !.ok = ok, !.clears = clears])
                 \/ Answers(j, [c EXCEPT !.clears = clears])
                 \/ Answers(j, [c EXCEPT !.ok = ok, !.clears = clears, !.brings = k])
          PROVE  \A i \in Call : Alike(i) \/ Silent(i)
      <4> DEFINE d1 == [c EXCEPT !.ok = ok, !.brings = k]
                 d2 == [c EXCEPT !.ok = ok, !.clears = clears]
                 d3 == [c EXCEPT !.clears = clears]
                 d4 == [c EXCEPT !.ok = ok, !.clears = clears, !.brings = k]
      <4>a. d1 \in SignCall /\ d1.op = c.op /\ d1.state = c.state /\ d1.oauth = c.oauth
        BY <3>1 DEF SignCall
      <4>b. d2 \in SignCall /\ d2.op = c.op /\ d2.state = c.state /\ d2.oauth = c.oauth
        BY <3>1 DEF SignCall
      <4>c. d3 \in SignCall /\ d3.op = c.op /\ d3.state = c.state /\ d3.oauth = c.oauth
        BY <3>1 DEF SignCall
      <4>d. d4 \in SignCall /\ d4.op = c.op /\ d4.state = c.state /\ d4.oauth = c.oauth
        BY ZenonT(40), <3>1 DEF SignCall
      <4>2. \E d \in {d1, d2, d3, d4} : Answers(j, d)
        BY <3>4
      <4> HIDE DEF d1, d2, d3, d4
      <4> QED BY <3>2, <4>a, <4>b, <4>c, <4>d, <4>2
    <3>5. CASE HandleLogin(j)
      BY <3>3, <3>4, <3>5 DEF HandleLogin, Unsigned
    <3>6. CASE HandleLogout(j)
      BY <3>4, <3>6 DEF HandleLogout
    <3>7. CASE HandleSession(j)
      <4> DEFINE k == CsrfOf(c.key)
                 ok == k # None
      <4>1. k \in Key \cup {None} /\ ok \in BOOLEAN
        BY <3>1 DEF CsrfOf, SignCall
      <4>2. Answers(j, [c EXCEPT !.ok = ok, !.brings = k])
        BY <3>7 DEF HandleSession
      <4> HIDE DEF k, ok
      <4> QED BY <3>4, <4>1, <4>2
    <3>8. CASE HandleCallback(j)
      BY <3>3, <3>4, <3>8 DEF HandleCallback, Unsigned, ClearsState
    <3>9. CASE TakeCookie(j)
      <4> DEFINE b == [c EXCEPT !.pc = "taken"]
      <4>1. b \in SignCall /\ b.op = c.op /\ b.state = c.state /\ b.oauth = c.oauth
        BY <3>1 DEF SignCall
      <4>2. call' = [call EXCEPT ![j] = b]
        BY <3>9 DEF TakeCookie
      <4> HIDE DEF b
      <4> QED BY <2>2, <4>1, <4>2
    <3> QED BY <2>3, <3>5, <3>6, <3>7, <3>8, <3>9
  <2> QED BY <2>1, <2>3 DEF Restored, LoggedIn, LoggedOut, Lost, TakenUnheard
<1> QED BY <1>2, <1>3, <1>4 DEF TellsNothing

\* The owner consents: a call comes back with what the page was given.
LEMMA ConsentKeeps ==
  ASSUME Typed, StartInv, NEW t \in Tab, NEW j \in Call, NEW st \in State, Consent(t, j, st)
  PROVE  StartInv'
<1>0. SessionTyped /\ CallsTyped /\ page \in [Tab -> Page] /\ page[t].state = st /\ st # None
      /\ UNCHANGED <<oauth, started, taken>>
  BY DEF Typed, SessionTyped, Consent
<1>1. PICK c \in SignCall : /\ LeftFor(t, j, c) /\ CallTyped(c)
                            /\ c.op = "callback" /\ c.state = st /\ c.oauth = StateCookie
  <2> DEFINE n == NewCall(t, "callback")
             c == [n EXCEPT !.state = st]
  <2>1. n \in SignCall /\ n.op = "callback" /\ n.pc = "sent" /\ ~n.ok /\ n.oauth = StateCookie
    BY <1>0, NewCallFacts DEF SignOp
  <2>2. LeftFor(t, j, c)
    BY DEF Consent, LeftFor
  <2> HIDE DEF n
  <2>3. c \in SignCall /\ c.op = "callback" /\ c.pc = "sent" /\ ~c.ok /\ c.state = st
        /\ c.oauth = StateCookie
    BY <2>1 DEF SignCall
  <2> QED BY <2>2, <2>3 DEF CallTyped, SignFit
<1>2. call'[j] = c /\ \A i \in Call \ {j} : Alike(i)
  <2>1. /\ call'[j] = c
        /\ \A i \in Call \ {j} :
             IF i \in OfTab(t) THEN call'[i] # None /\ Deaf(call[i], call'[i]) ELSE call'[i] = call[i]
    BY <1>0, <1>1, LeftTyped
  <2>2. ASSUME NEW i \in Call \ {j} PROVE Alike(i)
    <3>1. CASE i \in OfTab(t)
      <4>1. call[i] # None
        BY <3>1 DEF OfTab, Busy
      <4> QED BY <2>1, <3>1, <4>1 DEF Alike, Sign, Deaf
    <3>2. CASE i \notin OfTab(t)
      BY <2>1, <3>2 DEF Alike, Sign
    <3> QED BY <3>1, <3>2
  <2> QED BY <2>1, <2>2
<1>3. \A u \in Tab : page'[u].state = page[u].state
  <2> DEFINE p == [page[t] EXCEPT !.view = "github", !.csrf = None, !.reloading = FALSE]
  <2>1. page' = [page EXCEPT ![t] = p] /\ p.state = page[t].state
    BY <1>0 DEF Consent, Page
  <2> HIDE DEF p
  <2> QED BY <1>0, <2>1
<1>4. st \in started
  BY <1>0 DEF StartInv, KnownStates
<1>5. c # None
  BY <1>1
<1>6. \A x : ~(Gives(j, x))' /\ ((Returns(j, x))' <=> x = st) /\ ~Gives(j, x) /\ ~Returns(j, x)
  <2>1. call[j] = None
    BY DEF Consent, Busy
  <2> QED BY <1>1, <1>2, <1>5, <2>1 DEF Gives, Returns, Sign, SignOp
<1>7. KnownStates'
  <2>1. ASSUME NEW i \in Call, (Sign(i))', call'[i].state # None PROVE call'[i].state \in started
    BY <1>1, <1>2, <1>4, <2>1 DEF StartInv, KnownStates, Alike
  <2> QED BY <1>0, <1>3, <2>1 DEF StartInv, KnownStates
<1>8. GivenOnce'
  <2> SUFFICES ASSUME NEW x \in State, NEW i \in Call, (Gives(i, x))'
               PROVE  /\ \A k \in Call : (~Returns(k, x))' /\ ((Gives(k, x))' => k = i)
                      /\ (~Kept(x))' /\ taken'[x] = 0
                      /\ \A u \in Tab : page'[u].state # x
    BY DEF GivenOnce
  <2>1. i # j /\ Gives(i, x)
    BY <1>2, <1>6 DEF Gives, Alike
  <2>2. /\ \A k \in Call : ~Returns(k, x) /\ (Gives(k, x) => k = i)
        /\ ~Kept(x) /\ taken[x] = 0
        /\ \A u \in Tab : page[u].state # x
    BY <2>1 DEF StartInv, GivenOnce
  <2>3. x # st
    BY <1>0, <2>2
  <2>4. \A k \in Call \ {j} : ((Gives(k, x))' => Gives(k, x)) /\ ((Returns(k, x))' => Returns(k, x))
    BY <1>2 DEF Gives, Returns, Alike
  <2>5. \A k \in Call : (~Returns(k, x))' /\ ((Gives(k, x))' => k = i)
    BY <1>6, <2>1, <2>2, <2>3, <2>4
  <2> QED BY <1>0, <1>3, <2>2, <2>5 DEF Kept
<1>9. SpentOnce'
  <2> SUFFICES ASSUME NEW x \in State \ raced'
               PROVE  /\ \A i, k \in Call : (Returns(i, x))' /\ (Returns(k, x))' => i = k
                      /\ taken'[x] <= 1
                      /\ taken'[x] = 1 => (~Kept(x))' /\ \A i \in Call : (Returns(i, x))' => call'[i].oauth # x
    BY DEF SpentOnce
  <2>1. x \in State \ raced
    BY DEF Consent
  <2>2. /\ \A i, k \in Call : Returns(i, x) /\ Returns(k, x) => i = k
        /\ taken[x] <= 1
        /\ taken[x] = 1 => ~Kept(x) /\ \A i \in Call : Returns(i, x) => call[i].oauth # x
    BY <2>1 DEF StartInv, SpentOnce
  <2>3. \A k \in Call \ {j} : (Returns(k, x))' => Returns(k, x) /\ call'[k].oauth = call[k].oauth
    BY <1>2 DEF Returns, Alike
  <2>4. x = st => \A i \in Call : ~Returns(i, x)
    BY DEF Consent, Returns, Sign, Busy
  <2>5. \A i, k \in Call : (Returns(i, x))' /\ (Returns(k, x))' => i = k
    BY <1>6, <2>2, <2>3, <2>4
  <2>6. ASSUME taken[x] = 1 PROVE (~Kept(x))' /\ \A i \in Call : (Returns(i, x))' => call'[i].oauth # x
    <3>1. StateCookie # x
      <4>1. ~Kept(x) /\ x # None
        BY <2>2, <2>6
      <4> QED BY <4>1 DEF Kept, StateCookie
    <3> QED BY <1>0, <1>1, <1>2, <2>2, <2>3, <2>6, <3>1 DEF Kept
  <2> QED BY <1>0, <2>2, <2>5, <2>6
<1> QED BY <1>7, <1>8, <1>9 DEF StartInv

\* A state is made up: nobody has ever known it.
LEMMA StartedKeeps ==
  ASSUME Typed, StartInv, NEW j \in Call, NEW st \in State, HandleStart(j, st)
  PROVE  StartInv'
<1> DEFINE d == [call[j] EXCEPT !.ok = TRUE, !.state = st]
           b == [d EXCEPT !.pc = "answered"]
<1>0. SessionTyped /\ CallsTyped /\ Sign(j) /\ call[j] \in SignCall /\ call[j].op = "start"
      /\ st \notin started /\ started' = started \cup {st}
      /\ call' = [call EXCEPT ![j] = b]
      /\ UNCHANGED <<oauth, page, taken, raced>>
  BY Found DEF HandleStart, Typed, browser, history, Answers
<1>1. b \in SignCall /\ b.op = "start" /\ b.state = st
  <2>1. d \in SignCall /\ d.op = "start" /\ d.state = st
    BY <1>0 DEF SignCall
  <2> HIDE DEF d
  <2> QED BY <2>1 DEF SignCall
<1> HIDE DEF d, b
<1>2. call'[j] = b /\ \A i \in Call \ {j} : call'[i] = call[i]
  BY <1>0 DEF CallsTyped
<1>3. b # None /\ st # None
  BY <1>1
<1>4. \A x : \A i \in Call \ {j} : /\ (Gives(i, x))' => Gives(i, x)
                                   /\ (Returns(i, x))' => Returns(i, x) /\ call'[i].oauth = call[i].oauth
  BY <1>2 DEF Gives, Returns, Sign
<1>5. \A x : ~(Returns(j, x))' /\ ((Gives(j, x))' <=> x = st)
  BY <1>1, <1>2, <1>3 DEF Gives, Returns, Sign
<1>6. /\ \A i \in Call \ {j} : ~Gives(i, st) /\ ~Returns(i, st)
      /\ ~Kept(st) /\ taken[st] = 0 /\ \A t \in Tab : page[t].state # st
  BY <1>0, <1>3 DEF StartInv, KnownStates, Gives, Returns, Kept
<1>7. KnownStates'
  <2>1. ASSUME NEW i \in Call, (Sign(i))', call'[i].state # None PROVE call'[i].state \in started'
    BY <1>0, <1>1, <1>2, <2>1 DEF StartInv, KnownStates, Sign
  <2> QED BY <1>0, <2>1 DEF StartInv, KnownStates
<1>8. GivenOnce'
  <2> SUFFICES ASSUME NEW x \in State, NEW i \in Call, (Gives(i, x))'
               PROVE  /\ \A k \in Call : (~Returns(k, x))' /\ ((Gives(k, x))' => k = i)
                      /\ (~Kept(x))' /\ taken'[x] = 0
                      /\ \A u \in Tab : page'[u].state # x
    BY DEF GivenOnce
  <2>1. CASE x = st
    BY <1>0, <1>4, <1>5, <1>6, <2>1 DEF Kept
  <2>2. CASE x # st
    <3>1. i # j /\ Gives(i, x)
      BY <1>4, <1>5, <2>2
    <3>2. /\ \A k \in Call : ~Returns(k, x) /\ (Gives(k, x) => k = i)
          /\ ~Kept(x) /\ taken[x] = 0
          /\ \A u \in Tab : page[u].state # x
      BY <3>1 DEF StartInv, GivenOnce
    <3> QED BY <1>0, <1>4, <1>5, <2>2, <3>2 DEF Kept
  <2> QED BY <2>1, <2>2
<1>9. SpentOnce'
  <2> SUFFICES ASSUME NEW x \in State \ raced
               PROVE  /\ \A i, k \in Call : (Returns(i, x))' /\ (Returns(k, x))' => i = k
                      /\ taken'[x] <= 1
                      /\ taken'[x] = 1 => (~Kept(x))' /\ \A i \in Call : (Returns(i, x))' => call'[i].oauth # x
    BY <1>0 DEF SpentOnce
  <2>1. /\ \A i, k \in Call : Returns(i, x) /\ Returns(k, x) => i = k
        /\ taken[x] <= 1
        /\ taken[x] = 1 => ~Kept(x) /\ \A i \in Call : Returns(i, x) => call[i].oauth # x
    BY DEF StartInv, SpentOnce
  <2> QED BY <1>0, <1>4, <1>5, <2>1 DEF Kept
<1> QED BY <1>7, <1>8, <1>9 DEF StartInv

\* The cookie is given the state, and so is a page that still listens.
StateGiven(j) ==
  LET st == call[j].state IN
  /\ Sign(j) /\ call[j].op = "start" /\ st \in State
  /\ call'[j] = None /\ \A i \in Call \ {j} : call'[i] = call[i]
  /\ oauth' = [state |-> st, set |-> now]
  /\ \A u \in Tab : page'[u].state \in {page[u].state, st}
  /\ UNCHANGED <<started, taken, raced>>

LEMMA GivenKeeps ==
  ASSUME Typed, StartInv, NEW j \in Call, StateGiven(j)
  PROVE  StartInv'
<1> DEFINE st == call[j].state
<1>1. Sign(j) /\ call[j].op = "start" /\ st \in State
  BY DEF StateGiven
<1>2. call'[j] = None /\ (\A i \in Call \ {j} : call'[i] = call[i])
      /\ oauth' = [state |-> st, set |-> now] /\ UNCHANGED <<started, taken, raced>>
  BY DEF StateGiven
<1>3. \A u \in Tab : page'[u].state \in {page[u].state, st}
  BY DEF StateGiven
<1>4. Gives(j, st) /\ st # None
  BY <1>1 DEF Gives
<1>5. /\ \A k \in Call : ~Returns(k, st) /\ (Gives(k, st) => k = j)
      /\ taken[st] = 0 /\ st \in started
  BY <1>1, <1>4 DEF StartInv, GivenOnce, KnownStates
<1> HIDE DEF st
<1>6. /\ \A x : \A i \in Call : /\ (Gives(i, x))' => Gives(i, x) /\ i # j
                                /\ (Returns(i, x))' => Returns(i, x) /\ call'[i].oauth = call[i].oauth
      /\ \A x : (Kept(x))' => x = st
  BY <1>2 DEF Gives, Returns, Sign, Kept
<1>7. KnownStates'
  <2>1. ASSUME NEW i \in Call, (Sign(i))', call'[i].state # None PROVE call'[i].state \in started
    BY <1>2, <2>1 DEF StartInv, KnownStates, Sign
  <2> QED BY <1>2, <1>3, <1>5, <2>1 DEF StartInv, KnownStates
<1>8. GivenOnce'
  <2> SUFFICES ASSUME NEW x \in State, NEW i \in Call, (Gives(i, x))'
               PROVE  /\ \A k \in Call : (~Returns(k, x))' /\ ((Gives(k, x))' => k = i)
                      /\ (~Kept(x))' /\ taken'[x] = 0
                      /\ \A u \in Tab : page'[u].state # x
    BY DEF GivenOnce
  <2>1. Gives(i, x) /\ i # j /\ x # st
    BY <1>5, <1>6
  <2>2. /\ \A k \in Call : ~Returns(k, x) /\ (Gives(k, x) => k = i)
        /\ ~Kept(x) /\ taken[x] = 0
        /\ \A u \in Tab : page[u].state # x
    BY <2>1 DEF StartInv, GivenOnce
  <2> QED BY <1>2, <1>3, <1>6, <2>1, <2>2
<1>9. SpentOnce'
  <2> SUFFICES ASSUME NEW x \in State \ raced
               PROVE  /\ \A i, k \in Call : (Returns(i, x))' /\ (Returns(k, x))' => i = k
                      /\ taken'[x] <= 1
                      /\ taken'[x] = 1 => (~Kept(x))' /\ \A i \in Call : (Returns(i, x))' => call'[i].oauth # x
    BY <1>2 DEF SpentOnce
  <2>1. /\ \A i, k \in Call : Returns(i, x) /\ Returns(k, x) => i = k
        /\ taken[x] <= 1
        /\ taken[x] = 1 => ~Kept(x) /\ \A i \in Call : Returns(i, x) => call[i].oauth # x
    BY DEF StartInv, SpentOnce
  <2> QED BY <1>2, <1>5, <1>6, <2>1
<1> QED BY <1>7, <1>8, <1>9 DEF StartInv

LEMMA RedirectedKeeps ==
  ASSUME Typed, StartInv, NEW j \in Call, Redirected(j)
  PROVE  StartInv'
<1> DEFINE st == call[j].state
           t == call[j].tab
<1>0. SessionTyped /\ CallsTyped /\ page \in [Tab -> Page]
  BY DEF Typed, SessionTyped
<1>1. Sign(j) /\ call[j].op = "start" /\ st \in State /\ t \in Tab
  BY <1>0, Found DEF Redirected, SignFit
<1>2. \A u \in Tab : page'[u].state \in {page[u].state, st}
  <2> DEFINE p == [page[t] EXCEPT !.state = st]
  <2>1. page' = [page EXCEPT ![t] = p] /\ p.state = st
    BY <1>0, <1>1 DEF Redirected, Page
  <2> HIDE DEF p
  <2> QED BY <1>0, <1>1, <2>1
<1>3. StateGiven(j)
  BY <1>0, <1>1, <1>2, FinishTyped DEF Redirected, history, StateGiven
<1> QED BY <1>3, GivenKeeps

\* A callback has brought the browser a session, and the cookie is gone; a page
\* may be told what it was given before.
StateSpent(j) ==
  LET c == call[j] IN
  /\ Sign(j) /\ c.op = "callback" /\ c.state \in State /\ c.oauth = c.state
  /\ Silent(j) /\ \A i \in Call \ {j} : call'[i] = call[i]
  /\ \A u \in Tab : page'[u].state \in {page[u].state, c.state}
  /\ oauth' = None /\ taken' = [taken EXCEPT ![c.state] = @ + 1]
  /\ UNCHANGED <<started, raced>>

LEMMA SpentKeeps ==
  ASSUME Typed, StartInv, NEW j \in Call, StateSpent(j)
  PROVE  StartInv'
<1> DEFINE c == call[j]
           st == c.state
<1>0. taken \in [State -> Nat]
  BY DEF Typed, SessionTyped
<1>1. /\ Sign(j) /\ c.op = "callback" /\ st \in State /\ c.oauth = st
       /\ UNCHANGED <<started, raced>>
  BY DEF StateSpent
<1>2. Returns(j, st) /\ st # None
  BY <1>1 DEF Returns
<1>3. Silent(j) /\ \A i \in Call \ {j} : call'[i] = call[i]
  BY DEF StateSpent
<1>4. \A u \in Tab : page'[u].state \in {page[u].state, st}
  BY DEF StateSpent
<1>5. oauth' = None /\ taken' = [taken EXCEPT ![st] = taken[st] + 1]
  BY DEF StateSpent
<1>6. st \in started /\ \A i \in Call : ~Gives(i, st)
  BY <1>1, <1>2 DEF StartInv, KnownStates, GivenOnce
<1>7. c.oauth = st
  BY <1>1
<1> HIDE DEF c, st
<1>8. \A x \in State : /\ ~(Returns(j, x))' /\ ~(Gives(j, x))'
                       /\ \A i \in Call \ {j} : /\ (Gives(i, x))' => Gives(i, x)
                                                /\ (Returns(i, x))' => Returns(i, x)
  BY <1>3 DEF Gives, Returns, Sign, Silent
<1>9. KnownStates'
  <2>1. ASSUME NEW i \in Call, (Sign(i))', call'[i].state # None PROVE call'[i].state \in started
    BY <1>3, <2>1 DEF StartInv, KnownStates, Sign, Silent
  <2>2. ASSUME NEW x \in State, taken'[x] # 0 PROVE x \in started
    BY <1>0, <1>5, <1>6, <2>2 DEF StartInv, KnownStates
  <2>3. ASSUME NEW u \in Tab, page'[u].state # None PROVE page'[u].state \in started
    BY <1>4, <1>6, <2>3 DEF StartInv, KnownStates
  <2> QED BY <1>1, <1>5, <2>1, <2>2, <2>3 DEF KnownStates
<1>10. GivenOnce'
  <2> SUFFICES ASSUME NEW x \in State, NEW i \in Call, (Gives(i, x))'
               PROVE  /\ \A k \in Call : (~Returns(k, x))' /\ ((Gives(k, x))' => k = i)
                      /\ (~Kept(x))' /\ taken'[x] = 0
                      /\ \A u \in Tab : page'[u].state # x
    BY DEF GivenOnce
  <2>1. Gives(i, x)
    BY <1>8
  <2>2. x # st
    BY <1>6, <2>1
  <2>3. /\ \A k \in Call : ~Returns(k, x) /\ (Gives(k, x) => k = i)
        /\ ~Kept(x) /\ taken[x] = 0
        /\ \A u \in Tab : page[u].state # x
    BY <2>1 DEF StartInv, GivenOnce
  <2> QED BY <1>0, <1>4, <1>5, <1>8, <2>2, <2>3 DEF Kept
<1>11. SpentOnce'
  <2> SUFFICES ASSUME NEW x \in State \ raced
               PROVE  /\ \A i, k \in Call : (Returns(i, x))' /\ (Returns(k, x))' => i = k
                      /\ taken'[x] <= 1
                      /\ taken'[x] = 1 => (~Kept(x))' /\ \A i \in Call : (Returns(i, x))' => call'[i].oauth # x
    BY <1>1 DEF SpentOnce
  <2>1. /\ \A i, k \in Call : Returns(i, x) /\ Returns(k, x) => i = k
        /\ taken[x] <= 1
        /\ taken[x] = 1 => ~Kept(x) /\ \A i \in Call : Returns(i, x) => call[i].oauth # x
    BY DEF StartInv, SpentOnce
  <2>2. CASE x # st
    BY <1>0, <1>3, <1>5, <1>8, <2>1, <2>2 DEF Kept
  <2>3. CASE x = st
    <3>1. taken[st] # 1
      BY <1>2, <1>7, <2>1, <2>3 DEF c
    <3>2. taken'[st] = 1
      BY <1>0, <1>5, <2>1, <2>3, <3>1
    <3>3. \A i \in Call : ~(Returns(i, x))'
      BY <1>2, <1>8, <2>1, <2>3
    <3>4. taken'[x] = 1 /\ ~(Kept(x))'
      BY <1>5, <2>3, <3>2 DEF Kept
    <3> QED BY <3>3, <3>4
  <2> QED BY <2>2, <2>3
<1> QED BY <1>9, <1>10, <1>11 DEF StartInv

LEMMA ReturnedKeeps ==
  ASSUME Typed, StartInv, NEW j \in Call, Returned(j)
  PROVE  StartInv'
<1> DEFINE c == call[j]
           st == c.state
           t == c.tab
<1>0. SessionTyped /\ CallsTyped /\ page \in [Tab -> Page] /\ taken \in [State -> Nat]
  BY DEF Typed, SessionTyped
<1>1. /\ Sign(j) /\ c \in SignCall /\ c.op = "callback" /\ st \in State /\ t \in Tab
      /\ c.ok => c.oauth = st /\ c.clears
      /\ UNCHANGED <<started, raced>>
  BY <1>0, Found DEF Returned, SignFit, SignOp
<1>2. Returns(j, st) /\ st # None
  BY <1>1 DEF Returns
<1>3. Silent(j) /\ \A i \in Call \ {j} : call'[i] = call[i]
  <2>1. CASE Finished(j)
    BY <1>0, <2>1, FinishTyped DEF Silent, Sign
  <2>2. CASE ~Finished(j)
    <3> DEFINE n == NewCall(t, "restore")
               d == [n EXCEPT !.key = IF c.ok THEN c.brings ELSE @]
    <3>1. n \in SignCall /\ n.state = None
      BY <1>0, <1>1, NewCallFacts DEF SignOp
    <3>2. call' = [call EXCEPT ![j] = d]
      BY <2>2 DEF Returned
    <3> HIDE DEF n
    <3>3. d.state = None
      BY <3>1 DEF SignCall
    <3> HIDE DEF d
    <3>4. call'[j] = d /\ \A i \in Call \ {j} : call'[i] = call[i]
      BY <1>0, <3>2 DEF CallsTyped
    <3> QED BY <3>3, <3>4 DEF Silent
  <2> QED BY <2>1, <2>2
<1>4. /\ \A u \in Tab : page'[u].state \in {page[u].state, st}
      /\ oauth' = oauth \/ oauth' = None
  <2> DEFINE p == [LoginPage EXCEPT !.state = st]
             q == [page[t] EXCEPT !.view = "error"]
  <2>1. p.state = st /\ q.state = page[t].state
    BY <1>0, <1>1, PageTyped DEF Page
  <2>2. page' = [page EXCEPT ![t] = p] \/ page' = [page EXCEPT ![t] = q]
    BY DEF Returned
  <2> HIDE DEF p, q
  <2>3. \A u \in Tab : page'[u].state \in {page[u].state, st}
    BY <1>0, <1>1, <2>1, <2>2
  <2> QED BY <2>3 DEF Returned
<1>5. CASE ~c.ok
  <2>1. TellsNothing
    <3>1. \A i \in Call : Alike(i) \/ Silent(i)
      BY <1>3 DEF Alike, Sign
    <3>2. UNCHANGED <<started, taken, raced>>
      BY <1>1, <1>5 DEF Returned
    <3> QED BY <1>2, <1>4, <3>1, <3>2 DEF TellsNothing
  <2> QED BY <2>1, TellsNothingKeeps
<1>6. CASE c.ok
  <2>1. oauth' = None /\ taken' = [taken EXCEPT ![st] = @ + 1] /\ c.oauth = st
    BY <1>1, <1>6 DEF Returned
  <2>2. StateSpent(j)
    BY <1>1, <1>3, <1>4, <2>1 DEF StateSpent
  <2> QED BY <2>2, SpentKeeps
<1> QED BY <1>5, <1>6

\* The page has gone, and the cookies are set all the same.
LEMMA UnheardKeeps ==
  ASSUME Typed, StartInv, NEW j \in Call, TakenUnheard(j)
  PROVE  StartInv'
<1> DEFINE c == call[j]
<1>0. CallsTyped
  BY DEF Typed
<1>1. /\ c # None /\ c.pc = "answered"
      /\ c.op \in SignOp \cup {"start"} => Sign(j) /\ SignFit(c)
  BY <1>0, Found DEF TakenUnheard
<1>2. /\ call'[j] = None /\ \A i \in Call \ {j} : call'[i] = call[i]
      /\ UNCHANGED <<page, started, raced>>
  BY <1>0, FinishTyped DEF TakenUnheard
<1>3. CASE c.op = "start"
  <2>1. StateGiven(j)
    BY <1>1, <1>2, <1>3 DEF TakenUnheard, SignFit, StateGiven
  <2> QED BY <2>1, GivenKeeps
<1>4. CASE c.op = "callback" /\ c.ok
  <2>1. Silent(j)
    BY <1>2 DEF Silent, Sign
  <2>2. StateSpent(j)
    BY <1>1, <1>2, <1>4, <2>1 DEF TakenUnheard, SignFit, SignOp, StateSpent
  <2> QED BY <2>2, SpentKeeps
<1>5. CASE c.op # "start" /\ ~(c.op = "callback" /\ c.ok)
  <2>1. (oauth' = oauth \/ oauth' = None) /\ taken' = taken
    BY <1>5 DEF TakenUnheard
  <2> QED BY <2>1, HandledTellsNothing, TellsNothingKeeps
<1> QED BY <1>3, <1>4, <1>5

LEMMA InitStart ==
  ASSUME Init
  PROVE  StartInv
<1>1. /\ call = [i \in Call |-> None] /\ oauth = None /\ started = {}
      /\ taken = [st \in State |-> 0] /\ raced = {}
      /\ \A t \in Tab : page[t].state = None
  <2>1. CASE SessionInit
    BY <2>1, PageTyped DEF SessionInit
  <2>2. ASSUME NEW k \in Key, SessionOpened(k) PROVE \A t \in Tab : page[t].state = None
    <3>1. [LoginPage EXCEPT !.view = "app", !.csrf = k].state = None
      BY PageTyped DEF Page
    <3> QED BY <2>2, <3>1 DEF SessionOpened
  <2> QED BY <2>1, <2>2 DEF Init, SessionOpened
<1>2. \A i \in Call : ~Sign(i)
  BY <1>1 DEF Sign
<1> QED BY <1>1, <1>2 DEF StartInv, KnownStates, GivenOnce, SpentOnce, Gives, Returns, Kept

LEMMA StartStep ==
  ASSUME Typed, StartInv, [Next]_vars
  PROVE  StartInv'
<1>1. ASSUME NEW t \in Tab, NEW j \in Call, OwnerStep(t, j) PROVE StartInv'
  BY <1>1, OwnerTellsNothing, TellsNothingKeeps, ConsentKeeps DEF OwnerStep
<1>2. ASSUME NEW j \in Call, SignStep(j) \/ Restored(j) \/ LoggedIn(j) PROVE StartInv'
  BY <1>2, HandledTellsNothing, TellsNothingKeeps, StartedKeeps, RedirectedKeeps, UnheardKeeps
     DEF SignStep
<1> QED BY <1>1, <1>2, Frame, KeptTellsNothing, TellsNothingKeeps, ReturnedKeeps

\* A start of a sign-in with GitHub brings the browser a session at most once,
\* however often the owner consents or goes back to GitHub's page, and in
\* whatever tab, unless two callbacks of that start were under way at once.
THEOREM ConsoleStartSignsInOnce == Spec => []StartSignsInOnce
<1>1. Init => StartInv
  BY InitStart
<1>2. Typed /\ StartInv /\ [Next]_vars => StartInv'
  BY StartStep
<1>3. Typed /\ StartInv => StartSignsInOnce
  <2>1. ASSUME Typed, StartInv, NEW st \in State, taken[st] > 1 PROVE st \in raced
    <3>1. taken[st] \in Nat
      BY <2>1 DEF Typed, SessionTyped
    <3> QED BY <2>1, <3>1 DEF StartInv, SpentOnce
  <2> QED BY <2>1 DEF StartSignsInOnce
<1> QED BY <1>1, <1>2, <1>3, ConsoleTyped, PTL DEF Spec

-----------------------------------------------------------------------------
(* A tab knows its session.                                                *)

TabSame(u) ==
  /\ \A i \in Call : (i \in Signers(u))' <=> i \in Signers(u)
  /\ \A i \in Signers(u) : call'[i] = call[i]
  /\ page'[u].view = page[u].view /\ page'[u].csrf = page[u].csrf

\* The browser's session is the same, and no other has ended.
BrowserSame ==
  /\ cookie' = cookie /\ SessionCookie' = SessionCookie
  /\ \A k \in Key : signed[k] # None /\ Verified(k) => (Verified(k))'

LEMMA TabSameKeeps ==
  ASSUME Typed, AllMinted, NEW u \in Tab, TabSame(u)
  PROVE  /\ AtGithub(u) => AtGithub(u)'
         /\ BrowserSame /\ Knows(u) => Knows(u)'
<1>1. /\ \A i \in Call : (i \in Signers(u))' <=> i \in Signers(u)
      /\ \A i \in Signers(u) : call'[i] = call[i] /\ i \in Call /\ call[i].tab = u
      /\ page'[u].view = page[u].view /\ page'[u].csrf = page[u].csrf
  BY DEF TabSame, Signers
<1>2. AtGithub(u) => AtGithub(u)'
  <2> SUFFICES ASSUME AtGithub(u), NEW i \in Call, (i \in Signers(u))',
                      call'[i].op \in {"start", "callback"}
               PROVE  page'[u].view = "github" /\ \A k \in Call : (k \in Signers(u))' => k = i
    BY DEF AtGithub, Signers
  <2> QED BY <1>1 DEF AtGithub
<1>3. ASSUME BrowserSame, Knows(u) PROVE Knows(u)'
  <2>1. \A i, k \in Call : (i \in Signers(u))' /\ (k \in Signers(u))' => i = k
    BY <1>1, <1>3 DEF Knows
  <2>2. ASSUME NEW i \in Call, i \in Signers(u) PROVE Honest(call[i])'
    <3>1. Honest(call[i]) /\ call'[i] = call[i] /\ call[i].tab = u
      BY <1>1, <1>3, <2>2 DEF Knows
    <3>2. Verified(call[i].brings) => (Verified(call[i].brings))'
      <4>1. Sign(i) /\ call[i].brings \in Key \cup {None}
        BY <2>2, CallFacts DEF Signers, Typed, SignCall
      <4>2. call[i].brings # None => signed[call[i].brings] # None
        BY <2>2, <4>1 DEF AllMinted, Minted, Signers
      <4> QED BY <1>3, <3>1, <4>1, <4>2 DEF Verified, BrowserSame
    <3> QED BY <1>1, <1>3, <3>1, <3>2 DEF Honest, BrowserSame
  <2>3. Settled(u) => Settled(u)'
    BY <1>1, <1>3 DEF Settled, BrowserSame
  <2>4. (Signers(u) = {})' => Signers(u) = {}
    BY <1>1 DEF Signers
  <2>5. \A i \in Call : (i \in Signers(u))' => Honest(call[i])'
    BY <1>1, <2>2
  <2>6. Signers(u)' \subseteq Call
    BY DEF Signers
  <2> QED BY <1>3, <2>1, <2>3, <2>4, <2>5, <2>6 DEF Knows
<1> QED BY <1>2, <1>3

\* Only calls of tab t are begun, answered or ended.
OfTabOnly(t) ==
  \A i \in Call : \/ call'[i] = call[i]
                  \/ \A u \in Tab \ {t} : i \notin Signers(u) /\ (i \notin Signers(u))'

LEMMA TabStep ==
  ASSUME Typed, NEW t \in Tab, KnowInv, OfTabOnly(t), \A u \in Tab \ {t} : page'[u] = page[u],
         \/ \A u \in Tab \ {t} : excuse'[u] # {}
         \/ BrowserSame /\ \A u \in Tab \ {t} : excuse'[u] = excuse[u],
         AllMinted', AtGithub(t)', excuse'[t] = {} => Knows(t)'
  PROVE  KnowInv'
<1>1. ASSUME NEW u \in Tab \ {t} PROVE AtGithub(u)' /\ (excuse'[u] = {} => Knows(u)')
  <2>1. TabSame(u)
    <3>1. ASSUME NEW i \in Call
          PROVE  /\ (i \in Signers(u))' <=> i \in Signers(u)
                 /\ i \in Signers(u) => call'[i] = call[i]
      BY DEF OfTabOnly, Signers, Sign
    <3>2. Signers(u) \subseteq Call
      BY DEF Signers
    <3> QED BY <3>1, <3>2 DEF TabSame
  <2> QED BY <2>1, TabSameKeeps DEF KnowInv
<1> QED BY <1>1 DEF KnowInv

LEMMA CookieKept ==
  ASSUME SessionTyped, AllMinted, cookie' = cookie, now' = now,
         \A k \in Key : signed[k] # None => signed'[k] = signed[k]
  PROVE  BrowserSame
BY DEF SessionTyped, AllMinted, Minted, SessionCookie, Verified, BrowserSame

LEMMA KeptKnows ==
  ASSUME Typed, KnowInv, SignsKept, SameTime
  PROVE  KnowInv'
<1>1. /\ \A i \in Call : ((Sign(i))' <=> Sign(i)) /\ (Sign(i) => call'[i] = call[i])
      /\ UNCHANGED <<now, signed, cookie, page, excuse>>
  BY DEF SignsKept, SameTime, browser
<1>2. BrowserSame
  BY <1>1, CookieKept DEF Typed, KnowInv
<1>3. AllMinted'
  BY <1>1 DEF KnowInv, AllMinted, Minted
<1>4. ASSUME NEW u \in Tab PROVE AtGithub(u)' /\ (excuse'[u] = {} => Knows(u)')
  <2>1. TabSame(u)
    BY <1>1 DEF TabSame, Signers
  <2> QED BY <1>1, <1>2, <2>1, TabSameKeeps DEF KnowInv
<1> QED BY <1>3, <1>4 DEF KnowInv

\* Time passes: a session that a tab shows, or is being told of, goes on, unless
\* the tab is excused.
LEMMA TickKnows ==
  ASSUME Typed, KnowInv, SessionTick
  PROVE  KnowInv'
<1>0. SessionTyped /\ AllMinted /\ CallsTyped
  BY DEF Typed, KnowInv
<1>1. now' = now + 1 /\ UNCHANGED <<call, signed, cookie, page>>
  BY DEF SessionTick, browser
<1>2. AllMinted' /\ \A u \in Tab : AtGithub(u)'
  BY <1>1 DEF KnowInv, AllMinted, Minted, AtGithub, Signers, Sign
<1>3. ASSUME NEW k \in Key, signed[k] # None, Verified(k), ~Ends(k) PROVE (Verified(k))'
  <2>1. signed[k] \in Nat /\ now \in Nat /\ SessionTtl \in Nat
    BY <1>0, <1>3 DEF SessionTyped
  <2> QED BY <1>1, <1>3, <2>1 DEF Verified, Ends
<1>4. SessionCookie = None => SessionCookie' = None
  <2>1. cookie # None => signed[cookie] \in Nat /\ now \in Nat /\ SessionTtl \in Nat
    BY <1>0 DEF SessionTyped, AllMinted, Minted
  <2> QED BY <1>1, <2>1 DEF SessionCookie
<1>5. ASSUME SessionCookie # None, ~Ends(SessionCookie) PROVE SessionCookie' = SessionCookie
  <2>1. SessionCookie = cookie /\ cookie # None /\ Verified(cookie)
    BY <1>5 DEF SessionCookie, Verified
  <2>2. cookie \in Key /\ signed[cookie] # None
    BY <1>0, <2>1 DEF SessionTyped, AllMinted, Minted
  <2>3. (Verified(cookie))'
    BY <1>1, <1>3, <1>5, <2>1, <2>2 DEF Verified
  <2> QED BY <1>1, <2>1, <2>3 DEF SessionCookie, Verified
<1>6. ASSUME NEW u \in Tab, excuse'[u] = {} PROVE Knows(u)'
  <2>1. excuse[u] = {} /\ \A k \in Key : Ends(k) => ~Holds(u, k)
    BY <1>6 DEF SessionTick
  <2>2. Knows(u)
    BY <2>1 DEF KnowInv
  <2>3. (Signers(u))' = Signers(u)
    BY <1>1 DEF Signers, Sign
  <2>4. SessionCookie # None => SessionCookie \in Key
    BY <1>0, CookieFacts
  <2>5. Settled(u) => (Settled(u))'
    <3>1. CASE page[u].view = "app" /\ Settled(u)
      <4>1. SessionCookie # None /\ Holds(u, SessionCookie)
        BY <3>1 DEF Settled, Holds
      <4>2. SessionCookie' = SessionCookie
        BY <1>5, <2>1, <2>4, <4>1
      <4> QED BY <1>1, <3>1, <4>1, <4>2 DEF Settled
    <3>2. CASE page[u].view # "app"
      BY <1>1, <1>4, <3>2 DEF Settled
    <3> QED BY <3>1, <3>2
  <2>6. ASSUME NEW i \in Signers(u) PROVE (Honest(call[i]))'
    <3>0. /\ Honest(call[i]) /\ Sign(i) /\ i \in Call /\ call[i].tab = u
          /\ call[i] \in SignCall
      BY <1>0, <2>2, CallFacts DEF Knows, Signers
    <3>1. ASSUME call[i].op \in SignOp PROVE \A k \in Key : Ends(k) => call[i].brings # k
      <4>1. i \in Signing(u)
        BY <3>0, <3>1 DEF Signing, OfTab, Busy, Signers, Sign
      <4> QED BY <2>1, <4>1 DEF Holds
    <3>2. ASSUME call[i].op \in SignOp, SessionCookie # None, call[i].brings = SessionCookie
          PROVE  SessionCookie' = SessionCookie
      BY <1>5, <2>4, <3>1, <3>2
    <3>3. ASSUME call[i].op \in SignOp, Verified(call[i].brings) PROVE (Verified(call[i].brings))'
      <4>1. call[i].brings \in Key
        BY <3>0, <3>3 DEF Verified, SignCall
      <4>2. signed[call[i].brings] # None
        BY <1>0, <3>0, <4>1 DEF AllMinted, Minted
      <4>3. ~Ends(call[i].brings)
        BY <3>1, <3>3, <4>1
      <4>4. \A k \in Key : k = call[i].brings => (Verified(k))'
        BY <1>3, <3>3, <4>2, <4>3
      <4> QED BY <1>1, <4>1, <4>4 DEF Verified
    <3>4. CASE call[i].op = "restore"
      BY <1>1, <1>4, <3>0, <3>2, <3>4 DEF Honest, SignOp
    <3>5. CASE call[i].op = "login"
      BY <1>1, <1>4, <3>0, <3>2, <3>3, <3>5 DEF Honest, SignOp
    <3>6. CASE call[i].op \notin {"restore", "login"}
      BY <1>1, <3>0, <3>6 DEF Honest
    <3> QED BY <3>4, <3>5, <3>6
  <2>7. \A i \in Call : i \in Signers(u) => (Honest(call[i]))'
    BY <2>6
  <2>8. Signers(u) \subseteq Call
    BY DEF Signers
  <2> QED BY <2>2, <2>3, <2>5, <2>7, <2>8 DEF Knows
<1> QED BY <1>2, <1>6 DEF KnowInv

\* A call that tab t begins: alone, if its page is left for it.
Begun(t, c) ==
  /\ c \in SignCall /\ SignFit(c) /\ c.tab = t /\ c.heard /\ c.pc = "sent" /\ ~c.ok
  /\ c.key = SessionCookie /\ c.brings = None

LEMMA BegunFacts ==
  ASSUME Typed, AllMinted, NEW t \in Tab, NEW j \in Call, NEW c, Begun(t, c),
         LeftFor(t, j, c) \/ (~Busy(j) /\ call' = [call EXCEPT ![j] = c]),
         UNCHANGED <<signed, cookie>>
  PROVE  /\ OfTabOnly(t) /\ AllMinted' /\ call'[j] = c
         /\ LeftFor(t, j, c) => \A i \in Call : (i \in Signers(t))' <=> i = j
         /\ call' = [call EXCEPT ![j] = c] =>
              \A i \in Call : /\ (i \in Signers(t))' <=> i = j \/ i \in Signers(t)
                              /\ i # j => call'[i] = call[i]
<1>0. CallsTyped /\ CallTyped(c) /\ c # None /\ call[j] = None
      /\ c.op \in SignOp \cup {"start"}
  BY DEF Typed, Begun, CallTyped, SignCall, LeftFor, Busy
<1>1. Minted(SessionCookie) /\ Minted(None)
  BY DEF AllMinted, SessionCookie, Minted
<1>2. CASE LeftFor(t, j, c)
  <2>1. call'[j] = c /\ \A i \in Call \ {j} :
          IF i \in OfTab(t) THEN call'[i] # None /\ call'[i].heard = FALSE /\ Deaf(call[i], call'[i])
          ELSE call'[i] = call[i]
    BY <1>0, <1>2, LeftTyped
  <2>2. \A i \in Call : (i \in Signers(t))' <=> i = j
    <3>1. (j \in Signers(t))'
      BY <1>0, <2>1 DEF Signers, Sign, Begun
    <3>2. ASSUME NEW i \in Call \ {j} PROVE (i \notin Signers(t))'
      BY <2>1 DEF Signers, OfTab, Busy, Sign
    <3> QED BY <3>1, <3>2
  <2>3. OfTabOnly(t)
    <3>1. ASSUME NEW u \in Tab \ {t} PROVE j \notin Signers(u) /\ (j \notin Signers(u))'
      BY <1>0, <2>1 DEF Signers, Sign, Begun
    <3>2. ASSUME NEW i \in OfTab(t), i # j, NEW u \in Tab \ {t}
          PROVE  i \notin Signers(u) /\ (i \notin Signers(u))'
      BY <2>1, <3>2 DEF Signers, OfTab, Busy
    <3> QED BY <2>1, <3>1, <3>2 DEF OfTabOnly
  <2>4. AllMinted'
    <3>1. ASSUME NEW i \in Call, (Sign(i))' PROVE (Minted(call[i].key))' /\ (Minted(call[i].brings))'
      <4>1. CASE i = j
        BY <1>1, <2>1, <4>1 DEF Begun, Minted
      <4>2. CASE i # j
        <5>1. Sign(i) /\ call'[i].key = call[i].key /\ call'[i].brings = call[i].brings
          BY <2>1, <3>1, <4>2 DEF Sign, Deaf, OfTab, Busy
        <5> QED BY <5>1 DEF AllMinted, Minted
      <4> QED BY <4>1, <4>2
    <3> QED BY <3>1 DEF AllMinted, Minted
  <2>5. call' = [call EXCEPT ![j] = c] => \A i \in Call : i # j => call'[i] = call[i]
    BY <1>0 DEF CallsTyped
  <2>6. call' = [call EXCEPT ![j] = c] => \A i \in Call : (i \in Signers(t))' <=> i = j \/ i \in Signers(t)
    BY <1>0, <2>2, <2>5 DEF Signers, Sign
  <2> QED BY <2>1, <2>2, <2>3, <2>4, <2>5, <2>6
<1>3. CASE ~Busy(j) /\ call' = [call EXCEPT ![j] = c] /\ ~LeftFor(t, j, c)
  <2>1. call'[j] = c /\ \A i \in Call \ {j} : call'[i] = call[i]
    BY <1>0, <1>3 DEF CallsTyped
  <2>2. \A i \in Call : (i \in Signers(t))' <=> i = j \/ i \in Signers(t)
    BY <1>0, <2>1 DEF Signers, Sign, Begun
  <2>3. OfTabOnly(t)
    <3>1. ASSUME NEW u \in Tab \ {t} PROVE j \notin Signers(u) /\ (j \notin Signers(u))'
      BY <1>0, <2>1 DEF Signers, Sign, Begun
    <3> QED BY <2>1, <3>1 DEF OfTabOnly
  <2>4. AllMinted'
    BY <1>1, <2>1 DEF AllMinted, Minted, Sign, Begun
  <2> QED BY <1>3, <2>1, <2>2, <2>3, <2>4
<1> QED BY <1>2, <1>3

\* A tab whose page is left for call j knows what j will tell it.
LEMMA AloneKnows ==
  ASSUME NEW t \in Tab, NEW j \in Call, \A i \in Call : (i \in Signers(t))' <=> i = j,
         call'[j].op \in {"start", "callback"} => page'[t].view = "github"
  PROVE  AtGithub(t)' /\ (Honest(call[j])' => Knows(t)')
BY DEF AtGithub, Knows, Signers

LEMMA OwnerKnows ==
  ASSUME Typed, KnowInv, NEW t \in Tab, NEW j \in Call, OwnerStep(t, j)
  PROVE  KnowInv'
<1>0. /\ SessionTyped /\ CallsTyped /\ AllMinted /\ page \in [Tab -> Page]
      /\ excuse \in [Tab -> SUBSET Excuse]
      /\ UNCHANGED <<now, signed, cookie>>
  BY DEF Typed, SessionTyped, KnowInv, OwnerStep, Open, Reload, Login, SignOut, GithubStart,
        Consent, browser
<1>1. BrowserSame /\ SessionCookie' = SessionCookie
  BY <1>0, CookieKept DEF BrowserSame
<1>2. ASSUME NEW op \in SignOp \cup {"start"}, op # "callback", NEW c, c = NewCall(t, op)
      PROVE  Begun(t, c) /\ c.op = op
  BY <1>0, <1>2, NewCallFacts DEF Begun
<1>3. CASE Open(t, j) \/ Reload(t, j)
  <2> DEFINE c == NewCall(t, "restore")
  <2>1. Begun(t, c) /\ c.op = "restore"
    BY <1>2 DEF SignOp
  <2>2. LeftFor(t, j, c) /\ page' = [page EXCEPT ![t] = LoginPage]
        /\ excuse' = [excuse EXCEPT ![t] = {}]
    BY <1>3 DEF Open, Reload, Loads, LeftFor
  <2> HIDE DEF c
  <2>3. /\ page'[t].view = "login" /\ \A u \in Tab \ {t} : page'[u] = page[u] /\ excuse'[u] = excuse[u]
        /\ excuse'[t] = {}
    BY <1>0, <2>2, PageTyped
  <2>4. /\ OfTabOnly(t) /\ AllMinted' /\ call'[j] = c
        /\ \A i \in Call : (i \in Signers(t))' <=> i = j
    BY <1>0, <2>1, <2>2, BegunFacts
  <2>5. Honest(call[j])'
    <3>1. c.key = cookie \/ (c.key = None /\ SessionCookie = None)
      BY <2>1 DEF Begun, SessionCookie
    <3> QED BY <1>0, <1>1, <2>1, <2>3, <2>4, <3>1 DEF Honest, Begun
  <2>6. AtGithub(t)' /\ Knows(t)'
    BY <2>1, <2>4, <2>5, AloneKnows
  <2> QED BY <1>1, <2>3, <2>4, <2>6, TabStep
<1>4. CASE GithubStart(t, j)
  <2> DEFINE c == NewCall(t, "start")
             p == [LoginPage EXCEPT !.view = "github"]
  <2>1. Begun(t, c) /\ c.op = "start" /\ p.view = "github"
    BY <1>2, PageTyped DEF SignOp, Page
  <2>2. LeftFor(t, j, c) /\ page' = [page EXCEPT ![t] = p] /\ excuse' = excuse
    BY <1>4 DEF GithubStart, LeftFor, history
  <2> HIDE DEF c, p
  <2>3. page'[t].view = "github" /\ \A u \in Tab \ {t} : page'[u] = page[u] /\ excuse'[u] = excuse[u]
    BY <1>0, <2>1, <2>2
  <2>4. /\ OfTabOnly(t) /\ AllMinted' /\ call'[j] = c
        /\ \A i \in Call : (i \in Signers(t))' <=> i = j
    BY <1>0, <2>1, <2>2, BegunFacts
  <2>5. Honest(call[j])'
    BY <2>1, <2>4 DEF Honest
  <2>6. AtGithub(t)' /\ Knows(t)'
    BY <2>3, <2>4, <2>5, AloneKnows
  <2> QED BY <1>1, <2>3, <2>4, <2>6, TabStep
<1>5. ASSUME NEW st \in State, Consent(t, j, st) PROVE KnowInv'
  <2> DEFINE n == NewCall(t, "callback")
             c == [n EXCEPT !.state = st]
             p == [page[t] EXCEPT !.view = "github", !.csrf = None, !.reloading = FALSE]
  <2>1. Begun(t, c) /\ c.op = "callback"
    <3>1. /\ n \in SignCall /\ n.op = "callback" /\ n.pc = "sent" /\ ~n.ok /\ n.tab = t /\ n.heard
          /\ n.key = SessionCookie /\ n.brings = None
      BY <1>0, NewCallFacts DEF SignOp
    <3> HIDE DEF n
    <3>2. /\ c \in SignCall /\ c.op = "callback" /\ c.pc = "sent" /\ ~c.ok /\ c.tab = t /\ c.heard
          /\ c.key = SessionCookie /\ c.brings = None /\ c.state = st
      BY <3>1 DEF SignCall
    <3> QED BY <3>2 DEF Begun, SignFit
  <2>2. LeftFor(t, j, c) /\ page' = [page EXCEPT ![t] = p] /\ excuse' = excuse
    BY <1>5 DEF Consent, LeftFor
  <2>a. p.view = "github"
    BY <1>0 DEF Page
  <2> HIDE DEF c, p
  <2>3. page'[t].view = "github" /\ \A u \in Tab \ {t} : page'[u] = page[u] /\ excuse'[u] = excuse[u]
    BY <1>0, <2>a, <2>2
  <2>4. /\ OfTabOnly(t) /\ AllMinted' /\ call'[j] = c
        /\ \A i \in Call : (i \in Signers(t))' <=> i = j
    BY <1>0, <2>1, <2>2, BegunFacts
  <2>5. Honest(call[j])'
    BY <2>1, <2>4 DEF Honest
  <2>6. AtGithub(t)' /\ Knows(t)'
    BY <2>3, <2>4, <2>5, AloneKnows
  <2> QED BY <1>1, <2>3, <2>4, <2>6, TabStep
<1>6. ASSUME NEW op \in {"login", "logout"}, Sends(t, j, op),
             page[t].view = IF op = "login" THEN "login" ELSE "app",
             page'[t].view = "login", \A u \in Tab \ {t} : page'[u] = page[u]
      PROVE  KnowInv'
  <2> DEFINE c == NewCall(t, op)
  <2>1. Begun(t, c) /\ c.op = op
    BY <1>2 DEF SignOp
  <2>2. ~Busy(j) /\ call' = [call EXCEPT ![j] = c]
        /\ excuse' = [excuse EXCEPT ![t] = excuse[t] \cup Crosses(t)]
    BY <1>6 DEF Sends
  <2> HIDE DEF c
  <2>3. /\ excuse'[t] = excuse[t] \cup Crosses(t)
        /\ \A u \in Tab \ {t} : page'[u] = page[u] /\ excuse'[u] = excuse[u]
    BY <1>0, <1>6, <2>2
  <2>4. /\ OfTabOnly(t) /\ AllMinted' /\ call'[j] = c
        /\ \A i \in Call : /\ (i \in Signers(t))' <=> i = j \/ i \in Signers(t)
                           /\ i # j => call'[i] = call[i]
    BY ZenonT(40), <1>0, <2>1, <2>2, BegunFacts
  <2>5. \A i \in Signers(t) : i \in Call /\ call[i].op \in SignOp \ {"callback"} /\ i # j
    <3>1. AtGithub(t)
      BY DEF KnowInv
    <3> QED BY <1>6, <2>2, <3>1 DEF AtGithub, Signers, Sign, SignOp, Busy
  <2>6. AtGithub(t)'
    <3> SUFFICES ASSUME NEW i \in Call, (i \in Signers(t))', call'[i].op \in {"start", "callback"}
                 PROVE  FALSE
      BY DEF AtGithub, Signers
    <3> QED BY <2>1, <2>4, <2>5 DEF SignOp
  <2>7. ASSUME excuse'[t] = {} PROVE Knows(t)'
    <3>1. Signing(t) = {} /\ excuse[t] = {}
      BY <2>3, <2>7 DEF Crosses
    <3>2. Signers(t) = {}
      BY <2>5, <3>1 DEF Signing, OfTab, Signers, Sign, Busy
    <3>3. Settled(t)
      BY <3>1, <3>2 DEF KnowInv, Knows
    <3>4. \A i \in Call : (i \in Signers(t))' <=> i = j
      BY <2>4, <3>2
    <3>5. Honest(call[j])'
      BY <1>1, <1>6, <2>1, <2>4, <3>3 DEF Honest, Begun, Settled
    <3>6. call'[j].op \notin {"start", "callback"}
      BY <2>1, <2>4
    <3> QED BY <3>4, <3>5, <3>6, AloneKnows
  <2> QED BY <1>1, <2>3, <2>4, <2>6, <2>7, TabStep
<1>7. CASE Login(t, j)
  <2>1. page' = page /\ page[t].view = "login" /\ Sends(t, j, "login")
    BY <1>7 DEF Login, browser
  <2> QED BY <1>6, <2>1
<1>8. CASE SignOut(t, j)
  <2> DEFINE p == [page[t] EXCEPT !.view = "login", !.csrf = None]
  <2>1. page[t].view = "app" /\ Sends(t, j, "logout") /\ page' = [page EXCEPT ![t] = p]
        /\ p.view = "login"
    BY <1>0, <1>8 DEF SignOut, Page
  <2> HIDE DEF p
  <2>2. page'[t].view = "login" /\ \A u \in Tab \ {t} : page'[u] = page[u]
    BY <1>0, <2>1
  <2> QED BY <1>6, <2>1, <2>2
<1> QED BY <1>3, <1>4, <1>5, <1>7, <1>8 DEF OwnerStep

\* Call j is answered with b.
AnsweredBy(j, b) ==
  LET c == call[j] IN
  /\ Sign(j) /\ c \in SignCall /\ c.pc = "sent" /\ c.tab \in Tab
  /\ call' = [call EXCEPT ![j] = b] /\ UNCHANGED <<now, cookie, page, excuse>>
  /\ b \in SignCall /\ b.op = c.op /\ b.tab = c.tab /\ b.heard = c.heard /\ b.key = c.key
  /\ b.pc = "answered"
  /\ IF c.op = "restore" THEN b.brings = CsrfOf(c.key) /\ b.ok = (CsrfOf(c.key) # None) /\ signed' = signed
     ELSE \/ b.brings = c.brings /\ signed' = signed /\ (c.op = "login" => b.ok = c.ok)
          \/ \E k \in Unsigned : Signs(k) /\ b.brings = k

LEMMA HandleShape ==
  ASSUME Typed, NEW j \in Call,
         \/ HandleLogin(j) \/ HandleLogout(j) \/ HandleSession(j) \/ HandleCallback(j)
         \/ \E st \in State : HandleStart(j, st)
  PROVE  \E b : AnsweredBy(j, b)
<1> USE DEF SignOp
<1> DEFINE c == call[j]
<1>1. /\ Sign(j) /\ c \in SignCall /\ c.pc = "sent" /\ c.tab \in Tab
      /\ UNCHANGED <<now, cookie, page, excuse>>
  BY Found DEF Typed, HandleLogin, HandleLogout, HandleSession, HandleCallback, HandleStart,
        browser, history, SignCall
<1>2. ASSUME NEW d \in SignCall, Answers(j, d), d.op = c.op, d.tab = c.tab, d.heard = c.heard,
             d.key = c.key,
             IF c.op = "restore"
             THEN d.brings = CsrfOf(c.key) /\ d.ok = (CsrfOf(c.key) # None) /\ signed' = signed
             ELSE \/ d.brings = c.brings /\ signed' = signed /\ (c.op = "login" => d.ok = c.ok)
                  \/ \E k \in Unsigned : Signs(k) /\ d.brings = k
      PROVE  \E b : AnsweredBy(j, b)
  <2> DEFINE b == [d EXCEPT !.pc = "answered"]
  <2>1. /\ b \in SignCall /\ b.op = d.op /\ b.tab = d.tab /\ b.heard = d.heard /\ b.key = d.key
        /\ b.ok = d.ok /\ b.brings = d.brings /\ b.pc = "answered"
    BY DEF SignCall
  <2>2. call' = [call EXCEPT ![j] = b]
    BY <1>2 DEF Answers
  <2> HIDE DEF b
  <2>3. AnsweredBy(j, b)
    BY <1>1, <1>2, <2>1, <2>2 DEF AnsweredBy
  <2> QED BY <2>3
<1>3. CASE Answers(j, c) /\ signed' = signed /\ c.op # "restore"
  BY <1>1, <1>2, <1>3
<1>4. CASE HandleLogin(j)
  <2>1. ASSUME NEW k \in Unsigned, Signs(k), Answers(j, [c EXCEPT !.ok = TRUE, !.brings = k])
        PROVE  \E b : AnsweredBy(j, b)
    <3> DEFINE d == [c EXCEPT !.ok = TRUE, !.brings = k]
    <3>1. d \in SignCall /\ d.op = c.op /\ d.tab = c.tab /\ d.heard = c.heard /\ d.key = c.key
          /\ d.brings = k /\ c.op = "login"
      BY <1>1, <1>4 DEF SignCall, Unsigned, HandleLogin
    <3> HIDE DEF d
    <3> QED BY <1>2, <2>1, <3>1 DEF d
  <2> QED BY <1>3, <1>4, <2>1 DEF HandleLogin
<1>5. CASE HandleLogout(j)
  <2> DEFINE d == [c EXCEPT !.ok = TRUE, !.clears = TRUE]
  <2>1. d \in SignCall /\ d.op = c.op /\ d.tab = c.tab /\ d.heard = c.heard /\ d.key = c.key
        /\ d.brings = c.brings /\ c.op = "logout" /\ signed' = signed
    BY <1>1, <1>5 DEF SignCall, HandleLogout
  <2>2. Answers(j, d)
    BY <1>5 DEF HandleLogout
  <2> HIDE DEF d
  <2> QED BY <1>2, <2>1, <2>2
<1>6. CASE HandleSession(j)
  <2> DEFINE k == CsrfOf(c.key)
             ok == k # None
             d == [c EXCEPT !.ok = ok, !.brings = k]
  <2>1. k \in Key \cup {None} /\ ok \in BOOLEAN
    BY <1>1 DEF CsrfOf, SignCall
  <2>2. Answers(j, d) /\ c.op = "restore" /\ signed' = signed
    BY <1>6 DEF HandleSession
  <2> HIDE DEF k, ok
  <2>3. d \in SignCall /\ d.op = c.op /\ d.tab = c.tab /\ d.heard = c.heard /\ d.key = c.key
        /\ d.brings = k /\ d.ok = ok
    BY <1>1, <2>1 DEF SignCall
  <2> HIDE DEF d
  <2> QED BY <1>2, <2>2, <2>3 DEF k, ok
<1>7. CASE HandleCallback(j)
  <2>1. ASSUME NEW k \in Unsigned, Signs(k),
               Answers(j, [c EXCEPT !.ok = TRUE, !.clears = ClearsState(k), !.brings = k])
        PROVE  \E b : AnsweredBy(j, b)
    <3> DEFINE d == [c EXCEPT !.ok = TRUE, !.clears = ClearsState(k), !.brings = k]
    <3>1. d \in SignCall /\ d.op = c.op /\ d.tab = c.tab /\ d.heard = c.heard /\ d.key = c.key
          /\ d.brings = k /\ c.op = "callback"
      BY <1>1, <1>7 DEF SignCall, Unsigned, HandleCallback, ClearsState
    <3> HIDE DEF d
    <3> QED BY <1>2, <2>1, <3>1 DEF d
  <2>2. ASSUME Answers(j, [c EXCEPT !.clears = ClearsState(None)]), signed' = signed
        PROVE  \E b : AnsweredBy(j, b)
    <3> DEFINE d == [c EXCEPT !.clears = ClearsState(None)]
    <3>1. d \in SignCall /\ d.op = c.op /\ d.tab = c.tab /\ d.heard = c.heard /\ d.key = c.key
          /\ d.brings = c.brings /\ c.op = "callback"
      BY <1>1, <1>7 DEF SignCall, HandleCallback, ClearsState
    <3> HIDE DEF d
    <3> QED BY <1>2, <2>2, <3>1 DEF d
  <2> QED BY <1>3, <1>7, <2>1, <2>2 DEF HandleCallback
<1>8. ASSUME NEW st \in State, HandleStart(j, st) PROVE \E b : AnsweredBy(j, b)
  <2> DEFINE d == [c EXCEPT !.ok = TRUE, !.state = st]
  <2>1. d \in SignCall /\ d.op = c.op /\ d.tab = c.tab /\ d.heard = c.heard /\ d.key = c.key
        /\ d.brings = c.brings /\ c.op = "start" /\ signed' = signed
    BY <1>1, <1>8 DEF SignCall, HandleStart
  <2>2. Answers(j, d)
    BY <1>8 DEF HandleStart
  <2> HIDE DEF d
  <2> QED BY <1>2, <2>1, <2>2
<1> QED BY <1>4, <1>5, <1>6, <1>7, <1>8

LEMMA HandleKnows ==
  ASSUME Typed, KnowInv, NEW j \in Call, NEW b, AnsweredBy(j, b)
  PROVE  KnowInv'
<1>0. SessionTyped /\ CallsTyped /\ AllMinted
  BY DEF Typed, KnowInv
<1>1. PICK t \in Tab : t = call[j].tab
  BY DEF AnsweredBy
<1>2. /\ Sign(j) /\ call[j].pc = "sent" /\ b # None
      /\ call'[j] = b /\ \A i \in Call \ {j} : call'[i] = call[i]
      /\ b.op = call[j].op /\ b.tab = t /\ b.heard = call[j].heard /\ b.key = call[j].key
      /\ b.pc = "answered" /\ UNCHANGED <<now, cookie, page, excuse>>
  BY <1>0, <1>1 DEF AnsweredBy, CallsTyped
<1>3. \A i \in Call, u \in Tab : (i \in Signers(u))' <=> i \in Signers(u)
  <2>1. ASSUME NEW u \in Tab PROVE (j \in Signers(u))' <=> j \in Signers(u)
    BY <1>1, <1>2 DEF Signers, Sign
  <2>2. ASSUME NEW u \in Tab, NEW i \in Call \ {j} PROVE (i \in Signers(u))' <=> i \in Signers(u)
    BY <1>2 DEF Signers, Sign
  <2> QED BY <2>1, <2>2
<1>4. OfTabOnly(t)
  <2>1. \A u \in Tab \ {t} : j \notin Signers(u)
    BY <1>1 DEF Signers
  <2> QED BY <1>2, <1>3, <2>1 DEF OfTabOnly
<1>5. signed' = signed \/ \E k \in Unsigned : Signs(k) /\ b.brings = k
  BY DEF AnsweredBy
<1>m. ASSUME NEW k \in Unsigned, Signs(k)
      PROVE  /\ k \in Key /\ signed[k] = None /\ signed'[k] = now /\ now # None
             /\ \A x \in Key \ {k} : signed'[x] = signed[x]
  BY <1>0, <1>m DEF Signs, SessionTyped, Unsigned
<1>6. \A k \in Key \cup {None} : Minted(k) => Minted(k)'
  BY <1>5, <1>m DEF Minted
<1>k. \A i \in Call : Sign(i) => call[i].key \in Key \cup {None} /\ call[i].brings \in Key \cup {None}
  BY <1>0, CallFacts DEF SignCall
<1>7. SessionCookie' = SessionCookie /\ BrowserSame
  <2>1. \A k \in Key : signed[k] # None => signed'[k] = signed[k]
    BY <1>5, <1>m
  <2> QED BY <1>0, <1>2, <2>1, CookieKept DEF BrowserSame
<1>v. ASSUME NEW x \in Key \cup {None}, Minted(x), Verified(x) PROVE (Verified(x))'
  BY <1>7, <1>v DEF Minted, Verified, BrowserSame
<1>8. AllMinted'
  <2>1. Minted(cookie)'
    BY <1>0, <1>2, <1>6 DEF AllMinted, Minted, SessionTyped
  <2>2. Minted(b.key)' /\ Minted(b.brings)'
    <3>1. Minted(b.key)'
      BY <1>0, <1>2, <1>6, <1>k DEF AllMinted
    <3>2. CASE \E k \in Unsigned : Signs(k) /\ b.brings = k
      <4>1. PICK k \in Unsigned : Signs(k) /\ b.brings = k
        BY <3>2
      <4>2. signed'[k] # None
        BY <1>m, <4>1
      <4> QED BY <3>1, <4>1, <4>2 DEF Minted
    <3>3. CASE b.brings = call[j].brings \/ b.brings = CsrfOf(call[j].key)
      BY <1>0, <1>2, <1>6, <1>k, <3>3 DEF AllMinted, CsrfOf, Minted
    <3> QED BY <3>1, <3>2, <3>3 DEF AnsweredBy
  <2>3. ASSUME NEW i \in Call, (Sign(i))' PROVE (Minted(call[i].key))' /\ (Minted(call[i].brings))'
    <3>1. CASE i = j
      BY <1>2, <2>2, <3>1 DEF Minted
    <3>2. CASE i # j
      <4>1. call'[i] = call[i] /\ Sign(i)
        BY <1>2, <2>3, <3>2 DEF Sign
      <4>2. Minted(call[i].key)' /\ Minted(call[i].brings)'
        BY <1>0, <1>6, <1>k, <4>1 DEF AllMinted
      <4> QED BY <4>1, <4>2
    <3> QED BY <3>1, <3>2
  <2> QED BY <2>1, <2>3 DEF AllMinted, Minted
<1>9. AtGithub(t)'
  <2> SUFFICES ASSUME NEW i \in Call, (i \in Signers(t))', call'[i].op \in {"start", "callback"}
               PROVE  page'[t].view = "github" /\ \A k \in Call : (k \in Signers(t))' => k = i
    BY DEF AtGithub, Signers
  <2>1. i \in Signers(t) /\ call[i].op \in {"start", "callback"} /\ AtGithub(t)
    BY <1>2, <1>3 DEF KnowInv
  <2> QED BY <1>2, <1>3, <2>1 DEF AtGithub
<1>10. ASSUME excuse'[t] = {} PROVE Knows(t)'
  <2>1. Knows(t)
    BY <1>2, <1>10 DEF KnowInv
  <2>2. ASSUME NEW i \in Call, (i \in Signers(t))' PROVE Honest(call[i])'
    <3>1. Honest(call[i])
      BY <1>3, <2>1, <2>2 DEF Knows
    <3>2. CASE i # j
      <4>1. Sign(i)
        BY <1>3, <2>2 DEF Signers
      <4>2. Verified(call[i].brings) => (Verified(call[i].brings))'
        <5>1. Minted(call[i].brings) /\ call[i].brings \in Key \cup {None}
          BY <1>0, <1>k, <4>1 DEF AllMinted
        <5>2. \A x \in Key \cup {None} : x = call[i].brings /\ Verified(x) => (Verified(x))'
          BY <1>v, <5>1
        <5> QED BY <1>2, <3>2, <5>1, <5>2 DEF Verified
      <4> QED BY <1>2, <1>7, <3>1, <3>2, <4>2 DEF Honest
    <3>3. CASE i = j
      <4>1. /\ b.op \in {"restore", "login", "logout"} => page'[b.tab].view = "login"
            /\ b.op = "restore" => b.key = cookie \/ (b.key = None /\ SessionCookie = None)
            /\ b.op = "login" => SessionCookie = None
        BY <1>1, <1>2, <3>1, <3>3 DEF Honest
      <4>2. ASSUME b.op = "restore"
            PROVE  IF b.ok THEN b.brings = SessionCookie /\ SessionCookie # None
                   ELSE SessionCookie = None
        BY <1>2, <4>1, <4>2 DEF AnsweredBy, CsrfOf, Verified, SessionCookie
      <4>3. ASSUME b.op = "login", b.ok PROVE (Verified(call[j].brings))'
        <5>1. ~call[j].ok
          BY <1>2, <3>1, <3>3, <4>3 DEF Honest
        <5>2. PICK k \in Unsigned : Signs(k) /\ b.brings = k
          BY <1>2, <4>3, <5>1 DEF AnsweredBy
        <5>3. k # None /\ signed'[k] = now /\ now \in Nat /\ SessionTtl \in Nat \ {0}
          BY <1>0, <1>m, <5>2 DEF SessionTyped
        <5> QED BY <1>2, <5>2, <5>3 DEF Verified
      <4> QED BY <1>2, <1>7, <3>3, <4>1, <4>2, <4>3 DEF Honest
    <3> QED BY <3>2, <3>3
  <2>3. Settled(t) => Settled(t)'
    BY <1>2, <1>7 DEF Settled
  <2>4. /\ \A i, k \in Call : (i \in Signers(t))' /\ (k \in Signers(t))' => i = k
        /\ (Signers(t) = {})' => Signers(t) = {}
    BY <1>3, <2>1 DEF Knows, Signers
  <2>5. Signers(t)' \subseteq Call
    BY DEF Signers
  <2> QED BY <2>1, <2>2, <2>3, <2>4, <2>5 DEF Knows
<1> QED BY <1>2, <1>4, <1>7, <1>8, <1>9, <1>10, TabStep

\* A call ends.
LEMMA EndFacts ==
  ASSUME Typed, AllMinted, NEW j \in Call, NEW t \in Tab, t = call[j].tab, Finished(j),
         signed' = signed, Minted(cookie')
  PROVE  /\ OfTabOnly(t) /\ AllMinted'
         /\ \A i \in Call \ {j} : call'[i] = call[i]
         /\ \A i \in Call : (i \in Signers(t))' <=> i \in Signers(t) /\ i # j
<1>1. call'[j] = None /\ \A i \in Call \ {j} : call'[i] = call[i]
  BY FinishTyped DEF Typed
<1>2. \A u \in Tab \ {t} : j \notin Signers(u) /\ (j \notin Signers(u))'
  BY <1>1 DEF Signers, Sign
<1>3. \A i \in Call : (i \in Signers(t))' <=> i \in Signers(t) /\ i # j
  BY <1>1 DEF Signers, Sign
<1>4. AllMinted'
  BY <1>1 DEF AllMinted, Minted, Sign
<1> QED BY <1>1, <1>2, <1>3, <1>4 DEF OfTabOnly

\* The call that a tab waits for ends: it is at rest.
LEMMA LastEnds ==
  ASSUME NEW t \in Tab, NEW j \in Signers(t),
         \A i \in Call : (i \in Signers(t))' <=> i \in Signers(t) /\ i # j,
         \A i \in Call \ {j} : call'[i] = call[i]
  PROVE  /\ AtGithub(t) => AtGithub(t)'
         /\ Knows(t) /\ Settled(t)' => Knows(t)'
<1>1. AtGithub(t) => AtGithub(t)'
  <2> SUFFICES ASSUME AtGithub(t), NEW i \in Call, (i \in Signers(t))',
                      call'[i].op \in {"start", "callback"}
               PROVE  FALSE
    BY DEF AtGithub, Signers
  <2> QED BY DEF AtGithub
<1>2. ASSUME Knows(t), Settled(t)' PROVE Knows(t)'
  <2>1. \A i \in Call : (i \notin Signers(t))'
    BY <1>2 DEF Knows
  <2>2. Signers(t)' = {}
    BY <2>1 DEF Signers
  <2> QED BY <1>2, <2>2 DEF Knows
<1> QED BY <1>1, <1>2

\* A call that no page hears ends.
LEMMA UnheardKnows ==
  ASSUME Typed, KnowInv, NEW j \in Call, call[j] # None, ~call[j].heard, Finished(j),
         UNCHANGED <<now, signed, page>>,
         \/ UNCHANGED <<cookie, excuse>>
         \/ Minted(cookie') /\ \A u \in Tab : excuse'[u] # {}
  PROVE  KnowInv'
<1>0. SessionTyped /\ AllMinted /\ CallsTyped
  BY DEF Typed, KnowInv
<1>1. PICK t \in Tab : t = call[j].tab
  BY <1>0, CallFacts
<1>2. Minted(cookie')
  BY <1>0 DEF AllMinted, Minted
<1>3. /\ OfTabOnly(t) /\ AllMinted' /\ \A i \in Call \ {j} : call'[i] = call[i]
      /\ \A i \in Call : (i \in Signers(t))' <=> i \in Signers(t) /\ i # j
  BY <1>0, <1>1, <1>2, EndFacts
<1>4. TabSame(t)
  <2>1. j \notin Signers(t) /\ Signers(t) \subseteq Call
    BY DEF Signers
  <2> QED BY <1>3, <2>1 DEF TabSame
<1>5. cookie' = cookie => BrowserSame
  BY <1>0, CookieKept
<1>6. AtGithub(t)' /\ (excuse'[t] = {} => Knows(t)')
  BY <1>0, <1>4, <1>5, TabSameKeeps DEF KnowInv
<1> QED BY <1>3, <1>5, <1>6, TabStep

LEMMA HeardKnows ==
  ASSUME Typed, KnowInv, NEW j \in Call, NEW t \in Tab, t = call[j].tab, Sign(j), call[j].heard,
         Finished(j), UNCHANGED <<now, signed, cookie>>,
         \A u \in Tab \ {t} : page'[u] = page[u] /\ excuse'[u] = excuse[u],
         excuse'[t] = {} => excuse[t] = {} /\ (Honest(call[j]) => Settled(t)')
  PROVE  KnowInv'
<1>0. SessionTyped /\ AllMinted /\ CallsTyped
  BY DEF Typed, KnowInv
<1>1. Minted(cookie') /\ BrowserSame
  BY <1>0, CookieKept DEF AllMinted, Minted
<1>2. /\ OfTabOnly(t) /\ AllMinted' /\ \A i \in Call \ {j} : call'[i] = call[i]
      /\ \A i \in Call : (i \in Signers(t))' <=> i \in Signers(t) /\ i # j
  BY <1>0, <1>1, EndFacts
<1>3. j \in Signers(t)
  BY DEF Signers
<1>4. AtGithub(t)' /\ (excuse'[t] = {} => Knows(t)')
  BY <1>2, <1>3, LastEnds DEF KnowInv, Knows
<1> QED BY <1>1, <1>2, <1>4, TabStep

LEMMA EndKnows ==
  ASSUME Typed, KnowInv, NEW j \in Call,
         Restored(j) \/ LoggedIn(j) \/ LoggedOut(j) \/ Redirected(j) \/ Lost(j) \/ TakenUnheard(j)
  PROVE  KnowInv'
<1> DEFINE c == call[j]
<1>0. SessionTyped /\ AllMinted /\ CallsTyped /\ page \in [Tab -> Page]
      /\ excuse \in [Tab -> SUBSET Excuse]
  BY DEF Typed, KnowInv, SessionTyped
<1>1. c # None /\ Finished(j) /\ UNCHANGED <<now, signed>>
  BY DEF Restored, LoggedIn, LoggedOut, Redirected, Lost, TakenUnheard, At, Busy
<1>2. PICK t \in Tab : t = c.tab
  BY <1>0, <1>1, CallFacts
<1>3. CASE Restored(j) \/ LoggedIn(j)
  <2>1. Sign(j) /\ c \in SignCall /\ c.heard /\ UNCHANGED <<cookie, excuse>>
        /\ page' = [page EXCEPT ![t] = SignedIn(c)]
    BY <1>0, <1>1, <1>2, <1>3, CallFacts DEF Restored, LoggedIn, Sign, SignOp, history
  <2>2. \/ c.ok /\ SignedIn(c).view = "app" /\ SignedIn(c).csrf = c.brings
        \/ ~c.ok /\ SignedIn(c) = page[t]
    BY <1>0, <1>2 DEF SignedIn, Page
  <2>3. page'[t] = SignedIn(c) /\ \A u \in Tab \ {t} : page'[u] = page[u]
    BY <1>0, <2>1
  <2>4. BrowserSame
    BY <1>0, <1>1, <2>1, CookieKept
  <2>5. ASSUME Honest(c) PROVE Settled(t)'
    <3>1. CASE c.ok
      <4>1. c.brings = SessionCookie /\ SessionCookie # None
        BY <1>3, <2>5, <3>1 DEF Restored, LoggedIn, At, Honest
      <4> QED BY <2>1, <2>2, <2>3, <2>4, <3>1, <4>1 DEF Settled, BrowserSame
    <3>2. CASE ~c.ok
      <4>1. SessionCookie' = None
        BY <1>3, <2>4, <2>5, <3>2 DEF Restored, LoggedIn, At, Honest, BrowserSame
      <4>2. page'[t].view = "login"
        BY <1>2, <1>3, <2>2, <2>3, <2>5, <3>2 DEF Restored, LoggedIn, Honest
      <4> QED BY <4>1, <4>2 DEF Settled
    <3> QED BY <3>1, <3>2
  <2> QED BY <1>1, <1>2, <2>1, <2>3, <2>5, HeardKnows
<1>4. CASE LoggedOut(j)
  <2>1. UNCHANGED <<cookie, page, excuse>> /\ c.pc = "taken"
    BY <1>4 DEF LoggedOut, browser, history, At
  <2>2. CASE ~c.heard
    BY <1>1, <2>1, <2>2, UnheardKnows
  <2>3. CASE c.heard
    <3>1. c.op = "logout" /\ Sign(j)
      BY <1>1, <1>4, <2>3 DEF LoggedOut, Sign, SignOp
    <3>2. Honest(c) => Settled(t)'
      BY <1>1, <1>2, <2>1, <3>1 DEF Honest, Settled, SessionCookie
    <3> QED BY <1>1, <1>2, <2>1, <2>3, <3>1, <3>2, HeardKnows
  <2> QED BY <2>2, <2>3
<1>5. CASE Redirected(j)
  <2> DEFINE p == [page[t] EXCEPT !.state = c.state]
  <2>1. /\ Sign(j) /\ c.heard /\ c.op = "start" /\ UNCHANGED <<cookie, excuse>>
        /\ page' = [page EXCEPT ![t] = p] /\ p.view = page[t].view
    BY <1>0, <1>1, <1>2, <1>5 DEF Redirected, Sign, history, Page
  <2> HIDE DEF p
  <2>2. page'[t].view = page[t].view /\ \A u \in Tab \ {t} : page'[u] = page[u]
    BY <1>0, <2>1
  <2>3. page[t].view = "github"
    <3>1. j \in Signers(t) /\ AtGithub(t)
      BY <1>2, <2>1 DEF KnowInv, Signers
    <3> QED BY <2>1, <3>1 DEF AtGithub
  <2>4. Settled(t)'
    BY <2>2, <2>3 DEF Settled
  <2> QED BY <1>1, <1>2, <2>1, <2>2, <2>4, HeardKnows
<1>6. CASE Lost(j)
  <2>1. Sign(j) /\ cookie' = cookie
    BY <1>1, <1>6 DEF Lost, Sign
  <2>2. CASE ~c.heard
    BY <1>1, <1>6, <2>1, <2>2, UnheardKnows DEF Lost
  <2>3. CASE c.heard
    <3>1. /\ \A u \in Tab \ {t} : page'[u] = page[u] /\ excuse'[u] = excuse[u]
          /\ excuse'[t] = excuse[t] \cup {"lost"}
      BY <1>0, <1>2, <1>6, <2>3 DEF Lost
    <3>2. excuse'[t] # {}
      BY <3>1
    <3> QED BY <1>1, <1>2, <2>1, <2>3, <3>1, <3>2, HeardKnows
  <2> QED BY <2>2, <2>3
<1>7. CASE TakenUnheard(j)
  <2>1. ~c.heard /\ page' = page /\ At(j, "answered")
    BY <1>7 DEF TakenUnheard
  <2>2. CASE c.op \in {"login", "logout", "callback"} /\ c.ok
    <3>1. Sign(j) /\ cookie' = c.brings /\ \A u \in Tab : excuse'[u] # {}
      BY <1>1, <1>7, <2>2 DEF TakenUnheard, Sign, SignOp
    <3>2. Minted(cookie')
      BY <1>0, <1>1, <3>1 DEF AllMinted, Minted
    <3> QED BY <1>1, <2>1, <3>1, <3>2, UnheardKnows
  <2>3. CASE ~(c.op \in {"login", "logout", "callback"} /\ c.ok)
    BY <1>1, <1>7, <2>1, <2>3, UnheardKnows DEF TakenUnheard
  <2> QED BY <2>2, <2>3
<1> QED BY <1>3, <1>4, <1>5, <1>6, <1>7

LEMMA TakeKnows ==
  ASSUME Typed, KnowInv, NEW j \in Call, TakeCookie(j)
  PROVE  KnowInv'
<1> DEFINE c == call[j]
           b == [c EXCEPT !.pc = "taken"]
<1>0. SessionTyped /\ AllMinted /\ CallsTyped /\ excuse \in [Tab -> SUBSET Excuse]
  BY DEF Typed, KnowInv, SessionTyped
<1>1. /\ Sign(j) /\ c \in SignCall /\ SignFit(c) /\ c.heard /\ c.op \in {"login", "logout"}
      /\ cookie' = c.brings /\ UNCHANGED <<now, signed, page>>
  BY <1>0, Found DEF TakeCookie, SignOp
<1>2. PICK t \in Tab : t = c.tab
  BY <1>0, <1>1, CallFacts, Zenon DEF Sign
<1>3. /\ b \in SignCall /\ b # None /\ b.op = c.op /\ b.tab = t /\ b.heard /\ b.key = c.key
      /\ b.brings = c.brings /\ b.pc = "taken"
  <2>1. /\ b \in SignCall /\ b.op = c.op /\ b.tab = t /\ b.heard /\ b.key = c.key
        /\ b.brings = c.brings /\ b.pc = "taken"
    BY <1>1, <1>2 DEF SignCall
  <2> QED BY <2>1
<1>4. call' = [call EXCEPT ![j] = b]
  BY DEF TakeCookie
<1> HIDE DEF b
<1>5. call'[j] = b /\ \A i \in Call \ {j} : call'[i] = call[i]
  BY <1>0, <1>4 DEF CallsTyped
<1>6. \A i \in Call : (i \in Signers(t))' <=> i \in Signers(t)
  BY <1>1, <1>2, <1>3, <1>5 DEF Signers, Sign, SignOp
<1>7. OfTabOnly(t)
  <2>1. \A u \in Tab \ {t} : j \notin Signers(u) /\ (j \notin Signers(u))'
    BY <1>2, <1>3, <1>5 DEF Signers
  <2> QED BY <1>5, <2>1 DEF OfTabOnly
<1>8. AllMinted'
  <2>1. Minted(c.brings)' /\ Minted(c.key)'
    BY <1>0, <1>1, <1>3, <1>5 DEF AllMinted, Minted
  <2>2. ASSUME NEW i \in Call, (Sign(i))' PROVE (Minted(call[i].key))' /\ (Minted(call[i].brings))'
    <3>1. CASE i = j
      BY <1>0, <1>1, <1>3, <1>5, <3>1 DEF AllMinted, Minted
    <3>2. CASE i # j
      <4>1. call'[i] = call[i] /\ Sign(i)
        BY <1>5, <2>2, <3>2 DEF Sign
      <4> QED BY <1>0, <1>1, <4>1 DEF AllMinted, Minted
    <3> QED BY <3>1, <3>2
  <2>3. (Minted(cookie))'
    BY <1>0, <1>1 DEF AllMinted, Minted
  <2> QED BY <2>2, <2>3 DEF AllMinted
<1>9. /\ \A u \in Tab \ {t} : excuse'[u] # {}
      /\ excuse'[t] = excuse[t]
  BY <1>2 DEF TakeCookie, Elsewhere
<1>10. j \in Signers(t)
  BY <1>1, <1>2 DEF Signers
<1>11. AtGithub(t)'
  <2> SUFFICES ASSUME NEW i \in Call, (i \in Signers(t))', call'[i].op \in {"start", "callback"}
               PROVE  FALSE
    BY DEF AtGithub, Signers
  <2>1. i # j /\ i \in Signers(t) /\ call[i].op \in {"start", "callback"} /\ AtGithub(t)
    BY <1>1, <1>3, <1>5, <1>6 DEF KnowInv
  <2> QED BY <1>10, <2>1 DEF AtGithub
<1>12. ASSUME excuse'[t] = {} PROVE Knows(t)'
  <2>1. Knows(t)
    BY <1>9, <1>12 DEF KnowInv
  <2>2. \A i \in Call : (i \in Signers(t))' <=> i = j
    BY <1>6, <1>10, <2>1 DEF Knows
  <2>3. Honest(call[j])'
    <3>1. page[t].view = "login"
      BY <1>1, <1>2, <1>10, <2>1 DEF Knows, Honest
    <3>2. c.op = "logout" => cookie' = None
      BY <1>1 DEF SignFit
    <3>3. c.op = "login" => c.brings = SessionCookie' /\ SessionCookie' # None
      <4>1. c.op = "login" => Verified(c.brings)
        BY <1>2, <1>10, <2>1 DEF Knows, Honest, TakeCookie, At
      <4> QED BY <1>1, <4>1 DEF Verified, SessionCookie
    <3> QED BY <1>1, <1>3, <1>5, <3>1, <3>2, <3>3 DEF Honest
  <2>4. call'[j].op \notin {"start", "callback"}
    BY <1>1, <1>3, <1>5
  <2> QED BY <2>2, <2>3, <2>4, AloneKnows
<1> QED BY <1>1, <1>7, <1>8, <1>9, <1>11, <1>12, TabStep

LEMMA ReturnedKnows ==
  ASSUME Typed, KnowInv, NEW j \in Call, Returned(j)
  PROVE  KnowInv'
<1> DEFINE c == call[j]
<1>0. SessionTyped /\ AllMinted /\ CallsTyped /\ page \in [Tab -> Page]
      /\ excuse \in [Tab -> SUBSET Excuse]
  BY DEF Typed, KnowInv, SessionTyped
<1>1. /\ Sign(j) /\ c \in SignCall /\ c.heard /\ c.op = "callback" /\ UNCHANGED <<now, signed>>
  BY <1>0, Found DEF Returned, SignOp
<1>2. PICK t \in Tab : t = c.tab
  BY <1>0, <1>1, CallFacts, Zenon DEF Sign
<1>3. j \in Signers(t) /\ \A i \in Signers(t) : i = j
  <2>1. j \in Signers(t) /\ AtGithub(t)
    BY <1>1, <1>2 DEF Signers, KnowInv
  <2> QED BY <1>1, <2>1 DEF AtGithub
<1>4. excuse'[t] = {} /\ \/ c.ok /\ \A u \in Tab \ {t} : excuse'[u] # {}
                         \/ ~c.ok /\ \A u \in Tab \ {t} : excuse'[u] = excuse[u]
  <2>1. CASE c.ok
    <3>1. excuse' = [Elsewhere(t) EXCEPT ![t] = {}]
      BY <1>2, <2>1 DEF Returned
    <3>2. excuse'[t] = {} /\ \A u \in Tab \ {t} : excuse'[u] = excuse[u] \cup {"elsewhere"}
      BY <3>1 DEF Elsewhere
    <3> QED BY <2>1, <3>2
  <2>2. CASE ~c.ok
    <3>1. excuse' = [excuse EXCEPT ![t] = {}]
      BY <1>2, <2>2 DEF Returned
    <3> QED BY <1>0, <2>2, <3>1
  <2> QED BY <2>1, <2>2
<1>5. Minted(cookie') /\ (~c.ok => cookie' = cookie)
  BY <1>0, <1>1 DEF Returned, AllMinted, Minted
<1>6. ~c.ok => BrowserSame
  BY <1>0, <1>1, <1>5, CookieKept
<1>7. CASE c.ok \/ c.clears
  <2> DEFINE n == NewCall(t, "restore")
             b == [n EXCEPT !.key = IF c.ok THEN c.brings ELSE @]
             p == [LoginPage EXCEPT !.state = c.state]
  <2>1. n \in SignCall /\ n.op = "restore" /\ n.tab = t /\ n.pc = "sent" /\ n.heard
        /\ n.key = SessionCookie /\ n.brings = None
    BY <1>0, NewCallFacts DEF SignOp
  <2>2. call' = [call EXCEPT ![j] = b] /\ page' = [page EXCEPT ![t] = p]
    BY <1>2, <1>7 DEF Returned
  <2> HIDE DEF n
  <2>3. /\ b \in SignCall /\ b.op = "restore" /\ b.tab = t /\ b.pc = "sent" /\ b.heard
        /\ b.key = (IF c.ok THEN c.brings ELSE SessionCookie) /\ b.brings = None
    BY <1>1, <2>1 DEF SignCall
  <2>4. p.view = "login"
    BY <1>1, PageTyped DEF Page
  <2> HIDE DEF b, p
  <2>5. /\ page'[t].view = "login" /\ \A u \in Tab \ {t} : page'[u] = page[u]
        /\ b # None /\ call'[j] = b /\ \A i \in Call \ {j} : call'[i] = call[i]
    BY <1>0, <2>2, <2>3, <2>4 DEF CallsTyped
  <2>6. \A i \in Call : (i \in Signers(t))' <=> i = j
    BY <1>3, <2>3, <2>5 DEF Signers, Sign, SignOp
  <2>7. OfTabOnly(t)
    <3>1. \A u \in Tab \ {t} : j \notin Signers(u) /\ (j \notin Signers(u))'
      BY <1>2, <2>3, <2>5 DEF Signers
    <3> QED BY <2>5, <3>1 DEF OfTabOnly
  <2>8. AllMinted'
    <3>1. ASSUME NEW i \in Call, (Sign(i))' PROVE (Minted(call[i].key))' /\ (Minted(call[i].brings))'
      <4>1. CASE i = j
        <5>1. Minted(SessionCookie) /\ Minted(c.brings)
          BY <1>0, <1>1 DEF AllMinted, SessionCookie, Minted
        <5> QED BY <1>1, <2>3, <2>5, <4>1, <5>1 DEF Minted
      <4>2. CASE i # j
        <5>1. call'[i] = call[i] /\ Sign(i)
          BY <2>5, <3>1, <4>2 DEF Sign
        <5> QED BY <1>0, <1>1, <5>1 DEF AllMinted, Minted
      <4> QED BY <4>1, <4>2
    <3>2. (Minted(cookie))'
      BY <1>1, <1>5 DEF Minted
    <3> QED BY <3>1, <3>2 DEF AllMinted
  <2>9. Honest(call[j])'
    <3>1. b.key = cookie' \/ (b.key = None /\ SessionCookie' = None)
      <4>1. CASE c.ok
        BY <2>3, <4>1 DEF Returned
      <4>2. CASE ~c.ok
        BY <1>5, <1>6, <2>3, <4>2 DEF SessionCookie, BrowserSame
      <4> QED BY <4>1, <4>2
    <3> QED BY <2>3, <2>5, <3>1 DEF Honest
  <2>10. AtGithub(t)' /\ Knows(t)'
    BY <2>3, <2>5, <2>6, <2>9, AloneKnows
  <2> QED BY <1>4, <1>6, <2>5, <2>7, <2>8, <2>10, TabStep
<1>8. CASE ~(c.ok \/ c.clears)
  <2> DEFINE p == [page[t] EXCEPT !.view = "error"]
  <2>1. Finished(j) /\ page' = [page EXCEPT ![t] = p] /\ p.view = "error"
    BY <1>0, <1>2, <1>8 DEF Returned, Page
  <2> HIDE DEF p
  <2>2. page'[t].view = "error" /\ \A u \in Tab \ {t} : page'[u] = page[u]
    BY <1>0, <2>1
  <2>3. /\ OfTabOnly(t) /\ AllMinted' /\ \A i \in Call \ {j} : call'[i] = call[i]
        /\ \A i \in Call : (i \in Signers(t))' <=> i \in Signers(t) /\ i # j
    BY <1>0, <1>1, <1>2, <1>5, <2>1, EndFacts
  <2>4. Signers(t)' = {}
    BY <1>3, <2>3 DEF Signers
  <2>5. AtGithub(t)' /\ Knows(t)'
    BY <2>2, <2>4 DEF AtGithub, Knows, Settled
  <2> QED BY <1>4, <1>6, <1>8, <2>2, <2>3, <2>5, TabStep
<1> QED BY <1>7, <1>8

LEMMA InitKnows ==
  ASSUME Init
  PROVE  KnowInv
<1>1. call = [i \in Call |-> None]
  BY DEF Init, SessionInit, SessionOpened
<1>2. \A i \in Call : ~Sign(i)
  BY <1>1 DEF Sign
<1>3. \A t \in Tab : Signers(t) = {}
  BY <1>2 DEF Signers
<1>4. Minted(cookie) /\ \A t \in Tab : Settled(t)
  <2>1. CASE SessionInit
    BY <2>1, PageTyped DEF SessionInit, Minted, Settled, SessionCookie
  <2>2. ASSUME NEW k \in Key, SessionOpened(k) PROVE Minted(cookie) /\ \A t \in Tab : Settled(t)
    <3> DEFINE p == [LoginPage EXCEPT !.view = "app", !.csrf = k]
    <3>1. p.view = "app" /\ p.csrf = k
      BY PageTyped DEF Page
    <3>2. page = [t \in Tab |-> p] /\ cookie = k /\ signed[k] = 0 /\ now = 0
      BY <2>2 DEF SessionOpened
    <3> HIDE DEF p
    <3>3. SessionCookie = k /\ k # None
      BY <3>2 DEF SessionCookie
    <3> QED BY <3>1, <3>2, <3>3 DEF Minted, Settled
  <2> QED BY <2>1, <2>2 DEF Init
<1> QED BY <1>2, <1>3, <1>4 DEF KnowInv, AllMinted, AtGithub, Knows

LEMMA KnowStep ==
  ASSUME Typed, KnowInv, [Next]_vars
  PROVE  KnowInv'
<1>1. ASSUME NEW j \in Call, SignStep(j) \/ Restored(j) \/ LoggedIn(j) PROVE KnowInv'
  BY <1>1, HandleShape, HandleKnows, EndKnows, TakeKnows DEF SignStep
<1> QED BY <1>1, Frame, KeptKnows, TickKnows, OwnerKnows, ReturnedKnows

\* A tab that waits for no sign-in or sign-out of its own shows the console
\* only when the browser has a session that is not over, with its csrf value,
\* and the login only when it has none; unless two of its own sign-ins crossed,
\* one was lost, another tab signed in or out, or the session reached its expiry
\* while the tab showed it or was being told of it.
THEOREM ConsoleKnowsSession == Spec => []ConsoleKnowsItsSession
<1>1. Init => KnowInv
  BY InitKnows
<1>2. Typed /\ KnowInv /\ [Next]_vars => KnowInv'
  BY KnowStep
<1>3. Typed /\ KnowInv => ConsoleKnowsItsSession
  <2>1. ASSUME Typed, KnowInv, NEW t \in Tab, excuse[t] = {}, Signing(t) = {}
        PROVE  Settled(t)
    <3>1. Knows(t) /\ AtGithub(t)
      BY <2>1 DEF KnowInv
    <3>2. \A i \in Signers(t) : call[i].op = "start"
      BY <2>1 DEF Signers, Signing, OfTab, Busy, Sign
    <3>3. CASE Signers(t) = {}
      BY <3>1, <3>3 DEF Knows
    <3>4. CASE Signers(t) # {}
      BY <3>1, <3>2, <3>4 DEF AtGithub, Settled
    <3> QED BY <3>3, <3>4
  <2> QED BY <2>1 DEF ConsoleKnowsItsSession, Settled
<1> QED BY <1>1, <1>2, <1>3, ConsoleTyped, PTL DEF Spec

-----------------------------------------------------------------------------
(* A write hits what was shown.                                            *)

\* What is gone, or identified, stays so.
Lasting ==
  /\ \A c \in Comment : Gone(c) => (Gone(c))'
  /\ \A e \in Entry : Identified(e) => (Identified(e))'

LoadGoesOn(t, v, i) ==
  LET l == loads[t][v][i]  m == loads'[t][v][i] IN
  m # None =>
    \/ ~m.served /\ ~m.clean
    \/ m.served /\ m.content = Read(db, v) /\ db' = db
    \/ /\ l # None /\ m.served = l.served /\ m.content = l.content
       /\ m.clean => l.clean /\ Read(db', v) = Read(db, v)

ListGoesOn(t) ==
  \A e \in Entry : e \in shows'[t]["lists"] =>
    e \in shows[t]["lists"] \/ \E i \in Slot : Brings(loads[t]["lists"][i], e)

SameAim(a, b) ==
  /\ b.op = a.op /\ b.kind = a.kind /\ (b.op = "bulk" => b.verb = a.verb)
  /\ b.ids = a.ids /\ b.may = a.may /\ b.entry = a.entry

WriteGoesOn(j) == (Writes(j))' => Writes(j) /\ SameAim(call[j], call'[j])

\* Nothing more is ticked, and what was seen of it still is.
TabGoesOn(t) ==
  \A k \in Kind : \A c \in selected'[t][k] :
    /\ c \in selected[t][k]
    /\ shows'[t][k] = shows[t][k]
    /\ c \in ghosts[t] => c \in ghosts'[t]
    /\ Clearing(t, k, c) => (Clearing(t, k, c))' \/ c \in ghosts'[t]
    /\ db'.comment[c] = db.comment[c] \/ (Gone(c))' \/ c \in ghosts'[t] \/ (Clearing(t, k, c))'

LEMMA TabSeesOn ==
  ASSUME ViewsTyped, Lasting, NEW t \in Tab, TabSees(t), TabGoesOn(t)
  PROVE  (TabSees(t))'
<1> SUFFICES ASSUME NEW k \in Kind, NEW c \in selected'[t][k]
             PROVE  (Seen(t, k, c))'
  BY DEF TabSees
<1>1. c \in selected[t][k] /\ c \in Comment
  <2>1. c \in selected[t][k]
    BY DEF TabGoesOn
  <2>2. selected[t] \in [Kind -> SUBSET Comment]
    BY DEF ViewsTyped
  <2> QED BY <2>1, <2>2
<1>2. Seen(t, k, c)
  BY <1>1 DEF TabSees
<1>3. CASE Gone(c)
  BY <1>1, <1>3 DEF Lasting, Seen
<1>4. CASE c \in ghosts[t] \/ Clearing(t, k, c)
  BY <1>4 DEF TabGoesOn, Seen
<1>5. CASE db.comment[c] = StatusOf(k) /\ c \in Listed(t, k)
  <2>1. (Listed(t, k))' = Listed(t, k)
    BY DEF TabGoesOn, Listed
  <2> QED BY <1>5, <2>1 DEF TabGoesOn, Seen
<1> QED BY <1>2, <1>3, <1>4, <1>5 DEF Seen

LEMMA HitsStep ==
  ASSUME Typed, HitsInv, Lasting,
         \A t \in Tab, v \in View, i \in Slot : LoadGoesOn(t, v, i),
         \A t \in Tab : ListGoesOn(t) /\ (TabGoesOn(t) \/ (TabSees(t))'),
         \A j \in Call : WriteGoesOn(j) \/ (Aimed(call[j]))'
  PROVE  HitsInv'
<1>0. CallsTyped /\ TablesTyped /\ ViewsTyped
  BY DEF Typed
<1>1. \A t \in Tab : (TabSees(t))'
  BY <1>0, TabSeesOn DEF HitsInv
<1>2. ASSUME NEW t \in Tab, NEW v \in View, NEW i \in Slot
      PROVE  (Current(loads[t][v][i], v))'
  <2>1. LoadGoesOn(t, v, i) /\ Current(loads[t][v][i], v)
    BY DEF HitsInv
  <2> QED BY <2>1 DEF LoadGoesOn, Current
<1>3. ASSUME NEW e \in Entry, Identified(e) PROVE (Identified(e))'
  BY <1>3 DEF Lasting
<1>4. ASSUME NEW t \in Tab, NEW e \in Entry
      PROVE  e \in shows'[t]["lists"] \/ (\E i \in Slot : (Brings(loads[t]["lists"][i], e))') => (Identified(e))'
  <2>1. ASSUME e \in shows'[t]["lists"] PROVE Identified(e)
    BY <2>1 DEF ListGoesOn, HitsInv
  <2>2. ASSUME NEW i \in Slot, (Brings(loads[t]["lists"][i], e))' PROVE Identified(e)
    <3>1. "lists" \in View
      BY DEF View
    <3>2. LoadGoesOn(t, "lists", i)
      BY <3>1
    <3>3. CASE Brings(loads[t]["lists"][i], e)
      BY <3>3 DEF HitsInv
    <3>4. CASE e \in Read(db, "lists")
      <4>1. e \in db.entries
        BY <3>4 DEF Read, Kind
      <4> QED BY <1>0, <4>1 DEF Identified, TablesTyped
    <3> QED BY <2>2, <3>2, <3>3, <3>4 DEF Brings, LoadGoesOn
  <2> QED BY <1>3, <2>1, <2>2
<1>5. ASSUME NEW j \in Call, (Writes(j))' PROVE (Aimed(call[j]))'
  <2>1. CASE WriteGoesOn(j)
    <3>1. Writes(j) /\ SameAim(call[j], call'[j]) /\ Aimed(call[j])
      BY <1>5, <2>1 DEF WriteGoesOn, HitsInv
    <3>2. call[j].ids \subseteq Comment /\ (call[j].op = "remove" => call[j].entry \in Entry)
      BY <1>0, <3>1, CallFacts DEF WriteCall, WriteFit
    <3>3. \A c \in Comment : Gone(c) => (Gone(c))'
      BY DEF Lasting
    <3> QED BY <1>3, <3>1, <3>2, <3>3 DEF SameAim, Aimed
  <2> QED BY <2>1
<1> QED BY <1>1, <1>2, <1>4, <1>5 DEF HitsInv

\* A write that is neither handled nor finished.
Still(a, b) == b.pc = a.pc /\ b.ok = a.ok /\ b.form = a.form /\ b.clean = a.clean

\* Writes go on, and are heard as they were; but for those of tab t.
WritesSame ==
  \A i \in Call : /\ WriteGoesOn(i)
                  /\ Writes(i) /\ call'[i] # None => Still(call[i], call'[i])
                  /\ Writes(i) /\ call[i].heard => call'[i] = call[i]
WritesLeft(t) ==
  \A i \in Call : /\ WriteGoesOn(i)
                  /\ Writes(i) /\ call'[i] # None => Still(call[i], call'[i])
                  /\ Writes(i) /\ call[i].heard /\ call[i].tab # t => call'[i] = call[i]

LEMMA ClearingStays ==
  ASSUME NEW t \in Tab, NEW k \in Kind, NEW c, Clearing(t, k, c),
         \A i \in Call : Writes(i) /\ call[i].heard /\ call[i].tab = t => call'[i] = call[i]
  PROVE  (Clearing(t, k, c))'
<1>1. PICK j \in Call : Clears(t, j) /\ call[j].kind = k /\ c \in call[j].ids
  BY DEF Clearing
<1>2. Writes(j) /\ call[j].heard /\ call[j].tab = t
  BY <1>1 DEF Clears, Writes, WriteOp, OfTab, Busy
<1>3. call'[j] = call[j]
  BY <1>2
<1>4. (Clears(t, j))'
  BY <1>1, <1>3 DEF Clears, OfTab, Busy
<1> QED BY <1>1, <1>3, <1>4 DEF Clearing

\* A sign-in call is made, answered or finished.
LEMMA OneSignSame ==
  ASSUME CallsTyped, NEW j \in Call, Sign(j) \/ call[j] = None,
         \A i \in Call \ {j} : call'[i] = call[i],
         call'[j] = None \/ call'[j].op \in SignOp \cup {"start"}
  PROVE  WritesSame
<1>1. \A i \in Call : Writes(i) \/ (Writes(i))' => call'[i] = call[i]
  BY Apart DEF Writes, Sign, OpsApart
<1> QED BY <1>1 DEF WritesSame, WriteGoesOn, SameAim, Still, Writes

LEMMA SignStepWrites ==
  ASSUME Typed, NEW j \in Call, SignStep(j) \/ Restored(j) \/ LoggedIn(j)
  PROVE  WritesSame
<1>0. CallsTyped
  BY DEF Typed
<1>1. CASE \/ HandleLogin(j) \/ HandleLogout(j) \/ HandleSession(j) \/ HandleCallback(j)
           \/ \E st \in State : HandleStart(j, st)
  <2>1. PICK b : AnsweredBy(j, b)
    BY <1>1, HandleShape
  <2>2. Sign(j) /\ call' = [call EXCEPT ![j] = b] /\ b.op \in SignOp \cup {"start"}
    BY <2>1 DEF AnsweredBy, Sign
  <2>3. call'[j] = b /\ \A i \in Call \ {j} : call'[i] = call[i]
    BY <1>0, <2>2 DEF CallsTyped
  <2> QED BY <1>0, <2>2, <2>3, OneSignSame
<1>2. CASE TakeCookie(j)
  <2>1. Sign(j) /\ call[j] \in SignCall
    BY <1>0, <1>2, Found DEF TakeCookie, SignOp
  <2> DEFINE b == [call[j] EXCEPT !.pc = "taken"]
  <2>2. b.op = call[j].op
    BY <2>1 DEF SignCall
  <2>3. call' = [call EXCEPT ![j] = b]
    BY <1>2 DEF TakeCookie
  <2> HIDE DEF b
  <2>4. call'[j] = b /\ \A i \in Call \ {j} : call'[i] = call[i]
    BY <1>0, <2>3 DEF CallsTyped
  <2> QED BY <1>0, <2>1, <2>2, <2>4, OneSignSame DEF Sign
<1>3. CASE \/ Restored(j) \/ LoggedIn(j) \/ LoggedOut(j) \/ Redirected(j) \/ Lost(j)
  <2>1. Finished(j) /\ call[j] # None
    BY <1>3 DEF Restored, LoggedIn, LoggedOut, Redirected, Lost, At, Busy
  <2>2. call'[j] = None /\ \A i \in Call \ {j} : call'[i] = call[i]
    BY <1>0, <2>1, FinishTyped
  <2>3. Sign(j)
    <3>1. CASE Restored(j) \/ LoggedIn(j) \/ Redirected(j) \/ Lost(j)
      BY <2>1, <3>1 DEF Restored, LoggedIn, Redirected, Lost, Sign, SignOp
    <3>2. CASE LoggedOut(j)
      <4>1. call[j].pc = "taken"
        BY <3>2 DEF LoggedOut, At
      <4> QED BY <1>0, <2>1, <4>1, CallFacts DEF WriteCall
    <3> QED BY <1>3, <3>1, <3>2
  <2> QED BY <1>0, <2>2, <2>3, OneSignSame
<1>4. CASE TakenUnheard(j)
  <2>1. Finished(j) /\ ~call[j].heard
    BY <1>4 DEF TakenUnheard
  <2>2. call'[j] = None /\ \A i \in Call \ {j} : call'[i] = call[i]
    BY <1>0, <2>1, FinishTyped
  <2> QED BY <2>1, <2>2 DEF WritesSame, WriteGoesOn, SameAim, Still, Writes
<1> QED BY <1>1, <1>2, <1>3, <1>4 DEF SignStep

LEMMA LeftWrites ==
  ASSUME Typed, NEW t \in Tab, NEW j \in Call, NEW c, CallTyped(c), c.op \in SignOp \cup {"start"},
         LeftFor(t, j, c)
  PROVE  WritesLeft(t)
<1>1. call[j] = None /\ call'[j] = c
  BY LeftTyped DEF LeftFor, Busy, Typed
<1>2. \A i \in Call \ {j} :
        IF i \in OfTab(t) THEN call'[i] # None /\ Deaf(call[i], call'[i]) ELSE call'[i] = call[i]
  BY LeftTyped DEF Typed
<1> SUFFICES ASSUME NEW i \in Call
             PROVE  /\ WriteGoesOn(i)
                    /\ Writes(i) /\ call'[i] # None => Still(call[i], call'[i])
                    /\ Writes(i) /\ call[i].heard /\ call[i].tab # t => call'[i] = call[i]
  BY DEF WritesLeft
<1>3. CASE i = j
  BY <1>1, <1>3, Apart DEF WriteGoesOn, Writes, OpsApart
<1>4. CASE i # j /\ i \in OfTab(t)
  <2>1. call[i] # None /\ call[i].tab = t /\ call'[i] # None /\ Deaf(call[i], call'[i])
    BY <1>2, <1>4 DEF OfTab, Busy
  <2>2. ASSUME call'[i].op \in WriteOp PROVE call[i].op \in WriteOp /\ SameAim(call[i], call'[i])
    BY <2>1, <2>2 DEF Deaf, SameAim
  <2> QED BY <2>1, <2>2 DEF WriteGoesOn, Writes, Deaf, Still
<1>5. CASE i # j /\ i \notin OfTab(t)
  BY <1>2, <1>5 DEF WriteGoesOn, Writes, SameAim, Still
<1> QED BY <1>3, <1>4, <1>5

LEMMA OwnerWrites ==
  ASSUME Typed, NEW t \in Tab, NEW j \in Call, OwnerStep(t, j)
  PROVE  IF Login(t, j) \/ SignOut(t, j) THEN WritesSame ELSE WritesLeft(t)
<1>0. SessionTyped /\ CallsTyped
  BY DEF Typed
<1>1. CASE Open(t, j) \/ Reload(t, j) \/ GithubStart(t, j)
  <2>1. PICK op \in {"restore", "start"} : LeftFor(t, j, NewCall(t, op))
    BY <1>1 DEF Open, Reload, Loads, GithubStart, LeftFor
  <2> DEFINE c == NewCall(t, op)
  <2>2. CallTyped(c) /\ c.op \in SignOp \cup {"start"} /\ LeftFor(t, j, c)
    BY <1>0, <2>1, NewCallFacts DEF SignOp, CallTyped
  <2> HIDE DEF c
  <2>3. WritesLeft(t)
    BY <2>2, LeftWrites
  <2>4. ~Login(t, j) /\ ~SignOut(t, j)
    <3>1. call[j] = None /\ call'[j] = c
      BY <1>0, <2>2, LeftTyped DEF LeftFor, Busy
    <3>2. c.op \in {"restore", "start"}
      BY <1>0, NewCallFacts DEF SignOp, c
    <3>3. ASSUME NEW o \in {"login", "logout"}, Sends(t, j, o) PROVE FALSE
      <4> DEFINE n == NewCall(t, o)
      <4>1. n.op = o
        BY <1>0, NewCallFacts DEF SignOp
      <4>2. call' = [call EXCEPT ![j] = n]
        BY <3>3 DEF Sends
      <4> HIDE DEF n
      <4> QED BY <1>0, <3>1, <3>2, <4>1, <4>2 DEF CallsTyped
    <3> QED BY <3>3 DEF Login, SignOut
  <2> QED BY <2>3, <2>4
<1>2. CASE Login(t, j) \/ SignOut(t, j)
  <2>1. PICK op \in {"login", "logout"} : Sends(t, j, op)
    BY <1>2 DEF Login, SignOut
  <2> DEFINE c == NewCall(t, op)
  <2>2. c.op \in SignOp \cup {"start"}
    BY <1>0, NewCallFacts DEF SignOp
  <2>3. call[j] = None /\ call' = [call EXCEPT ![j] = c]
    BY <2>1 DEF Sends, Busy
  <2> HIDE DEF c
  <2>4. call'[j] = c /\ \A i \in Call \ {j} : call'[i] = call[i]
    BY <1>0, <2>3 DEF CallsTyped
  <2> QED BY <1>0, <1>2, <2>2, <2>3, <2>4, OneSignSame
<1>3. ASSUME NEW st \in State, Consent(t, j, st), ~Login(t, j), ~SignOut(t, j) PROVE WritesLeft(t)
  <2> DEFINE n == NewCall(t, "callback")
             c == [n EXCEPT !.state = st]
  <2>1. n \in SignCall /\ n.op = "callback" /\ n.pc = "sent" /\ ~n.ok
    BY <1>0, NewCallFacts DEF SignOp
  <2>2. LeftFor(t, j, c)
    BY <1>3 DEF Consent, LeftFor
  <2> HIDE DEF n
  <2>3. c \in SignCall /\ c.op = "callback" /\ c.pc = "sent" /\ ~c.ok /\ c.state = st
    BY <2>1 DEF SignCall
  <2> HIDE DEF c
  <2>4. CallTyped(c) /\ c.op \in SignOp \cup {"start"}
    BY <2>3 DEF CallTyped, SignFit, SignOp
  <2> QED BY <2>2, <2>4, LeftWrites
<1> QED BY <1>1, <1>2, <1>3 DEF OwnerStep

\* Nothing of the tables and views changes but loads that begin.
BeginsOnly ==
  /\ WritesSame /\ UNCHANGED <<plan, db, shows, selected, stale, ghosts>>
  /\ loads' = loads \/ \E t \in Tab, vs \in SUBSET View : Loading(t, vs)

SignShape == BeginsOnly \/ \E t \in Tab : Leaves(t) /\ WritesLeft(t)

LEMMA SessionShape ==
  ASSUME Typed, NEW j \in Call, SessionStep(j)
  PROVE  SignShape
<1>1. CASE SignStep(j) /\ UNCHANGED console
  BY <1>1, SignStepWrites DEF SignShape, BeginsOnly, console, views
<1>2. CASE Restored(j) \/ LoggedIn(j)
  <2>1. WritesSame
    BY <1>2, SignStepWrites
  <2>2. CASE UNCHANGED console
    BY <2>1, <2>2 DEF SignShape, BeginsOnly, console, views
  <2>3. CASE ShowApp(call[j].tab)
    <3>1. PICK t \in Tab : t = call[j].tab
      BY <1>2, CallFacts DEF Typed, Restored, LoggedIn, At, Busy
    <3>2. Kind \in SUBSET View
      BY DEF View
    <3> QED BY <2>1, <2>3, <3>1, <3>2 DEF SignShape, BeginsOnly, ShowApp
  <2>4. UNCHANGED console \/ ShowApp(call[j].tab)
    <3>1. UNCHANGED console \/ ShowApp(call[j].tab) \/ Returned(j)
      BY DEF SessionStep
    <3>2. ASSUME Returned(j) PROVE FALSE
      BY <1>2, <3>2 DEF Returned, Restored, LoggedIn
    <3> QED BY <3>1, <3>2
  <2> QED BY <2>2, <2>3, <2>4
<1>3. CASE Returned(j) /\ Leaves(call[j].tab)
  <2>1. PICK t \in Tab : t = call[j].tab
    BY <1>3, CallFacts DEF Typed, Returned, At, Busy
  <2>2. Sign(j)
    BY <1>3 DEF Returned, At, Busy, Sign, SignOp
  <2>3. call'[j] = None \/ call'[j].op \in SignOp \cup {"start"}
    <3>1. CASE call[j].ok \/ call[j].clears
      <4> DEFINE n == NewCall(call[j].tab, "restore")
                 b == [n EXCEPT !.key = IF call[j].ok THEN call[j].brings ELSE @]
      <4>1. n \in SignCall /\ n.op = "restore"
        BY <2>1, NewCallFacts DEF Typed, SignOp
      <4>2. call' = [call EXCEPT ![j] = b]
        BY <1>3, <3>1 DEF Returned
      <4> HIDE DEF n
      <4>3. b.op = "restore"
        BY <4>1 DEF SignCall
      <4> HIDE DEF b
      <4> QED BY <4>2, <4>3 DEF Typed, CallsTyped, SignOp
    <3>2. CASE ~(call[j].ok \/ call[j].clears)
      BY <1>3, <3>2, FinishTyped DEF Returned, Typed
    <3> QED BY <3>1, <3>2
  <2>4. \A i \in Call \ {j} : call'[i] = call[i]
    BY <1>3 DEF Returned, Finished, Typed, CallsTyped
  <2>5. WritesSame
    BY <2>2, <2>3, <2>4, OneSignSame DEF Typed
  <2> QED BY <1>3, <2>1, <2>5 DEF SignShape, WritesSame, WritesLeft
<1> QED BY <1>1, <1>2, <1>3 DEF SessionStep

LEMMA OwnerSignsShape ==
  ASSUME Typed, NEW t \in Tab, NEW j \in Call, OwnerSigns(t, j)
  PROVE  SignShape
<1>1. OwnerStep(t, j)
  BY DEF OwnerSigns, OwnerStep
<1>2. CASE Login(t, j) \/ SignOut(t, j)
  <2>1. WritesSame
    BY <1>1, <1>2, OwnerWrites
  <2>2. UNCHANGED console \/ Leaves(t)
    BY DEF OwnerSigns
  <2>3. CASE Leaves(t)
    BY <2>1, <2>3 DEF SignShape, WritesSame, WritesLeft
  <2>4. CASE UNCHANGED console
    BY <2>1, <2>4 DEF SignShape, BeginsOnly, console, views
  <2> QED BY <2>2, <2>3, <2>4
<1>3. CASE ~(Login(t, j) \/ SignOut(t, j))
  <2>1. WritesLeft(t)
    BY <1>1, <1>3, OwnerWrites
  <2>2. Leaves(t)
    BY <1>3 DEF OwnerSigns
  <2> QED BY <2>1, <2>2 DEF SignShape
<1> QED BY <1>2, <1>3

LEMMA CallsSameGoOn ==
  ASSUME Typed, call' = call
  PROVE  WritesSame
BY DEF WritesSame, WriteGoesOn, SameAim, Still, Writes

LEMMA IdleShape ==
  ASSUME Typed,
         \/ \E t \in Tab, v \in View : Look(t, v)
         \/ TimePasses
         \/ UNCHANGED vars
  PROVE  BeginsOnly
<1>1. WritesSame /\ UNCHANGED <<plan, db, shows, selected, stale, ghosts>>
  BY CallsSameGoOn DEF Look, TimePasses, SessionTick, vars, session, console, views
<1>2. loads' = loads \/ \E t \in Tab, vs \in SUBSET View : Loading(t, vs)
  BY DEF Look, TimePasses, vars, session, console, views
<1> QED BY <1>1, <1>2 DEF BeginsOnly

LEMMA LoadsGoOn ==
  ASSUME Typed, db' = db, loads' = loads \/ \E t \in Tab, vs \in SUBSET View : Loading(t, vs)
  PROVE  \A u \in Tab, v \in View, i \in Slot : LoadGoesOn(u, v, i)
<1> SUFFICES ASSUME NEW u \in Tab, NEW v \in View, NEW i \in Slot
             PROVE  LoadGoesOn(u, v, i)
  OBVIOUS
<1>0. SessionTyped /\ ViewsTyped
  BY DEF Typed
<1>1. loads'[u][v][i] = loads[u][v][i] \/ loads'[u][v][i] = NewLoad
  BY <1>0, LoadingFacts
<1>2. ~NewLoad.served /\ ~NewLoad.clean
  BY <1>0, NewLoadTyped
<1> QED BY <1>1, <1>2 DEF LoadGoesOn

\* The tables, the ticks and the lists shown are as they were.
LEMMA QuietHits ==
  ASSUME Typed, HitsInv, UNCHANGED <<db, selected, ghosts>>,
         \A t \in Tab, v \in View : v # "settings" => shows'[t][v] = shows[t][v],
         \A t \in Tab, v \in View, i \in Slot : LoadGoesOn(t, v, i),
         \A t \in Tab, k \in Kind, c \in Comment : Clearing(t, k, c) => (Clearing(t, k, c))',
         \A j \in Call : WriteGoesOn(j) \/ (Aimed(call[j]))'
  PROVE  HitsInv'
<1>1. Lasting
  BY DEF Lasting, Gone, Identified
<1>2. ASSUME NEW t \in Tab PROVE ListGoesOn(t) /\ TabGoesOn(t)
  <2>1. "lists" \in View /\ Kind \subseteq View \ {"settings"}
    BY DEF View, Kind
  <2>2. \A k \in Kind : selected[t][k] \subseteq Comment
    BY DEF Typed, ViewsTyped
  <2> QED BY <2>1, <2>2 DEF ListGoesOn, TabGoesOn
<1> QED BY <1>1, <1>2, HitsStep

LEMMA SameHits ==
  ASSUME Typed, HitsInv, BeginsOnly
  PROVE  HitsInv'
<1>1. \A t \in Tab, k \in Kind, c \in Comment : Clearing(t, k, c) => (Clearing(t, k, c))'
  BY ClearingStays DEF BeginsOnly, WritesSame
<1> QED BY <1>1, LoadsGoOn, QuietHits DEF BeginsOnly, WritesSame

LEMMA LeavesHits ==
  ASSUME Typed, HitsInv, NEW t \in Tab, Leaves(t), WritesLeft(t)
  PROVE  HitsInv'
<1>0. ViewsTyped
  BY DEF Typed
<1>1. Lasting
  BY DEF Leaves, Lasting, Gone, Identified
<1>2. ASSUME NEW u \in Tab \ {t}
      PROVE  /\ shows'[u] = shows[u] /\ selected'[u] = selected[u] /\ ghosts'[u] = ghosts[u]
             /\ loads'[u] = loads[u]
  BY <1>0 DEF Leaves, ViewsTyped
<1>3. shows'[t] = Blank /\ selected'[t] = NoneSelected /\ loads'[t] = NoLoads
  BY <1>0 DEF Leaves, ViewsTyped
<1>4. ASSUME NEW u \in Tab, NEW v \in View, NEW i \in Slot PROVE LoadGoesOn(u, v, i)
  <2>1. CASE u = t
    BY <1>3, <2>1, BlankTyped DEF LoadGoesOn
  <2>2. CASE u # t
    BY <1>2, <2>2 DEF LoadGoesOn, Leaves
  <2> QED BY <2>1, <2>2
<1>5. ASSUME NEW u \in Tab PROVE ListGoesOn(u) /\ TabGoesOn(u)
  <2>1. CASE u = t
    <3>1. Blank["lists"] = {} /\ \A k \in Kind : NoneSelected[k] = {}
      BY DEF Blank, NoneSelected, View
    <3> QED BY <1>3, <2>1, <3>1 DEF ListGoesOn, TabGoesOn
  <2>2. CASE u # t
    <3>1. \A k \in Kind, c \in Comment : Clearing(u, k, c) => (Clearing(u, k, c))'
      BY <2>2, ClearingStays DEF WritesLeft
    <3>2. \A k \in Kind : selected[u][k] \subseteq Comment
      BY <1>0 DEF ViewsTyped
    <3> QED BY <1>2, <2>2, <3>1, <3>2 DEF ListGoesOn, TabGoesOn, Leaves
  <2> QED BY <2>1, <2>2
<1> QED BY <1>1, <1>4, <1>5, HitsStep DEF WritesLeft

LEMMA EditHits ==
  ASSUME Typed, HitsInv, NEW t \in Tab, NEW f, NEW x, Edit(t, f, x)
  PROVE  HitsInv'
<1>1. WritesSame /\ UNCHANGED <<db, selected, ghosts, loads>>
  BY CallsSameGoOn DEF Edit
<1>2. \A u \in Tab, v \in View : v # "settings" => shows'[u][v] = shows[u][v]
  BY DEF Edit, Typed, ViewsTyped
<1>3. \A u \in Tab, k \in Kind, c \in Comment : Clearing(u, k, c) => (Clearing(u, k, c))'
  BY <1>1, ClearingStays DEF WritesSame
<1> QED BY <1>1, <1>2, <1>3, LoadsGoOn, QuietHits DEF WritesSame

LEMMA ClickHits ==
  ASSUME Typed, HitsInv, NEW t \in Tab, NEW j \in Call, Click(t, j)
  PROVE  HitsInv'
<1>0. CallsTyped /\ ViewsTyped
  BY DEF Typed
<1>1. PICK w : Clicks(t, j, w) /\ Clicked(w) /\ AboutShown(t, w)
  BY ClickFacts
<1>2. call[j] = None /\ call' = [call EXCEPT ![j] = w] /\ UNCHANGED console
  BY <1>1 DEF Clicks, Busy
<1>3. call'[j] = w /\ \A i \in Call \ {j} : call'[i] = call[i]
  BY <1>0, <1>2 DEF CallsTyped
<1>4. UNCHANGED <<db, shows, selected, ghosts, loads>>
  BY <1>2 DEF console, views
<1>5. ASSUME NEW c \in w.ids PROVE c \in w.may \/ Gone(c)
  <2>1. CASE w.ids \subseteq w.may
    BY <2>1
  <2>2. CASE ~(w.ids \subseteq w.may)
    <3>1. /\ w.op = "bulk" /\ w.kind \in Kind /\ c \in selected[t][w.kind]
          /\ w.may = (selected[t][w.kind] \cap Listed(t, w.kind)) \cup ghosts[t] \cup UnderWay(t)
      BY <1>1, <1>5, <2>2 DEF AboutShown
    <3>2. Seen(t, w.kind, c)
      BY <3>1 DEF HitsInv, TabSees
    <3>3. ASSUME Clearing(t, w.kind, c) PROVE c \in UnderWay(t)
      BY <3>3 DEF Clearing, Clears, UnderWay
    <3> QED BY <3>1, <3>2, <3>3 DEF Seen
  <2> QED BY <2>1, <2>2
<1>6. (Aimed(call[j]))'
  <2>1. ASSUME w.op = "remove" PROVE Identified(w.entry)
    <3>1. w.entry \in shows[t]["lists"] /\ w.entry \in Entry
      BY <1>1, <2>1 DEF AboutShown, Clicked, WriteFit
    <3> QED BY <3>1 DEF HitsInv
  <2> QED BY <1>1, <1>3, <1>4, <1>5, <2>1 DEF Aimed, AboutShown, Gone, Identified
<1>7. \A i \in Call : WriteGoesOn(i) \/ (Aimed(call[i]))'
  BY <1>3, <1>6 DEF WriteGoesOn, Writes, SameAim
<1>8. \A i \in Call : Writes(i) => call'[i] = call[i]
  BY <1>2, <1>3 DEF Writes
<1>9. \A u \in Tab, k \in Kind, c \in Comment : Clearing(u, k, c) => (Clearing(u, k, c))'
  BY <1>8, ClearingStays
<1> QED BY <1>4, <1>7, <1>9, LoadsGoOn, QuietHits

LEMMA ClearingKept ==
  ASSUME NEW t \in Tab, NEW k \in Kind, NEW c, Clearing(t, k, c),
         \A i \in Call : Clears(t, i) /\ call[i].kind = k /\ c \in call[i].ids => call'[i] = call[i]
  PROVE  (Clearing(t, k, c))'
<1>1. PICK j \in Call : Clears(t, j) /\ call[j].kind = k /\ c \in call[j].ids
  BY DEF Clearing
<1>2. call'[j] = call[j]
  BY <1>1
<1>3. (Clears(t, j))'
  BY <1>1, <1>2 DEF Clears, OfTab, Busy
<1> QED BY <1>1, <1>2, <1>3 DEF Clearing

LEMMA LoadSetGoesOn ==
  ASSUME Typed, NEW t \in Tab, NEW v \in View, NEW i \in Slot, NEW l, LoadTyped(l, v),
         LoadSet(t, v, i, l), db' = db, l = None \/ (l.served /\ l.content = Read(db, v))
  PROVE  \A u \in Tab, x \in View, k \in Slot : LoadGoesOn(u, x, k)
<1> SUFFICES ASSUME NEW u \in Tab, NEW x \in View, NEW k \in Slot
             PROVE  LoadGoesOn(u, x, k)
  OBVIOUS
<1>1. loads'[t][v][i] = l /\ (u # t \/ x # v \/ k # i => loads'[u][x][k] = loads[u][x][k])
  BY LoadSetFacts DEF Typed
<1>2. CASE u = t /\ x = v /\ k = i
  BY <1>1, <1>2 DEF LoadGoesOn
<1>3. CASE u # t \/ x # v \/ k # i
  BY <1>1, <1>3 DEF LoadGoesOn
<1> QED BY <1>2, <1>3

LEMMA RenderHits ==
  ASSUME Typed, HitsInv, NEW t \in Tab, NEW v \in View, NEW i \in Slot, Render(t, v, i)
  PROVE  HitsInv'
<1> DEFINE l == loads[t][v][i]
<1>0. ViewsTyped
  BY DEF Typed
<1>1. /\ l # None /\ l.served /\ UNCHANGED <<db, selected, call>>
      /\ shows' = [shows EXCEPT ![t][v] = l.content]
      /\ loads' = [loads EXCEPT ![t][v][i] = None]
  BY DEF Render, session
<1>2. \A u \in Tab, x \in View, k \in Slot : LoadGoesOn(u, x, k)
  <2>1. LoadTyped(None, v) /\ LoadSet(t, v, i, None)
    BY <1>1 DEF LoadSet, LoadTyped
  <2> QED BY <1>1, <2>1, LoadSetGoesOn
<1>3. /\ shows'[t][v] = l.content
      /\ \A u \in Tab, x \in View : u # t \/ x # v => shows'[u][x] = shows[u][x]
  BY <1>0, <1>1 DEF ViewsTyped
<1>4. /\ \A u \in Tab : ghosts[u] \subseteq ghosts'[u]
      /\ v \in Kind /\ ~l.clean => selected[t][v] \subseteq ghosts'[t]
  BY <1>0 DEF Render, ViewsTyped
<1>5. Lasting
  BY <1>1 DEF Lasting, Gone, Identified
<1>6. WritesSame
  BY <1>1, CallsSameGoOn
<1>7. \A u \in Tab, k \in Kind, c \in Comment : Clearing(u, k, c) => (Clearing(u, k, c))'
  BY <1>6, ClearingStays DEF WritesSame
<1>8. \A u \in Tab, k \in Kind : selected[u][k] \subseteq Comment /\ k \in View
  BY <1>0 DEF ViewsTyped, View
<1>9. ASSUME NEW u \in Tab PROVE ListGoesOn(u)
  <2>1. "lists" \in View
    BY DEF View
  <2>2. CASE u = t /\ v = "lists"
    BY <1>1, <1>3, <2>2 DEF ListGoesOn, Brings
  <2>3. CASE ~(u = t /\ v = "lists")
    BY <1>3, <2>1, <2>3 DEF ListGoesOn
  <2> QED BY <2>2, <2>3
<1>10. ASSUME NEW u \in Tab, u # t PROVE TabGoesOn(u)
  BY <1>1, <1>3, <1>4, <1>7, <1>8, <1>10 DEF TabGoesOn
<1>11. (TabSees(t))'
  <2> SUFFICES ASSUME NEW k \in Kind, NEW c \in selected[t][k]
               PROVE  (Seen(t, k, c))'
    BY <1>1 DEF TabSees
  <2>1. Seen(t, k, c) /\ c \in Comment
    BY <1>8 DEF HitsInv, TabSees
  <2>2. CASE Gone(c) \/ c \in ghosts[t] \/ Clearing(t, k, c)
    BY <1>1, <1>4, <1>7, <2>1, <2>2 DEF Seen, Gone
  <2>3. CASE db.comment[c] = StatusOf(k) /\ c \in Listed(t, k)
    <3>1. CASE k # v
      <4>1. (Listed(t, k))' = Listed(t, k)
        BY <1>3, <1>8, <3>1 DEF Listed
      <4> QED BY <1>1, <2>3, <4>1 DEF Seen
    <3>2. CASE k = v /\ ~l.clean
      BY <1>4, <3>2 DEF Seen
    <3>3. CASE k = v /\ l.clean
      <4>1. l.content = Cards(db, StatusOf(k))
        <5>1. Current(l, v)
          BY DEF HitsInv
        <5>2. l.content = Read(db, v)
          BY <1>1, <3>3, <5>1 DEF Current
        <5> HIDE DEF l
        <5> QED BY <3>3, <5>2 DEF Read, Kind
      <4> DEFINE card == [comment |-> c, pinned |-> c \in db.pinned]
      <4>2. card \in l.content /\ card.comment = c
        BY <2>1, <2>3, <4>1 DEF Cards
      <4> HIDE DEF card
      <4>3. c \in (Listed(t, k))'
        BY <1>3, <3>3, <4>2 DEF Listed
      <4> QED BY <1>1, <2>3, <4>3 DEF Seen
    <3> QED BY <3>1, <3>2, <3>3
  <2> QED BY <2>1, <2>2, <2>3 DEF Seen
<1> HIDE DEF l
<1> QED BY <1>2, <1>5, <1>6, <1>9, <1>10, <1>11, HitsStep DEF WritesSame

LEMMA LoadStepHits ==
  ASSUME Typed, HitsInv, NEW t \in Tab, NEW v \in View, NEW i \in Slot, LoadStep(t, v, i)
  PROVE  HitsInv'
<1>1. CASE Render(t, v, i)
  BY <1>1, RenderHits
<1>2. CASE Serve(t, v, i) \/ LoadFails(t, v, i)
  <2>1. UNCHANGED <<db, shows, selected, ghosts, call>>
    BY <1>2 DEF Serve, LoadFails, session
  <2>2. PICK l : LoadTyped(l, v) /\ LoadSet(t, v, i, l) /\ (l = None \/ (l.served /\ l.content = Read(db, v)))
    BY LoadStepFacts DEF Typed
  <2>3. \A u \in Tab, x \in View, k \in Slot : LoadGoesOn(u, x, k)
    BY <2>1, <2>2, LoadSetGoesOn
  <2>4. WritesSame
    BY <2>1, CallsSameGoOn
  <2>5. \A u \in Tab, k \in Kind, c \in Comment : Clearing(u, k, c) => (Clearing(u, k, c))'
    BY <2>4, ClearingStays DEF WritesSame
  <2> QED BY <2>1, <2>3, <2>4, <2>5, QuietHits DEF WritesSame
<1> QED BY <1>1, <1>2 DEF LoadStep

LEMMA TickHits ==
  ASSUME Typed, HitsInv, NEW t \in Tab, NEW k \in Kind, NEW c \in Comment, Tick(t, k, c)
  PROVE  HitsInv'
<1>0. ViewsTyped
  BY DEF Typed
<1>1. UNCHANGED <<db, shows, loads, call>> /\ c \in Listed(t, k)
  BY DEF Tick
<1>2. /\ \A u \in Tab \ {t} : selected'[u] = selected[u]
      /\ \A x \in Kind \ {k} : selected'[t][x] = selected[t][x]
      /\ selected'[t][k] \subseteq selected[t][k] \cup {c}
  BY <1>0 DEF Tick, ViewsTyped
<1>3. /\ \A u \in Tab : ghosts[u] \subseteq ghosts'[u]
      /\ db.comment[c] # StatusOf(k) => c \in ghosts'[t]
  BY <1>0 DEF Tick, ViewsTyped
<1>4. Lasting
  BY <1>1 DEF Lasting, Gone, Identified
<1>5. WritesSame
  BY <1>1, CallsSameGoOn
<1>6. \A u \in Tab, x \in Kind, d \in Comment : Clearing(u, x, d) => (Clearing(u, x, d))'
  BY <1>5, ClearingStays DEF WritesSame
<1>7. \A u \in Tab, x \in Kind : selected[u][x] \subseteq Comment
  BY <1>0 DEF ViewsTyped
<1>8. \A u \in Tab : ListGoesOn(u)
  BY <1>1 DEF ListGoesOn
<1>9. ASSUME NEW u \in Tab, u # t PROVE TabGoesOn(u)
  BY <1>1, <1>2, <1>3, <1>6, <1>7, <1>9 DEF TabGoesOn
<1>10. (TabSees(t))'
  <2> SUFFICES ASSUME NEW x \in Kind, NEW d \in selected'[t][x]
               PROVE  (Seen(t, x, d))'
    BY DEF TabSees
  <2>1. CASE d \in selected[t][x]
    <3>1. Seen(t, x, d) /\ d \in Comment
      BY <1>7, <2>1 DEF HitsInv, TabSees
    <3>2. (Listed(t, x))' = Listed(t, x)
      BY <1>1 DEF Listed
    <3> QED BY <1>1, <1>3, <1>6, <3>1, <3>2 DEF Seen, Gone
  <2>2. CASE d \notin selected[t][x]
    <3>1. x = k /\ d = c
      BY <1>2, <2>2
    <3>2. (Listed(t, k))' = Listed(t, k)
      BY <1>1 DEF Listed
    <3> QED BY <1>1, <1>3, <3>1, <3>2 DEF Seen
  <2> QED BY <2>1, <2>2
<1>11. \A u \in Tab, v \in View, i \in Slot : LoadGoesOn(u, v, i)
  BY <1>1, LoadsGoOn
<1> QED BY <1>4, <1>5, <1>8, <1>9, <1>10, <1>11, HitsStep DEF WritesSame

LEMMA SameGoesOn ==
  ASSUME NEW j \in Call, call'[j] = call[j]
  PROVE  WriteGoesOn(j)
BY DEF WriteGoesOn, SameAim, Writes

\* The tables become d.
LEMMA BecomeHits ==
  ASSUME Typed, HitsInv, NEW d \in Tables, NEW t, NEW own \in SUBSET View, NEW bulk \in BOOLEAN,
         Become(d, t, own, bulk), TablesTyped', Lasting, \A j \in Call : WriteGoesOn(j),
         \A u \in Tab, k \in Kind, c \in Comment : Clearing(u, k, c) => (Clearing(u, k, c))',
         bulk => \A k \in Kind, c \in Comment : t \in Tab /\ c \in selected[t][k] =>
           \/ d.comment[c] = db.comment[c] \/ d.comment[c] = "gone"
           \/ c \in ghosts[t] \/ (Clearing(t, k, c))'
  PROVE  HitsInv'
<1>0. TablesTyped /\ ViewsTyped
  BY DEF Typed
<1>1. db' = d /\ shows' = shows /\ selected' = selected
  BY DEF Become
<1>2. ASSUME NEW u \in Tab, NEW v \in View, NEW i \in Slot PROVE LoadGoesOn(u, v, i)
  <2> DEFINE l == loads[u][v][i]
             m == loads'[u][v][i]
  <2>1. /\ m # None <=> l # None
        /\ m # None => m.served = l.served /\ m.content = l.content
        /\ m # None /\ m.clean => l.clean /\ v \notin Changed(d)
    BY <1>0, BecomeTyped
  <2>2. v \notin Changed(d) => Read(d, v) = Read(db, v)
    BY DEF Changed, Read, Kind
  <2> HIDE DEF l, m
  <2>3. m # None => /\ l # None /\ m.served = l.served /\ m.content = l.content
                    /\ m.clean => l.clean /\ Read(db', v) = Read(db, v)
    BY <1>1, <2>1, <2>2
  <2> QED BY <2>3 DEF LoadGoesOn, l, m
<1>3. ASSUME NEW u \in Tab PROVE ListGoesOn(u)
  BY <1>1 DEF ListGoesOn
<1>4. ASSUME NEW u \in Tab PROVE TabGoesOn(u)
  <2> SUFFICES ASSUME NEW k \in Kind, NEW c \in selected[u][k]
               PROVE  /\ c \in ghosts[u] => c \in ghosts'[u]
                      /\ \/ d.comment[c] = db.comment[c] \/ d.comment[c] = "gone"
                         \/ c \in ghosts'[u] \/ (Clearing(u, k, c))'
    <3>1. selected[u] \in [Kind -> SUBSET Comment]
      BY <1>0 DEF ViewsTyped
    <3> QED BY <1>1, <3>1 DEF TabGoesOn, Gone
  <2>1. selected[u] \in [Kind -> SUBSET Comment]
    BY <1>0 DEF ViewsTyped
  <2>2. c \in Comment /\ c \in UNION {selected[u][x] : x \in Kind}
    BY <2>1
  <2>3. ghosts'[u] = IF u = t /\ bulk THEN ghosts[u]
                     ELSE ghosts[u] \cup (Moved(d) \cap UNION {selected[u][x] : x \in Kind})
    BY Zenon DEF Become
  <2>4. d.comment[c] # db.comment[c] => c \in Moved(d)
    BY <2>2 DEF Moved
  <2> QED BY <2>2, <2>3, <2>4
<1> QED BY <1>2, <1>3, <1>4, HitsStep

LEMMA ChangeLasts ==
  ASSUME Typed, NEW w \in WriteCall, NEW d, db' = d, Change(w, d)
  PROVE  Lasting
<1>0. db \in Tables /\ d \in Tables
  BY DEF Typed, TablesTyped, Change
<1>1. ASSUME NEW c \in Comment, Gone(c) PROVE d.comment[c] = "gone"
  <2>1. CASE w.op \notin {"moderate", "bulk", "reply"}
    BY <1>1, <2>1 DEF Change, Gone
  <2>2. CASE w.op = "reply"
    BY <1>1, <2>2 DEF Change, Gone
  <2>3. CASE w.op \in {"moderate", "bulk"}
    <3>1. ~Stored(c)
      BY <1>1 DEF Gone, Stored
    <3> QED BY <1>1, <2>3, <3>1 DEF Change, Gone
  <2> QED BY <2>1, <2>2, <2>3
<1>2. ASSUME NEW e \in Entry, Identified(e) PROVE (Identified(e))'
  <2>1. e.id \in Nat /\ db.lastId \in Nat /\ d.lastId \in Nat
    BY <1>0 DEF Entry, Tables
  <2>2. CASE w.op \notin {"add", "remove"}
    BY <1>2, <2>2 DEF Change, Identified
  <2>3. CASE w.op = "add"
    <3> DEFINE new == [id |-> d.lastId, value |-> w.entry.value]
    <3>1. d.lastId = db.lastId + 1 /\ d.entries = db.entries \cup {new} /\ new.id = d.lastId
      BY <2>3 DEF Change
    <3> HIDE DEF new
    <3>2. e.id <= d.lastId /\ e.id # new.id
      BY <1>2, <2>1, <3>1 DEF Identified
    <3> QED BY <1>2, <3>1, <3>2 DEF Identified
  <2>4. CASE w.op = "remove"
    BY <1>2, <2>4 DEF Change, Identified
  <2> QED BY <2>2, <2>3, <2>4
<1> QED BY <1>1, <1>2 DEF Lasting, Gone

\* An answered write is about what it was.
LEMMA AnsweredAim ==
  ASSUME NEW w \in WriteCall, NEW ok \in BOOLEAN, NEW b,
         b = [w EXCEPT !.pc = "answered"] \/ b = [[w EXCEPT !.ok = ok] EXCEPT !.pc = "answered"]
  PROVE  SameAim(w, b) /\ b.op \in WriteOp
<1>1. w.op \in WriteOp
  BY DEF WriteCall
<1>2. CASE b = [w EXCEPT !.pc = "answered"]
  BY <1>1, <1>2 DEF WriteCall, SameAim
<1>3. CASE b = [[w EXCEPT !.ok = ok] EXCEPT !.pc = "answered"]
  BY <1>1, <1>3 DEF WriteCall, SameAim
<1> QED BY <1>2, <1>3

LEMMA DeniedHits ==
  ASSUME Typed, HitsInv, NEW j \in Call, Denied(j)
  PROVE  HitsInv'
<1>1. /\ Writes(j) /\ call[j] \in WriteCall /\ call[j].pc # "answered" /\ UNCHANGED console
      /\ call'[j] # None /\ call'[j] = [call[j] EXCEPT !.pc = "answered"]
      /\ \A i \in Call \ {j} : call'[i] = call[i]
  BY DeniedFacts, CallFacts DEF Denied, Typed
<1>2. \A i \in Call : WriteGoesOn(i)
  <2>1. WriteGoesOn(j)
    BY <1>1, AnsweredAim DEF WriteGoesOn
  <2> QED BY <1>1, <2>1, SameGoesOn
<1>3. \A t \in Tab, k \in Kind, c \in Comment : Clearing(t, k, c) => (Clearing(t, k, c))'
  <2>1. \A t \in Tab, i \in Call : Clears(t, i) => call'[i] = call[i]
    BY <1>1 DEF Clears
  <2> QED BY <2>1, ClearingKept
<1>4. UNCHANGED <<db, shows, selected, ghosts, loads>>
  BY <1>1 DEF console, views
<1> QED BY <1>2, <1>3, <1>4, LoadsGoOn, QuietHits

LEMMA DoneHits ==
  ASSUME Typed, HitsInv, NEW j \in Call, NEW d, Done(j, d)
  PROVE  HitsInv'
<1> DEFINE w == call[j]
           bulk == w.op = "bulk" /\ w.heard
<1>1. /\ TablesTyped' /\ db' = d /\ Writes(j) /\ w.pc = "sent" /\ w \in WriteCall /\ WriteFit(w)
      /\ \A i \in Call \ {j} : call'[i] = call[i]
      /\ call'[j] # None /\ call'[j] = [[w EXCEPT !.ok = TRUE] EXCEPT !.pc = "answered"]
      /\ Become(d, w.tab, Promised(w), bulk) /\ Change(w, d)
      /\ bulk \in BOOLEAN /\ Promised(w) \in SUBSET View
  BY DoneFacts, CallFacts, PromisedViews DEF Typed, Done
<1>2. d \in Tables /\ Lasting
  BY <1>1, ChangeLasts DEF Change
<1>3. \A i \in Call : WriteGoesOn(i)
  <2>1. WriteGoesOn(j)
    BY <1>1, AnsweredAim DEF WriteGoesOn
  <2> QED BY <1>1, <2>1, SameGoesOn
<1>4. \A t \in Tab, k \in Kind, c \in Comment : Clearing(t, k, c) => (Clearing(t, k, c))'
  <2>1. \A t \in Tab, i \in Call : Clears(t, i) => call'[i] = call[i]
    BY <1>1 DEF Clears
  <2> QED BY <2>1, ClearingKept
<1>5. PICK t \in Tab : t = w.tab
  BY <1>1 DEF WriteCall
<1>6. ASSUME bulk, NEW k \in Kind, NEW c \in Comment, c \in selected[t][k],
             d.comment[c] # db.comment[c], d.comment[c] # "gone", c \notin ghosts[t]
      PROVE  (Clearing(t, k, c))'
  <2>1. c \in w.ids /\ Stored(c) /\ d.comment[c] = StatusFor(w.verb)
    BY <1>1, <1>6 DEF Change
  <2>2. w.kind \in Kind /\ w.verb \in VerbsOf(w.kind)
    BY <1>1, <1>6 DEF WriteFit, HitsInv, Aimed
  <2>3. Seen(t, k, c)
    BY <1>6 DEF HitsInv, TabSees
  <2>4. CASE k = w.kind
    <3> DEFINE b == call'[j]
    <3>1. /\ b # None /\ b.tab = t /\ b.heard /\ b.op = "bulk" /\ b.kind = k /\ c \in b.ids
          /\ b.pc = "answered" /\ b.ok
      <4>1. b = [[w EXCEPT !.ok = TRUE] EXCEPT !.pc = "answered"]
        BY <1>1
      <4> HIDE DEF b
      <4> QED BY <1>1, <1>5, <1>6, <2>1, <2>4, <4>1 DEF WriteCall, b
    <3> QED BY <3>1 DEF Clearing, Clears, OfTab, Busy
  <2>5. CASE Clearing(t, k, c)
    BY <1>4, <2>5
  <2>6. CASE k # w.kind /\ db.comment[c] = StatusOf(k)
    BY <1>6, <2>1, <2>2, <2>6 DEF VerbsOf, StatusFor, StatusOf, Kind
  <2>7. ~Gone(c)
    BY <2>1 DEF Stored, Gone
  <2> QED BY <1>6, <2>3, <2>4, <2>5, <2>6, <2>7 DEF Seen
<1> HIDE DEF w, bulk
<1> QED BY <1>1, <1>2, <1>3, <1>4, <1>5, <1>6, BecomeHits

LEMMA PutHits ==
  ASSUME Typed, HitsInv, NEW j \in Call, NEW f, NEW last \in BOOLEAN, Put(j, f, last)
  PROVE  HitsInv'
<1> DEFINE w == call[j]
           d == WithSetting(w, f)
<1>1. /\ TablesTyped' /\ Writes(j) /\ w.op \in {"save", "reset"} /\ w \in WriteCall
      /\ PutInto(w, f) /\ PutBy(w, call'[j], last) /\ \A i \in Call \ {j} : PutBeside(i)
      /\ d \in Tables /\ Promised(w) \in SUBSET View
  BY PutFacts, CallFacts, PromisedViews DEF Typed, Put
<1>2. Become(d, w.tab, Promised(w), FALSE) /\ db' = d
      /\ d.comment = db.comment /\ d.entries = db.entries /\ d.lastId = db.lastId
  BY <1>1 DEF PutInto
<1> HIDE DEF d
<1>3. Lasting
  BY <1>2 DEF Lasting, Gone, Identified
<1>4. ASSUME NEW i \in Call
      PROVE  WriteGoesOn(i) /\ (call[i] # None /\ call[i].op = "bulk" => call'[i] = call[i])
  <2>1. CASE i = j
    <3>1. SameAim(w, call'[j])
      BY <1>1 DEF PutBy, SameAim
    <3> QED BY <1>1, <2>1, <3>1 DEF WriteGoesOn
  <2>2. CASE i # j /\ call'[i] = call[i]
    BY <2>2 DEF WriteGoesOn, SameAim, Writes
  <2>3. CASE /\ i # j /\ Writes(i) /\ call[i].op \in {"save", "reset"} /\ call[i] \in WriteCall
             /\ call'[i] = [call[i] EXCEPT !.clean = FALSE]
    <3>1. SameAim(call[i], call'[i])
      BY <2>3 DEF SameAim, WriteCall
    <3> QED BY <2>3, <3>1 DEF WriteGoesOn
  <2> QED BY <1>1, <2>1, <2>2, <2>3 DEF PutBeside
<1>5. \A t \in Tab, k \in Kind, c \in Comment : Clearing(t, k, c) => (Clearing(t, k, c))'
  <2>1. \A t \in Tab, i \in Call : Clears(t, i) => call'[i] = call[i]
    BY <1>4 DEF Clears, OfTab, Busy
  <2> QED BY <2>1, ClearingKept
<1> HIDE DEF w
<1> QED BY <1>1, <1>2, <1>3, <1>4, <1>5, BecomeHits

LEMMA WorkerHits ==
  ASSUME Typed, HitsInv, NEW j \in Call, WorkerStep(j)
  PROVE  HitsInv'
BY WorkerShape, DeniedHits, DoneHits, PutHits

LEMMA VisitorHits ==
  ASSUME Typed, HitsInv, NEW c \in Comment, Visitor(c)
  PROVE  HitsInv'
<1>1. PICK d \in Tables :
        /\ Become(d, None, {}, FALSE) /\ d.comment = [db.comment EXCEPT ![c] = "pending"]
        /\ db.comment \in [Comment -> {"none", "pending", "approved", "gone"}]
        /\ d.entries = db.entries /\ d.lastId = db.lastId
  BY VisitorTyped
<1>2. TablesTyped'
  BY VisitorTyped DEF Typed
<1>3. db' = d /\ call' = call /\ db.comment[c] = "none"
  BY <1>1 DEF Become, Visitor
<1>4. Lasting
  BY <1>1, <1>3 DEF Lasting, Gone, Identified
<1>5. WritesSame
  BY <1>3, CallsSameGoOn
<1>6. \A t \in Tab, k \in Kind, x \in Comment : Clearing(t, k, x) => (Clearing(t, k, x))'
  BY <1>5, ClearingStays DEF WritesSame
<1> QED BY <1>1, <1>2, <1>4, <1>5, <1>6, BecomeHits DEF WritesSame

LEMMA EndHits ==
  ASSUME Typed, HitsInv, NEW j \in Call, WriteDone(j) \/ WriteRefused(j) \/ WriteLost(j)
  PROVE  HitsInv'
<1>0. ViewsTyped /\ CallsTyped /\ Writes(j) /\ call[j].tab \in Tab
  BY WriteEndsTyped, CallFacts DEF Typed
<1>1. PICK t \in Tab : t = call[j].tab
  BY <1>0
<1>2. UNCHANGED <<db, shows>> /\ Finished(j)
  BY DEF WriteDone, WriteRefused, WriteLost
<1>3. call'[j] = None /\ \A i \in Call \ {j} : call'[i] = call[i]
  BY <1>0, <1>2, FinishTyped
<1>4. Lasting
  BY <1>2 DEF Lasting, Gone, Identified
<1>5. \A u \in Tab, v \in View, i \in Slot : LoadGoesOn(u, v, i)
  <2>1. loads' = loads \/ Loading(t, Reloads(call[j]))
    BY <1>1 DEF WriteDone, WriteRefused, WriteLost
  <2>2. Reloads(call[j]) \in SUBSET View
    <3>1. call[j] \in WriteCall /\ WriteFit(call[j])
      BY <1>0, CallFacts
    <3> QED BY <3>1 DEF Reloads, WriteCall, WriteOp, PollOp, WriteFit, View, Kind
  <2> QED BY <1>2, <2>1, <2>2, LoadsGoOn
<1>6. \A i \in Call : WriteGoesOn(i)
  BY <1>3 DEF WriteGoesOn, SameAim, Writes
<1>7. ASSUME NEW u \in Tab, NEW k \in Kind, NEW c \in Comment, Clearing(u, k, c)
      PROVE  \/ (Clearing(u, k, c))'
             \/ Clears(t, j) /\ u = t /\ call[j].kind = k /\ c \in call[j].ids
  <2>1. CASE Clears(u, j) /\ call[j].kind = k /\ c \in call[j].ids
    BY <1>1, <2>1 DEF Clears, OfTab
  <2>2. CASE ~(Clears(u, j) /\ call[j].kind = k /\ c \in call[j].ids)
    BY <1>3, <1>7, <2>2, ClearingKept
  <2> QED BY <2>1, <2>2
<1>8. ASSUME NEW u \in Tab PROVE selected[u] \in [Kind -> SUBSET Comment]
  BY <1>0 DEF ViewsTyped
<1>9. ASSUME NEW u \in Tab PROVE ghosts[u] \subseteq ghosts'[u]
  BY <1>0 DEF WriteDone, WriteRefused, WriteLost, ViewsTyped
<1>10. ASSUME NEW u \in Tab PROVE ListGoesOn(u) /\ TabGoesOn(u)
  <2>1. ListGoesOn(u)
    BY <1>2 DEF ListGoesOn
  <2>2. CASE WriteDone(j)
    <3>1. /\ selected' = [selected EXCEPT ![t] = SelectionAfter(call[j])]
          /\ call[j].op = "bulk" => SelectionAfter(call[j]) = [selected[t] EXCEPT ![call[j].kind] = {}]
          /\ call[j].op # "bulk" => SelectionAfter(call[j]) = selected[t]
      BY <1>1, <2>2 DEF WriteDone, SelectionAfter
    <3>2. CASE u # t
      <4>1. selected'[u] = selected[u]
        BY <1>0, <3>1, <3>2 DEF ViewsTyped
      <4> QED BY <1>2, <1>7, <1>8, <1>9, <2>1, <3>2, <4>1 DEF TabGoesOn
    <3>3. CASE u = t /\ call[j].op # "bulk"
      <4>1. selected'[u] = selected[u]
        BY <1>0, <3>1, <3>3 DEF ViewsTyped
      <4>2. ~Clears(t, j)
        BY <3>3 DEF Clears
      <4> QED BY <1>2, <1>7, <1>8, <1>9, <2>1, <4>1, <4>2 DEF TabGoesOn
    <3>4. CASE u = t /\ call[j].op = "bulk"
      <4>1. \A k \in Kind : selected'[u][k] = IF k = call[j].kind THEN {} ELSE selected[u][k]
        BY <1>0, <1>8, <3>1, <3>4 DEF ViewsTyped
      <4> QED BY <1>2, <1>7, <1>8, <1>9, <2>1, <3>4, <4>1 DEF TabGoesOn
    <3> QED BY <3>2, <3>3, <3>4
  <2>3. CASE WriteRefused(j)
    <3>1. selected' = selected /\ ~Clears(t, j)
      BY <2>3 DEF WriteRefused, Clears
    <3> QED BY <1>2, <1>7, <1>8, <1>9, <2>1, <3>1 DEF TabGoesOn
  <2>4. CASE WriteLost(j)
    <3>1. selected' = selected
      BY <2>4 DEF WriteLost
    <3>2. ASSUME Clears(t, j) PROVE call[j].ids \subseteq ghosts'[t]
      <4>1. call[j].heard /\ call[j].op = "bulk"
        BY <3>2 DEF Clears, OfTab
      <4> QED BY <1>0, <1>1, <2>4, <4>1 DEF WriteLost, ViewsTyped
    <3> QED BY <1>2, <1>7, <1>8, <1>9, <2>1, <3>1, <3>2 DEF TabGoesOn
  <2> QED BY <2>1, <2>2, <2>3, <2>4
<1> QED BY <1>4, <1>5, <1>6, <1>10, HitsStep

LEMMA InitHits ==
  ASSUME Init
  PROVE  HitsInv
<1>0. Typed
  BY InitTyped
<1>1. /\ \A t \in Tab, k \in Kind : selected[t][k] = {}
      /\ \A t \in Tab, v \in View, i \in Slot : loads[t][v][i] = None
  BY BlankTyped DEF Init, NoneSelected
<1>2. \A j \in Call : call[j] = None
  BY DEF Init, SessionInit, SessionOpened
<1>3. ASSUME NEW t \in Tab, NEW e \in shows[t]["lists"] PROVE Identified(e)
  <2>1. "lists" \in View /\ Blank["lists"] = {} /\ Read(db, "lists") = db.entries
    BY DEF View, Blank, Read, Kind
  <2>2. shows[t]["lists"] = Blank["lists"] \/ shows[t]["lists"] = Read(db, "lists")
    BY <2>1 DEF Init
  <2>3. e \in db.entries
    BY <1>3, <2>1, <2>2
  <2> QED BY <1>0, <2>3 DEF Identified, Typed, TablesTyped
<1>4. "lists" \in View
  BY DEF View
<1> QED BY <1>1, <1>2, <1>3, <1>4 DEF HitsInv, TabSees, Current, Brings, Writes

LEMMA HitsAlways ==
  ASSUME Typed, HitsInv, [Next]_vars
  PROVE  HitsInv'
<1>1. SignShape => HitsInv'
  BY SameHits, LeavesHits DEF SignShape
<1> QED BY <1>1, Steps, SessionShape, WorkerHits, EndHits, OwnerSignsShape, ClickHits, IdleShape,
           SameHits, LoadStepHits, TickHits, EditHits, VisitorHits

\* Who answers a write, and how.
LEMMA Answering ==
  ASSUME Typed, [Next]_vars, NEW j \in Call, Asked(j, WriteOp),
         call'[j] # None, call'[j].pc = "answered"
  PROVE  Denied(j) \/ \E d : Done(j, d)
<1>0. Writes(j) /\ call[j] # None /\ call[j].pc = "sent"
  BY DEF Asked, At, Busy, Writes
<1>1. ASSUME call'[j] = call[j] PROVE FALSE
  BY <1>0, <1>1
<1>2. ASSUME WritesSame PROVE FALSE
  BY <1>0, <1>2 DEF WritesSame, Still
<1>3. ASSUME NEW t \in Tab, WritesLeft(t) PROVE FALSE
  BY <1>0, <1>3 DEF WritesLeft, Still
<1>4. ASSUME NEW i \in Call, SessionStep(i) PROVE FALSE
  <2>1. CASE SignStep(i) \/ Restored(i) \/ LoggedIn(i)
    BY <1>2, <2>1, SignStepWrites
  <2>2. CASE Returned(i)
    <3>1. i # j
      BY <1>0, <2>2 DEF Returned, At
    <3>2. call'[j] = call[j]
      BY <2>2, <3>1 DEF Returned, Finished, Typed, CallsTyped
    <3> QED BY <1>1, <3>2
  <2> QED BY <1>4, <2>1, <2>2 DEF SessionStep
<1>5. ASSUME NEW i \in Call, WorkerStep(i) PROVE Denied(j) \/ \E d : Done(j, d)
  <2>1. CASE Denied(i)
    <3>1. i # j => call'[j] = call[j]
      BY <2>1, DeniedFacts DEF Typed
    <3> QED BY <1>1, <2>1, <3>1
  <2>2. ASSUME NEW d, Done(i, d) PROVE Done(j, d)
    <3>1. i # j => call'[j] = call[j]
      BY <2>2, DoneFacts
    <3> QED BY <1>1, <2>2, <3>1
  <2>3. ASSUME NEW f, NEW last \in BOOLEAN, Put(i, f, last) PROVE FALSE
    <3>1. PutBy(call[i], call'[i], last) /\ \A x \in Call \ {i} : PutBeside(x)
      BY <2>3, PutFacts
    <3>2. CASE i = j
      <4>1. ~last
        BY <1>0, <2>3, <3>2 DEF Put
      <4> QED BY <3>1, <3>2, <4>1 DEF PutBy
    <3>3. CASE i # j
      <4>1. call'[j].pc = call[j].pc
        <5>1. CASE call'[j] = [call[j] EXCEPT !.clean = FALSE] /\ call[j] \in WriteCall
          BY <5>1 DEF WriteCall
        <5> QED BY <3>1, <3>3, <5>1 DEF PutBeside
      <4> QED BY <1>0, <4>1
    <3> QED BY <3>2, <3>3
  <2> QED BY <1>5, <2>1, <2>2, <2>3, WorkerShape
<1>6. ASSUME NEW i \in Call, WriteDone(i) \/ WriteRefused(i) \/ WriteLost(i) PROVE FALSE
  <2>1. Finished(i)
    BY <1>6 DEF WriteDone, WriteRefused, WriteLost
  <2> QED BY <1>1, <2>1, FinishTyped DEF Typed
<1>7. ASSUME NEW t \in Tab, NEW i \in Call, OwnerSigns(t, i) PROVE FALSE
  <2>1. OwnerStep(t, i)
    BY <1>7 DEF OwnerSigns, OwnerStep
  <2> QED BY <1>2, <1>3, <2>1, OwnerWrites
<1>8. ASSUME NEW t \in Tab, NEW i \in Call, Click(t, i) PROVE FALSE
  <2>1. PICK w : Clicks(t, i, w)
    BY <1>8, ClickFacts
  <2>2. call[i] = None /\ call' = [call EXCEPT ![i] = w]
    BY <2>1 DEF Clicks, Busy
  <2>3. call'[j] = call[j]
    BY <1>0, <2>2 DEF Typed, CallsTyped
  <2> QED BY <1>1, <2>3
<1>9. ASSUME call' = call PROVE FALSE
  BY <1>1, <1>9
<1>10. ASSUME \/ \E t \in Tab, v \in View : Look(t, v)
              \/ \E t \in Tab, v \in View, i \in Slot : LoadStep(t, v, i)
              \/ \E t \in Tab, k \in Kind, c \in Comment : Tick(t, k, c)
              \/ \E t \in Tab, f \in {"difficulty", "reactions"},
                    x \in {"default", "other", "blank", "bad"} : Edit(t, f, x)
              \/ \E c \in Comment : Visitor(c)
              \/ TimePasses \/ UNCHANGED vars
       PROVE  FALSE
  <2>1. call' = call
    <3>1. ASSUME NEW t \in Tab, NEW v \in View, NEW i \in Slot, LoadStep(t, v, i) PROVE call' = call
      BY <3>1 DEF LoadStep, Serve, Render, LoadFails, session
    <3>2. ASSUME NEW t \in Tab, NEW v \in View, Look(t, v) PROVE call' = call
      BY <3>2 DEF Look
    <3>3. ASSUME NEW t \in Tab, NEW k \in Kind, NEW c \in Comment, Tick(t, k, c) PROVE call' = call
      BY <3>3 DEF Tick
    <3>4. ASSUME NEW t \in Tab, NEW f, NEW x, Edit(t, f, x) PROVE call' = call
      BY <3>4 DEF Edit
    <3>5. ASSUME NEW c \in Comment, Visitor(c) PROVE call' = call
      BY <3>5 DEF Visitor
    <3>6. TimePasses \/ UNCHANGED vars => call' = call
      BY DEF TimePasses, SessionTick, vars, session
    <3> QED BY <1>10, <3>1, <3>2, <3>3, <3>4, <3>5, <3>6
  <2> QED BY <1>9, <2>1
<1> QED BY <1>4, <1>5, <1>6, <1>7, <1>8, <1>10, Steps

LEMMA HitStep ==
  ASSUME Typed, HitsInv, [Next]_vars, NEW j \in Call, Asked(j, WriteOp),
         call'[j] # None, call'[j].pc = "answered"
  PROVE  /\ {c \in Comment : Stored(c) /\ db'.comment[c] # db.comment[c]} \subseteq call[j].may
         /\ db.entries \ db'.entries \subseteq {call[j].entry}
<1> DEFINE w == call[j]
<1>0. Writes(j) /\ w \in WriteCall /\ WriteFit(w) /\ Aimed(w)
  BY Found DEF Typed, Asked, HitsInv
<1>1. CASE Denied(j)
  BY <1>1 DEF Denied, console
<1>2. ASSUME NEW d, Done(j, d)
      PROVE  /\ {c \in Comment : Stored(c) /\ db'.comment[c] # db.comment[c]} \subseteq w.may
             /\ db.entries \ db'.entries \subseteq {w.entry}
  <2>1. db' = d /\ Change(w, d)
    BY <1>2, DoneFacts DEF Done
  <2>2. ASSUME NEW c \in Comment, Stored(c), d.comment[c] # db.comment[c] PROVE c \in w.may
    <3>1. w.op \in {"moderate", "bulk", "reply"}
      BY <2>1, <2>2 DEF Change
    <3>2. w.op # "reply"
      BY <2>1, <2>2 DEF Change, Stored
    <3>3. c \in w.ids
      BY <2>1, <2>2, <3>1, <3>2 DEF Change
    <3>4. ~Gone(c)
      BY <2>2 DEF Stored, Gone
    <3> QED BY <1>0, <3>3, <3>4 DEF Aimed
  <2>3. ASSUME NEW e \in db.entries, e \notin d.entries PROVE e = w.entry
    <3>1. CASE w.op = "remove"
      <4>1. e.id = w.entry.id
        BY <2>1, <2>3, <3>1 DEF Change
      <4> QED BY <1>0, <3>1, <4>1 DEF Aimed, Identified
    <3>2. CASE w.op # "remove"
      BY <2>1, <2>3, <3>2 DEF Change
    <3> QED BY <3>1, <3>2
  <2> HIDE DEF w
  <2> QED BY <2>1, <2>2, <2>3
<1> QED BY <1>1, <1>2, Answering

\* A write takes away the entry whose x was clicked and moves the comments the
\* owner could see that it would, whatever was loaded, answered late or done
\* by others in between.
THEOREM ConsoleHitsWhatWasShown == Spec => HitsWhatWasShown
<1>1. Init => HitsInv
  BY InitHits
<1>2. Typed /\ Typed' /\ HitsInv /\ [Next]_vars => HitsInv'
  BY HitsAlways
<1>3. Typed /\ HitsInv /\ [Next]_vars =>
        [\A j \in Call :
           Asked(j, WriteOp) /\ call'[j] # None /\ call'[j].pc = "answered"
           => /\ {c \in Comment : Stored(c) /\ db'.comment[c] # db.comment[c]} \subseteq call[j].may
              /\ db.entries \ db'.entries \subseteq {call[j].entry}]_vars
  BY HitStep
<1> QED BY <1>1, <1>2, <1>3, ConsoleTyped, PTL DEF Spec, HitsWhatWasShown

-----------------------------------------------------------------------------
(* The views show the tables.                                              *)

ReadSame(v) == IF v = "settings" THEN db'.settings = db.settings ELSE Read(db', v) = Read(db, v)

\* View v of tab t is shown as it was, of the tables as they were, and what
\* will load it again is still to come.
ViewGoesOn(t, v) ==
  v \in plan.views /\ v \notin stale'[t] =>
    /\ v \notin stale[t] /\ shows'[t][v] = shows[t][v] /\ ReadSame(v)
    /\ Underway(t, v) => (Underway(t, v))'
    /\ Awaited(t, v) => (Awaited(t, v))' \/ (Underway(t, v))'

SaveGoesOn(j) ==
  /\ Writes(j) /\ call'[j].op = call[j].op /\ Still(call[j], call'[j])
  /\ db'.settings = db.settings

LEMMA ViewsStep ==
  ASSUME ViewsInv, plan' = plan,
         \A t \in Tab, v \in View : ViewGoesOn(t, v) \/ (Fresh(t, v))',
         \A j \in Call : (Writes(j))' => SaveGoesOn(j) \/ (SaveStored(call[j]))'
  PROVE  ViewsInv'
<1>1. ASSUME NEW t \in Tab, NEW v \in View, ViewGoesOn(t, v) PROVE (Fresh(t, v))'
  <2> SUFFICES ASSUME v \in plan.views, v \notin stale'[t]
               PROVE  (Agrees(t, v))' \/ (Underway(t, v))' \/ (Awaited(t, v))'
    BY DEF Fresh
  <2>1. Agrees(t, v) \/ Underway(t, v) \/ Awaited(t, v)
    BY <1>1 DEF ViewGoesOn, ViewsInv, Fresh
  <2>2. Agrees(t, v) => (Agrees(t, v))'
    BY <1>1 DEF ViewGoesOn, ReadSame, Agrees, Matches, OffShownAsDefault
  <2> QED BY <1>1, <2>1, <2>2 DEF ViewGoesOn
<1>2. ASSUME NEW j \in Call, (Writes(j))', SaveGoesOn(j) PROVE (SaveStored(call[j]))'
  BY <1>2 DEF SaveGoesOn, Still, ViewsInv, SaveStored
<1> QED BY <1>1, <1>2 DEF ViewsInv

LEMMA AwaitedKept ==
  ASSUME NEW t \in Tab, NEW v \in View, Awaited(t, v),
         \A i \in Call : Awaits(t, i, v) => call'[i] = call[i]
  PROVE  (Awaited(t, v))'
<1>1. PICK j \in Call : Awaits(t, j, v)
  BY DEF Awaited
<1>2. call'[j] = call[j]
  BY <1>1
<1>3. (Awaits(t, j, v))'
  BY <1>1, <1>2 DEF Awaits, OfTab, Busy, Reloads
<1> QED BY <1>3 DEF Awaited

LEMMA AwaitedStays ==
  ASSUME NEW t \in Tab, NEW v \in View, Awaited(t, v),
         \A i \in Call : Writes(i) /\ call[i].heard /\ call[i].tab = t => call'[i] = call[i]
  PROVE  (Awaited(t, v))'
<1>1. \A i \in Call : Awaits(t, i, v) => Writes(i) /\ call[i].heard /\ call[i].tab = t
  BY DEF Awaits, OfTab, Busy, Writes
<1> QED BY <1>1, AwaitedKept

LEMMA StillSaved ==
  ASSUME NEW j \in Call, WriteGoesOn(j), Writes(j) /\ call'[j] # None => Still(call[j], call'[j]),
         db' = db
  PROVE  (Writes(j))' => SaveGoesOn(j)
BY DEF WriteGoesOn, SameAim, SaveGoesOn, Writes

LEMMA LoadsOnlyBegin ==
  ASSUME Typed, loads' = loads \/ \E t \in Tab, vs \in SUBSET View : Loading(t, vs)
  PROVE  \A u \in Tab, v \in View : Underway(u, v) => (Underway(u, v))'
<1>1. \A u \in Tab, v \in View, i \in Slot :
        loads'[u][v][i] = loads[u][v][i] \/ loads[u][v][i] = None
  BY LoadingFacts DEF Typed
<1> QED BY <1>1 DEF Underway

LEMMA SameViews ==
  ASSUME Typed, ViewsInv, BeginsOnly
  PROVE  ViewsInv'
<1>1. \A t \in Tab, v \in View : Awaited(t, v) => (Awaited(t, v))'
  BY AwaitedStays DEF BeginsOnly, WritesSame
<1>2. \A t \in Tab, v \in View : Underway(t, v) => (Underway(t, v))'
  BY LoadsOnlyBegin DEF BeginsOnly
<1>3. \A t \in Tab, v \in View : ViewGoesOn(t, v)
  BY <1>1, <1>2 DEF BeginsOnly, ViewGoesOn, ReadSame
<1>4. \A j \in Call : (Writes(j))' => SaveGoesOn(j)
  BY StillSaved DEF BeginsOnly, WritesSame
<1> QED BY <1>3, <1>4, ViewsStep DEF BeginsOnly

LEMMA LeavesViews ==
  ASSUME Typed, ViewsInv, NEW t \in Tab, Leaves(t), WritesLeft(t)
  PROVE  ViewsInv'
<1>0. ViewsTyped
  BY DEF Typed
<1>1. ASSUME NEW u \in Tab, NEW v \in View PROVE ViewGoesOn(u, v)
  <2>1. CASE u = t
    BY <1>0, <2>1 DEF Leaves, ViewGoesOn, ViewsTyped
  <2>2. CASE u # t
    <3>1. shows'[u] = shows[u] /\ loads'[u] = loads[u] /\ stale'[u] = stale[u] /\ db' = db
      BY <1>0, <2>2 DEF Leaves, ViewsTyped
    <3>2. Awaited(u, v) => (Awaited(u, v))'
      BY <2>2, AwaitedStays DEF WritesLeft
    <3> QED BY <3>1, <3>2 DEF ViewGoesOn, ReadSame, Underway
  <2> QED BY <2>1, <2>2
<1>2. \A j \in Call : (Writes(j))' => SaveGoesOn(j)
  BY StillSaved DEF WritesLeft, Leaves
<1> QED BY <1>1, <1>2, ViewsStep DEF Leaves

\* Nothing of the calls changes, nor the tables.
LEMMA CallsSameViews ==
  ASSUME Typed, ViewsInv, UNCHANGED <<call, plan, db>>,
         \A t \in Tab, v \in View :
           (Fresh(t, v))' \/ ((v \in plan.views /\ v \notin stale'[t]) =>
             /\ v \notin stale[t] /\ shows'[t][v] = shows[t][v]
             /\ Underway(t, v) => (Underway(t, v))')
  PROVE  ViewsInv'
<1>1. WritesSame
  BY CallsSameGoOn
<1>2. \A t \in Tab, v \in View : Awaited(t, v) => (Awaited(t, v))'
  BY <1>1, AwaitedStays DEF WritesSame
<1>3. \A t \in Tab, v \in View : ViewGoesOn(t, v) \/ (Fresh(t, v))'
  BY <1>2 DEF ViewGoesOn, ReadSame
<1>4. \A j \in Call : (Writes(j))' => SaveGoesOn(j)
  BY <1>1, StillSaved DEF WritesSame
<1> QED BY <1>3, <1>4, ViewsStep

LEMMA EditViews ==
  ASSUME Typed, ViewsInv, NEW t \in Tab, NEW f, NEW x, Edit(t, f, x)
  PROVE  ViewsInv'
<1>1. UNCHANGED <<call, plan, db, loads>>
  BY DEF Edit
<1>2. ASSUME NEW u \in Tab, NEW v \in View, v \notin stale'[u]
      PROVE  v \notin stale[u] /\ shows'[u][v] = shows[u][v]
  BY <1>2 DEF Edit, Typed, ViewsTyped
<1>3. \A u \in Tab, v \in View : Underway(u, v) => (Underway(u, v))'
  BY <1>1 DEF Underway
<1> QED BY <1>1, <1>2, <1>3, CallsSameViews

LEMMA TickViews ==
  ASSUME Typed, ViewsInv, NEW t \in Tab, NEW k \in Kind, NEW c \in Comment, Tick(t, k, c)
  PROVE  ViewsInv'
<1>1. UNCHANGED <<call, plan, db, shows, loads, stale>>
  BY DEF Tick
<1>2. \A u \in Tab, v \in View : Underway(u, v) => (Underway(u, v))'
  BY <1>1 DEF Underway
<1> QED BY <1>1, <1>2, CallsSameViews

\* GET settings: a blank list of reactions is answered with the default.
SettingsRead(x) == [x EXCEPT !.reactions = IF @ = "blank" THEN "default" ELSE @]

LEMMA SettingsReadFacts ==
  ASSUME db \in Tables
  PROVE  \/ SettingsRead(db.settings) = db.settings
         \/ /\ db.settings.reactions = "blank"
            /\ SettingsRead(db.settings) = [db.settings EXCEPT !.reactions = "default"]
<1>1. db.settings \in [difficulty: {"default", "other"}, reactions: {"default", "other", "blank"}]
  BY DEF Tables
<1>2. CASE db.settings.reactions = "blank"
  BY <1>2 DEF SettingsRead
<1>3. CASE db.settings.reactions # "blank"
  <2>1. SettingsRead(db.settings) = [db.settings EXCEPT !.reactions = @]
    BY <1>3 DEF SettingsRead
  <2> QED BY <1>1, <2>1
<1> QED BY <1>2, <1>3

LEMMA LoadStepViews ==
  ASSUME Typed, HitsInv, ViewsInv, NEW t \in Tab, NEW v \in View, NEW i \in Slot, LoadStep(t, v, i)
  PROVE  ViewsInv'
<1> DEFINE l == loads[t][v][i]
<1>0. ViewsTyped
  BY DEF Typed
<1>1. UNCHANGED <<call, plan, db>>
  BY DEF LoadStep, Serve, Render, LoadFails, session
<1>2. PICK m : LoadTyped(m, v) /\ LoadSet(t, v, i, m)
               /\ (m = None \/ (m # None /\ UNCHANGED <<shows, stale>>))
  BY LoadStepFacts DEF Typed
<1>3. /\ loads'[t][v][i] = m
      /\ \A u \in Tab, x \in View, k \in Slot :
           u # t \/ x # v \/ k # i => loads'[u][x][k] = loads[u][x][k]
  BY <1>0, <1>2, LoadSetFacts
<1>4. ASSUME NEW u \in Tab, NEW x \in View, u # t \/ x # v \/ m # None
      PROVE  Underway(u, x) => (Underway(u, x))'
  BY <1>3, <1>4 DEF Underway
<1>5. CASE m # None
  BY <1>1, <1>2, <1>4, <1>5, CallsSameViews
<1>6. CASE Render(t, v, i)
  <2>1. l # None /\ shows' = [shows EXCEPT ![t][v] = l.content]
        /\ stale' = [stale EXCEPT ![t] = IF l.clean THEN @ \ {v} ELSE @ \cup {v}]
    BY <1>6 DEF Render
  <2>2. ASSUME NEW u \in Tab, NEW x \in View, u # t \/ x # v, x \notin stale'[u]
        PROVE  x \notin stale[u] /\ shows'[u][x] = shows[u][x]
    BY <1>0, <2>1, <2>2 DEF ViewsTyped
  <2>3. (Fresh(t, v))'
    <3> SUFFICES ASSUME v \notin stale'[t] PROVE (Agrees(t, v))'
      BY DEF Fresh
    <3>1. l.clean
      BY <1>0, <2>1 DEF ViewsTyped
    <3>2. Current(l, v)
      BY DEF HitsInv
    <3>3. shows'[t][v] = Read(db, v) /\ db' = db
      BY <1>0, <1>1, <2>1, <3>1, <3>2 DEF Current, ViewsTyped
    <3>4. CASE v = "settings"
      <4>1. shows'[t][v] = SettingsRead(db.settings) /\ db' = db
        BY <3>3, <3>4 DEF Read, Kind, SettingsRead
      <4> QED BY <3>4, <4>1, SettingsReadFacts DEF Typed, TablesTyped, Agrees, Matches, OffShownAsDefault
    <3>5. CASE v # "settings"
      BY <3>3, <3>5 DEF Agrees, Matches
    <3> QED BY <3>4, <3>5
  <2> HIDE DEF l
  <2> QED BY <1>1, <1>4, <2>2, <2>3, CallsSameViews
<1>7. CASE LoadFails(t, v, i)
  <2>1. shows' = shows /\ stale' = [stale EXCEPT ![t] = @ \cup {v}]
    BY <1>7 DEF LoadFails
  <2>2. ASSUME NEW u \in Tab, NEW x \in View, x \notin stale'[u]
        PROVE  x \notin stale[u] /\ (u # t \/ x # v)
    BY <1>0, <2>1, <2>2 DEF ViewsTyped
  <2> QED BY <1>1, <1>4, <2>1, <2>2, CallsSameViews
<1>8. CASE Serve(t, v, i) /\ m = None
  <2>1. shows' = shows /\ stale' = stale
    BY <1>8 DEF Serve
  <2> DEFINE n == [l EXCEPT !.served = TRUE, !.content = Read(db, v), !.clean = TRUE]
  <2>2. l # None /\ LoadTyped(l, v) /\ loads' = [loads EXCEPT ![t][v][i] = n]
    BY <1>0, <1>8 DEF Serve, ViewsTyped
  <2>3. l \in Load(v)
    BY <2>2 DEF LoadTyped
  <2>4. n \in Load(v)
    <3>1. Read(db, v) \in Content(v)
      BY ReadTyped DEF Typed, TablesTyped
    <3> QED BY <2>3, <3>1 DEF Load
  <2> HIDE DEF n
  <2>5. loads'[t][v][i] = n
    BY <1>0, <2>2 DEF ViewsTyped
  <2>6. FALSE
    BY <1>3, <1>8, <2>4, <2>5
  <2> QED BY <2>6
<1> QED BY <1>5, <1>6, <1>7, <1>8, <1>2 DEF LoadStep

LEMMA ClickViews ==
  ASSUME Typed, ViewsInv, NEW t \in Tab, NEW j \in Call, Click(t, j)
  PROVE  ViewsInv'
<1>0. CallsTyped
  BY DEF Typed
<1>1. PICK w : Clicks(t, j, w) /\ Clicked(w)
  BY ClickFacts
<1>2. call[j] = None /\ call' = [call EXCEPT ![j] = w] /\ UNCHANGED console
  BY <1>1 DEF Clicks, Busy
<1>3. call'[j] = w /\ \A i \in Call \ {j} : call'[i] = call[i]
  BY <1>0, <1>2 DEF CallsTyped
<1>4. UNCHANGED <<plan, db, shows, loads, stale>>
  BY <1>2 DEF console, views
<1>5. \A u \in Tab, v \in View : Awaited(u, v) => (Awaited(u, v))'
  BY <1>2, <1>3, AwaitedStays DEF Writes
<1>6. \A u \in Tab, v \in View : ViewGoesOn(u, v)
  BY <1>4, <1>5 DEF ViewGoesOn, ReadSame, Underway
<1>7. (SaveStored(call[j]))'
  BY <1>1, <1>3 DEF SaveStored, Clicked
<1>8. \A i \in Call : (Writes(i))' => SaveGoesOn(i) \/ (SaveStored(call[i]))'
  BY <1>3, <1>4, <1>7 DEF SaveGoesOn, Writes, Still
<1> QED BY <1>4, <1>6, <1>8, ViewsStep

LEMMA BecomeViews ==
  ASSUME Typed, ViewsInv, NEW d \in Tables, NEW t, NEW own \in SUBSET View, NEW bulk \in BOOLEAN,
         Become(d, t, own, bulk), TablesTyped',
         \A u \in Tab, v \in View : Awaited(u, v) => (Awaited(u, v))',
         \A v \in View : t \in Tab /\ v \in Changed(d) /\ v \in own => (Awaited(t, v))',
         \A j \in Call : (Writes(j))' => SaveGoesOn(j) \/ (SaveStored(call[j]))'
  PROVE  ViewsInv'
<1>0. TablesTyped /\ ViewsTyped
  BY DEF Typed
<1>1. UNCHANGED <<plan, shows>> /\ db' = d
  BY DEF Become
<1>2. \A u \in Tab, v \in View : Underway(u, v) => (Underway(u, v))'
  BY <1>0, BecomeTyped DEF Underway
<1>3. ASSUME NEW u \in Tab, NEW v \in View PROVE ViewGoesOn(u, v) \/ (Fresh(u, v))'
  <2>1. stale'[u] = stale[u] \cup (IF u = t THEN Changed(d) \ own ELSE Changed(d))
    BY Zenon DEF Become
  <2>2. CASE v \in Changed(d)
    BY <2>1, <2>2 DEF Fresh
  <2>3. CASE v \notin Changed(d)
    <3>1. ReadSame(v)
      BY <1>1, <2>3 DEF Changed, ReadSame
    <3> QED BY <1>1, <1>2, <2>1, <3>1 DEF ViewGoesOn
  <2> QED BY <2>2, <2>3
<1> QED BY <1>1, <1>3, ViewsStep

\* What a write changes of the views that it promises, it loads again.
LEMMA ChangedReloads ==
  ASSUME NEW w \in WriteCall, WriteFit(w), w.op \notin {"save", "reset"}, NEW d, Change(w, d),
         NEW v \in View, v \in Changed(d), v \in Promised(w)
  PROVE  v \in Reloads(w) /\ w.heard
<1>1. w.heard
  BY DEF Promised
<1>2. v # "settings"
  BY DEF Changed, Change
<1>3. v \in Kind => d.comment # db.comment \/ d.pinned # db.pinned
  <2>1. ASSUME v \in Kind, d.comment = db.comment, d.pinned = db.pinned PROVE FALSE
    <3>1. Cards(d, StatusOf(v)) = Cards(db, StatusOf(v))
      BY <2>1 DEF Cards
    <3>2. Read(d, v) = Read(db, v)
      BY <2>1, <3>1 DEF Read
    <3> QED BY <1>2, <3>2 DEF Changed
  <2> QED BY <2>1
<1>4. v = "polls" => d.poll # db.poll
  BY <1>2 DEF Changed, Read, Kind
<1>5. v = "lists" => d.entries # db.entries
  BY <1>2 DEF Changed, Read, Kind
<1>6. w.op \in WriteOp
  BY DEF WriteCall
<1>7. CASE w.op \in {"moderate", "bulk"}
  BY <1>1, <1>2, <1>4, <1>7 DEF Change, Reloads, View, Kind, PollOp
<1>8. CASE w.op \in {"pin", "reply"}
  <2>1. Promised(w) = {w.kind}
    BY <1>1, <1>8 DEF Promised
  <2>2. Reloads(w) = {w.kind}
    BY <1>8 DEF Reloads, PollOp
  <2> QED BY <1>1, <2>1, <2>2
<1>9. CASE w.op \in PollOp
  BY <1>1, <1>2, <1>3, <1>5, <1>9 DEF Change, Reloads, View, PollOp
<1>10. CASE w.op \in {"add", "remove"}
  BY <1>1, <1>2, <1>3, <1>4, <1>10 DEF Change, Reloads, View, PollOp
<1> QED BY <1>6, <1>7, <1>8, <1>9, <1>10 DEF WriteOp

LEMMA AwaitsAlike ==
  ASSUME NEW t \in Tab, NEW v \in View, NEW j \in Call, call'[j] # None, call'[j].tab = t,
         call'[j].heard, call'[j].op \in WriteOp, call'[j].pc # "sent",
         IF call'[j].op \in {"save", "reset"} THEN v = "settings"
         ELSE call'[j].ok /\ v \in Reloads(call'[j])
  PROVE  (Awaited(t, v))'
BY DEF Awaited, Awaits, OfTab, Busy, Reloads

LEMMA DeniedViews ==
  ASSUME Typed, ViewsInv, NEW j \in Call, Denied(j)
  PROVE  ViewsInv'
<1> DEFINE w == call[j]
           b == call'[j]
<1>1. /\ Writes(j) /\ w \in WriteCall /\ w.pc # "answered" /\ UNCHANGED console
      /\ b # None /\ b = [w EXCEPT !.pc = "answered"]
      /\ \A i \in Call \ {j} : call'[i] = call[i]
  BY DeniedFacts, CallFacts DEF Denied, Typed
<1>2. /\ b.tab = w.tab /\ b.heard = w.heard /\ b.op = w.op /\ b.ok = w.ok /\ b.kind = w.kind
      /\ b.form = w.form /\ b.clean = w.clean /\ b.pc = "answered" /\ b.op \in WriteOp
  <2> HIDE DEF b
  <2> QED BY <1>1 DEF WriteCall
<1>3. UNCHANGED <<plan, db, shows, loads, stale>>
  BY <1>1 DEF console, views
<1>4. ASSUME NEW u \in Tab, NEW v \in View, Awaited(u, v) PROVE (Awaited(u, v))'
  <2>1. CASE Awaits(u, j, v)
    <3>1. v \in Reloads(w) => v \in Reloads(b)
      BY <1>2 DEF Reloads
    <3> QED BY ZenonT(40), <1>1, <1>2, <2>1, <3>1, AwaitsAlike DEF Awaits, OfTab
  <2>2. CASE ~Awaits(u, j, v)
    BY <1>1, <1>4, <2>2, AwaitedKept
  <2> QED BY <2>1, <2>2
<1>5. \A u \in Tab, v \in View : ViewGoesOn(u, v)
  BY <1>3, <1>4 DEF ViewGoesOn, ReadSame, Underway
<1>6. (SaveStored(call[j]))'
  BY <1>1, <1>2, <1>3 DEF SaveStored, ViewsInv
<1>7. \A i \in Call : (Writes(i))' => SaveGoesOn(i) \/ (SaveStored(call[i]))'
  BY <1>1, <1>3, <1>6 DEF SaveGoesOn, Writes, Still
<1> QED BY <1>3, <1>5, <1>7, ViewsStep

LEMMA DoneViews ==
  ASSUME Typed, ViewsInv, NEW j \in Call, NEW d, Done(j, d)
  PROVE  ViewsInv'
<1> DEFINE w == call[j]
           b == call'[j]
           bulk == w.op = "bulk" /\ w.heard
<1>1. /\ TablesTyped' /\ Writes(j) /\ w.pc = "sent" /\ w \in WriteCall /\ WriteFit(w)
      /\ w.op \notin {"save", "reset"} /\ \A i \in Call \ {j} : call'[i] = call[i]
      /\ b # None /\ b = [[w EXCEPT !.ok = TRUE] EXCEPT !.pc = "answered"]
      /\ Become(d, w.tab, Promised(w), bulk) /\ Change(w, d) /\ d \in Tables /\ db' = d
      /\ bulk \in BOOLEAN /\ Promised(w) \in SUBSET View
  BY DoneFacts, CallFacts, PromisedViews DEF Typed, Done, Asked, Change
<1>2. /\ b.tab = w.tab /\ b.heard = w.heard /\ b.op = w.op /\ b.ok /\ b.kind = w.kind
      /\ b.pc = "answered" /\ b.op \in WriteOp
  <2> HIDE DEF b
  <2> QED BY <1>1 DEF WriteCall
<1>3. PICK t \in Tab : t = w.tab
  BY <1>1 DEF WriteCall
<1>4. \A u \in Tab, v \in View : Awaited(u, v) => (Awaited(u, v))'
  BY <1>1, AwaitedKept DEF Awaits
<1>5. ASSUME NEW v \in View, v \in Changed(d), v \in Promised(w) PROVE (Awaited(t, v))'
  <2>1. v \in Reloads(w) /\ w.heard
    BY <1>1, <1>5, ChangedReloads
  <2>2. v \in Reloads(b)
    BY <1>2, <2>1 DEF Reloads
  <2> QED BY <1>1, <1>2, <1>3, <2>1, <2>2, AwaitsAlike
<1>6. (SaveStored(call[j]))'
  BY <1>1, <1>2 DEF SaveStored
<1>7. \A i \in Call : (Writes(i))' => SaveGoesOn(i) \/ (SaveStored(call[i]))'
  BY <1>1, <1>6 DEF SaveGoesOn, Writes, Still, Change
<1> HIDE DEF w, b, bulk
<1> QED BY <1>1, <1>3, <1>4, <1>5, <1>7, BecomeViews

LEMMA PutViews ==
  ASSUME Typed, ViewsInv, NEW j \in Call, NEW f, NEW last \in BOOLEAN, Put(j, f, last)
  PROVE  ViewsInv'
<1> DEFINE w == call[j]
           b == call'[j]
           d == WithSetting(w, f)
<1>1. /\ TablesTyped' /\ Writes(j) /\ w.op \in {"save", "reset"} /\ w \in WriteCall
      /\ PutInto(w, f) /\ PutBy(w, b, last) /\ \A i \in Call \ {j} : PutBeside(i)
      /\ d \in Tables /\ Promised(w) \in SUBSET View
      /\ IF last THEN f = "reactions" /\ w.pc = "writing" ELSE f = "difficulty" /\ w.pc = "sent"
  BY PutFacts, CallFacts, PromisedViews DEF Typed, Put
<1>2. /\ Become(d, w.tab, Promised(w), FALSE) /\ db' = d
      /\ d.comment = db.comment /\ d.pinned = db.pinned /\ d.poll = db.poll
      /\ d.entries = db.entries /\ d.settings = [db.settings EXCEPT ![f] = w.form[f]]
  BY <1>1 DEF PutInto
<1> HIDE DEF d
<1>3. PICK t \in Tab : t = w.tab
  BY <1>1 DEF WriteCall
<1>4. /\ b # None /\ b.tab = t /\ b.heard = w.heard /\ b.op = w.op /\ b.pc # "sent"
      /\ b.op \in WriteOp /\ b.form = w.form /\ b.clean = w.clean
  BY <1>1, <1>3 DEF PutBy, WriteOp
<1>5. ASSUME NEW u \in Tab, NEW v \in View, Awaited(u, v) PROVE (Awaited(u, v))'
  <2>1. PICK i \in Call : Awaits(u, i, v)
    BY <1>5 DEF Awaited
  <2>2. CASE i = j
    BY <1>1, <1>3, <1>4, <2>1, <2>2, AwaitsAlike DEF Awaits, OfTab
  <2>3. CASE call'[i] = call[i]
    <3>1. (Awaits(u, i, v))'
      BY <2>1, <2>3 DEF Awaits, OfTab, Busy, Reloads
    <3> QED BY <3>1 DEF Awaited
  <2>4. CASE /\ call[i].op \in {"save", "reset"} /\ call[i] \in WriteCall
             /\ call'[i] = [call[i] EXCEPT !.clean = FALSE]
    <3>1. /\ call'[i] \in WriteCall /\ call'[i].tab = call[i].tab /\ call'[i].pc = call[i].pc
          /\ call'[i].heard = call[i].heard /\ call'[i].op = call[i].op
      BY ZenonT(40), <2>4 DEF WriteCall
    <3>2. v = "settings" /\ call[i].tab = u /\ call[i].heard /\ call[i].pc # "sent"
          /\ call[i].op \in WriteOp
      BY <2>1, <2>4 DEF Awaits, OfTab
    <3> QED BY <2>4, <3>1, <3>2, AwaitsAlike
  <2> QED BY <1>1, <2>2, <2>3, <2>4 DEF PutBeside
<1>6. ASSUME NEW v \in View, v \in Changed(d), v \in Promised(w) PROVE (Awaited(t, v))'
  <2>1. w.heard
    BY <1>6 DEF Promised
  <2>2. v = "settings"
    <3>1. ASSUME v # "settings" PROVE Read(d, v) = Read(db, v)
      <4>1. \A x : Cards(d, x) = Cards(db, x)
        BY <1>2 DEF Cards
      <4> QED BY <1>2, <3>1, <4>1 DEF Read, View, Kind
    <3> QED BY <1>6, <3>1 DEF Changed
  <2> QED BY <1>1, <1>4, <2>1, <2>2, AwaitsAlike
<1>7. (SaveStored(call[j]))'
  <2>1. db.settings \in [difficulty: {"default", "other"}, reactions: {"default", "other", "blank"}]
    BY DEF Typed, TablesTyped, Tables
  <2>2. CASE last = TRUE
    <3>1. w.clean => db.settings.difficulty = w.form.difficulty
      BY <1>1, <2>2 DEF ViewsInv, SaveStored
    <3>2. /\ db'.settings.difficulty = db.settings.difficulty
          /\ db'.settings.reactions = w.form.reactions
      BY <1>1, <1>2, <2>1, <2>2
    <3> QED BY <1>4, <3>1, <3>2 DEF SaveStored
  <2>3. CASE last = FALSE
    <3>1. ~b.ok /\ db'.settings.difficulty = w.form.difficulty
      BY <1>1, <1>2, <2>1, <2>3 DEF PutBy
    <3> QED BY <1>4, <3>1 DEF SaveStored
  <2> QED BY <2>2, <2>3
<1>8. ASSUME NEW i \in Call PROVE (Writes(i))' => SaveGoesOn(i) \/ (SaveStored(call[i]))'
  <2>1. CASE i = j
    BY <1>7, <2>1
  <2>2. CASE call'[i] = call[i] /\ (Writes(i) => call[i].op \notin {"save", "reset"})
    BY <2>2 DEF SaveStored, Writes
  <2>3. CASE call[i] \in WriteCall /\ call'[i] = [call[i] EXCEPT !.clean = FALSE]
    <3>1. ~call'[i].clean
      BY <2>3 DEF WriteCall
    <3> QED BY <3>1 DEF SaveStored
  <2> QED BY <1>1, <2>1, <2>2, <2>3 DEF PutBeside
<1> HIDE DEF w, b
<1> QED BY <1>1, <1>2, <1>3, <1>5, <1>6, <1>8, BecomeViews

LEMMA WorkerViews ==
  ASSUME Typed, ViewsInv, NEW j \in Call, WorkerStep(j)
  PROVE  ViewsInv'
BY WorkerShape, DeniedViews, DoneViews, PutViews

LEMMA VisitorViews ==
  ASSUME Typed, ViewsInv, NEW c \in Comment, Visitor(c)
  PROVE  ViewsInv'
<1>1. PICK d \in Tables : Become(d, None, {}, FALSE) /\ d.settings = db.settings
  BY VisitorTyped
<1>2. TablesTyped'
  BY VisitorTyped DEF Typed
<1>3. db' = d /\ call' = call
  BY <1>1 DEF Become, Visitor
<1>4. \A u \in Tab, v \in View : Awaited(u, v) => (Awaited(u, v))'
  BY <1>3, AwaitedKept
<1>5. \A j \in Call : (Writes(j))' => SaveGoesOn(j)
  BY <1>1, <1>3 DEF Writes, SaveGoesOn, Still
<1>6. \A v \in View : v \notin {}
  OBVIOUS
<1>7. {} \in SUBSET View /\ FALSE \in BOOLEAN
  OBVIOUS
<1> QED BY <1>1, <1>2, <1>4, <1>5, <1>6, <1>7, BecomeViews

LEMMA EndViews ==
  ASSUME Typed, ViewsInv, NEW j \in Call, WriteDone(j) \/ WriteRefused(j) \/ WriteLost(j)
  PROVE  ViewsInv'
<1> DEFINE w == call[j]
<1>0. ViewsTyped /\ CallsTyped /\ Writes(j) /\ w \in WriteCall /\ WriteFit(w)
  BY WriteEndsTyped, CallFacts DEF Typed
<1>1. PICK t \in Tab : t = w.tab
  BY <1>0 DEF WriteCall
<1>2. UNCHANGED <<plan, db, shows>> /\ Finished(j)
  BY DEF WriteDone, WriteRefused, WriteLost
<1>3. call'[j] = None /\ \A i \in Call \ {j} : call'[i] = call[i]
  BY <1>0, <1>2, FinishTyped
<1>4. Reloads(w) \in SUBSET View
  BY <1>0 DEF Reloads, WriteCall, WriteOp, PollOp, WriteFit, View, Kind
<1>5. \A u \in Tab, v \in View : Underway(u, v) => (Underway(u, v))'
  <2>1. loads' = loads \/ Loading(t, Reloads(w))
    BY <1>1 DEF WriteDone, WriteRefused, WriteLost
  <2> QED BY <1>4, <2>1, LoadsOnlyBegin
<1>6. ASSUME NEW u \in Tab, NEW v \in View, Awaited(u, v), ~(u = t /\ Awaits(t, j, v))
      PROVE  (Awaited(u, v))'
  <2>1. ~Awaits(u, j, v)
    BY <1>1, <1>6 DEF Awaits, OfTab
  <2> QED BY <1>3, <1>6, <2>1, AwaitedKept
<1>7. ASSUME NEW u \in Tab, NEW v \in View, v \notin stale'[u] => v \notin stale[u],
             u = t /\ Awaits(t, j, v) /\ v \in plan.views => v \in stale'[u] \/ (Underway(u, v))'
      PROVE  ViewGoesOn(u, v)
  BY <1>2, <1>5, <1>6, <1>7 DEF ViewGoesOn, ReadSame
<1>8. ASSUME NEW u \in Tab, NEW v \in View PROVE ViewGoesOn(u, v) \/ (Fresh(u, v))'
  <2>1. CASE WriteDone(j)
    <3>1. /\ w.ok /\ Loading(t, Reloads(w))
          /\ stale' = [stale EXCEPT ![t] = IF Saved(w) THEN @ \ {"settings"}
                                           ELSE IF w.op = "save" THEN @ \cup {"settings"} ELSE @]
      BY <1>1, <2>1 DEF WriteDone
    <3>2. CASE u = t /\ v = "settings" /\ Saved(w)
      <4>1. w.op = "save" /\ w.clean /\ shows[t]["settings"] = w.form
        BY <1>1, <3>2 DEF Saved
      <4>2. db.settings.difficulty = w.form.difficulty /\ db.settings.reactions = w.form.reactions
        BY <1>0, <3>1, <4>1 DEF ViewsInv, SaveStored
      <4>3. w.form \in [difficulty: {"default", "other", "bad"},
                         reactions: {"default", "other", "blank", "bad"}]
        BY <1>0, <4>1 DEF WriteFit, Form
      <4>4. db.settings \in [difficulty: {"default", "other"}, reactions: {"default", "other", "blank"}]
        BY DEF Typed, TablesTyped, Tables
      <4>5. w.form = db.settings
        BY <4>2, <4>3, <4>4
      <4>6. (Matches(t, v))'
        BY <1>2, <3>2, <4>1, <4>5 DEF Matches
      <4> QED BY <3>2, <4>6 DEF Fresh, Agrees
    <3>3. CASE ~(u = t /\ v = "settings" /\ Saved(w))
      <4>1. v \notin stale'[u] => v \notin stale[u]
        BY <1>0, <3>1, <3>3 DEF ViewsTyped
      <4>2. ASSUME u = t, Awaits(t, j, v), v \in plan.views
            PROVE  v \in stale'[u] \/ (Underway(u, v))'
        <5>1. CASE w.op = "save"
          <6>1. v = "settings"
            BY <4>2, <5>1 DEF Awaits
          <6> QED BY <1>0, <3>1, <3>3, <4>2, <5>1, <6>1 DEF ViewsTyped
        <5>2. CASE w.op # "save"
          <6>1. v \in Reloads(w)
            BY <4>2, <5>2 DEF Awaits, Reloads, PollOp
          <6> QED BY <1>0, <3>1, <4>2, <6>1, LoadingFacts DEF Typed, Underway
        <5> QED BY <5>1, <5>2
      <4> QED BY <1>7, <4>1, <4>2
    <3> QED BY <3>2, <3>3
  <2>2. CASE WriteRefused(j)
    <3>1. /\ ~w.ok
          /\ stale' = [stale EXCEPT ![t] = IF w.op \in {"save", "reset"} THEN @ \cup {"settings"} ELSE @]
      BY <1>1, <2>2 DEF WriteRefused
    <3>2. v \notin stale'[u] => v \notin stale[u]
      BY <1>0, <3>1 DEF ViewsTyped
    <3>3. u = t /\ Awaits(t, j, v) => v \in stale'[u]
      BY <1>0, <3>1 DEF Awaits, ViewsTyped
    <3> QED BY <1>7, <3>2, <3>3
  <2>3. CASE WriteLost(j)
    <3>1. stale' = IF w.heard THEN [stale EXCEPT ![t] = View] ELSE stale
      BY <1>1, <2>3 DEF WriteLost
    <3>2. v \notin stale'[u] => v \notin stale[u]
      BY <1>0, <3>1 DEF ViewsTyped
    <3>3. u = t /\ Awaits(t, j, v) => v \in stale'[u]
      BY <1>0, <3>1 DEF Awaits, OfTab, ViewsTyped
    <3> QED BY <1>7, <3>2, <3>3
  <2> QED BY <2>1, <2>2, <2>3
<1>9. ASSUME NEW i \in Call, (Writes(i))' PROVE SaveGoesOn(i)
  <2>1. i # j
    BY <1>3, <1>9 DEF Writes
  <2> QED BY <1>2, <1>3, <1>9, <2>1 DEF Writes, SaveGoesOn, Still
<1> HIDE DEF w
<1> QED BY <1>2, <1>8, <1>9, ViewsStep

LEMMA InitViews ==
  ASSUME Init
  PROVE  ViewsInv
<1>0. TablesTyped
  BY InitTables
<1>1. \A j \in Call : call[j] = None
  BY DEF Init, SessionInit, SessionOpened
<1>2. ASSUME NEW t \in Tab, NEW v \in View, v \in plan.views, v \notin stale[t]
      PROVE  Agrees(t, v)
  <2>1. plan.opened
    BY <1>2 DEF Init
  <2>2. shows[t][v] = Read(db, v)
    BY <1>2, <2>1 DEF Init
  <2>3. CASE v = "settings"
    <3>1. db.settings = [difficulty |-> "default", reactions |-> "default"]
      BY DEF Init, TablesInit
    <3>2. Read(db, v) = [db.settings EXCEPT !.reactions = IF @ = "blank" THEN "default" ELSE @]
      BY <2>3 DEF Read, Kind
    <3> QED BY <2>2, <2>3, <3>1, <3>2 DEF Agrees, Matches
  <2>4. CASE v # "settings"
    BY <2>2, <2>4 DEF Agrees, Matches
  <2> QED BY <2>3, <2>4
<1> QED BY <1>1, <1>2 DEF ViewsInv, Fresh, Writes

LEMMA ViewsAlways ==
  ASSUME Typed, HitsInv, ViewsInv, [Next]_vars
  PROVE  ViewsInv'
<1>1. SignShape => ViewsInv'
  BY SameViews, LeavesViews DEF SignShape
<1> QED BY <1>1, Steps, SessionShape, WorkerViews, EndViews, OwnerSignsShape, ClickViews, IdleShape,
           SameViews, LoadStepViews, TickViews, EditViews, VisitorViews

\* A console at rest shows the tables as they are: whatever a write changes of
\* a view, the tab loads that view again or is excused from it, and of loads
\* that overlap none leaves an older answer unexcused.  Reactions that an empty
\* list has turned off are the named exception: a load shows the default list.
THEOREM ConsoleViewsMatch == Spec => []ViewsMatch
<1>1. Init => HitsInv /\ ViewsInv
  BY InitHits, InitViews
<1>2. Typed /\ HitsInv /\ ViewsInv /\ [Next]_vars => HitsInv' /\ ViewsInv'
  BY HitsAlways, ViewsAlways
<1>3. Typed /\ ViewsInv => ViewsMatch
  <2> SUFFICES ASSUME Typed, ViewsInv, NEW t \in Tab, Quiet(t), NEW v \in plan.views \ stale[t]
               PROVE  Agrees(t, v)
    BY DEF ViewsMatch, Agrees
  <2>0. v \in View
    BY DEF Typed, TablesTyped, Plan
  <2>1. ~Underway(t, v) /\ ~Awaited(t, v)
    BY <2>0 DEF Quiet, Underway, Awaited, Awaits
  <2> QED BY <2>0, <2>1 DEF ViewsInv, Fresh
<1> QED BY <1>1, <1>2, <1>3, ConsoleTyped, PTL DEF Spec
=============================================================================
