--------------------------- MODULE PollVotesProofs ---------------------------
(***************************************************************************)
(* Proofs about PollVotes, for any number of polls, browsers, pages, votes *)
(* and handlers, and any changes by the owner.                             *)
(***************************************************************************)
EXTENDS PollVotes, TLAPS

USE PollAssumption

-----------------------------------------------------------------------------
(* Type correctness.                                                       *)

Run == VoteRun \cup RevokeRun

LEMMA RunOps ==
  ASSUME PollTypeOK, NEW r \in Request, request[r] # None
  PROVE  /\ request[r] \in Run
         /\ request[r].op = "vote" => request[r] \in VoteRun
         /\ request[r].op = "revoke" => request[r] \in RevokeRun
BY DEF PollTypeOK, Run, VoteRun, RevokeRun

LEMMA VoteRunType ==
  ASSUME PollTypeOK, NEW r \in Request, Is(r, "vote")
  PROVE  /\ request[r] \in VoteRun
         /\ VoteOf(r) \in VotePost
         /\ request[r].hash \in Token \cup {None}
BY RunOps DEF Is, VoteRun, VoteOf

LEMMA ProceedType ==
  ASSUME PollTypeOK, NEW r \in Request, NEW h \in Run \cup {None}, Proceed(r, h)
  PROVE  request' \in [Request -> VoteRun \cup RevokeRun \cup {None}]
BY DEF PollTypeOK, Proceed, Run

LEMMA RowsType ==
  ASSUME PollTypeOK, NEW m \in VotePost, NEW hash \in Token \cup {None},
         NEW first, PollOf(m) \in Poll
  PROVE  Rows(m, hash, first) \subseteq VoteRow
BY DEF Rows, VoteRow, VotePost

LEMMA PageType ==
  ASSUME PollTypeOK, NEW w \in Widget, Mounted(w)
  PROVE  /\ pages[w] \in Page
         /\ pages[w].browser \in Browser /\ pages[w].poll \in Poll
         /\ pages[w].token \in Token \cup {None}
BY DEF PollTypeOK, Mounted, Page

LEMMA OwnerType ==
  ASSUME PollTypeOK, Owner
  PROVE  PollTypeOK'
<1>1. ASSUME NEW p \in Poll, Create(p) PROVE PollTypeOK'
  <2>1. PICK m \in BOOLEAN, s \in BOOLEAN :
          polls' = [polls EXCEPT ![p] = [open |-> TRUE, multi |-> m, single |-> s]]
    BY <1>1 DEF Create
  <2>2. [open |-> TRUE, multi |-> m, single |-> s] \in PollRow
    BY DEF PollRow
  <2>3. polls' \in [Poll -> PollRow \cup {None}]
    BY <2>1, <2>2 DEF PollTypeOK
  <2> QED BY <1>1, <2>3 DEF Create, PollTypeOK, browsers
<1>2. ASSUME NEW p \in Poll, Patch(p) PROVE PollTypeOK'
  BY <1>2 DEF Patch, PollTypeOK, browsers
<1>3. ASSUME NEW p \in Poll, DeletePoll(p) PROVE PollTypeOK'
  BY <1>3 DEF DeletePoll, PollTypeOK, browsers
<1> QED BY <1>1, <1>2, <1>3 DEF Owner

LEMMA MountType ==
  ASSUME PollTypeOK, NEW w \in Widget, NEW b \in Browser, NEW p \in Poll, Mount(w, b, p)
  PROVE  PollTypeOK'
<1>1. Returning(b, p) \in BOOLEAN
  BY DEF Returning
<1>2. [browser |-> b, poll |-> p, token |-> stored[b], returning |-> Returning(b, p)] \in Page
  BY <1>1 DEF Page, PollTypeOK
<1>3. pages' \in [Widget -> Page \cup {None}]
  BY <1>2 DEF Mount, PollTypeOK
<1> QED BY <1>3 DEF Mount, PollTypeOK, owner

LEMMA LoadType ==
  ASSUME PollTypeOK, NEW r \in Request, NEW m \in VotePost, Load(r, m),
         posted' \in SUBSET VotePost
  PROVE  PollTypeOK'
<1> DEFINE pc == IF polls[PollOf(m)].single THEN "guard" ELSE "batch"
<1>1. [op |-> "vote", post |-> m, hash |-> None, pc |-> pc] \in Run
  BY DEF Run, VoteRun
<1>2. request' \in [Request -> VoteRun \cup RevokeRun \cup {None}]
  BY <1>1, ProceedType DEF Load
<1> QED BY <1>2 DEF Load, PollTypeOK, owner

LEMMA VisitorType ==
  ASSUME PollTypeOK, NEW w \in Widget, Visitor(w)
  PROVE  PollTypeOK'
<1>1. ASSUME NEW b \in Browser, NEW p \in Poll, Mount(w, b, p) PROVE PollTypeOK'
  BY <1>1, MountType
<1>2. ASSUME NEW r \in Request, ChangeVotes(r, w) PROVE PollTypeOK'
  <2>1. [op |-> "revoke", widget |-> w, token |-> pages[w].token] \in Run
    BY <1>2, PageType DEF ChangeVotes, Run, RevokeRun
  <2>2. request' \in [Request -> VoteRun \cup RevokeRun \cup {None}]
    BY <1>2, <2>1, ProceedType DEF ChangeVotes
  <2> QED BY <1>2, <2>2 DEF ChangeVotes, PollTypeOK, owner, browsers
<1>3. ASSUME NEW r \in Request, NEW c \in Challenge, Vote(r, w, c) PROVE PollTypeOK'
  <2>1. PICK options \in (SUBSET Option) \ {{}} :
          LET m == [widget |-> w, challenge |-> c, options |-> options,
                    token |-> pages[w].token]
          IN Load(r, m) /\ posted' = posted \cup {m}
    BY <1>3 DEF Vote
  <2> DEFINE m == [widget |-> w, challenge |-> c, options |-> options,
                   token |-> pages[w].token]
  <2>2. m \in VotePost
    BY <1>3, PageType DEF Vote, VotePost
  <2>3. posted' \in SUBSET VotePost /\ Load(r, m)
    BY <2>1, <2>2 DEF PollTypeOK
  <2> HIDE DEF m
  <2> QED BY <2>2, <2>3, LoadType
<1> QED BY <1>1, <1>2, <1>3 DEF Visitor

\* The rows of a ballot are typed once its page is known to be mounted.
LEMMA HandleType ==
  ASSUME PollTypeOK, NEW r \in Request, Handle(r),
         Is(r, "vote") => Mounted(VoteOf(r).widget)
  PROVE  PollTypeOK'
<1>1. ASSUME NEW m \in posted, Again(r, m) PROVE PollTypeOK'
  BY <1>1, LoadType DEF Again, PollTypeOK
<1>2. CASE FirstVote(r)
  <2>1. PICK t \in Token \ minted :
          /\ minted' = minted \cup {t}
          /\ Proceed(r, [request[r] EXCEPT !.pc = "batch", !.hash = t])
    BY <1>2 DEF FirstVote
  <2>2. [request[r] EXCEPT !.pc = "batch", !.hash = t] \in Run
    BY <1>2, VoteRunType DEF FirstVote, At, VoteRun, Run
  <2>3. request' \in [Request -> VoteRun \cup RevokeRun \cup {None}]
    BY <2>1, <2>2, ProceedType
  <2> QED BY <1>2, <2>1, <2>3 DEF FirstVote, PollTypeOK, owner, browsers
<1>3. CASE KnownVoter(r)
  <2>1. [request[r] EXCEPT !.pc = "batch", !.hash = VoteOf(r).token] \in Run
    BY <1>3, VoteRunType DEF KnownVoter, At, VoteRun, VotePost, Run
  <2>2. request' \in [Request -> VoteRun \cup RevokeRun \cup {None}]
    BY <1>3, <2>1, ProceedType DEF KnownVoter
  <2> QED BY <1>3, <2>2 DEF KnownVoter, PollTypeOK, owner, browsers
<1>4. CASE StoreBallot(r)
  <2> DEFINE m == VoteOf(r)
             h == IF Issued(r) THEN [request[r] EXCEPT !.pc = "answer"] ELSE None
  <2>1. /\ m \in VotePost /\ request[r] \in VoteRun
        /\ request[r].hash \in Token \cup {None}
    BY <1>4, VoteRunType DEF StoreBallot, At
  <2>2. h \in Run \cup {None}
    BY <2>1 DEF VoteRun, Run
  <2>3. request' \in [Request -> VoteRun \cup RevokeRun \cup {None}]
    BY <1>4, <2>2, ProceedType DEF StoreBallot
  <2>4. PollOf(m) \in Poll
    BY <1>4, <2>1, PageType DEF PollOf, VotePost, StoreBallot, At
  <2>5. PICK first \in m.options : votes' = votes \cup Rows(m, request[r].hash, first)
    BY <1>4 DEF StoreBallot
  <2>6. votes' \in SUBSET VoteRow
    BY <2>1, <2>4, <2>5, RowsType DEF PollTypeOK
  <2>7. used' \in SUBSET Challenge
    BY <1>4, <2>1 DEF StoreBallot, VotePost, PollTypeOK
  <2> QED BY <1>4, <2>3, <2>6, <2>7 DEF StoreBallot, PollTypeOK, owner, browsers
<1>5. CASE Answer(r)
  <2> DEFINE w == VoteOf(r).widget
             t == request[r].hash
  <2>1. w \in Widget /\ t \in Token \cup {None} /\ Mounted(w)
    BY <1>5, VoteRunType DEF Answer, At, VotePost
  <2>2. [pages[w] EXCEPT !.token = t] \in Page /\ pages[w].browser \in Browser
    BY <2>1, PageType DEF Page
  <2>3. pages' \in [Widget -> Page \cup {None}]
    BY <1>5, <2>1, <2>2 DEF Answer, PollTypeOK
  <2>4. stored' \in [Browser -> Token \cup {None}]
    BY <1>5, <2>1, <2>2 DEF Answer, PollTypeOK
  <2>5. request' \in [Request -> VoteRun \cup RevokeRun \cup {None}]
    BY <1>5, ProceedType DEF Answer
  <2> QED BY <1>5, <2>3, <2>4, <2>5 DEF Answer, PollTypeOK, owner
<1>6. CASE Revoke(r) \/ Abandon(r)
  <2>1. request' \in [Request -> VoteRun \cup RevokeRun \cup {None}]
    BY <1>6, ProceedType DEF Revoke, Abandon
  <2> QED BY <1>6, <2>1 DEF Revoke, Abandon, PollTypeOK, owner, browsers
<1> QED BY <1>1, <1>2, <1>3, <1>4, <1>5, <1>6 DEF Handle

-----------------------------------------------------------------------------
(* The inductive invariant.                                                *)

\* What was posted came from a page, for some options, with a challenge of its
\* own; handlers work for pages.
Posts ==
  /\ \A m \in posted : Mounted(m.widget) /\ m.options # {}
  /\ \A m, n \in posted : m.challenge = n.challenge => m = n
  /\ \A r \in Request : Is(r, "vote") => VoteOf(r) \in posted
  /\ \A r \in Request : Is(r, "revoke") => Mounted(request[r].widget)

\* A row belongs to a vote that consumed its challenge; the rows of a vote are
\* its ballot, with one anchor, or none.
Ballots ==
  /\ \A v \in votes : v.challenge \in used /\ \E m \in posted : m.challenge = v.challenge
  /\ \A m \in posted :
       \/ RowsOf(m.challenge) = {}
       \/ \E first \in m.options, hash \in Token \cup {None} :
            RowsOf(m.challenge) = Rows(m, hash, first)

\* Where a browser's token can be: in its storage, its pages, its votes, the
\* handlers that work for it, and the rows of its ballots.
InStorage(t, b) == stored[b] = t
OnPage(t, b) ==
  \E w \in Widget : Mounted(w) /\ pages[w].token = t /\ pages[w].browser = b
InPost(t, b) == \E m \in posted : m.token = t /\ BrowserOf(m) = b
InVote(t, b) ==
  \E r \in Request : Is(r, "vote") /\ request[r].hash = t /\ BrowserOf(VoteOf(r)) = b
InRevocation(t, b) ==
  \E r \in Request : Is(r, "revoke") /\ request[r].token = t /\ BrowserOf(request[r]) = b
InBallot(t, b) ==
  \E v \in votes, m \in posted :
    v.hash = t /\ m.challenge = v.challenge /\ BrowserOf(m) = b

Holds(t, b) ==
  \/ InStorage(t, b) \/ OnPage(t, b) \/ InPost(t, b)
  \/ InVote(t, b) \/ InRevocation(t, b) \/ InBallot(t, b)

\* Tokens are issued before they are held, and by one browser only.
Tokens ==
  \A t \in Token, b \in Browser :
    Holds(t, b) => t \in minted /\ \A c \in Browser : Holds(t, c) => c = b

PollInv == PollTypeOK /\ Posts /\ Ballots /\ Tokens

-----------------------------------------------------------------------------
(* What every step keeps.                                                  *)

Keeps ==
  /\ posted \subseteq posted'
  /\ \A w \in Widget : Mounted(w) =>
       /\ Mounted(w)'
       /\ pages'[w].browser = pages[w].browser /\ pages'[w].poll = pages[w].poll

LEMMA MountKeeps ==
  ASSUME PollTypeOK, NEW w \in Widget, NEW b \in Browser, NEW p \in Poll, Mount(w, b, p)
  PROVE  Keeps
BY DEF Mount, Keeps, Mounted, PollTypeOK

LEMMA AnswerKeeps ==
  ASSUME PollTypeOK, NEW r \in Request, Answer(r), Mounted(VoteOf(r).widget)
  PROVE  Keeps
<1> DEFINE w == VoteOf(r).widget
           new == [pages[w] EXCEPT !.token = request[r].hash]
<1>1. w \in Widget /\ request[r].hash \in Token \cup {None}
  BY VoteRunType DEF Answer, At, VotePost
<1>2. new \in Page /\ new.browser = pages[w].browser /\ new.poll = pages[w].poll
  BY <1>1, PageType DEF Page
<1>3. pages' = [pages EXCEPT ![w] = new] /\ posted' = posted
  BY DEF Answer
<1>4. new # None
  BY <1>2
<1> HIDE DEF w, new
<1> QED BY <1>1, <1>2, <1>3, <1>4 DEF Keeps, Mounted, PollTypeOK

LEMMA StillPosted ==
  ASSUME PollTypeOK, Posts, Keeps, NEW m \in posted
  PROVE  PollOf(m)' = PollOf(m) /\ BrowserOf(m)' = BrowserOf(m)
BY DEF Posts, Keeps, PollOf, BrowserOf, PollTypeOK, VotePost

\* Rows go by whole ballots, if at all.
LEMMA BallotsLess ==
  ASSUME PollTypeOK, Posts, Posts', Ballots, Keeps,
         votes' \subseteq votes, used' = used,
         \A v \in votes', s \in votes : s.challenge = v.challenge => s \in votes'
  PROVE  Ballots'
<1>1. \A v \in votes' : v.challenge \in used' /\ \E m \in posted' : m.challenge = v.challenge
  BY DEF Ballots, Keeps
<1>2. ASSUME NEW m \in posted', RowsOf(m.challenge)' # {}
      PROVE  \E first \in m.options, hash \in Token \cup {None} :
               RowsOf(m.challenge)' = Rows(m, hash, first)'
  <2>1. PICK v \in votes' : v.challenge = m.challenge
    BY <1>2 DEF RowsOf
  <2>2. PICK n \in posted : n.challenge = v.challenge
    BY <2>1 DEF Ballots
  <2>3. m = n
    BY <2>1, <2>2 DEF Posts, Keeps
  <2>4. RowsOf(m.challenge)' = RowsOf(m.challenge)
    BY <2>1 DEF RowsOf
  <2>5. PICK first \in m.options, hash \in Token \cup {None} :
          RowsOf(m.challenge) = Rows(m, hash, first)
    BY <1>2, <2>2, <2>3, <2>4 DEF Ballots
  <2>6. Rows(m, hash, first)' = Rows(m, hash, first)
    BY <2>2, <2>3, StillPosted DEF Rows
  <2> QED BY <2>4, <2>5, <2>6
<1> QED BY <1>1, <1>2 DEF Ballots

\* A ballot comes whole.
LEMMA BallotsMore ==
  ASSUME PollTypeOK, Posts, Ballots, UNCHANGED <<posted, pages>>,
         NEW r \in Request, StoreBallot(r)
  PROVE  Ballots'
<1>1. PICK m \in posted, hash \in Token \cup {None} :
        m = VoteOf(r) /\ m \in VotePost /\ hash = request[r].hash
  BY VoteRunType DEF StoreBallot, At, Posts
<1>2. PICK first \in m.options : votes' = votes \cup Rows(m, hash, first)
  BY <1>1 DEF StoreBallot
<1>3. m.challenge \notin used /\ used' = used \cup {m.challenge}
  BY <1>1 DEF StoreBallot
<1>4. \A v \in Rows(m, hash, first) : v.challenge = m.challenge
  BY DEF Rows
<1>5. \A v \in votes : v.challenge # m.challenge
  BY <1>3 DEF Ballots
<1>6. ASSUME NEW n \in posted, NEW f, NEW h PROVE Rows(n, h, f)' = Rows(n, h, f)
  BY DEF Rows, PollOf
<1>7. RowsOf(m.challenge)' = Rows(m, hash, first)
  BY <1>2, <1>4, <1>5 DEF RowsOf
<1>8. ASSUME NEW n \in posted, n # m PROVE RowsOf(n.challenge)' = RowsOf(n.challenge)
  BY <1>1, <1>2, <1>4, <1>8 DEF RowsOf, Posts
<1>9. \A v \in votes' : v.challenge \in used' /\ \E n \in posted' : n.challenge = v.challenge
  BY <1>1, <1>2, <1>3, <1>4 DEF Ballots
<1>10. ASSUME NEW n \in posted', RowsOf(n.challenge)' # {}
       PROVE  \E f \in n.options, h \in Token \cup {None} :
                RowsOf(n.challenge)' = Rows(n, h, f)'
  <2>1. n \in posted
    OBVIOUS
  <2>2. CASE n = m
    BY <1>1, <1>6, <1>7, <2>2
  <2>3. CASE n # m
    <3>1. PICK f \in n.options, h \in Token \cup {None} : RowsOf(n.challenge) = Rows(n, h, f)
      BY <1>8, <1>10, <2>1, <2>3 DEF Ballots
    <3>2. Rows(n, h, f)' = Rows(n, h, f)
      BY <1>6, <2>1
    <3> QED BY <1>8, <2>1, <2>3, <3>1, <3>2
  <2> QED BY <2>2, <2>3
<1> QED BY <1>9, <1>10 DEF Ballots

-----------------------------------------------------------------------------
(* Tokens stay with their browser.                                         *)

\* Browser b has had token t; u and c are a token just issued and its browser.
Had(t, b, u, c) == Holds(t, b) \/ (t = u /\ b = c)

\* Whoever holds a token after a step held it before, if that is so of what
\* the step has changed.
LEMMA HeldBefore ==
  ASSUME PollInv, PollTypeOK', Posts', Keeps, NEW t \in Token, NEW b \in Browser,
         NEW u, NEW c, Holds(t, b)',
         InStorage(t, b)' => Had(t, b, u, c),
         OnPage(t, b)' => Had(t, b, u, c),
         \A m \in posted' \ posted : m.token = t /\ BrowserOf(m)' = b => Had(t, b, u, c),
         \A q \in Request :
           \/ request'[q] = request[q]
           \/ /\ Is(q, "vote")' /\ request'[q].hash = t /\ BrowserOf(VoteOf(q))' = b
                  => Had(t, b, u, c)
              /\ Is(q, "revoke")' /\ request'[q].token = t /\ BrowserOf(request[q])' = b
                  => Had(t, b, u, c),
         \A v \in votes' \ votes, m \in posted' :
           v.hash = t /\ m.challenge = v.challenge /\ BrowserOf(m)' = b => Had(t, b, u, c)
  PROVE  Had(t, b, u, c)
<1>1. PollTypeOK /\ Posts /\ Ballots
  BY DEF PollInv
<1>2. CASE InPost(t, b)'
  <2>1. PICK m \in posted' : m.token = t /\ BrowserOf(m)' = b
    BY <1>2 DEF InPost
  <2>2. CASE m \in posted
    BY <1>1, <2>1, <2>2, StillPosted DEF Had, Holds, InPost
  <2> QED BY <2>1, <2>2
<1>3. CASE InVote(t, b)'
  <2>1. PICK q \in Request :
          Is(q, "vote")' /\ request'[q].hash = t /\ BrowserOf(VoteOf(q))' = b
    BY <1>3 DEF InVote
  <2>2. CASE request'[q] = request[q]
    <3>1. PICK m \in posted : m = VoteOf(q) /\ Is(q, "vote")
      BY <1>1, <2>1, <2>2 DEF Posts, Is
    <3>2. VoteOf(q)' = m
      BY <2>2, <3>1 DEF VoteOf
    <3>3. BrowserOf(m) = b
      BY <1>1, <2>1, <3>1, <3>2, StillPosted DEF BrowserOf
    <3> QED BY <2>1, <2>2, <3>1, <3>3 DEF Had, Holds, InVote
  <2> QED BY <2>1, <2>2
<1>4. CASE InRevocation(t, b)'
  <2>1. PICK q \in Request :
          Is(q, "revoke")' /\ request'[q].token = t /\ BrowserOf(request[q])' = b
    BY <1>4 DEF InRevocation
  <2>2. CASE request'[q] = request[q]
    <3>1. Is(q, "revoke") /\ request[q].widget \in Widget /\ Mounted(request[q].widget)
      BY <1>1, <2>1, <2>2, RunOps DEF Is, Posts, RevokeRun
    <3>2. BrowserOf(request[q]) = b
      BY <2>1, <2>2, <3>1 DEF BrowserOf, Keeps
    <3> QED BY <2>1, <2>2, <3>1, <3>2 DEF Had, Holds, InRevocation
  <2> QED BY <2>1, <2>2
<1>5. CASE InBallot(t, b)'
  <2>1. PICK v \in votes', m \in posted' :
          v.hash = t /\ m.challenge = v.challenge /\ BrowserOf(m)' = b
    BY <1>5 DEF InBallot
  <2>2. CASE v \in votes
    <3>1. PICK n \in posted : n.challenge = v.challenge
      BY <1>1, <2>2 DEF Ballots
    <3>2. m = n
      BY <2>1, <3>1 DEF Posts, Keeps
    <3> QED BY <1>1, <2>1, <2>2, <3>2, StillPosted DEF Had, Holds, InBallot
  <2> QED BY <2>1, <2>2
<1> QED BY <1>2, <1>3, <1>4, <1>5 DEF Holds

LEMMA TokensKept ==
  ASSUME Tokens, minted \subseteq minted',
         \A t \in Token, b \in Browser : Holds(t, b)' => Holds(t, b)
  PROVE  Tokens'
BY DEF Tokens

\* A step that issues nothing: it suffices to look at what it changes.
LEMMA NothingIssued ==
  ASSUME PollInv, PollTypeOK', Posts', Keeps, minted' = minted,
         \A t \in Token, b \in Browser :
           /\ InStorage(t, b)' => Holds(t, b)
           /\ OnPage(t, b)' => Holds(t, b)
           /\ \A m \in posted' \ posted : m.token = t /\ BrowserOf(m)' = b => Holds(t, b)
           /\ \A q \in Request :
                \/ request'[q] = request[q]
                \/ /\ Is(q, "vote")' /\ request'[q].hash = t /\ BrowserOf(VoteOf(q))' = b
                       => Holds(t, b)
                   /\ Is(q, "revoke")' /\ request'[q].token = t /\ BrowserOf(request[q])' = b
                       => Holds(t, b)
           /\ \A v \in votes' \ votes, m \in posted' :
                v.hash = t /\ m.challenge = v.challenge /\ BrowserOf(m)' = b => Holds(t, b)
  PROVE  Tokens'
<1>1. ASSUME NEW t \in Token, NEW b \in Browser, Holds(t, b)' PROVE Holds(t, b)
  <2>1. Had(t, b, None, b)
    <3> USE DEF Had
    <3> QED BY <1>1, HeldBefore
  <2> QED BY <2>1 DEF Had
<1> QED BY <1>1, TokensKept DEF PollInv

LEMMA SamePages ==
  ASSUME UNCHANGED pages, NEW t, NEW b, OnPage(t, b)'
  PROVE  Holds(t, b)
BY DEF OnPage, Holds, Mounted

LEMMA SameStorage ==
  ASSUME UNCHANGED stored, NEW t, NEW b, InStorage(t, b)'
  PROVE  Holds(t, b)
BY DEF InStorage, Holds

-----------------------------------------------------------------------------
(* Every step keeps the invariant.                                         *)

LEMMA PostsKept ==
  ASSUME PollTypeOK, Posts, Keeps, posted' = posted,
         \A q \in Request :
           \/ request'[q] = request[q]
           \/ request'[q] = None
           \/ Is(q, "vote")' /\ VoteOf(q)' \in posted
           \/ Is(q, "revoke")' /\ Mounted(request[q].widget)'
  PROVE  Posts'
<1>1. \A m \in posted' : Mounted(m.widget)' /\ m.options # {}
  BY DEF Posts, Keeps, PollTypeOK, VotePost
<1>2. ASSUME NEW q \in Request, Is(q, "vote")' PROVE VoteOf(q)' \in posted'
  BY <1>2 DEF Posts, Is, VoteOf
<1>3. ASSUME NEW q \in Request, Is(q, "revoke")' PROVE Mounted(request[q].widget)'
  <2>1. CASE request'[q] = request[q]
    <3>1. request[q].widget \in Widget /\ Mounted(request[q].widget)
      BY <1>3, <2>1, RunOps DEF Is, Posts, RevokeRun
    <3> QED BY <2>1, <3>1 DEF Keeps, Mounted
  <2> QED BY <1>3, <2>1 DEF Is
<1> QED BY <1>1, <1>2, <1>3 DEF Posts

\* The steps that leave the ballots, the votes and the pages alone.
LEMMA OwnerInv ==
  ASSUME PollInv, Owner
  PROVE  PollInv'
<1>1. PollTypeOK /\ PollTypeOK' /\ Posts /\ Ballots
  BY OwnerType DEF PollInv
<1>2. /\ UNCHANGED <<used, minted, stored, pages, posted, request>>
      /\ votes' \subseteq votes
      /\ \A v \in votes', s \in votes : s.challenge = v.challenge => s \in votes'
  <2>1. ASSUME NEW p \in Poll, Create(p) \/ Patch(p)
        PROVE  UNCHANGED <<used, minted, stored, pages, posted, request, votes>>
    BY <2>1 DEF Create, Patch, browsers
  <2>2. ASSUME NEW p \in Poll, DeletePoll(p), NEW v \in votes', NEW s \in votes,
               s.challenge = v.challenge
        PROVE  s \in votes'
    <3>1. v \in votes /\ v.poll # p
      BY <2>2 DEF DeletePoll
    <3>2. PICK m \in posted : m.challenge = v.challenge
      BY <3>1, <1>1 DEF Ballots
    <3>3. v \in RowsOf(m.challenge) /\ s \in RowsOf(m.challenge)
      BY <2>2, <3>1, <3>2 DEF RowsOf
    <3>4. v.poll = PollOf(m) /\ s.poll = PollOf(m)
      BY <1>1, <3>2, <3>3 DEF Ballots, Rows
    <3> QED BY <2>2, <3>1, <3>4 DEF DeletePoll
  <2>3. ASSUME NEW p \in Poll, DeletePoll(p)
        PROVE  UNCHANGED <<used, minted, stored, pages, posted, request>>
               /\ votes' \subseteq votes
    BY <2>3 DEF DeletePoll, browsers
  <2> QED BY <2>1, <2>2, <2>3 DEF Owner
<1>3. Keeps /\ Posts'
  <2>1. Keeps
    BY <1>2 DEF Keeps, Mounted
  <2> QED BY <1>1, <1>2, <2>1, PostsKept
<1>4. Ballots'
  BY <1>1, <1>2, <1>3, BallotsLess
<1>5. Tokens'
  BY <1>1, <1>2, <1>3, NothingIssued, SamePages, SameStorage
<1> QED BY <1>1, <1>3, <1>4, <1>5 DEF PollInv

LEMMA MountInv ==
  ASSUME PollInv, NEW w \in Widget, NEW b \in Browser, NEW p \in Poll, Mount(w, b, p)
  PROVE  PollInv'
<1>1. PollTypeOK /\ PollTypeOK' /\ Posts /\ Ballots
  BY MountType DEF PollInv
<1>2. UNCHANGED <<votes, used, minted, stored, posted, request>>
  BY DEF Mount
<1>3. Keeps /\ Posts'
  BY <1>1, <1>2, MountKeeps, PostsKept
<1>4. Ballots'
  BY <1>1, <1>2, <1>3, BallotsLess
<1>5. ASSUME NEW t \in Token, NEW c \in Browser, OnPage(t, c)' PROVE Holds(t, c)
  <2>1. PICK x \in Widget : Mounted(x)' /\ pages'[x].token = t /\ pages'[x].browser = c
    BY <1>5 DEF OnPage
  <2>2. CASE x = w
    <3>1. pages'[w].token = stored[b] /\ pages'[w].browser = b
      BY <1>1 DEF Mount, PollTypeOK
    <3> QED BY <2>1, <2>2, <3>1 DEF Holds, InStorage
  <2>3. CASE x # w
    <3>1. pages'[x] = pages[x]
      BY <1>1, <2>3 DEF Mount, PollTypeOK
    <3> QED BY <2>1, <3>1 DEF Holds, OnPage, Mounted
  <2> QED BY <2>2, <2>3
<1>6. Tokens'
  BY <1>1, <1>2, <1>3, <1>5, NothingIssued, SameStorage
<1> QED BY <1>1, <1>3, <1>4, <1>6 DEF PollInv

\* A vote is loaded: a new one of its page, or one that was posted before.
LEMMA LoadInv ==
  ASSUME PollInv, NEW r \in Request, NEW m \in VotePost, Load(r, m),
         posted' = posted \cup {m}, PollTypeOK',
         \/ m \in posted
         \/ /\ \A n \in posted : n.challenge # m.challenge
            /\ Mounted(m.widget) /\ m.options # {} /\ m.token = pages[m.widget].token
  PROVE  PollInv'
<1>1. PollTypeOK /\ Posts /\ Ballots
  BY DEF PollInv
<1>2. PICK h \in VoteRun : request' = [request EXCEPT ![r] = h] /\ h.post = m /\ h.hash = None
  <2> DEFINE pc == IF polls[PollOf(m)].single THEN "guard" ELSE "batch"
             h == [op |-> "vote", post |-> m, hash |-> None, pc |-> pc]
  <2>1. h \in VoteRun
    BY DEF VoteRun
  <2>2. request' = [request EXCEPT ![r] = h]
    BY DEF Load, Proceed
  <2> QED BY <2>1, <2>2
<1>3. UNCHANGED <<votes, used, minted, stored, pages>>
  BY DEF Load
<1>4. Keeps
  BY <1>3 DEF Keeps, Mounted
<1>5. \A q \in Request : request'[q] = IF q = r THEN h ELSE request[q]
  BY <1>1, <1>2 DEF PollTypeOK
<1>6. h.op = "vote" /\ h # None
  BY <1>2 DEF VoteRun
<1>7. Posts'
  <2>1. \A n \in posted' : Mounted(n.widget)' /\ n.options # {}
    BY <1>1, <1>3 DEF Posts, Mounted
  <2>2. \A n, k \in posted' : n.challenge = k.challenge => n = k
    BY <1>1 DEF Posts
  <2>3. ASSUME NEW q \in Request, Is(q, "vote")' PROVE VoteOf(q)' \in posted'
    BY <1>1, <1>2, <1>5, <2>3 DEF Posts, Is, VoteOf
  <2>4. ASSUME NEW q \in Request, Is(q, "revoke")' PROVE Mounted(request[q].widget)'
    BY <1>1, <1>3, <1>5, <1>6, <2>4 DEF Posts, Is, Mounted
  <2> QED BY <2>1, <2>2, <2>3, <2>4 DEF Posts
<1>8. Ballots'
  BY <1>1, <1>3, <1>4, <1>7, BallotsLess
<1>9. ASSUME NEW t \in Token, NEW b \in Browser, NEW n \in posted' \ posted,
             n.token = t, BrowserOf(n)' = b
      PROVE  Holds(t, b)
  BY <1>3, <1>9 DEF Holds, OnPage, BrowserOf, VotePost
<1>10. None \notin Token
  OBVIOUS
<1>11. Tokens'
  BY <1>2, <1>3, <1>4, <1>5, <1>6, <1>7, <1>9, <1>10, NothingIssued, SamePages, SameStorage
  DEF Is
<1> QED BY <1>7, <1>8, <1>11 DEF PollInv

LEMMA VisitorInv ==
  ASSUME PollInv, NEW w \in Widget, Visitor(w)
  PROVE  PollInv'
<1>1. PollTypeOK /\ PollTypeOK' /\ Posts /\ Ballots
  BY VisitorType DEF PollInv
<1>2. ASSUME NEW b \in Browser, NEW p \in Poll, Mount(w, b, p) PROVE PollInv'
  BY <1>2, MountInv
<1>3. ASSUME NEW r \in Request, ChangeVotes(r, w) PROVE PollInv'
  <2>1. UNCHANGED <<votes, used, minted, stored, pages, posted>>
    BY <1>3 DEF ChangeVotes, browsers
  <2>2. PICK h \in RevokeRun :
          request' = [request EXCEPT ![r] = h] /\ h.widget = w /\ h.token = pages[w].token
    <3> DEFINE h == [op |-> "revoke", widget |-> w, token |-> pages[w].token]
    <3>1. h \in RevokeRun
      BY <1>1, <1>3, PageType DEF ChangeVotes, RevokeRun
    <3>2. request' = [request EXCEPT ![r] = h]
      BY <1>3 DEF ChangeVotes, Proceed
    <3> QED BY <3>1, <3>2
  <2>3. \A q \in Request : request'[q] = IF q = r THEN h ELSE request[q]
    BY <1>1, <2>2 DEF PollTypeOK
  <2>4. h.op = "revoke" /\ h # None /\ Mounted(w)
    BY <1>3, <2>2 DEF RevokeRun, ChangeVotes
  <2>5. Keeps
    BY <2>1 DEF Keeps, Mounted
  <2>6. Posts'
    BY <1>1, <2>1, <2>2, <2>3, <2>4, <2>5, PostsKept DEF Is, Mounted
  <2>7. Ballots'
    BY <1>1, <2>1, <2>5, <2>6, BallotsLess
  <2>8. ASSUME NEW t \in Token, NEW b \in Browser, request'[r].token = t,
               BrowserOf(request[r])' = b
        PROVE  Holds(t, b)
    BY <2>1, <2>2, <2>3, <2>4, <2>8 DEF Holds, OnPage, BrowserOf
  <2>9. Tokens'
    BY <1>1, <2>1, <2>3, <2>4, <2>5, <2>6, <2>8, NothingIssued, SamePages, SameStorage DEF Is
  <2> QED BY <1>1, <2>6, <2>7, <2>9 DEF PollInv
<1>4. ASSUME NEW r \in Request, NEW c \in Challenge, Vote(r, w, c) PROVE PollInv'
  <2>1. PICK options \in (SUBSET Option) \ {{}} :
          LET m == [widget |-> w, challenge |-> c, options |-> options,
                    token |-> pages[w].token]
          IN Load(r, m) /\ posted' = posted \cup {m}
    BY <1>4 DEF Vote
  <2>2. Mounted(w) /\ \A n \in posted : n.challenge # c
    BY <1>4 DEF Vote
  <2>3. PICK m \in VotePost :
          /\ Load(r, m) /\ posted' = posted \cup {m}
          /\ m.widget = w /\ m.challenge = c /\ m.options # {} /\ m.token = pages[w].token
    BY <1>1, <2>1, <2>2, PageType DEF VotePost
  <2> QED BY <1>1, <2>2, <2>3, LoadInv
<1> QED BY <1>2, <1>3, <1>4 DEF Visitor

LEMMA FirstVoteInv ==
  ASSUME PollInv, PollTypeOK', NEW r \in Request, FirstVote(r)
  PROVE  PollInv'
<1>1. PollTypeOK /\ Posts /\ Ballots /\ Tokens
  BY DEF PollInv
<1>2. PICK m \in posted : m = VoteOf(r)
  BY <1>1 DEF FirstVote, At, Posts
<1>3. PICK u \in Token \ minted :
        /\ minted' = minted \cup {u}
        /\ Proceed(r, [request[r] EXCEPT !.pc = "batch", !.hash = u])
  BY DEF FirstVote
<1>4. PICK h \in VoteRun : request' = [request EXCEPT ![r] = h] /\ h.post = m /\ h.hash = u
  <2> DEFINE h == [request[r] EXCEPT !.pc = "batch", !.hash = u]
  <2>1. h \in VoteRun /\ h.post = m /\ h.hash = u
    BY <1>1, <1>2, VoteRunType DEF FirstVote, At, VoteRun, VoteOf
  <2>2. request' = [request EXCEPT ![r] = h]
    BY <1>3 DEF Proceed
  <2> HIDE DEF h
  <2> QED BY <2>1, <2>2
<1>5. \A q \in Request : request'[q] = IF q = r THEN h ELSE request[q]
  BY <1>1, <1>4 DEF PollTypeOK
<1>6. h.op = "vote" /\ h # None
  BY <1>4 DEF VoteRun
<1>7. UNCHANGED <<votes, used, stored, pages, posted>>
  BY DEF FirstVote, browsers
<1>8. Keeps /\ Posts'
  <2>1. Keeps
    BY <1>7 DEF Keeps, Mounted
  <2>2. Is(r, "vote")' /\ VoteOf(r)' \in posted
    BY <1>2, <1>4, <1>5, <1>6 DEF Is, VoteOf
  <2> QED BY <1>1, <1>5, <1>7, <2>1, <2>2, PostsKept
<1>9. Ballots'
  BY <1>1, <1>7, <1>8, BallotsLess
<1>10. PICK c : c = BrowserOf(m)
  OBVIOUS
<1>11. ASSUME NEW t \in Token, NEW b \in Browser, Holds(t, b)' PROVE Had(t, b, u, c)
  <2>1. InStorage(t, b)' => Had(t, b, u, c)
    BY <1>7, SameStorage DEF Had
  <2>2. OnPage(t, b)' => Had(t, b, u, c)
    BY <1>7, SamePages DEF Had
  <2>3. VoteOf(r)' = m /\ BrowserOf(m)' = c
    BY <1>4, <1>5, <1>7, <1>10 DEF VoteOf, BrowserOf
  <2>4. Is(r, "vote")' /\ request'[r].hash = t /\ BrowserOf(VoteOf(r))' = b
          => Had(t, b, u, c)
    BY <1>4, <1>5, <2>3 DEF Had, BrowserOf
  <2>5. ~Is(r, "revoke")'
    BY <1>5, <1>6 DEF Is
  <2> QED BY <1>5, <1>7, <1>8, <1>11, <2>1, <2>2, <2>4, <2>5, HeldBefore
<1>12. ASSUME NEW t \in Token, NEW b \in Browser, Holds(t, b)'
       PROVE  t \in minted' /\ \A d \in Browser : Holds(t, d)' => d = b
  BY <1>1, <1>3, <1>11, <1>12 DEF Had, Tokens
<1>13. Tokens'
  BY <1>12 DEF Tokens
<1> QED BY <1>8, <1>9, <1>13 DEF PollInv

LEMMA KnownVoterInv ==
  ASSUME PollInv, PollTypeOK', NEW r \in Request, KnownVoter(r)
  PROVE  PollInv'
<1>1. PollTypeOK /\ Posts /\ Ballots
  BY DEF PollInv
<1>2. PICK m \in posted : m = VoteOf(r)
  BY <1>1 DEF KnownVoter, At, Posts
<1>3. PICK h \in VoteRun :
        request' = [request EXCEPT ![r] = h] /\ h.post = m /\ h.hash = m.token
  <2> DEFINE h == [request[r] EXCEPT !.pc = "batch", !.hash = m.token]
  <2>1. h \in VoteRun /\ h.post = m /\ h.hash = m.token
    BY <1>1, <1>2, VoteRunType DEF KnownVoter, At, VoteRun, VotePost, VoteOf
  <2>2. request' = [request EXCEPT ![r] = h]
    BY <1>2 DEF KnownVoter, Proceed
  <2> HIDE DEF h
  <2> QED BY <2>1, <2>2
<1>4. \A q \in Request : request'[q] = IF q = r THEN h ELSE request[q]
  BY <1>1, <1>3 DEF PollTypeOK
<1>5. h.op = "vote" /\ h # None
  BY <1>3 DEF VoteRun
<1>6. UNCHANGED <<votes, used, minted, stored, pages, posted>>
  BY DEF KnownVoter, browsers
<1>7. VoteOf(r)' = m
  BY <1>3, <1>4 DEF VoteOf
<1>8. Keeps /\ Posts'
  <2>1. Keeps
    BY <1>6 DEF Keeps, Mounted
  <2>2. Is(r, "vote")' /\ VoteOf(r)' \in posted
    BY <1>2, <1>4, <1>5, <1>7 DEF Is
  <2> QED BY <1>1, <1>4, <1>6, <2>1, <2>2, PostsKept
<1>9. Ballots'
  BY <1>1, <1>6, <1>8, BallotsLess
<1>10. ASSUME NEW t \in Token, NEW b \in Browser,
              request'[r].hash = t, BrowserOf(VoteOf(r))' = b
       PROVE  Holds(t, b)
  BY <1>2, <1>3, <1>4, <1>6, <1>7, <1>10 DEF Holds, InPost, BrowserOf
<1>11. ~Is(r, "revoke")'
  BY <1>4, <1>5 DEF Is
<1>12. Tokens'
  BY <1>4, <1>6, <1>8, <1>10, <1>11, NothingIssued, SamePages, SameStorage
<1> QED BY <1>8, <1>9, <1>12 DEF PollInv

LEMMA StoreBallotInv ==
  ASSUME PollInv, PollTypeOK', NEW r \in Request, StoreBallot(r)
  PROVE  PollInv'
<1>1. PollTypeOK /\ Posts /\ Ballots
  BY DEF PollInv
<1>2. PICK m \in posted, hash \in Token \cup {None} :
        m = VoteOf(r) /\ hash = request[r].hash /\ Is(r, "vote")
  BY <1>1, VoteRunType DEF StoreBallot, At, Posts
<1>3. PICK h \in Run \cup {None} :
        /\ request' = [request EXCEPT ![r] = h]
        /\ h # None => h.op = "vote" /\ h.post = m /\ h.hash = hash
  <2>1. request[r] \in VoteRun /\ request[r].post = m
    BY <1>1, <1>2, VoteRunType DEF VoteOf
  <2> DEFINE a == [request[r] EXCEPT !.pc = "answer"]
  <2>2. a \in VoteRun /\ a.op = "vote" /\ a.post = m /\ a.hash = hash
    BY <1>2, <2>1 DEF VoteRun
  <2>3. request' = [request EXCEPT ![r] = IF Issued(r) THEN a ELSE None]
    BY DEF StoreBallot, Proceed
  <2> HIDE DEF a
  <2> QED BY <2>2, <2>3 DEF Run
<1>4. \A q \in Request : request'[q] = IF q = r THEN h ELSE request[q]
  BY <1>1, <1>3 DEF PollTypeOK
<1>5. UNCHANGED <<minted, stored, pages, posted>>
  BY DEF StoreBallot, browsers
<1>6. Keeps /\ Posts'
  <2>1. Keeps
    BY <1>5 DEF Keeps, Mounted
  <2>2. request'[r] = None \/ (Is(r, "vote")' /\ VoteOf(r)' \in posted)
    BY <1>2, <1>3, <1>4 DEF Is, VoteOf
  <2> QED BY <1>1, <1>4, <1>5, <2>1, <2>2, PostsKept
<1>7. Ballots'
  BY <1>1, <1>5, BallotsMore
<1>8. PICK first \in m.options : votes' = votes \cup Rows(m, hash, first)
  BY <1>2 DEF StoreBallot
<1>9. ASSUME NEW t \in Token, NEW b \in Browser, hash = t, BrowserOf(m)' = b
      PROVE  Holds(t, b)
  BY <1>2, <1>5, <1>9 DEF Holds, InVote, BrowserOf
<1>10. ASSUME NEW t \in Token, NEW b \in Browser, NEW v \in votes' \ votes, NEW n \in posted',
              v.hash = t, n.challenge = v.challenge, BrowserOf(n)' = b
       PROVE  Holds(t, b)
  <2>1. v.hash \in {hash, None} /\ v.challenge = m.challenge
    BY <1>8 DEF Rows
  <2>2. n = m
    BY <1>1, <1>5, <1>10, <2>1 DEF Posts
  <2> QED BY <1>9, <1>10, <2>1, <2>2
<1>11. ASSUME NEW t \in Token, NEW b \in Browser, Is(r, "vote")',
              request'[r].hash = t, BrowserOf(VoteOf(r))' = b
       PROVE  Holds(t, b)
  <2>1. h # None /\ VoteOf(r)' = m /\ hash = t
    BY <1>3, <1>4, <1>11 DEF Is, VoteOf
  <2> QED BY <1>9, <1>11, <2>1 DEF BrowserOf
<1>12. ~Is(r, "revoke")'
  BY <1>3, <1>4 DEF Is
<1>13. Tokens'
  BY <1>4, <1>5, <1>6, <1>10, <1>11, <1>12, NothingIssued, SamePages, SameStorage
<1> QED BY <1>6, <1>7, <1>13 DEF PollInv

LEMMA AnswerInv ==
  ASSUME PollInv, PollTypeOK', NEW r \in Request, Answer(r)
  PROVE  PollInv'
<1>1. PollTypeOK /\ Posts /\ Ballots
  BY DEF PollInv
<1>2. PICK m \in posted, hash \in Token \cup {None} :
        m = VoteOf(r) /\ hash = request[r].hash /\ Is(r, "vote")
  BY <1>1, VoteRunType DEF Answer, At, Posts
<1>3. PICK w \in Widget : w = m.widget /\ Mounted(w)
  BY <1>1, <1>2, VoteRunType DEF Posts, VotePost
<1>4. UNCHANGED <<votes, used, minted, posted>>
  BY DEF Answer, owner
<1>5. \A q \in Request : request'[q] = IF q = r THEN None ELSE request[q]
  BY <1>1 DEF Answer, Proceed, PollTypeOK
<1>6. Keeps
  BY <1>1, <1>2, <1>3, AnswerKeeps
<1>7. Posts'
  BY <1>1, <1>4, <1>5, <1>6, PostsKept
<1>8. Ballots'
  BY <1>1, <1>4, <1>6, <1>7, BallotsLess
<1>9. pages[w] \in Page /\ pages[w].browser \in Browser
  BY <1>1, <1>3, PageType
<1>10. ASSUME NEW t \in Token, hash = t PROVE Holds(t, pages[w].browser)
  BY <1>2, <1>3, <1>10 DEF Holds, InVote, BrowserOf
<1>11. ASSUME NEW t \in Token, NEW b \in Browser, InStorage(t, b)' PROVE Holds(t, b)
  <2>1. stored' = [stored EXCEPT ![pages[w].browser] = hash]
    BY <1>2, <1>3 DEF Answer
  <2>2. stored'[b] = t
    BY <1>11 DEF InStorage
  <2>3. CASE b = pages[w].browser
    BY <1>1, <1>9, <1>10, <2>1, <2>2, <2>3 DEF PollTypeOK
  <2>4. CASE b # pages[w].browser
    BY <1>1, <2>1, <2>2, <2>4 DEF PollTypeOK, Holds, InStorage
  <2> QED BY <2>3, <2>4
<1>12. ASSUME NEW t \in Token, NEW b \in Browser, OnPage(t, b)' PROVE Holds(t, b)
  <2>1. PICK x \in Widget : Mounted(x)' /\ pages'[x].token = t /\ pages'[x].browser = b
    BY <1>12 DEF OnPage
  <2>2. pages' = [pages EXCEPT ![w].token = hash]
    BY <1>2, <1>3 DEF Answer
  <2>3. CASE x = w
    <3>1. pages'[w] = [pages[w] EXCEPT !.token = hash]
      BY <1>1, <2>2 DEF PollTypeOK
    <3>2. pages'[w].token = hash /\ pages'[w].browser = pages[w].browser
      BY <1>9, <3>1 DEF Page
    <3> QED BY <1>10, <2>1, <2>3, <3>2
  <2>4. CASE x # w
    <3>1. pages'[x] = pages[x]
      BY <1>1, <2>2, <2>4 DEF PollTypeOK
    <3> QED BY <2>1, <3>1 DEF Holds, OnPage, Mounted
  <2> QED BY <2>3, <2>4
<1>13. ~Is(r, "vote")' /\ ~Is(r, "revoke")'
  BY <1>5 DEF Is
<1>14. Tokens'
  BY <1>4, <1>5, <1>6, <1>7, <1>11, <1>12, <1>13, NothingIssued
<1> QED BY <1>7, <1>8, <1>14 DEF PollInv

\* A revocation takes whole ballots, and so does nothing at all.
LEMMA BallotOfIsWhole ==
  ASSUME PollTypeOK, Posts, Ballots, NEW p, NEW t, NEW v \in votes, NEW s \in votes,
         v.challenge = s.challenge, s \in BallotOf(p, t)
  PROVE  v \in BallotOf(p, t)
<1>1. PICK m \in posted : m.challenge = v.challenge
  BY DEF Ballots
<1>2. v \in RowsOf(m.challenge) /\ s \in RowsOf(m.challenge)
  BY <1>1 DEF RowsOf
<1>3. v.poll = PollOf(m) /\ s.poll = PollOf(m)
  BY <1>1, <1>2 DEF Ballots, Rows
<1>4. PICK a \in votes : a.poll = p /\ a.hash = t /\ a.challenge = v.challenge
  BY DEF BallotOf
<1> QED BY <1>3, <1>4 DEF BallotOf

LEMMA EndInv ==
  ASSUME PollInv, PollTypeOK', NEW r \in Request, Revoke(r) \/ Abandon(r)
  PROVE  PollInv'
<1>1. PollTypeOK /\ Posts /\ Ballots
  BY DEF PollInv
<1>2. UNCHANGED <<used, minted, stored, pages, posted>>
  BY DEF Revoke, Abandon, browsers
<1>3. /\ votes' \subseteq votes
      /\ \A v \in votes', s \in votes : s.challenge = v.challenge => s \in votes'
  <2>1. CASE Abandon(r)
    BY <2>1 DEF Abandon
  <2>2. CASE Revoke(r)
    <3>1. PICK p, t : votes' = votes \ BallotOf(p, t)
      BY <2>2 DEF Revoke
    <3> QED BY <1>1, <3>1, BallotOfIsWhole
  <2> QED BY <2>1, <2>2
<1>4. \A q \in Request : request'[q] = IF q = r THEN None ELSE request[q]
  BY <1>1 DEF Revoke, Abandon, Proceed, PollTypeOK
<1>5. Keeps
  BY <1>2 DEF Keeps, Mounted
<1>6. Posts'
  BY <1>1, <1>2, <1>4, <1>5, PostsKept
<1>7. Ballots'
  BY <1>1, <1>2, <1>3, <1>5, <1>6, BallotsLess
<1>8. ~Is(r, "vote")' /\ ~Is(r, "revoke")'
  BY <1>4 DEF Is
<1>9. Tokens'
  BY <1>2, <1>3, <1>4, <1>5, <1>6, <1>8, NothingIssued, SamePages, SameStorage
<1> QED BY <1>6, <1>7, <1>9 DEF PollInv

LEMMA HandleInv ==
  ASSUME PollInv, NEW r \in Request, Handle(r)
  PROVE  PollInv'
<1>1. PollTypeOK'
  BY HandleType DEF PollInv, Posts
<1>2. ASSUME NEW m \in posted, Again(r, m) PROVE PollInv'
  <2>1. m \in VotePost /\ Load(r, m) /\ posted' = posted \cup {m}
    BY <1>2 DEF PollInv, PollTypeOK, Again
  <2> QED BY <1>1, <2>1, LoadInv
<1> QED BY <1>1, <1>2, FirstVoteInv, KnownVoterInv, StoreBallotInv, AnswerInv, EndInv
        DEF Handle

LEMMA InitInv == Init => PollInv
<1> SUFFICES ASSUME Init PROVE PollInv
  OBVIOUS
<1>1. PollTypeOK
  BY DEF Init, PollTypeOK
<1>2. Posts /\ Ballots
  BY DEF Init, Posts, Ballots, Is, RowsOf
<1>3. Tokens
  BY DEF Init, Tokens, Holds, InStorage, OnPage, InPost, InVote, InRevocation, InBallot,
         Mounted, Is
<1> QED BY <1>1, <1>2, <1>3 DEF PollInv

LEMMA StutterInv == PollInv /\ UNCHANGED vars => PollInv'
<1> SUFFICES ASSUME PollInv, UNCHANGED vars PROVE PollInv'
  OBVIOUS
<1>1. PollTypeOK /\ Posts /\ Ballots
  BY DEF PollInv
<1>2. PollTypeOK'
  BY <1>1 DEF PollTypeOK, vars
<1>3. UNCHANGED <<votes, used, minted, stored, pages, posted, request>>
  BY DEF vars
<1>4. Keeps
  BY <1>3 DEF Keeps, Mounted
<1>5. Posts'
  BY <1>1, <1>3, <1>4, PostsKept
<1>6. Ballots'
  BY <1>1, <1>3, <1>4, <1>5, BallotsLess
<1>7. Tokens'
  BY <1>2, <1>3, <1>4, <1>5, NothingIssued, SamePages, SameStorage
<1> QED BY <1>2, <1>5, <1>6, <1>7 DEF PollInv

\* The inductive invariant holds in every reachable state.
THEOREM PollInvariance == Spec => []PollInv
<1>1. PollInv /\ [Next]_vars => PollInv'
  BY OwnerInv, VisitorInv, HandleInv, StutterInv DEF Next
<1> QED BY <1>1, InitInv, PTL DEF Spec

-----------------------------------------------------------------------------
(* What follows.                                                           *)

\* Type correctness, whatever the numbers of polls, pages and handlers.
THEOREM PollTypeCorrect == Spec => []PollTypeOK
<1>1. PollInv => PollTypeOK
  BY DEF PollInv
<1> QED BY <1>1, PollInvariance, PTL

\* A ballot is in poll_votes with every option it was cast for, or not at all.
THEOREM BallotsWhole == Spec => []WholeBallots
<1>1. ASSUME PollInv PROVE WholeBallots
  <2> SUFFICES ASSUME NEW m \in posted
               PROVE  {v.option : v \in RowsOf(m.challenge)} \in {{}, m.options}
    BY DEF WholeBallots
  <2>1. CASE RowsOf(m.challenge) = {}
    BY <2>1
  <2>2. CASE RowsOf(m.challenge) # {}
    <3>1. PICK first, hash : RowsOf(m.challenge) = Rows(m, hash, first)
      BY <1>1, <2>2 DEF PollInv, Ballots
    <3>2. \A v \in Rows(m, hash, first) : v.option \in m.options
      BY DEF Rows
    <3>3. ASSUME NEW o \in m.options PROVE \E v \in Rows(m, hash, first) : v.option = o
      <4> DEFINE v == [poll |-> PollOf(m), challenge |-> m.challenge, option |-> o,
                       hash |-> IF o = first THEN hash ELSE None]
      <4>1. v \in Rows(m, hash, first) /\ v.option = o
        BY DEF Rows
      <4> HIDE DEF v
      <4> QED BY <4>1
    <3>4. {v.option : v \in Rows(m, hash, first)} = m.options
      BY <3>2, <3>3
    <3> QED BY <3>1, <3>4
  <2> QED BY <2>1, <2>2
<1> QED BY <1>1, PollInvariance, PTL

\* Which step empties a ballot: the end of its poll, or a revocation of the
\* browser that cast it.
LEMMA EmptiedBy ==
  ASSUME PollInv, [Next]_vars, NEW m \in posted,
         RowsOf(m.challenge) # {}, RowsOf(m.challenge)' = {}
  PROVE  \/ ~Exists(PollOf(m))'
         \/ \E r \in Request : /\ Is(r, "revoke") /\ request'[r] = None
                               /\ PollOf(request[r]) = PollOf(m)
                               /\ BrowserOf(request[r]) = BrowserOf(m)
<1>1. PollTypeOK /\ Posts /\ Ballots /\ Tokens
  BY DEF PollInv
<1>2. PICK v \in votes : v.challenge = m.challenge /\ v \notin votes'
  BY DEF RowsOf
<1>3. ASSUME NEW p \in Poll, DeletePoll(p) PROVE ~Exists(PollOf(m))'
  <2>1. v.poll = PollOf(m)
    BY <1>1, <1>2 DEF Ballots, Rows, RowsOf
  <2>2. p = PollOf(m) /\ pages' = pages
    BY <1>2, <1>3, <2>1 DEF DeletePoll, browsers
  <2>3. polls'[p] = None
    BY <1>1, <1>3 DEF DeletePoll, PollTypeOK
  <2> QED BY <2>2, <2>3 DEF Exists, PollOf
<1>4. ASSUME NEW r \in Request, Revoke(r)
      PROVE  /\ Is(r, "revoke") /\ request'[r] = None
             /\ PollOf(request[r]) = PollOf(m)
             /\ BrowserOf(request[r]) = BrowserOf(m)
  <2>1. Is(r, "revoke") /\ request'[r] = None
    BY <1>1, <1>4 DEF Revoke, Proceed, PollTypeOK
  <2>2. v \in BallotOf(PollOf(request[r]), request[r].token)
    BY <1>2, <1>4 DEF Revoke
  <2>3. PICK a \in votes : /\ a.poll = PollOf(request[r]) /\ a.hash = request[r].token
                           /\ a.challenge = m.challenge
    BY <1>2, <2>2 DEF BallotOf
  <2>4. a.poll = PollOf(m)
    BY <1>1, <2>3 DEF Ballots, Rows, RowsOf
  <2>5. request[r].token \in Token /\ request[r].widget \in Widget
    BY <1>1, <2>1, RunOps DEF Is, RevokeRun
  <2>6. BrowserOf(m) \in Browser /\ BrowserOf(request[r]) \in Browser
    BY <1>1, <2>1, <2>5, PageType DEF BrowserOf, Posts, PollTypeOK, VotePost
  <2>7. Holds(request[r].token, BrowserOf(m))
    BY <2>3 DEF Holds, InBallot
  <2>8. Holds(request[r].token, BrowserOf(request[r]))
    BY <2>1 DEF Holds, InRevocation
  <2> QED BY <1>1, <2>1, <2>3, <2>4, <2>5, <2>6, <2>7, <2>8 DEF Tokens
<1>5. CASE UNCHANGED vars
  BY <1>2, <1>5 DEF vars
<1>6. ASSUME NEW p \in Poll, Create(p) \/ Patch(p) PROVE FALSE
  BY <1>2, <1>6 DEF Create, Patch
<1>7. ASSUME NEW w \in Widget, Visitor(w) PROVE FALSE
  BY <1>2, <1>7 DEF Visitor, Mount, ChangeVotes, Vote, Load
<1>8. ASSUME NEW r \in Request, Handle(r), ~Revoke(r) PROVE FALSE
  BY <1>2, <1>8 DEF Handle, Again, Load, FirstVote, KnownVoter, StoreBallot, Answer, Abandon
<1> QED BY <1>3, <1>4, <1>5, <1>6, <1>7, <1>8 DEF Next, Owner

\* While its poll is there, a ballot is removed only by a revocation of the
\* browser that cast it: a token never crosses browsers.
THEOREM OwnBallots == Spec => OwnBallotsOnly
<1>1. PollInv /\ [Next]_vars
      => [\A m \in posted :
            RowsOf(m.challenge) # {} /\ RowsOf(m.challenge)' = {}
            => \/ ~Exists(PollOf(m))'
               \/ \E r \in Request : /\ Is(r, "revoke") /\ request'[r] = None
                                     /\ PollOf(request[r]) = PollOf(m)
                                     /\ BrowserOf(request[r]) = BrowserOf(m)]_vars
  BY EmptiedBy
<1> QED BY <1>1, PollInvariance, PTL DEF Spec, OwnBallotsOnly

-----------------------------------------------------------------------------
(* The table implements the ballot box.                                    *)

\* The box of a set V of rows.
Same(V, v) == {s \in V : s.challenge = v.challenge}
PaperOf(V, v) ==
  [id |-> v.challenge, poll |-> v.poll,
   options |-> {s.option : s \in Same(V, v)},
   voters |-> {s.hash : s \in Same(V, v)} \ {None}]
BoxOf(V) == {PaperOf(V, v) : v \in V}

\* Rows of one new challenge make one new paper.
LEMMA MoreRows ==
  ASSUME NEW V, NEW R, NEW b, R # {},
         \A v \in R : v.challenge = b.id /\ v.poll = b.poll,
         \A v \in V : v.challenge # b.id,
         b = [id |-> b.id, poll |-> b.poll, options |-> {s.option : s \in R},
              voters |-> {s.hash : s \in R} \ {None}]
  PROVE  BoxOf(V \cup R) = BoxOf(V) \cup {b}
<1>1. ASSUME NEW v \in V PROVE PaperOf(V \cup R, v) = PaperOf(V, v)
  <2>1. Same(V \cup R, v) = Same(V, v)
    BY DEF Same
  <2> QED BY <2>1 DEF PaperOf
<1>2. ASSUME NEW v \in R PROVE PaperOf(V \cup R, v) = b
  <2>1. Same(V \cup R, v) = R
    BY DEF Same
  <2> QED BY <2>1 DEF PaperOf
<1> QED BY <1>1, <1>2 DEF BoxOf

\* When rows go by whole ballots the other papers stay as they were.
LEMMA FewerRows ==
  ASSUME NEW V, NEW W, W \subseteq V,
         \A v \in W, s \in V : s.challenge = v.challenge => s \in W
  PROVE  BoxOf(W) = {PaperOf(V, v) : v \in W}
<1>1. ASSUME NEW v \in W PROVE PaperOf(W, v) = PaperOf(V, v)
  <2>1. Same(W, v) = Same(V, v)
    BY DEF Same
  <2> QED BY <2>1 DEF PaperOf
<1> QED BY <1>1 DEF BoxOf

\* Rows with one challenge are for one poll.
LEMMA OnePoll ==
  ASSUME PollInv, NEW v \in votes, NEW s \in votes, v.challenge = s.challenge
  PROVE  v.poll = s.poll
<1>1. PICK m \in posted : m.challenge = v.challenge
  BY DEF PollInv, Ballots
<1>2. v \in RowsOf(m.challenge) /\ s \in RowsOf(m.challenge)
  BY <1>1 DEF RowsOf
<1> QED BY <1>1, <1>2 DEF PollInv, Ballots, Rows

LEMMA Casts ==
  ASSUME PollInv, NEW r \in Request, StoreBallot(r)
  PROVE  \E b \in Box!Paper :
           /\ b.id \notin used /\ used' = used \cup {b.id}
           /\ b.options # {}
           /\ \/ b.voters = {}
              \/ \E t \in Token : /\ b.voters = {t}
                                  /\ \A o \in BoxOf(votes) : o.poll = b.poll => t \notin o.voters
           /\ BoxOf(votes') = BoxOf(votes) \cup {b}
<1>1. PollTypeOK /\ Posts /\ Ballots
  BY DEF PollInv
<1>2. PICK m \in posted, hash \in Token \cup {None} :
        m = VoteOf(r) /\ hash = request[r].hash /\ m \in VotePost
  BY <1>1, VoteRunType DEF StoreBallot, At, Posts
<1>3. PICK first \in m.options : votes' = votes \cup Rows(m, hash, first)
  BY <1>2 DEF StoreBallot
<1>4. PICK p \in Poll : p = PollOf(m)
  BY <1>1, <1>2, PageType DEF PollOf, Posts, VotePost
<1>5. PICK R : R = Rows(m, hash, first)
  OBVIOUS
<1>6. \A v \in R : v.challenge = m.challenge /\ v.poll = p
  BY <1>4, <1>5 DEF Rows
<1>7. {s.option : s \in R} = m.options
  <2>1. \A v \in R : v.option \in m.options
    BY <1>5 DEF Rows
  <2>2. ASSUME NEW o \in m.options PROVE \E v \in R : v.option = o
    <3> DEFINE v == [poll |-> PollOf(m), challenge |-> m.challenge, option |-> o,
                     hash |-> IF o = first THEN hash ELSE None]
    <3>1. v \in R /\ v.option = o
      BY <1>5 DEF Rows
    <3> HIDE DEF v
    <3> QED BY <3>1
  <2> QED BY <2>1, <2>2
<1>8. {s.hash : s \in R} \ {None} = {hash} \ {None}
  <2>1. \A v \in R : v.hash \in {hash, None}
    BY <1>5 DEF Rows
  <2>2. \E v \in R : v.hash = hash
    <3> DEFINE v == [poll |-> PollOf(m), challenge |-> m.challenge, option |-> first,
                     hash |-> IF first = first THEN hash ELSE None]
    <3>1. v \in R /\ v.hash = hash
      BY <1>5 DEF Rows
    <3> HIDE DEF v
    <3> QED BY <3>1
  <2> QED BY <2>1, <2>2
<1>9. PICK b : b = [id |-> m.challenge, poll |-> p, options |-> m.options,
                    voters |-> {hash} \ {None}]
  OBVIOUS
<1>10. b \in Box!Paper
  BY <1>2, <1>9 DEF Box!Paper, VotePost
<1>11. b.id \notin used /\ used' = used \cup {b.id}
  BY <1>2, <1>9 DEF StoreBallot
<1>12. b.options # {}
  BY <1>9
<1>13. R # {}
  BY <1>3, <1>7
<1>14. \A v \in votes : v.challenge # b.id
  BY <1>1, <1>11 DEF Ballots
<1>15. BoxOf(votes') = BoxOf(votes) \cup {b}
  <2>1. b = [id |-> b.id, poll |-> b.poll, options |-> {s.option : s \in R},
             voters |-> {s.hash : s \in R} \ {None}]
    BY <1>7, <1>8, <1>9
  <2>2. \A v \in R : v.challenge = b.id /\ v.poll = b.poll
    BY <1>6, <1>9
  <2>3. BoxOf(votes \cup R) = BoxOf(votes) \cup {b}
    BY <1>13, <1>14, <2>1, <2>2, MoreRows
  <2> QED BY <1>3, <1>5, <2>3
<1>16. CASE hash = None
  BY <1>9, <1>10, <1>11, <1>12, <1>15, <1>16
<1>17. CASE hash # None
  <2>1. hash \in Token /\ b.voters = {hash}
    BY <1>9, <1>17
  <2>2. ASSUME NEW v \in votes, v.poll = p, NEW s \in Same(votes, v), s.hash = hash
        PROVE  FALSE
    <3>1. s.poll = p
      BY <2>2, OnePoll DEF Same
    <3> QED BY <1>2, <1>4, <1>17, <2>2, <3>1 DEF StoreBallot, UniqueViolation, HasVoted, Same
  <2>3. \A o \in BoxOf(votes) : o.poll = b.poll => hash \notin o.voters
    BY <1>9, <2>2 DEF BoxOf, PaperOf
  <2> QED BY <1>10, <1>11, <1>12, <1>15, <2>1, <2>3
<1> QED BY <1>16, <1>17

LEMMA Clears ==
  ASSUME PollInv, NEW p \in Poll, DeletePoll(p)
  PROVE  BoxOf(votes') = {b \in BoxOf(votes) : b.poll # p}
<1>1. votes' = {v \in votes : v.poll # p}
  BY DEF DeletePoll
<1>2. BoxOf(votes') = {PaperOf(votes, v) : v \in votes'}
  BY <1>1, OnePoll, FewerRows
<1>3. \A v \in votes : PaperOf(votes, v).poll = v.poll
  BY DEF PaperOf
<1> QED BY <1>1, <1>2, <1>3 DEF BoxOf

LEMMA TakesBack ==
  ASSUME PollInv, NEW p \in Poll, NEW t \in Token, votes' = votes \ BallotOf(p, t)
  PROVE  BoxOf(votes') = {b \in BoxOf(votes) : b.poll = p => t \notin b.voters}
<1>1. BoxOf(votes') = {PaperOf(votes, v) : v \in votes'}
  BY BallotOfIsWhole, FewerRows DEF PollInv
<1>2. ASSUME NEW v \in votes
      PROVE  v \in BallotOf(p, t) <=> v.poll = p /\ t \in PaperOf(votes, v).voters
  <2>1. t \in PaperOf(votes, v).voters <=> \E s \in votes : s.challenge = v.challenge /\ s.hash = t
    BY DEF PaperOf, Same
  <2>2. \A s \in votes : s.challenge = v.challenge => s.poll = v.poll
    BY OnePoll
  <2> QED BY <2>1, <2>2 DEF BallotOf
<1>3. \A v \in votes : PaperOf(votes, v).poll = v.poll
  BY DEF PaperOf
<1>4. \A v \in votes : v \in votes' <=>
        (PaperOf(votes, v).poll = p => t \notin PaperOf(votes, v).voters)
  BY <1>2, <1>3
<1>5. votes' \subseteq votes
  OBVIOUS
<1>6. {PaperOf(votes, v) : v \in votes'}
        = {b \in {PaperOf(votes, v) : v \in votes} : b.poll = p => t \notin b.voters}
  BY <1>4, <1>5
<1> QED BY <1>1, <1>6 DEF BoxOf

\* A step on the rows is a step on the box, or leaves it alone.
LEMMA BoxStep ==
  ASSUME PollInv, [Next]_vars
  PROVE  [Box!BNext]_(Box!boxVars)
<1> USE DEF BoxOf, PaperOf, Same, RowsOf
<1>1. ASSUME NEW r \in Request, StoreBallot(r) PROVE Box!BNext
  BY <1>1, Casts DEF Box!BNext, Box!Cast
<1>2. ASSUME NEW p \in Poll, DeletePoll(p) PROVE Box!BNext
  BY <1>2, Clears DEF Box!BNext, Box!Clear, DeletePoll
<1>3. ASSUME NEW r \in Request, Revoke(r) PROVE Box!BNext
  <2>1. request[r] \in RevokeRun /\ Mounted(request[r].widget)
    BY <1>3, RunOps DEF PollInv, Revoke, Is, Posts
  <2>2. PICK p \in Poll, t \in Token : p = PollOf(request[r]) /\ t = request[r].token
    BY <2>1, PageType DEF PollInv, PollOf, RevokeRun
  <2>3. votes' = votes \ BallotOf(p, t) /\ used' = used
    BY <1>3, <2>2 DEF Revoke
  <2>4. Box!TakeBack(p, t)
    BY <2>3, TakesBack DEF Box!TakeBack
  <2> QED BY <2>4 DEF Box!BNext
<1>4. CASE UNCHANGED <<votes, used>>
  BY <1>4 DEF Box!boxVars
<1>5. ASSUME NEW p \in Poll, Create(p) \/ Patch(p) PROVE UNCHANGED <<votes, used>>
  BY <1>5 DEF Create, Patch
<1>6. ASSUME NEW w \in Widget, Visitor(w) PROVE UNCHANGED <<votes, used>>
  BY <1>6 DEF Visitor, Mount, ChangeVotes, Vote, Load
<1>7. ASSUME NEW r \in Request, Handle(r), ~StoreBallot(r), ~Revoke(r)
      PROVE  UNCHANGED <<votes, used>>
  BY <1>7 DEF Handle, Again, Load, FirstVote, KnownVoter, Answer, Abandon
<1>8. CASE UNCHANGED vars
  BY <1>4, <1>8 DEF vars
<1> QED BY <1>1, <1>2, <1>3, <1>4, <1>5, <1>6, <1>7, <1>8 DEF Next, Owner

\* poll_votes behaves like a box of whole ballots: each is cast once, one at a
\* time is held under a token, a voter takes back their own, the end of a poll
\* removes the rest.
THEOREM ImplementsBox == Spec => ImplementsBallotBox
<1>1. Init => Box!BInit
  BY DEF Init, Box!BInit
<1>2. PollInv /\ [Next]_vars => [Box!BNext]_(Box!boxVars)
  BY BoxStep
<1> QED BY <1>1, <1>2, PollInvariance, PTL DEF Spec, ImplementsBallotBox, Box!BSpec

=============================================================================
