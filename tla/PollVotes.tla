----------------------------- MODULE PollVotes -----------------------------
(***************************************************************************)
(* Polls, the ballots in poll_votes, and the browsers that vote.           *)
(*                                                                         *)
(* A vote is loaded against its poll, passes the single-vote guard if the  *)
(* poll has it, and is stored in one batch; between these the owner may    *)
(* change or delete the poll and other requests of the same browser may    *)
(* run.  A browser knows a guarded poll's voter token only from an answer  *)
(* that reached it, keeps it in localStorage under ONE key for all polls,  *)
(* and each mounted widget keeps the copy it read when it was mounted.     *)
(* Signatures, proof of work, gate and rate limits are refusals (Abandon); *)
(* that a consumed challenge is forgotten after a day is in AntiReplay.    *)
(***************************************************************************)
EXTENDS Naturals

CONSTANTS
  Poll,        \* poll ids (fresh random UUIDs: never used twice)
  Option,      \* the options of every poll
  Challenge,   \* challenge id strings, each fetched for one vote
  Token,       \* voter tokens the server may issue; also their hashes
  Browser,     \* browsers, each with one localStorage
  Widget,      \* page loads: every mount of a poll's widget is a new one
  Request,     \* handlers that may run at one time
  None,        \* no poll, token, page or request
  MaxPatches   \* bound of the model: changes of polls in a behaviour

PollRow == [open: BOOLEAN, multi: BOOLEAN, single: BOOLEAN]

VoteRow == [poll: Poll, challenge: Challenge, option: Option,
            hash: Token \cup {None}]

\* returning: history, an earlier page of this browser knew of its ballot in
\* this poll when this one was mounted.
Page == [browser: Browser, poll: Poll, token: Token \cup {None}, returning: BOOLEAN]

\* The body of POST /api/polls/vote.
VotePost == [widget: Widget, challenge: Challenge, options: SUBSET Option,
             token: Token \cup {None}]

\* hash: what the ballot is bound to, the hash of a voter token or nothing.
VoteRun == [op: {"vote"}, pc: {"guard", "batch", "answer"}, post: VotePost,
            hash: Token \cup {None}]
RevokeRun == [op: {"revoke"}, widget: Widget, token: Token]

ASSUME PollAssumption ==
  /\ MaxPatches \in Nat
  /\ None \notin Token \cup PollRow \cup Page
  /\ None \notin VoteRun \cup RevokeRun

VARIABLES
  polls,     \* the table: id -> row, or None
  created,   \* every poll id ever given to a row
  patches,   \* how often a poll was changed
  votes,     \* poll_votes
  used,      \* used_challenges
  minted,    \* every token ever issued
  stored,    \* browser -> localStorage['sl-voter-token'], or None
  pages,     \* widget -> its page, or None (not mounted yet)
  posted,    \* the votes that reached a handler; each may come again
  request    \* handler -> what it is doing, or None

vars == <<polls, created, patches, votes, used, minted, stored, pages, posted, request>>

owner == <<polls, created, patches>>
browsers == <<stored, pages, posted>>

PollTypeOK ==
  /\ polls \in [Poll -> PollRow \cup {None}]
  /\ created \in SUBSET Poll
  /\ patches \in Nat
  /\ votes \in SUBSET VoteRow
  /\ used \in SUBSET Challenge
  /\ minted \in SUBSET Token
  /\ stored \in [Browser -> Token \cup {None}]
  /\ pages \in [Widget -> Page \cup {None}]
  /\ posted \in SUBSET VotePost
  /\ request \in [Request -> VoteRun \cup RevokeRun \cup {None}]

Exists(p) == polls[p] # None
Mounted(w) == pages[w] # None
Is(r, op) == request[r] # None /\ request[r].op = op
At(r, pc) == Is(r, "vote") /\ request[r].pc = pc
PollOf(m) == pages[m.widget].poll
VoteOf(r) == request[r].post

Init ==
  /\ polls = [p \in Poll |-> None]
  /\ created = {}
  /\ patches = 0
  /\ votes = {}
  /\ used = {}
  /\ minted = {}
  /\ stored = [b \in Browser |-> None]
  /\ pages = [w \in Widget |-> None]
  /\ posted = {}
  /\ request = [r \in Request |-> None]

Proceed(r, h) == request' = [request EXCEPT ![r] = h]

-----------------------------------------------------------------------------
(* The owner.                                                              *)

Create(p) ==
  /\ p \notin created
  /\ created' = created \cup {p}
  /\ \E m, s \in BOOLEAN :
       polls' = [polls EXCEPT ![p] = [open |-> TRUE, multi |-> m, single |-> s]]
  /\ UNCHANGED <<patches, votes, used, minted, browsers, request>>

\* One UPDATE of any of the three fields.
Patch(p) ==
  /\ Exists(p)
  /\ patches < MaxPatches
  /\ patches' = patches + 1
  /\ \E row \in PollRow \ {polls[p]} : polls' = [polls EXCEPT ![p] = row]
  /\ UNCHANGED <<created, votes, used, minted, browsers, request>>

\* The poll and its votes, in one batch.  The poll was found by an earlier
\* query: another delete, and late votes, may have come in between.
DeletePoll(p) ==
  /\ p \in created
  /\ votes' = {v \in votes : v.poll # p}
  /\ polls' = [polls EXCEPT ![p] = None]
  /\ UNCHANGED <<created, patches, used, minted, browsers, request>>

-----------------------------------------------------------------------------
(* The browser.                                                            *)

HasVoted(p, t) == \E v \in votes : v.poll = p /\ v.hash = t

Returning(b, p) ==
  \E w \in Widget : /\ Mounted(w) /\ pages[w].browser = b /\ pages[w].poll = p
                    /\ pages[w].token # None /\ HasVoted(p, pages[w].token)

\* initPoll: the widget reads localStorage once.
Mount(w, b, p) ==
  /\ ~Mounted(w)
  /\ p \in created
  /\ pages' = [pages EXCEPT ![w] =
       [browser |-> b, poll |-> p, token |-> stored[b], returning |-> Returning(b, p)]]
  /\ UNCHANGED <<owner, votes, used, minted, stored, posted, request>>

-----------------------------------------------------------------------------
(* Voting.                                                                 *)

\* The poll is open, and takes several options if there are several.  Without
\* the guard the ballot is anonymous, whatever token came with it.
Load(r, m) ==
  /\ request[r] = None
  /\ Exists(PollOf(m))
  /\ polls[PollOf(m)].open
  /\ polls[PollOf(m)].multi \/ \E o \in Option : m.options = {o}
  /\ Proceed(r, [op |-> "vote", post |-> m, hash |-> None,
                 pc |-> IF polls[PollOf(m)].single THEN "guard" ELSE "batch"])
  /\ UNCHANGED <<owner, votes, used, minted, stored, pages>>

\* A page solves a challenge and sends a vote, with the token it holds.
Vote(r, w, c) ==
  /\ Mounted(w)
  /\ \A m \in posted : m.challenge # c
  /\ \E options \in (SUBSET Option) \ {{}} :
       LET m == [widget |-> w, challenge |-> c, options |-> options,
                 token |-> pages[w].token]
       IN Load(r, m) /\ posted' = posted \cup {m}

\* A vote is delivered once more.
Again(r, m) == m \in posted /\ Load(r, m) /\ UNCHANGED posted

\* A guarded vote without a token gets a fresh one.
FirstVote(r) ==
  /\ At(r, "guard")
  /\ VoteOf(r).token = None
  /\ \E t \in Token \ minted :
       /\ minted' = minted \cup {t}
       /\ Proceed(r, [request[r] EXCEPT !.pc = "batch", !.hash = t])
  /\ UNCHANGED <<owner, votes, used, browsers>>

\* The SELECT of the guard finds nothing under the token.
KnownVoter(r) ==
  LET m == VoteOf(r) IN
  /\ At(r, "guard")
  /\ m.token # None
  /\ ~HasVoted(PollOf(m), m.token)
  /\ Proceed(r, [request[r] EXCEPT !.pc = "batch", !.hash = m.token])
  /\ UNCHANGED <<owner, votes, used, minted, browsers>>

\* Faulty variant: one row for the whole selection.
RowOfSelection(m, hash, first) ==
  {[poll |-> PollOf(m), challenge |-> m.challenge, option |-> m.options, hash |-> hash]}

\* A row for each option; the first one, the anchor, carries the hash.
Rows(m, hash, first) ==
  {[poll |-> PollOf(m), challenge |-> m.challenge, option |-> o,
    hash |-> IF o = first THEN hash ELSE None] : o \in m.options}

\* Faulty variant: the table has no UNIQUE (poll_id, voter_hash).
NoUniqueIndex(p, t) == FALSE

\* UNIQUE (poll_id, voter_hash); a NULL hash conflicts with nothing.
UniqueViolation(p, t) == t # None /\ HasVoted(p, t)

\* The answer will carry a new token.
Issued(r) == request[r].hash # None /\ VoteOf(r).token = None

\* The batch: consume the challenge, insert every row.  On a consumed
\* challenge or a violation nothing is stored.
StoreBallot(r) ==
  LET m == VoteOf(r) IN
  /\ At(r, "batch")
  /\ m.challenge \notin used
  /\ ~UniqueViolation(PollOf(m), request[r].hash)
  /\ used' = used \cup {m.challenge}
  /\ \E first \in m.options : votes' = votes \cup Rows(m, request[r].hash, first)
  /\ Proceed(r, IF Issued(r) THEN [request[r] EXCEPT !.pc = "answer"] ELSE None)
  /\ UNCHANGED <<owner, minted, browsers>>

\* An answer with a token reaches the page, which keeps it in localStorage too.
Answer(r) ==
  LET w == VoteOf(r).widget IN
  /\ At(r, "answer")
  /\ pages' = [pages EXCEPT ![w].token = request[r].hash]
  /\ stored' = [stored EXCEPT ![pages[w].browser] = request[r].hash]
  /\ Proceed(r, None)
  /\ UNCHANGED <<owner, votes, used, minted, posted>>

-----------------------------------------------------------------------------
(* Changing one's votes.                                                   *)

\* The page sends its token, and the poll allows it.
ChangeVotes(r, w) ==
  /\ request[r] = None
  /\ Mounted(w) /\ pages[w].token # None
  /\ LET p == pages[w].poll IN Exists(p) /\ polls[p].multi /\ polls[p].single
  /\ Proceed(r, [op |-> "revoke", widget |-> w, token |-> pages[w].token])
  /\ UNCHANGED <<owner, votes, used, minted, browsers>>

\* Faulty variant: the anchor goes and its siblings stay.
AnchorOf(p, t) == {v \in votes : v.poll = p /\ v.hash = t}

\* Faulty variant: the subquery forgets the hash.
EveryBallotOf(p, t) ==
  {v \in votes : v.poll = p /\ \E a \in votes : a.poll = p /\ a.challenge = v.challenge}

\* The anchor and every row stored with the same challenge.
BallotOf(p, t) ==
  {v \in votes : /\ v.poll = p
                 /\ \/ v.hash = t
                    \/ \E a \in votes : /\ a.poll = p /\ a.hash = t
                                        /\ a.challenge = v.challenge}

Revoke(r) ==
  /\ Is(r, "revoke")
  /\ votes' = votes \ BallotOf(PollOf(request[r]), request[r].token)
  /\ Proceed(r, None)
  /\ UNCHANGED <<owner, used, minted, browsers>>

\* Refused by a check, refused by D1, the isolate died, or the answer is lost.
Abandon(r) ==
  /\ request[r] # None
  /\ Proceed(r, None)
  /\ UNCHANGED <<owner, votes, used, minted, browsers>>

-----------------------------------------------------------------------------

Owner ==
  \E p \in Poll : Create(p) \/ Patch(p) \/ DeletePoll(p)

Visitor(w) ==
  \/ \E b \in Browser, p \in Poll : Mount(w, b, p)
  \/ \E r \in Request : ChangeVotes(r, w) \/ \E c \in Challenge : Vote(r, w, c)

Handle(r) ==
  \/ \E m \in posted : Again(r, m)
  \/ FirstVote(r) \/ KnownVoter(r) \/ StoreBallot(r) \/ Answer(r)
  \/ Revoke(r) \/ Abandon(r)

Next ==
  \/ Owner
  \/ \E w \in Widget : Visitor(w)
  \/ \E r \in Request : Handle(r)

Spec == Init /\ [][Next]_vars

-----------------------------------------------------------------------------
(* Properties.                                                             *)

RowsOf(c) == {v \in votes : v.challenge = c}
BrowserOf(m) == pages[m.widget].browser

\* A ballot is in the table with every option it was cast for, or not at all,
\* whatever was revoked, repeated, deleted or rolled back around it.
WholeBallots ==
  \A m \in posted :
    {v.option : v \in RowsOf(m.challenge)} \in {{}, m.options}

\* While its poll is there, a ballot is removed only by a revocation of the
\* browser that cast it, for that poll: tokens never cross browsers.
OwnBallotsOnly ==
  [][\A m \in posted :
       RowsOf(m.challenge) # {} /\ RowsOf(m.challenge)' = {}
       => \/ ~Exists(PollOf(m))'
          \/ \E r \in Request : /\ Is(r, "revoke") /\ request'[r] = None
                                /\ PollOf(request[r]) = PollOf(m)
                                /\ BrowserOf(request[r]) = BrowserOf(m)]_vars

Box == INSTANCE BallotBox WITH
  Ballot <- Challenge, Voter <- Token,
  box <- {[id |-> v.challenge, poll |-> v.poll,
           options |-> {s.option : s \in RowsOf(v.challenge)},
           voters |-> {s.hash : s \in RowsOf(v.challenge)} \ {None}] : v \in votes},
  cast <- used

\* The table behaves like a box of ballots.
ImplementsBallotBox == Box!BSpec

\* README.md: with the guard "a returning visitor cannot vote twice".
Guarded(c) == \E v \in RowsOf(c) : v.hash # None

ReturningCannotVoteTwice ==
  \A m, n \in posted :
    /\ m # n /\ Guarded(m.challenge) /\ Guarded(n.challenge)
    /\ BrowserOf(m) = BrowserOf(n) /\ PollOf(m) = PollOf(n)
    => ~pages[n.widget].returning

=============================================================================
