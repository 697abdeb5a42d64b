----------------------------- MODULE Engagement -----------------------------
(***************************************************************************)
(* The Worker's side of likes, flags and reactions, and of comments as far *)
(* as the time gate and the list are concerned.                            *)
(*                                                                         *)
(* A handler is a sequence of queries between which others run.  The clock *)
(* runs in ticks, finer than the seconds that the database and the signed  *)
(* challenges know.  What a genuine challenge buys, and how often, is in   *)
(* AntiReplay, what decides on a comment in Comments.                      *)
(***************************************************************************)
EXTENDS Integers, Sequences, FiniteSets

CONSTANTS
  Comment,      \* comments that may be liked or flagged
  Job,          \* what the browser may have under way at one time
  None,         \* nothing
  Second,       \* ticks in a second
  Gate,         \* CHALLENGE_TIME_GATE_SECONDS
  MinInterval,  \* REACTION_MIN_INTERVAL_SECONDS
  MaxEdits      \* bound of the model: changes of the moderator

VARIABLES
  now,        \* in ticks
  status,     \* comment -> its status; "gone" once deleted
  edits,      \* how often the moderator changed the list
  version,    \* how often anyone changed it
  likes,      \* comment_votes: the comment and the voter whose hash is stored
  flags,      \* comment_flags: how many of each comment
  reactions,  \* the reactions of the article, in the order they were stored
  minted,     \* the voters so far: the tokens ever issued are 1..minted
  request     \* job -> the handler of its POST, or None

server == <<now, status, edits, version, likes, flags, reactions, minted, request>>
tables == <<status, edits, version, likes, flags, reactions>>

Voter == Nat \ {0}
NoToken == 0
Post == {"like", "flag", "post", "reply", "react"}

Answer == {"", "ok", "missing", "tooquick", "slow", "again", "error"}

Handler ==
  [op: Post, pc: {"look", "admit", "guard", "interval", "store", "count", "answered"},
   comment: Comment \cup {None},
   token: Voter \cup {NoToken},  \* as sent
   gives: Voter \cup {NoToken},  \* as issued
   issued: Nat,                  \* the second the challenge was issued
   at: Nat,                      \* nowSec, 0 before it is read
   seen: Nat,                    \* history: the reactions stored by then
   answer: Answer,
   stored: Nat]                  \* the version of the list that has the comment

ASSUME EngagementAssumption ==
  /\ Second \in Nat \ {0} /\ Gate \in Nat /\ MinInterval \in Nat /\ MaxEdits \in Nat
  /\ None \notin Comment /\ None \notin Handler

ReactionRow == [at: Nat, seen: Nat]

EngagementTypeOK ==
  /\ now \in Nat
  /\ status \in [Comment -> {"approved", "pending", "gone"}]
  /\ edits \in 0..MaxEdits
  /\ version \in Nat
  /\ likes \subseteq [comment: Comment, voter: 1..minted]
  /\ flags \in [Comment -> Nat]
  /\ reactions \in Seq(ReactionRow)
  /\ minted \in Nat
  /\ request \in [Job -> Handler \cup {None}]

EngagementInit ==
  /\ now = 0
  /\ status = [c \in Comment |-> "approved"]
  /\ edits = 0
  /\ version = 0
  /\ likes = {}
  /\ flags = [c \in Comment |-> 0]
  /\ reactions = <<>>
  /\ minted = 0
  /\ request = [j \in Job |-> None]

-----------------------------------------------------------------------------

Serving(j, pc) == request[j] # None /\ request[j].pc = pc

Answered(j) == Serving(j, "answered")

Becomes(j, h) == request' = [request EXCEPT ![j] = h]

Answers(j, a) ==
  Becomes(j, [request[j] EXCEPT !.pc = "answered", !.answer = a,
                                !.gives = IF a = "ok" THEN @ ELSE NoToken])

\* Likes and flags first look for the comment.
NewHandler(op, c, token, issued) ==
  [op |-> op, pc |-> IF op \in {"like", "flag"} THEN "look" ELSE "admit", comment |-> c,
   token |-> token, gives |-> NoToken, issued |-> issued, at |-> 0, seen |-> 0,
   answer |-> "", stored |-> 0]

LookUp(j) ==
  /\ Serving(j, "look")
  /\ IF status[request[j].comment] = "approved"
     THEN Becomes(j, [request[j] EXCEPT !.pc = "admit"])
     ELSE Answers(j, "missing")
  /\ UNCHANGED <<now, tables, minted>>

TooQuick(j) == now \div Second - request[j].issued < Gate

AfterGate == [like |-> "guard", flag |-> "store", post |-> "store", reply |-> "store",
              react |-> "interval"]

\* The clock is read, and the time gate and the proof are checked with it.
Admit(j) ==
  /\ Serving(j, "admit")
  /\ IF TooQuick(j)
     THEN Answers(j, "tooquick")
     ELSE Becomes(j, [request[j] EXCEPT !.pc = AfterGate[request[j].op],
                                        !.at = now \div Second,
                                        !.seen = Len(reactions)])
  /\ UNCHANGED <<now, tables, minted>>

Liked(c, voter) == [comment |-> c, voter |-> voter] \in likes

\* A known voter must not have liked the comment; who is unknown becomes one.
Guard(j) ==
  LET h == request[j] IN
  /\ Serving(j, "guard")
  /\ \/ /\ h.token # NoToken
        /\ IF Liked(h.comment, h.token)
           THEN Answers(j, "again")
           ELSE Becomes(j, [h EXCEPT !.pc = "store"])
        /\ UNCHANGED minted
     \/ /\ h.token = NoToken
        /\ minted' = minted + 1
        /\ Becomes(j, [h EXCEPT !.pc = "store", !.gives = minted + 1])
  /\ UNCHANGED <<now, tables>>

Stamps == {reactions[i].at : i \in DOMAIN reactions}

LastStamp == CHOOSE t \in Stamps : \A u \in Stamps : t >= u

\* Faulty variant: the clock in ticks, the stamp in seconds.
TooSoonInTicks(at) == at * Second - LastStamp < MinInterval

TooSoon(at) == at - LastStamp < MinInterval

Interval(j) ==
  /\ Serving(j, "interval")
  /\ IF MinInterval > 0 /\ reactions # <<>> /\ TooSoon(request[j].at)
     THEN Answers(j, "slow")
     ELSE Becomes(j, [request[j] EXCEPT !.pc = "store"])
  /\ UNCHANGED <<now, tables, minted>>

\* Faulty variant: the hash of the token that was sent, whether there was one.
VoterAsSent(h) == h.token

VoterOf(h) == IF h.token = NoToken THEN h.gives ELSE h.token

\* UNIQUE (comment_id, voter_hash) rolls the batch back.
StoreLike(j) ==
  LET h == request[j] IN
  /\ Serving(j, "store") /\ h.op = "like"
  /\ IF Liked(h.comment, VoterOf(h))
     THEN Answers(j, "error") /\ UNCHANGED likes
     ELSE /\ likes' = likes \cup {[comment |-> h.comment, voter |-> VoterOf(h)]}
          /\ Becomes(j, [h EXCEPT !.pc = "count"])
  /\ UNCHANGED <<now, status, edits, version, flags, reactions, minted>>

StoreFlag(j) ==
  LET h == request[j] IN
  /\ Serving(j, "store") /\ h.op = "flag"
  /\ flags' = [flags EXCEPT ![h.comment] = @ + 1]
  /\ Answers(j, "ok")
  /\ UNCHANGED <<now, status, edits, version, likes, reactions, minted>>

\* Approved at once, or held back for the moderator.
StoreComment(j, approved) ==
  LET h == request[j] IN
  /\ Serving(j, "store") /\ h.op \in {"post", "reply"}
  /\ version' = IF approved THEN version + 1 ELSE version
  /\ Becomes(j, [h EXCEPT !.pc = "answered", !.answer = "ok",
                          !.stored = IF approved THEN version + 1 ELSE 0])
  /\ UNCHANGED <<now, status, edits, likes, flags, reactions, minted>>

StoreReaction(j) ==
  LET h == request[j] IN
  /\ Serving(j, "store") /\ h.op = "react"
  /\ reactions' = Append(reactions, [at |-> h.at, seen |-> h.seen])
  /\ Becomes(j, [h EXCEPT !.pc = "count"])
  /\ UNCHANGED <<now, status, edits, version, likes, flags, minted>>

\* The fresh counts that the answer carries.
Count(j) ==
  /\ Serving(j, "count")
  /\ Answers(j, "ok")
  /\ UNCHANGED <<now, tables, minted>>

\* A query fails, or the rate limit refuses; what is stored stays.
ServerFails(j) ==
  /\ request[j] # None /\ ~Answered(j)
  /\ Answers(j, "error")
  /\ UNCHANGED <<now, tables, minted>>

HandlerStep(j) ==
  \/ LookUp(j) \/ Admit(j) \/ Guard(j) \/ Interval(j)
  \/ StoreLike(j) \/ StoreFlag(j) \/ StoreReaction(j) \/ Count(j)
  \/ \E approved \in BOOLEAN : StoreComment(j, approved)

\* The moderator approves, takes back, or deletes.
Moderate(c, s) ==
  /\ edits < MaxEdits
  /\ status[c] \notin {"gone", s}
  /\ status' = [status EXCEPT ![c] = s]
  /\ edits' = edits + 1
  /\ version' = version + 1
  /\ UNCHANGED <<now, likes, flags, reactions, minted, request>>

-----------------------------------------------------------------------------
(* Properties.                                                             *)

\* reactions.ts, "minimum interval between accepted reactions on the same
\* article": it holds between a reaction and every one stored before its
\* handler read the clock; only handlers that overlap may come closer.
IntervalHeld ==
  \A i, k \in DOMAIN reactions :
    i <= reactions[k].seen => reactions[k].at - reactions[i].at >= MinInterval

=============================================================================
