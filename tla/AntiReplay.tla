----------------------------- MODULE AntiReplay -----------------------------
(***************************************************************************)
(* The shared anti-replay core of the runtime Worker: signed challenges,   *)
(* the used_challenges table that remembers the consumed ones, the five    *)
(* POST handlers that spend a challenge, and the retention cron that       *)
(* forgets it again.                                                       *)
(*                                                                         *)
(* A challenge is 32 bytes; a request names it by a base64url string.  The *)
(* signature and the proof of work are checked on the decoded bytes, and   *)
(* every table is keyed by the string as it was sent.  Several strings     *)
(* decode to the same bytes.                                               *)
(*                                                                         *)
(* Every handler verifies the request, waits on the database, and then     *)
(* runs ONE D1 batch (a transaction): insert the challenge id if it is     *)
(* absent, and store the row only if that insert changed a row.  Requests  *)
(* interleave at every await; isolates read clocks that differ by at most  *)
(* SkewSeconds; a request may be refused, crash, or lose its answer.       *)
(* What the handlers check beyond the challenge (moderation, parents, open *)
(* polls, rate limits) is the refusal Drop; other modules detail it.       *)
(***************************************************************************)
EXTENDS Integers

CONSTANTS
  Challenge,          \* the challenge ids the server may issue, as bytes
  SpareBits,          \* what the last character of an id holds beyond the bytes
  Request,            \* the requests that may be in flight at one time
  TtlSeconds,         \* CHALLENGE_TTL_SECONDS
  TimeGateSeconds,    \* CHALLENGE_TIME_GATE_SECONDS; <= 0 disables the gate
  RetentionSeconds,   \* USED_CHALLENGES_RETENTION_MS, in seconds
  HandlingSeconds,    \* the longest a handler lives (a platform limit)
  SkewSeconds,        \* how far an isolate's clock is from true time
  MaxTime,            \* bound of the model: the clock stops here
  Never               \* "no row": not issued, not consumed

ASSUME ClockAssumption ==
  /\ TtlSeconds \in Nat /\ TimeGateSeconds \in Int /\ RetentionSeconds \in Nat
  /\ HandlingSeconds \in Nat /\ SkewSeconds \in Nat /\ MaxTime \in Nat
  /\ Never \notin Int

\* The retention window outlives every request that could still pass the
\* expiry check: 24 h against a 5 minute challenge, with room for the clocks.
ASSUME RetentionAssumption ==
  TtlSeconds + HandlingSeconds + 4 * SkewSeconds <= RetentionSeconds

VARIABLES
  now,        \* true time in seconds; no handler reads it directly
  expiresAt,  \* challenge -> the expiry signed into it, or Never (not issued)
  usedAt,     \* used_challenges: string -> used_at, or Never (no row)
  accepted,   \* history: how often each endpoint stored something for it
  acceptedAt, \* history: true time of the string's last acceptance
  inflight    \* the requests the Worker is handling

vars == <<now, expiresAt, usedAt, accepted, acceptedAt, inflight>>

\* The strings that name a challenge: 43 characters carry 258 bits, two more
\* than the id has.
ChallengeIdB64 == [bytes: Challenge, spare: SpareBits]

\* The decoder checks the alphabet and the length, and drops the spare bits.
base64UrlToBytes(id) == id.bytes

Endpoint == {"comment", "flag", "like", "poll", "reaction"}

\* Handlers that refuse an expired challenge with 410.
ChecksExpiry == {"comment", "reaction"}

\* Tables whose rows are never deleted and whose challenge_id is UNIQUE.
UniquePerChallenge == {"flag", "like"}

InFlight == [id: Request, endpoint: Endpoint, challengeId: ChallengeIdB64,
             pc: {"verified", "sent"},
             nowSec: Int,     \* what the handler read from its clock
             since: Nat]      \* true time of arrival

TypeOK ==
  /\ now \in Nat
  /\ expiresAt \in [Challenge -> Int \cup {Never}]
  /\ usedAt \in [ChallengeIdB64 -> Int \cup {Never}]
  /\ accepted \in [ChallengeIdB64 -> [Endpoint -> Nat]]
  /\ acceptedAt \in [ChallengeIdB64 -> Nat]
  /\ inflight \subseteq InFlight

ClockReadings == (now - SkewSeconds) .. (now + SkewSeconds)

Issued(c) == expiresAt[c] # Never
Expiry(id) == expiresAt[base64UrlToBytes(id)]
Consumed(id) == usedAt[id] # Never
Accepted(id) == \E e \in Endpoint : accepted[id][e] > 0

\* Requests that passed an expiry check and may still store something.
PassedExpiry(q) == q.endpoint \in ChecksExpiry

Init ==
  /\ now = 0
  /\ expiresAt = [c \in Challenge |-> Never]
  /\ usedAt = [id \in ChallengeIdB64 |-> Never]
  /\ accepted = [id \in ChallengeIdB64 |-> [e \in Endpoint |-> 0]]
  /\ acceptedAt = [id \in ChallengeIdB64 |-> 0]
  /\ inflight = {}

-----------------------------------------------------------------------------
(* The handlers.                                                           *)

\* A GET of one of the three challenge endpoints: a fresh random id, signed
\* with its expiry.  Nothing is stored.
IssueChallenge(c) ==
  /\ ~Issued(c)
  /\ \E t \in ClockReadings : expiresAt' = [expiresAt EXCEPT ![c] = t + TtlSeconds]
  /\ UNCHANGED <<now, usedAt, accepted, acceptedAt, inflight>>

NotExpired(e, c, t) == e \in ChecksExpiry => expiresAt[c] > t

TimeGateOpen(c, t) ==
  \/ TimeGateSeconds <= 0
  \/ t - (expiresAt[c] - TtlSeconds) >= TimeGateSeconds

\* A POST with a genuine signature and proof of work gets past the checks on
\* the challenge, whichever of its strings it names it by.  It may be a first
\* use, a client's retry or a duplicate.  (One that fails the checks is
\* answered 4xx and changes nothing.)
Receive(r, e, id) ==
  LET c == base64UrlToBytes(id) IN
  /\ \A q \in inflight : q.id # r
  /\ Issued(c)
  /\ \E t \in ClockReadings :
       /\ NotExpired(e, c, t)
       /\ TimeGateOpen(c, t)
       /\ inflight' = inflight \cup
            {[id |-> r, endpoint |-> e, challengeId |-> id, pc |-> "verified",
              nowSec |-> t, since |-> now]}
  /\ UNCHANGED <<now, expiresAt, usedAt, accepted, acceptedAt>>

\* Faulty variant: the row is stamped with the challenge's time of issue.
StampsIssueTime(q) == {Expiry(q.challengeId) - TtlSeconds}

\* Faulty variant: nothing is bound to the row's time.
StampsUnset(q) == {Never}

\* used_at: comments.ts and reactions.ts stamp the time of the checks;
\* polls.ts reads the clock again just before the batch.
Stamps(q) == IF q.endpoint = "poll" THEN ClockReadings ELSE {q.nowSec}

\* The handler's last await before its batch.  For a reaction this is the
\* SELECT that answers a consumed challenge without running the batch.
SendBatch(q) ==
  /\ q.pc = "verified"
  /\ q.endpoint = "reaction" => ~Consumed(q.challengeId)
  /\ \E t \in Stamps(q) :
       inflight' = (inflight \ {q}) \cup {[q EXCEPT !.pc = "sent", !.nowSec = t]}
  /\ UNCHANGED <<now, expiresAt, usedAt, accepted, acceptedAt>>

\* The handler answers.  What it still does (counts, a best-effort alert)
\* touches none of this state, and the answer may be lost on its way.
Answer(q) == inflight' = inflight \ {q}

\* The UNIQUE constraint that makes the insert of the row throw.
UniqueViolation(q) ==
  /\ q.endpoint \in UniquePerChallenge
  /\ accepted[q.challengeId][q.endpoint] > 0

\* Faulty variant: the INSERT of the row has no WHERE changes() = 1.
ConsumesUnguarded(q) == TRUE

\* Faulty variant: each endpoint has a table of consumed challenges of its own.
ConsumesHere(q) == accepted[q.challengeId][q.endpoint] = 0

\* INSERT OR IGNORE INTO used_challenges changes a row: the string is new.
Consumes(q) == ~Consumed(q.challengeId)

\* The batch commits with both rows: the string is consumed, its row stored.
Commit(q) ==
  /\ q.pc = "sent"
  /\ Consumes(q)
  /\ ~UniqueViolation(q)
  /\ usedAt' = [usedAt EXCEPT ![q.challengeId] = q.nowSec]
  /\ accepted' = [accepted EXCEPT ![q.challengeId][q.endpoint] = @ + 1]
  /\ acceptedAt' = [acceptedAt EXCEPT ![q.challengeId] = now]
  /\ Answer(q)
  /\ UNCHANGED <<now, expiresAt>>

\* Faulty variant: two statements instead of one batch, so a failed insert
\* leaves the challenge consumed.
RolledBackOnlyTheRow(q) ==
  usedAt' = IF Consumed(q.challengeId) THEN usedAt
            ELSE [usedAt EXCEPT ![q.challengeId] = q.nowSec]

\* What a thrown batch leaves of the consumed challenge: nothing.
RolledBack(q) == UNCHANGED usedAt

\* The batch throws, on a UNIQUE violation or in D1 itself: 500.
StorageError(q) ==
  /\ q.pc = "sent"
  /\ RolledBack(q)
  /\ Answer(q)
  /\ UNCHANGED <<now, expiresAt, accepted, acceptedAt>>

\* A later check of the handler refuses the request, or the isolate dies.
Drop(q) ==
  /\ Answer(q)
  /\ UNCHANGED <<now, expiresAt, usedAt, accepted, acceptedAt>>

\* 409: the batch changed nothing, or a reaction's SELECT found the row.
AlreadyUsed(q) ==
  /\ q.pc = "sent" \/ q.endpoint = "reaction"
  /\ Consumed(q.challengeId)
  /\ Answer(q)
  /\ UNCHANGED <<now, expiresAt, usedAt, accepted, acceptedAt>>

Handle(q) ==
  SendBatch(q) \/ Commit(q) \/ StorageError(q) \/ AlreadyUsed(q) \/ Drop(q)

-----------------------------------------------------------------------------
(* The retention cron and time.                                            *)

\* Faulty variant: rows are dropped once the challenge's lifetime is over.
PurgeThresholdTtl(t) == t - TtlSeconds

PurgeThreshold(t) == t - RetentionSeconds

\* DELETE FROM used_challenges WHERE used_at < threshold, from any clock.
PurgeUsedChallenges ==
  \E t \in ClockReadings :
    /\ usedAt' = [id \in ChallengeIdB64 |->
                    IF Consumed(id) /\ usedAt[id] < PurgeThreshold(t)
                    THEN Never ELSE usedAt[id]]
    /\ UNCHANGED <<now, expiresAt, accepted, acceptedAt, inflight>>

\* Time passes; no handler outlives HandlingSeconds.
Tick ==
  /\ now < MaxTime
  /\ \A q \in inflight : now < q.since + HandlingSeconds
  /\ now' = now + 1
  /\ UNCHANGED <<expiresAt, usedAt, accepted, acceptedAt, inflight>>

Next ==
  \/ \E c \in Challenge : IssueChallenge(c)
  \/ \E r \in Request, e \in Endpoint, id \in ChallengeIdB64 : Receive(r, e, id)
  \/ \E q \in inflight : Handle(q)
  \/ PurgeUsedChallenges
  \/ Tick

Spec == Init /\ [][Next]_vars

-----------------------------------------------------------------------------
(* Properties.                                                             *)
(*                                                                         *)
(* What the code keeps, it keeps of each string.  What the documents say   *)
(* of a challenge is EveryProofOnce, and does not hold.                    *)

\* However requests, retries, clocks and the cron interleave, one string that
\* names a challenge yields at most one comment or reaction, ever; so that a
\* challenge yields at most one for each way to write its id.
ExpiringProofOnce ==
  \A id \in ChallengeIdB64 : accepted[id]["comment"] + accepted[id]["reaction"] <= 1

\* The cron never forgets a spent string too early: while some isolate's clock
\* still calls its challenge fresh, or a request that passed the expiry check is
\* still on its way to the batch with it, the used_challenges row is there.
ReplayGateHeld ==
  \A id \in ChallengeIdB64 :
    /\ Accepted(id)
    /\ \/ now - SkewSeconds < Expiry(id)
       \/ \E q \in inflight : q.challengeId = id /\ PassedExpiry(q)
    => Consumed(id)

\* A failed store never burns the proof: whatever is in used_challenges paid
\* for a row that was stored.
NothingBurned == \A id \in ChallengeIdB64 : Consumed(id) => Accepted(id)

\* A string that buys a second thing does so only after the retention window:
\* two acceptances of it are further apart than that, less what the clocks and
\* the first handler may be off.  A poll vote does so, for handlePollVote checks
\* no expiry and the cron drops the row.
SpacedByRetention ==
  [][\A id \in ChallengeIdB64 :
       Accepted(id) /\ accepted'[id] # accepted[id]
       => now - acceptedAt[id] > RetentionSeconds - HandlingSeconds - 2 * SkewSeconds]_vars

Promise == INSTANCE SingleUse WITH
  Proof <- ChallengeIdB64,
  touched <- {id \in ChallengeIdB64 : Accepted(id)},
  counted <- [id \in ChallengeIdB64 |-> accepted[id]["comment"] + accepted[id]["reaction"]]

\* The core implements the promise for the strings: a comment or reaction is
\* always the first thing that its string buys.
ImplementsSingleUse == Promise!ASpec

\* SECURITY.md, README.md and SECURITY_REVIEW.md promise of every endpoint: one
\* solved challenge is never accepted again where it was accepted before.
EveryProofOnce ==
  \A e \in Endpoint : \A i, k \in {id \in ChallengeIdB64 : accepted[id][e] > 0} :
    base64UrlToBytes(i) = base64UrlToBytes(k) => i = k /\ accepted[i][e] = 1

=============================================================================
