-------------------------- MODULE AntiReplayProofs --------------------------
(***************************************************************************)
(* Proofs about AntiReplay for every set of challenges and requests, every *)
(* number of ways to write a challenge and every choice of the time        *)
(* constants that RetentionAssumption allows: all of them of one string,   *)
(* which is what the tables are keyed by.  Below them, proofs about the    *)
(* bytes of Encoding, which a proof of work or the signature of a          *)
(* challenge is computed on.                                               *)
(***************************************************************************)
EXTENDS AntiReplay, Encoding, SequenceTheorems, TLAPS

(* The inductive invariant.  Time is what makes it hold, so it says where  *)
(* each clock reading kept in the state can lie.                           *)

\* A challenge was issued before now, up to the issuing clock's error.
IssuedInPast ==
  \A c \in Challenge : Issued(c) => expiresAt[c] - TtlSeconds - SkewSeconds <= now

\* Where the clock readings of a request in flight lie.
RequestTimes(q) ==
  /\ Issued(base64UrlToBytes(q.challengeId))
  /\ q.since <= now /\ now <= q.since + HandlingSeconds
  /\ Expiry(q.challengeId) - TtlSeconds - SkewSeconds <= q.since
  /\ q.since - SkewSeconds <= q.nowSec
  /\ PassedExpiry(q) => /\ q.nowSec <= q.since + SkewSeconds
                        /\ q.nowSec < Expiry(q.challengeId)

RequestsTimed == \A q \in inflight : RequestTimes(q)

\* A spent string names a challenge that was issued; its used_at is not before
\* that, nor long before the row it bought.
StampsTimed ==
  \A id \in ChallengeIdB64 : Consumed(id) =>
    /\ Issued(base64UrlToBytes(id))
    /\ Expiry(id) - TtlSeconds - 2 * SkewSeconds <= usedAt[id]
    /\ acceptedAt[id] - HandlingSeconds - SkewSeconds <= usedAt[id]

\* What was accepted names an issued challenge; once forgotten it is long past.
AcceptedTimed ==
  \A id \in ChallengeIdB64 : Accepted(id) =>
    /\ Issued(base64UrlToBytes(id))
    /\ Consumed(id) \/ now - acceptedAt[id] >
                        RetentionSeconds - HandlingSeconds - 2 * SkewSeconds

Inv ==
  /\ TypeOK
  /\ IssuedInPast
  /\ RequestsTimed
  /\ StampsTimed
  /\ AcceptedTimed
  /\ NothingBurned
  /\ ReplayGateHeld
  /\ ExpiringProofOnce

USE ClockAssumption DEF Expiry

LEMMA Decoded == \A id \in ChallengeIdB64 : base64UrlToBytes(id) \in Challenge
BY DEF ChallengeIdB64, base64UrlToBytes

USE Decoded

-----------------------------------------------------------------------------
(* Type correctness.                                                       *)

LEMMA InitType == Init => TypeOK
BY DEF Init, TypeOK, Endpoint

LEMMA NextType == TypeOK /\ [Next]_vars => TypeOK'
<1> SUFFICES ASSUME TypeOK, [Next]_vars PROVE TypeOK'
  OBVIOUS
<1> USE DEF TypeOK, ClockReadings
<1>1. CASE UNCHANGED vars
  BY <1>1 DEF vars
<1>2. ASSUME NEW c \in Challenge, IssueChallenge(c) PROVE TypeOK'
  BY <1>2 DEF IssueChallenge
<1>3. ASSUME NEW r \in Request, NEW e \in Endpoint, NEW id \in ChallengeIdB64,
             Receive(r, e, id)
      PROVE  TypeOK'
  BY <1>3 DEF Receive, InFlight
<1>4. ASSUME NEW q \in inflight, Handle(q) PROVE TypeOK'
  <2> q \in InFlight
    OBVIOUS
  <2>1. CASE SendBatch(q)
    <3>1. PICK t \in Stamps(q) :
            inflight' = (inflight \ {q}) \cup {[q EXCEPT !.pc = "sent", !.nowSec = t]}
      BY <2>1 DEF SendBatch
    <3>2. t \in Int
      BY DEF Stamps, InFlight
    <3>3. [q EXCEPT !.pc = "sent", !.nowSec = t] \in InFlight
      BY <3>2 DEF InFlight
    <3> QED BY <2>1, <3>1, <3>3 DEF SendBatch
  <2>2. CASE Commit(q)
    BY <2>2 DEF Commit, Answer, InFlight
  <2>3. CASE StorageError(q)
    BY <2>3 DEF StorageError, RolledBack, Answer
  <2>4. CASE AlreadyUsed(q)
    BY <2>4 DEF AlreadyUsed, Answer
  <2>5. CASE Drop(q)
    BY <2>5 DEF Drop, Answer
  <2> QED BY <1>4, <2>1, <2>2, <2>3, <2>4, <2>5 DEF Handle
<1>5. CASE PurgeUsedChallenges
  BY <1>5 DEF PurgeUsedChallenges
<1>6. CASE Tick
  BY <1>6 DEF Tick
<1> QED BY <1>1, <1>2, <1>3, <1>4, <1>5, <1>6 DEF Next

\* TypeOK is an invariant: the state keeps its shape under every handler.
THEOREM TypeCorrect == Spec => []TypeOK
BY InitType, NextType, PTL DEF Spec

-----------------------------------------------------------------------------
(* The inductive step, one lemma per action.                               *)

LEMMA Readings ==
  ASSUME TypeOK, NEW t \in ClockReadings
  PROVE  t \in Int /\ now - SkewSeconds <= t /\ t <= now + SkewSeconds
BY DEF TypeOK, ClockReadings

LEMMA InitInv == Init => Inv
BY InitType DEF Init, Inv, IssuedInPast, RequestsTimed, StampsTimed, AcceptedTimed,
   NothingBurned, ReplayGateHeld, ExpiringProofOnce, Issued, Consumed, Accepted, Endpoint

LEMMA IssueInv ==
  ASSUME Inv, NEW c \in Challenge, IssueChallenge(c), TypeOK'
  PROVE  Inv'
<1>1. PICK t \in ClockReadings : expiresAt' = [expiresAt EXCEPT ![c] = t + TtlSeconds]
  BY DEF IssueChallenge
<1>2. t \in Int /\ t <= now + SkewSeconds
  BY Readings DEF Inv
<1>3. /\ ~Issued(c)
      /\ UNCHANGED <<now, usedAt, accepted, acceptedAt, inflight>>
  BY DEF IssueChallenge
<1>4. /\ \A id \in ChallengeIdB64 : Consumed(id) \/ Accepted(id) => base64UrlToBytes(id) # c
      /\ \A q \in inflight : base64UrlToBytes(q.challengeId) # c
  BY <1>3 DEF Inv, AcceptedTimed, StampsTimed, RequestsTimed, RequestTimes
<1>5. /\ \A d \in Challenge : d # c => expiresAt'[d] = expiresAt[d]
      /\ \A id \in ChallengeIdB64 : base64UrlToBytes(id) \in Challenge
  BY <1>1 DEF Inv, TypeOK, ChallengeIdB64, base64UrlToBytes
<1>6. expiresAt'[c] = t + TtlSeconds /\ expiresAt'[c] # Never
  BY <1>1, <1>2 DEF Inv, TypeOK
<1> USE DEF Issued, Consumed, Accepted
<1>7. IssuedInPast'
  BY <1>2, <1>3, <1>5, <1>6 DEF Inv, IssuedInPast, TypeOK
<1>8. RequestsTimed'
  BY <1>3, <1>4, <1>5 DEF Inv, RequestsTimed, RequestTimes, PassedExpiry, TypeOK, InFlight
<1>9. StampsTimed'
  BY <1>3, <1>4, <1>5 DEF Inv, StampsTimed
<1>10. AcceptedTimed'
  BY <1>3, <1>4, <1>5 DEF Inv, AcceptedTimed
<1>11. ReplayGateHeld'
  BY <1>3, <1>4, <1>5 DEF Inv, ReplayGateHeld, PassedExpiry
<1>12. NothingBurned' /\ ExpiringProofOnce'
  BY <1>3 DEF Inv, NothingBurned, ExpiringProofOnce
<1> QED BY <1>7, <1>8, <1>9, <1>10, <1>11, <1>12 DEF Inv

LEMMA ReceiveInv ==
  ASSUME Inv, NEW r \in Request, NEW e \in Endpoint, NEW id \in ChallengeIdB64,
         Receive(r, e, id), TypeOK'
  PROVE  Inv'
<1>1. PICK t \in ClockReadings :
        /\ NotExpired(e, base64UrlToBytes(id), t)
        /\ inflight' = inflight \cup
             {[id |-> r, endpoint |-> e, challengeId |-> id, pc |-> "verified",
               nowSec |-> t, since |-> now]}
  BY DEF Receive
<1> DEFINE n == [id |-> r, endpoint |-> e, challengeId |-> id, pc |-> "verified",
                 nowSec |-> t, since |-> now]
<1>2. t \in Int /\ now - SkewSeconds <= t /\ t <= now + SkewSeconds
  BY Readings DEF Inv
<1>3. Issued(base64UrlToBytes(id)) /\ UNCHANGED <<now, expiresAt, usedAt, accepted, acceptedAt>>
  BY DEF Receive
<1>4. Expiry(id) \in Int /\ now \in Nat
  BY <1>3 DEF Inv, TypeOK, Issued
<1>5. PassedExpiry(n) => t < Expiry(id)
  BY <1>1, <1>2, <1>4 DEF NotExpired, PassedExpiry
<1>6. RequestTimes(n)
  BY <1>2, <1>3, <1>4, <1>5 DEF RequestTimes, Inv, IssuedInPast
<1>7. RequestsTimed'
  BY <1>1, <1>3, <1>6 DEF Inv, RequestsTimed, RequestTimes, Issued, PassedExpiry
<1>8. ReplayGateHeld'
  <2> SUFFICES ASSUME NEW other \in ChallengeIdB64, Accepted(other),
                      \/ now - SkewSeconds < Expiry(other)
                      \/ \E q \in inflight' : q.challengeId = other /\ PassedExpiry(q)
               PROVE  Consumed(other)
    BY <1>3 DEF ReplayGateHeld, Accepted, Consumed, PassedExpiry
  <2>1. CASE now - SkewSeconds < Expiry(other)
    BY <2>1 DEF Inv, ReplayGateHeld
  <2>2. CASE \E q \in inflight : q.challengeId = other /\ PassedExpiry(q)
    BY <2>2 DEF Inv, ReplayGateHeld
  <2>3. CASE other = id /\ PassedExpiry(n)
    <3>1. now - SkewSeconds < Expiry(other)
      BY <2>3, <1>2, <1>4, <1>5
    <3> QED BY <3>1 DEF Inv, ReplayGateHeld
  <2> QED BY <1>1, <2>1, <2>2, <2>3
<1>9. /\ IssuedInPast' /\ StampsTimed' /\ AcceptedTimed'
      /\ NothingBurned' /\ ExpiringProofOnce'
  BY <1>3 DEF Inv, IssuedInPast, StampsTimed, AcceptedTimed, NothingBurned,
     ExpiringProofOnce, Issued, Consumed, Accepted
<1> QED BY <1>7, <1>8, <1>9 DEF Inv

\* A step that only takes a request out of flight.
LEMMA AnswerInv ==
  ASSUME Inv, NEW q \in inflight, Answer(q),
         UNCHANGED <<now, expiresAt, usedAt, accepted, acceptedAt>>, TypeOK'
  PROVE  Inv'
<1>1. inflight' \subseteq inflight
  BY DEF Answer
<1>2. RequestsTimed'
  BY <1>1 DEF Inv, RequestsTimed, RequestTimes, Issued, PassedExpiry
<1>3. ReplayGateHeld'
  BY <1>1 DEF Inv, ReplayGateHeld, PassedExpiry, Accepted, Consumed
<1>4. /\ IssuedInPast' /\ StampsTimed' /\ AcceptedTimed'
      /\ NothingBurned' /\ ExpiringProofOnce'
  BY DEF Inv, IssuedInPast, StampsTimed, AcceptedTimed,
     NothingBurned, ExpiringProofOnce, Issued, Consumed, Accepted
<1> QED BY <1>2, <1>3, <1>4 DEF Inv

LEMMA SendBatchInv ==
  ASSUME Inv, NEW q \in inflight, SendBatch(q), TypeOK'
  PROVE  Inv'
<1>1. PICK t \in Stamps(q) :
        inflight' = (inflight \ {q}) \cup {[q EXCEPT !.pc = "sent", !.nowSec = t]}
  BY DEF SendBatch
<1> DEFINE n == [q EXCEPT !.pc = "sent", !.nowSec = t]
<1>2. q \in InFlight /\ RequestTimes(q)
  BY DEF Inv, TypeOK, RequestsTimed
<1>3. UNCHANGED <<now, expiresAt, usedAt, accepted, acceptedAt>>
  BY DEF SendBatch
<1>4. /\ n.endpoint = q.endpoint /\ n.challengeId = q.challengeId
      /\ n.since = q.since /\ n.nowSec = t
  BY <1>2 DEF InFlight
<1>5. q.since \in Nat /\ q.nowSec \in Int /\ now \in Nat
  BY <1>2 DEF InFlight, Inv, TypeOK
<1>6. q.endpoint # "poll" => t = q.nowSec
  BY <1>1 DEF Stamps
<1>7. q.endpoint = "poll" => t \in Int /\ now - SkewSeconds <= t /\ ~PassedExpiry(q)
  BY <1>1, Readings DEF Stamps, Inv, PassedExpiry, ChecksExpiry
<1>8. RequestTimes(n)
  <2>1. CASE q.endpoint = "poll"
    BY <2>1, <1>2, <1>4, <1>5, <1>7 DEF RequestTimes, PassedExpiry
  <2>2. CASE q.endpoint # "poll"
    BY <2>2, <1>2, <1>4, <1>6 DEF RequestTimes, PassedExpiry
  <2> QED BY <2>1, <2>2
<1>9. RequestsTimed'
  BY <1>1, <1>3, <1>8 DEF Inv, RequestsTimed, RequestTimes, Issued, PassedExpiry
<1>10. ReplayGateHeld'
  <2> SUFFICES ASSUME NEW id \in ChallengeIdB64, Accepted(id),
                      \/ now - SkewSeconds < Expiry(id)
                      \/ \E p \in inflight' : p.challengeId = id /\ PassedExpiry(p)
               PROVE  Consumed(id)
    BY <1>3 DEF ReplayGateHeld, Accepted, Consumed, PassedExpiry
  <2>1. now - SkewSeconds < Expiry(id) \/ \E p \in inflight : p.challengeId = id /\ PassedExpiry(p)
    BY <1>1, <1>4 DEF PassedExpiry
  <2> QED BY <2>1 DEF Inv, ReplayGateHeld
<1>11. /\ IssuedInPast' /\ StampsTimed' /\ AcceptedTimed'
       /\ NothingBurned' /\ ExpiringProofOnce'
  BY <1>3 DEF Inv, IssuedInPast, StampsTimed, AcceptedTimed, NothingBurned,
     ExpiringProofOnce, Issued, Consumed, Accepted
<1> QED BY <1>9, <1>10, <1>11 DEF Inv

\* A comment or reaction about to commit is the first thing its string buys.
LEMMA FirstUse ==
  ASSUME Inv, NEW q \in inflight, Commit(q), q.endpoint \in ChecksExpiry
  PROVE  ~Accepted(q.challengeId)
BY DEF Inv, TypeOK, InFlight, Commit, Consumes, ReplayGateHeld, PassedExpiry

LEMMA CommitInv ==
  ASSUME Inv, NEW q \in inflight, Commit(q), TypeOK'
  PROVE  Inv'
<1> DEFINE id == q.challengeId
<1>1. id \in ChallengeIdB64 /\ q.endpoint \in Endpoint /\ RequestTimes(q)
  BY DEF Inv, TypeOK, InFlight, RequestsTimed
<1>2. /\ usedAt' = [usedAt EXCEPT ![id] = q.nowSec]
      /\ accepted' = [accepted EXCEPT ![id][q.endpoint] = @ + 1]
      /\ acceptedAt' = [acceptedAt EXCEPT ![id] = now]
      /\ inflight' \subseteq inflight
      /\ UNCHANGED <<now, expiresAt>>
  BY DEF Commit, Answer
<1>3. /\ usedAt'[id] = q.nowSec /\ q.nowSec \in Int
      /\ acceptedAt'[id] = now
      /\ accepted'[id][q.endpoint] = accepted[id][q.endpoint] + 1
  BY <1>1, <1>2 DEF Inv, TypeOK, InFlight
<1>4. \A other \in ChallengeIdB64 : other # id =>
        /\ usedAt'[other] = usedAt[other]
        /\ acceptedAt'[other] = acceptedAt[other]
        /\ accepted'[other] = accepted[other]
  BY <1>1, <1>2 DEF Inv, TypeOK
<1>5. accepted[id][q.endpoint] \in Nat
  BY <1>1 DEF Inv, TypeOK
<1>6. Consumed(id)' /\ Accepted(id)' /\ Issued(base64UrlToBytes(id))
  BY <1>1, <1>3, <1>5 DEF Consumed, Accepted, Issued, RequestTimes
<1>7. IssuedInPast'
  BY <1>2 DEF Inv, IssuedInPast, Issued
<1>8. RequestsTimed'
  BY <1>2 DEF Inv, RequestsTimed, RequestTimes, Issued, PassedExpiry
<1>9. StampsTimed'
  <2>1. /\ Expiry(id) \in Int /\ now \in Nat
        /\ q.since \in Nat /\ q.nowSec \in Int
    BY <1>1, <1>6 DEF Inv, TypeOK, InFlight, Issued
  <2>2. /\ Expiry(id) - TtlSeconds - 2 * SkewSeconds <= usedAt'[id]
        /\ acceptedAt'[id] - HandlingSeconds - SkewSeconds <= usedAt'[id]
    BY <2>1, <1>1, <1>3 DEF RequestTimes
  <2> QED BY <2>2, <1>2, <1>4, <1>6 DEF Inv, StampsTimed, Consumed, Issued
<1>10. AcceptedTimed'
  BY <1>2, <1>4, <1>6 DEF Inv, AcceptedTimed, Accepted, Consumed, Issued
<1>11. NothingBurned' /\ ReplayGateHeld'
  BY <1>2, <1>4, <1>6 DEF Inv, NothingBurned, ReplayGateHeld, Accepted, Consumed,
     PassedExpiry
<1>12. ExpiringProofOnce'
  <2>1. \A e \in Endpoint : e # q.endpoint => accepted'[id][e] = accepted[id][e]
    BY <1>1, <1>2 DEF Inv, TypeOK
  <2>2. CASE q.endpoint \in ChecksExpiry
    <3>1. \A e \in Endpoint : accepted[id][e] = 0
      BY <2>2, <1>1, FirstUse DEF Inv, TypeOK, Accepted
    <3>2. accepted'[id]["comment"] + accepted'[id]["reaction"] <= 1
      BY <3>1, <2>1, <2>2, <1>3 DEF Endpoint, ChecksExpiry
    <3> QED BY <3>2, <1>4 DEF Inv, ExpiringProofOnce
  <2>3. CASE q.endpoint \notin ChecksExpiry
    BY <2>1, <2>3, <1>4 DEF Inv, ExpiringProofOnce, Endpoint, ChecksExpiry
  <2> QED BY <2>2, <2>3
<1> QED BY <1>7, <1>8, <1>9, <1>10, <1>11, <1>12 DEF Inv

\* The purge: a row goes only when its challenge is dead for every clock.
LEMMA PurgeInv ==
  ASSUME Inv, PurgeUsedChallenges, TypeOK'
  PROVE  Inv'
<1>1. PICK t \in ClockReadings :
        usedAt' = [id \in ChallengeIdB64 |->
                     IF Consumed(id) /\ usedAt[id] < PurgeThreshold(t)
                     THEN Never ELSE usedAt[id]]
  BY DEF PurgeUsedChallenges
<1>2. UNCHANGED <<now, expiresAt, accepted, acceptedAt, inflight>>
  BY DEF PurgeUsedChallenges
<1>3. t \in Int /\ t <= now + SkewSeconds
  BY Readings DEF Inv
<1>4. \A id \in ChallengeIdB64 : Consumed(id)' => Consumed(id) /\ usedAt'[id] = usedAt[id]
  BY <1>1 DEF Consumed
<1>5. ASSUME NEW id \in ChallengeIdB64, Consumed(id), ~Consumed(id)'
      PROVE  /\ now - acceptedAt[id] >
                   RetentionSeconds - HandlingSeconds - 2 * SkewSeconds
             /\ Expiry(id) + HandlingSeconds + SkewSeconds < now
  <2>1. usedAt[id] < t - RetentionSeconds
    BY <1>1, <1>5 DEF Consumed, PurgeThreshold
  <2>2. /\ usedAt[id] \in Int /\ Expiry(id) \in Int
        /\ acceptedAt[id] \in Nat /\ now \in Nat
    BY <1>5 DEF Inv, TypeOK, StampsTimed, Consumed, Issued
  <2>3. /\ Expiry(id) - TtlSeconds - 2 * SkewSeconds <= usedAt[id]
        /\ acceptedAt[id] - HandlingSeconds - SkewSeconds <= usedAt[id]
    BY <1>5 DEF Inv, StampsTimed
  <2> QED BY <2>1, <2>2, <2>3, <1>3, RetentionAssumption
<1>6. StampsTimed'
  BY <1>2, <1>4 DEF Inv, StampsTimed, Issued
<1>7. AcceptedTimed'
  BY <1>2, <1>5 DEF Inv, AcceptedTimed, Accepted, Issued
<1>8. NothingBurned'
  BY <1>2, <1>4 DEF Inv, NothingBurned, Accepted
<1>9. ReplayGateHeld'
  <2> SUFFICES ASSUME NEW id \in ChallengeIdB64, Accepted(id), ~Consumed(id)',
                      \/ now - SkewSeconds < Expiry(id)
                      \/ \E q \in inflight : q.challengeId = id /\ PassedExpiry(q)
               PROVE  FALSE
    BY <1>2 DEF ReplayGateHeld, Accepted, PassedExpiry
  <2>1. Consumed(id)
    BY DEF Inv, ReplayGateHeld
  <2>2. Expiry(id) + HandlingSeconds + SkewSeconds < now /\ now \in Nat
        /\ Expiry(id) \in Int
    BY <2>1, <1>5 DEF Inv, TypeOK, StampsTimed, Issued
  <2>3. CASE now - SkewSeconds < Expiry(id)
    BY <2>2, <2>3
  <2>4. ASSUME NEW q \in inflight, q.challengeId = id, PassedExpiry(q)
        PROVE  FALSE
    <3>1. q.since \in Nat /\ q.nowSec \in Int /\ RequestTimes(q)
      BY DEF Inv, TypeOK, InFlight, RequestsTimed
    <3> QED BY <2>2, <2>4, <3>1 DEF RequestTimes
  <2> QED BY <2>3, <2>4
<1>10. IssuedInPast' /\ RequestsTimed' /\ ExpiringProofOnce'
  BY <1>2 DEF Inv, IssuedInPast, RequestsTimed, RequestTimes, ExpiringProofOnce,
     Issued, PassedExpiry
<1> QED BY <1>6, <1>7, <1>8, <1>9, <1>10 DEF Inv

LEMMA TickInv ==
  ASSUME Inv, Tick, TypeOK'
  PROVE  Inv'
<1>1. /\ now' = now + 1 /\ now \in Nat
      /\ UNCHANGED <<expiresAt, usedAt, accepted, acceptedAt, inflight>>
  BY DEF Tick, Inv, TypeOK
<1>2. \A id \in ChallengeIdB64 : /\ Issued(base64UrlToBytes(id)) => Expiry(id) \in Int
                             /\ acceptedAt[id] \in Nat
  <2> SUFFICES ASSUME NEW id \in ChallengeIdB64
               PROVE  /\ Issued(base64UrlToBytes(id)) => Expiry(id) \in Int
                      /\ acceptedAt[id] \in Nat
    OBVIOUS
  <2>1. base64UrlToBytes(id) \in Challenge
    BY Decoded
  <2>2. expiresAt[base64UrlToBytes(id)] \in Int \cup {Never} /\ acceptedAt[id] \in Nat
    BY <2>1 DEF Inv, TypeOK
  <2> QED BY <2>2 DEF Issued
<1>3. IssuedInPast'
  <2> SUFFICES ASSUME NEW c \in Challenge, Issued(c)
               PROVE  expiresAt[c] - TtlSeconds - SkewSeconds <= now + 1
    BY <1>1 DEF IssuedInPast, Issued
  <2>1. expiresAt[c] \in Int
    BY DEF Inv, TypeOK, Issued
  <2> QED BY <2>1, <1>1 DEF Inv, IssuedInPast
<1>4. RequestsTimed'
  <2> SUFFICES ASSUME NEW q \in inflight PROVE RequestTimes(q)'
    BY <1>1 DEF RequestsTimed
  <2>1. RequestTimes(q) /\ q.since \in Nat /\ now < q.since + HandlingSeconds
    BY DEF Inv, RequestsTimed, Tick, TypeOK, InFlight
  <2> QED BY <2>1, <1>1 DEF RequestTimes, Issued, PassedExpiry
<1>5. StampsTimed' /\ NothingBurned' /\ ExpiringProofOnce'
  BY <1>1 DEF Inv, StampsTimed, NothingBurned, ExpiringProofOnce, Issued, Consumed, Accepted
<1>6. AcceptedTimed'
  BY <1>1, <1>2 DEF Inv, AcceptedTimed, Issued, Consumed, Accepted
<1>7. ReplayGateHeld'
  <2> SUFFICES ASSUME NEW id \in ChallengeIdB64, Accepted(id),
                      \/ now + 1 - SkewSeconds < Expiry(id)
                      \/ \E q \in inflight : q.challengeId = id /\ PassedExpiry(q)
               PROVE  Consumed(id)
    BY <1>1 DEF ReplayGateHeld, Accepted, Consumed, PassedExpiry
  <2>1. Expiry(id) \in Int
    BY <1>2 DEF Inv, AcceptedTimed
  <2> QED BY <1>1, <2>1 DEF Inv, ReplayGateHeld
<1> QED BY <1>3, <1>4, <1>5, <1>6, <1>7 DEF Inv

LEMMA NextInv == Inv /\ [Next]_vars => Inv'
<1> SUFFICES ASSUME Inv, [Next]_vars PROVE Inv'
  OBVIOUS
<1>1. TypeOK'
  BY NextType DEF Inv
<1>2. CASE UNCHANGED vars
  BY <1>2, <1>1 DEF vars, Inv, IssuedInPast, RequestsTimed, RequestTimes, StampsTimed,
     AcceptedTimed, NothingBurned, ReplayGateHeld, ExpiringProofOnce, Issued,
     Consumed, Accepted, PassedExpiry
<1>3. ASSUME NEW q \in inflight, Handle(q) PROVE Inv'
  BY <1>1, <1>3, SendBatchInv, CommitInv, AnswerInv
     DEF Handle, StorageError, RolledBack, AlreadyUsed, Drop
<1> QED BY <1>1, <1>2, <1>3, IssueInv, ReceiveInv, PurgeInv, TickInv DEF Next

-----------------------------------------------------------------------------
(* The theorems.                                                           *)

\* Inv holds in every reachable state: the places of all the clock readings
\* in the state, from which the safety properties below follow.
THEOREM Invariance == Spec => []Inv
BY InitInv, NextInv, PTL DEF Spec

\* One string that names a challenge yields at most one comment or reaction
\* (comments.ts and reactions.ts: expiry check, used_challenges, retention.ts),
\* ever.  The other strings of the same challenge are free to yield their own.
THEOREM ProofOnce == Spec => []ExpiringProofOnce
<1>1. Inv => ExpiringProofOnce
  BY DEF Inv
<1> QED BY <1>1, Invariance, PTL

\* The retention cron never reopens a spent string whose challenge some clock
\* still calls fresh, or which some checked request is about to spend.
THEOREM GateHeld == Spec => []ReplayGateHeld
<1>1. Inv => ReplayGateHeld
  BY DEF Inv
<1> QED BY <1>1, Invariance, PTL

\* The batch never leaves a string consumed without a stored row.
THEOREM NeverBurned == Spec => []NothingBurned
<1>1. Inv => NothingBurned
  BY DEF Inv
<1> QED BY <1>1, Invariance, PTL

\* Where a handler checks no expiry, two acceptances of one string are a
\* retention window apart, less the clocks and one handler's life.
THEOREM Spaced == Spec => SpacedByRetention
<1> DEFINE Far(id) == Accepted(id) /\ accepted'[id] # accepted[id]
             => now - acceptedAt[id] > RetentionSeconds - HandlingSeconds - 2 * SkewSeconds
<1>1. Inv /\ [Next]_vars => [\A id \in ChallengeIdB64 : Far(id)]_vars
  <2> SUFFICES ASSUME Inv, [Next]_vars, NEW id \in ChallengeIdB64,
                      Accepted(id), accepted'[id] # accepted[id]
               PROVE  now - acceptedAt[id] >
                        RetentionSeconds - HandlingSeconds - 2 * SkewSeconds
    OBVIOUS
  <2>1. PICK q \in inflight : Commit(q)
    BY DEF vars, Next, IssueChallenge, Receive, Handle, SendBatch, StorageError,
       AlreadyUsed, Drop, PurgeUsedChallenges, Tick
  <2>2. q.challengeId = id
    BY <2>1 DEF Commit, Inv, TypeOK, InFlight
  <2>3. ~Consumed(id)
    BY <2>1, <2>2 DEF Commit, Consumes
  <2> QED BY <2>3 DEF Inv, AcceptedTimed
<1> QED BY <1>1, Invariance, PTL DEF Spec, SpacedByRetention

\* Every step of the core is a step of SingleUse, its proofs being the strings,
\* or leaves its state alone.
THEOREM Refines == Spec => ImplementsSingleUse
<1> DEFINE ctouched == {id \in ChallengeIdB64 : Accepted(id)}
           ccounted == [id \in ChallengeIdB64 |-> accepted[id]["comment"] + accepted[id]["reaction"]]
<1>1. Init => Promise!AInit
  BY DEF Init, Promise!AInit, Accepted, Endpoint
<1>2. ASSUME Inv, [Next]_vars PROVE [Promise!ANext]_(Promise!abstractVars)
  <2>1. CASE UNCHANGED accepted
    BY <2>1 DEF Accepted, Promise!abstractVars
  <2>2. ASSUME NEW q \in inflight, Commit(q) PROVE Promise!ANext
    <3> DEFINE p == q.challengeId
    <3>1. p \in ChallengeIdB64 /\ q.endpoint \in Endpoint
      BY <1>2 DEF Inv, TypeOK, InFlight
    <3>2. accepted' = [accepted EXCEPT ![p][q.endpoint] = @ + 1]
      BY <2>2 DEF Commit
    <3>3. /\ \A e \in Endpoint : accepted[p][e] \in Nat
          /\ accepted'[p][q.endpoint] = accepted[p][q.endpoint] + 1
          /\ \A e \in Endpoint : e # q.endpoint => accepted'[p][e] = accepted[p][e]
          /\ \A id \in ChallengeIdB64 : id # p => accepted'[id] = accepted[id]
      BY <1>2, <3>1, <3>2 DEF Inv, TypeOK
    <3>4. ctouched' = ctouched \cup {p}
      <4>1. Accepted(p)'
        BY <3>1, <3>3 DEF Accepted
      <4>2. \A id \in ChallengeIdB64 : id # p => (Accepted(id)' <=> Accepted(id))
        BY <3>3 DEF Accepted
      <4> QED BY <3>1, <4>1, <4>2
    <3>5. CASE q.endpoint \in ChecksExpiry
      <4>1. ~Accepted(p)
        BY <1>2, <2>2, <3>5, FirstUse
      <4>2. accepted'[p]["comment"] + accepted'[p]["reaction"] =
              accepted[p]["comment"] + accepted[p]["reaction"] + 1
        BY <3>3, <3>5 DEF ChecksExpiry, Endpoint
      <4>3. ccounted' = [ccounted EXCEPT ![p] = @ + 1]
        BY <3>1, <3>3, <4>2
      <4>4. Promise!CountedUse(p)
        BY <3>4, <4>1, <4>3 DEF Promise!CountedUse
      <4> QED BY <3>1, <4>4 DEF Promise!ANext
    <3>6. CASE q.endpoint \notin ChecksExpiry
      <4>1. ccounted' = ccounted
        BY <3>3, <3>6 DEF ChecksExpiry, Endpoint
      <4>2. Promise!OtherUse(p)
        BY <3>4, <4>1 DEF Promise!OtherUse
      <4> QED BY <3>1, <4>2 DEF Promise!ANext
    <3> QED BY <3>5, <3>6
  <2> QED BY <1>2, <2>1, <2>2 DEF vars, Next, IssueChallenge, Receive, Handle,
         SendBatch, StorageError, AlreadyUsed, Drop, PurgeUsedChallenges, Tick
<1> QED BY <1>1, <1>2, Invariance, PTL DEF Spec, ImplementsSingleUse, Promise!ASpec

-----------------------------------------------------------------------------
(* Sequences of bytes.                                                     *)

\* Equal sequences with equally long beginnings have equal beginnings and ends.
LEMMA Cancel ==
  ASSUME NEW s \in Seq(Byte), NEW t \in Seq(Byte), NEW x \in Seq(Byte), NEW y \in Seq(Byte),
         Len(s) = Len(t), s \o x = t \o y
  PROVE  s = t /\ x = y
<1>1. /\ Len(s \o x) = Len(s) + Len(x)
      /\ \A i \in 1..Len(s) + Len(x) : (s \o x)[i] = IF i <= Len(s) THEN s[i] ELSE x[i - Len(s)]
      /\ Len(t \o y) = Len(t) + Len(y)
      /\ \A i \in 1..Len(t) + Len(y) : (t \o y)[i] = IF i <= Len(t) THEN t[i] ELSE y[i - Len(t)]
  BY ConcatProperties
<1>2. Len(x) = Len(y) /\ Len(s) \in Nat /\ Len(x) \in Nat
  BY <1>1, LenProperties
<1>3. \A i \in 1..Len(s) : s[i] = t[i]
  BY <1>1, <1>2
<1>4. s = t
  BY <1>3, SeqEqual
<1> QED BY <1>4, ConcatSimplifications

\* Concatenation is associative.
LEMMA Associative ==
  \A s, t, u \in Seq(Byte) : (s \o t) \o u = s \o (t \o u)
BY ConcatAssociative

\* The type, the length and the beginning of a concatenation.
LEMMA Joined ==
  ASSUME NEW s \in Seq(Byte), NEW t \in Seq(Byte)
  PROVE  /\ s \o t \in Seq(Byte)
         /\ Len(s) \in Nat /\ Len(t) \in Nat /\ Len(s \o t) = Len(s) + Len(t)
         /\ \A i \in 1..Len(s) : (s \o t)[i] = s[i]
<1>1. /\ s \o t \in Seq(Byte) /\ Len(s \o t) = Len(s) + Len(t)
      /\ \A i \in 1..Len(s) + Len(t) : (s \o t)[i] = IF i <= Len(s) THEN s[i] ELSE t[i - Len(s)]
  BY ConcatProperties
<1>2. Len(s) \in Nat /\ Len(t) \in Nat
  BY LenProperties
<1> QED BY <1>1, <1>2

-----------------------------------------------------------------------------
(* Integers.                                                               *)

\* A byte fits into two.
LEMMA Widths == Byte \subseteq Uint16 /\ Uint16 \subseteq Nat
BY SMT DEF Byte, Uint16

\* The two halves of a number below 256, and the lower one of any.
LEMMA ByteParts ==
  /\ \A n \in Byte : n \div 256 = 0
  /\ \A n \in Nat : n % 256 \in Byte
BY SMT DEF Byte

\* The lower 16 bits are two bytes, which determine them.
LEMMA LowParts ==
  /\ \A n \in Nat : Low(n) \div 256 \in Byte /\ Low(n) % 256 \in Byte
  /\ \A m, n \in Nat :
       Low(m) % 256 = Low(n) % 256 /\ Low(m) \div 256 = Low(n) \div 256 => Low(m) = Low(n)
BY SMT DEF Byte, Low

\* The lower 16 bits and what is above them.
LEMMA Words ==
  /\ \A n \in Nat : High(n) \in Nat /\ Low(n) \in Uint16
  /\ \A n \in Uint16 : Low(n) = n /\ High(n) = 0
  /\ \A m, n \in Nat : High(m) = High(n) /\ Low(m) = Low(n) => m = n
BY SMT DEF Uint16, High, Low

\* The encodings of integers have their widths; these are their first bytes.
LEMMA U8Facts ==
  ASSUME NEW n \in Nat
  PROVE  U8(n) \in Seq(Byte) /\ Len(U8(n)) = 1 /\ U8(n)[1] = n % 256
<1>1. n % 256 \in Byte
  BY ByteParts
<1> DEFINE b == n % 256
<1> HIDE DEF b
<1>2. <<b>> \in Seq(Byte) /\ Len(<<b>>) = 1 /\ <<b>>[1] = b
  BY <1>1 DEF b
<1> QED BY <1>2 DEF U8, b

LEMMA U16Facts ==
  ASSUME NEW n \in Nat
  PROVE  /\ U16(n) \in Seq(Byte) /\ Len(U16(n)) = 2
         /\ U16(n)[1] = Low(n) \div 256 /\ U16(n)[2] = Low(n) % 256
<1>1. Low(n) \div 256 \in Byte /\ Low(n) % 256 \in Byte
  BY LowParts
<1> DEFINE a == Low(n) \div 256
           b == Low(n) % 256
<1>2. a \in Byte /\ b \in Byte
  BY <1>1
<1> HIDE DEF a, b
<1>3. <<a, b>> \in Seq(Byte) /\ Len(<<a, b>>) = 2 /\ <<a, b>>[1] = a /\ <<a, b>>[2] = b
  BY <1>2
<1> QED BY <1>3 DEF U16, a, b

\* What the encodings of integers determine.
LEMMA U16Unique ==
  ASSUME NEW m \in Nat, NEW n \in Nat, U16(m) = U16(n)
  PROVE  Low(m) = Low(n)
<1>1. Low(m) \div 256 = Low(n) \div 256 /\ Low(m) % 256 = Low(n) % 256
  BY U16Facts
<1> QED BY <1>1, LowParts

LEMMA U32Facts ==
  ASSUME NEW n \in Nat
  PROVE  U32(n) \in Seq(Byte) /\ Len(U32(n)) = 4
<1> DEFINE a == U16(High(n))
           b == U16(n)
<1>1. a \in Seq(Byte) /\ Len(a) = 2 /\ b \in Seq(Byte) /\ Len(b) = 2
  BY U16Facts, Words
<1> HIDE DEF a, b
<1>2. a \o b \in Seq(Byte) /\ Len(a \o b) = Len(a) + Len(b)
  BY <1>1, Joined
<1>3. Len(a \o b) = 4
  BY <1>1, <1>2
<1> QED BY <1>2, <1>3 DEF U32, a, b

LEMMA U32Unique ==
  ASSUME NEW m \in Nat, NEW n \in Nat, U32(m) = U32(n)
  PROVE  Low(m) = Low(n) /\ Low(High(m)) = Low(High(n))
<1>1. /\ U16(High(m)) \in Seq(Byte) /\ U16(m) \in Seq(Byte)
      /\ U16(High(n)) \in Seq(Byte) /\ U16(n) \in Seq(Byte)
      /\ Len(U16(High(m))) = Len(U16(High(n)))
  BY U16Facts, Words
<1>2. U16(High(m)) \o U16(m) = U16(High(n)) \o U16(n)
  BY DEF U32
<1>3. U16(High(m)) = U16(High(n)) /\ U16(m) = U16(n)
  BY <1>1, <1>2, Cancel
<1> QED BY <1>3, U16Unique, Words

LEMMA U64Facts ==
  ASSUME NEW n \in Nat
  PROVE  U64(n) \in Seq(Byte) /\ Len(U64(n)) = 8
<1> DEFINE a == U32(High(High(n)))
           b == U32(n)
<1>1. a \in Seq(Byte) /\ Len(a) = 4 /\ b \in Seq(Byte) /\ Len(b) = 4
  BY U32Facts, Words
<1> HIDE DEF a, b
<1>2. a \o b \in Seq(Byte) /\ Len(a \o b) = Len(a) + Len(b)
  BY <1>1, Joined
<1>3. Len(a \o b) = 8
  BY <1>1, <1>2
<1> QED BY <1>2, <1>3 DEF U64, a, b

LEMMA U64Unique ==
  ASSUME NEW m \in Uint64, NEW n \in Uint64, U64(m) = U64(n)
  PROVE  m = n
<1>1. /\ m \in Nat /\ n \in Nat
      /\ High(High(High(m))) \in Uint16 /\ High(High(High(n))) \in Uint16
  BY DEF Uint64
<1>2. /\ High(m) \in Nat /\ High(High(m)) \in Nat /\ High(High(High(m))) \in Nat
      /\ High(n) \in Nat /\ High(High(n)) \in Nat /\ High(High(High(n))) \in Nat
  BY <1>1, Words
<1>3. /\ U32(High(High(m))) \in Seq(Byte) /\ U32(m) \in Seq(Byte)
      /\ U32(High(High(n))) \in Seq(Byte) /\ U32(n) \in Seq(Byte)
      /\ Len(U32(High(High(m)))) = Len(U32(High(High(n))))
  BY <1>1, <1>2, U32Facts
<1>4. U32(High(High(m))) \o U32(m) = U32(High(High(n))) \o U32(n)
  BY DEF U64
<1>5. U32(High(High(m))) = U32(High(High(n))) /\ U32(m) = U32(n)
  BY <1>3, <1>4, Cancel
<1>6. /\ Low(m) = Low(n) /\ Low(High(m)) = Low(High(n))
      /\ Low(High(High(m))) = Low(High(High(n)))
      /\ Low(High(High(High(m)))) = Low(High(High(High(n))))
  BY <1>1, <1>2, <1>5, U32Unique
<1>7. High(High(High(m))) = High(High(High(n)))
  BY <1>1, <1>6, Words
<1>8. High(High(m)) = High(High(n))
  BY <1>2, <1>6, <1>7, Words
<1>9. High(m) = High(n)
  BY <1>2, <1>6, <1>8, Words
<1> QED BY <1>1, <1>6, <1>9, Words

-----------------------------------------------------------------------------
(* Fields.                                                                 *)

\* A text no longer than a limit below 2^16 is bytes, and so is its length.
LEMMA TextFacts ==
  ASSUME NEW max \in Uint16, NEW t \in Text(max)
  PROVE  t \in Seq(Byte) /\ Len(t) \in Uint16 /\ Len(t) \in Nat
<1>1. t \in Seq(Byte) /\ Len(t) <= max
  BY LimitsAssumption DEF Text
<1>2. Len(t) \in Nat
  BY <1>1, LenProperties
<1>3. max \in Nat /\ max < 65536
  BY SMT DEF Uint16
<1> QED BY <1>1, <1>2, <1>3, SMT DEF Uint16

LEMMA ShortFacts ==
  ASSUME NEW max \in Byte, NEW t \in Text(max)
  PROVE  t \in Seq(Byte) /\ Len(t) \in Byte
<1>1. t \in Seq(Byte) /\ Len(t) <= max
  BY LimitsAssumption DEF Text
<1>2. Len(t) \in Nat
  BY <1>1, LenProperties
<1>3. max \in Nat /\ max < 256
  BY SMT DEF Byte
<1> QED BY <1>1, <1>2, <1>3, SMT DEF Byte

\* Fields are bytes; this is how many, and the first.
LEMMA Field16Facts ==
  ASSUME NEW t \in Seq(Byte), Len(t) \in Uint16, NEW x \in Seq(Byte)
  PROVE  /\ Field16(t, x) \in Seq(Byte)
         /\ Len(Field16(t, x)) = 2 + Len(t) + Len(x)
         /\ Field16(t, x)[1] = Len(t) \div 256
<1> DEFINE a == U16(Len(t))
           b == t \o x
<1>1. Len(t) \in Nat /\ Low(Len(t)) = Len(t)
  BY Widths, Words
<1>2. a \in Seq(Byte) /\ Len(a) = 2 /\ a[1] = Len(t) \div 256
  BY <1>1, U16Facts
<1>3. b \in Seq(Byte) /\ Len(b) = Len(t) + Len(x) /\ Len(x) \in Nat
  BY Joined
<1> HIDE DEF a, b
<1>4. /\ a \o b \in Seq(Byte) /\ Len(a \o b) = Len(a) + Len(b)
      /\ \A i \in 1..Len(a) : (a \o b)[i] = a[i]
  BY <1>2, <1>3, Joined
<1>5. (a \o b)[1] = a[1] /\ Len(a \o b) = 2 + Len(t) + Len(x)
  BY <1>1, <1>2, <1>3, <1>4
<1> QED BY <1>2, <1>4, <1>5 DEF Field16, a, b

\* A length and a text of this length: both are read back, and the rest too.
LEMMA Field16Unique ==
  ASSUME NEW s \in Seq(Byte), NEW t \in Seq(Byte), NEW x \in Seq(Byte), NEW y \in Seq(Byte),
         Len(s) \in Uint16, Len(t) \in Uint16, Field16(s, x) = Field16(t, y)
  PROVE  s = t /\ x = y
<1> DEFINE a == U16(Len(s))
           b == U16(Len(t))
           c == s \o x
           d == t \o y
<1>1. Len(s) \in Nat /\ Low(Len(s)) = Len(s) /\ Len(t) \in Nat /\ Low(Len(t)) = Len(t)
  BY Widths, Words
<1>2. /\ a \in Seq(Byte) /\ b \in Seq(Byte) /\ c \in Seq(Byte) /\ d \in Seq(Byte)
      /\ Len(a) = Len(b)
  BY <1>1, U16Facts, Joined
<1>3. a \o c = b \o d
  BY DEF Field16
<1> HIDE DEF a, b, c, d
<1>4. a = b /\ c = d
  BY <1>2, <1>3, Cancel
<1>5. Len(s) = Len(t)
  BY <1>1, <1>4, U16Unique DEF a, b
<1>6. s \o x = t \o y
  BY <1>4 DEF c, d
<1> QED BY <1>5, <1>6, Cancel

LEMMA Field32Facts ==
  ASSUME NEW t \in Seq(Byte), Len(t) \in Uint16, NEW x \in Seq(Byte)
  PROVE  /\ Field32(t, x) \in Seq(Byte)
         /\ Len(Field32(t, x)) = 4 + Len(t) + Len(x)
         /\ Field32(t, x) = U16(0) \o Field16(t, x)
<1> DEFINE a == U16(High(Len(t)))
           b == U16(Len(t))
           c == t \o x
           d == a \o b
<1>1. Len(t) \in Nat /\ High(Len(t)) = 0 /\ 0 \in Nat
  BY Widths, Words
<1>2. a \in Seq(Byte) /\ b \in Seq(Byte) /\ Len(a) = 2 /\ Len(b) = 2
  BY <1>1, U16Facts
<1>3. c \in Seq(Byte) /\ Len(c) = Len(t) + Len(x) /\ Len(x) \in Nat
  BY Joined
<1>4. Field32(t, x) = d \o c
  BY DEF Field32, U32
<1>5. Field16(t, x) = b \o c /\ a = U16(0)
  BY <1>1 DEF Field16
<1> HIDE DEF a, b, c
<1>6. d \in Seq(Byte) /\ Len(d) = Len(a) + Len(b)
  BY <1>2, Joined
<1>7. d \o c = a \o (b \o c)
  <2>1. a \in Seq(Byte) /\ b \in Seq(Byte) /\ c \in Seq(Byte)
    BY <1>2, <1>3
  <2>2. (a \o b) \o c = a \o (b \o c)
    BY <2>1, Associative, ZenonT(40)
  <2> QED BY <2>2
<1> HIDE DEF d
<1>8. d \o c \in Seq(Byte) /\ Len(d \o c) = Len(d) + Len(c)
  BY <1>3, <1>6, Joined
<1>9. Len(d \o c) = 4 + Len(t) + Len(x)
  BY <1>1, <1>2, <1>3, <1>6, <1>8
<1> QED BY <1>4, <1>5, <1>7, <1>8, <1>9

LEMMA Field32Unique ==
  ASSUME NEW s \in Seq(Byte), NEW t \in Seq(Byte), NEW x \in Seq(Byte), NEW y \in Seq(Byte),
         Len(s) \in Uint16, Len(t) \in Uint16, Field32(s, x) = Field32(t, y)
  PROVE  s = t /\ x = y
<1>1. U16(0) \in Seq(Byte)
  BY U16Facts
<1>2. Field16(s, x) \in Seq(Byte) /\ Field16(t, y) \in Seq(Byte)
  BY Field16Facts
<1>3. U16(0) \o Field16(s, x) = U16(0) \o Field16(t, y)
  <2>1. Field32(s, x) = U16(0) \o Field16(s, x)
    BY Field32Facts
  <2>2. Field32(t, y) = U16(0) \o Field16(t, y)
    BY Field32Facts
  <2> QED BY <2>1, <2>2, Zenon
<1>4. Field16(s, x) = Field16(t, y)
  BY <1>1, <1>2, <1>3, Cancel
<1> QED BY <1>4, Field16Unique

-----------------------------------------------------------------------------
(* What the payloads share.                                                *)

\* A number of one byte, then the rest.
LEMMA HeadFacts ==
  ASSUME NEW n \in Nat, NEW x \in Seq(Byte)
  PROVE  U8(n) \o x \in Seq(Byte) /\ (U8(n) \o x)[1] = n % 256
<1>1. U8(n) \in Seq(Byte) /\ Len(U8(n)) = 1 /\ U8(n)[1] = n % 256
  BY U8Facts
<1> DEFINE a == U8(n)
<1>2. a \in Seq(Byte) /\ 1 \in 1..Len(a) /\ a[1] = n % 256
  BY <1>1
<1> HIDE DEF a
<1>3. a \o x \in Seq(Byte) /\ (a \o x)[1] = a[1]
  BY <1>2, Joined
<1> QED BY <1>2, <1>3 DEF a

LEMMA HeadUnique ==
  ASSUME NEW m \in Nat, NEW n \in Nat, NEW x \in Seq(Byte), NEW y \in Seq(Byte),
         U8(m) \o x = U8(n) \o y
  PROVE  U8(m) = U8(n) /\ x = y
<1>1. U8(m) \in Seq(Byte) /\ U8(n) \in Seq(Byte) /\ Len(U8(m)) = Len(U8(n))
  BY U8Facts
<1> QED BY <1>1, Cancel

OfArticle(p) ==
  p.hostContext \in Text(MaxHostContextBytes) /\ p.articlePath \in Text(MaxArticlePathBytes)
OfChallenge(p) == p.challengeId \in ChallengeId

\* The article begins with a length below 256.
LEMMA ArticleFacts ==
  ASSUME NEW p, OfArticle(p), NEW x \in Seq(Byte)
  PROVE  Article(p, x) \in Seq(Byte) /\ Article(p, x)[1] = 0
<1>1. /\ p.hostContext \in Seq(Byte) /\ Len(p.hostContext) \in Byte
      /\ p.articlePath \in Seq(Byte) /\ Len(p.articlePath) \in Byte
  <2>1. MaxHostContextBytes \in Byte /\ MaxArticlePathBytes \in Byte
    BY LimitsAssumption
  <2> QED BY <2>1, ShortFacts DEF OfArticle
<1>2. Len(p.hostContext) \in Uint16 /\ Len(p.articlePath) \in Uint16
  BY <1>1, Widths
<1>3. Len(p.hostContext) \div 256 = 0
  BY <1>1, ByteParts
<1> DEFINE t == p.hostContext
           y == Field16(p.articlePath, x)
<1>4. t \in Seq(Byte) /\ Len(t) \in Uint16 /\ Len(t) \div 256 = 0 /\ y \in Seq(Byte)
  BY <1>1, <1>2, <1>3, Field16Facts
<1>5. Article(p, x) = Field16(t, y)
  BY DEF Article
<1> HIDE DEF t, y
<1>6. Field16(t, y) \in Seq(Byte) /\ Field16(t, y)[1] = 0
  BY <1>4, Field16Facts
<1> QED BY <1>5, <1>6, Zenon

\* It is read back, and the rest too.
LEMMA ArticleUnique ==
  ASSUME NEW p, NEW q, OfArticle(p), OfArticle(q), NEW x \in Seq(Byte), NEW y \in Seq(Byte),
         Article(p, x) = Article(q, y)
  PROVE  p.hostContext = q.hostContext /\ p.articlePath = q.articlePath /\ x = y
<1>1. /\ p.hostContext \in Seq(Byte) /\ Len(p.hostContext) \in Uint16
      /\ p.articlePath \in Seq(Byte) /\ Len(p.articlePath) \in Uint16
      /\ q.hostContext \in Seq(Byte) /\ Len(q.hostContext) \in Uint16
      /\ q.articlePath \in Seq(Byte) /\ Len(q.articlePath) \in Uint16
  <2>1. MaxHostContextBytes \in Byte /\ MaxArticlePathBytes \in Byte
    BY LimitsAssumption
  <2> QED BY <2>1, ShortFacts, Widths DEF OfArticle
<1>2. Field16(p.articlePath, x) \in Seq(Byte) /\ Field16(q.articlePath, y) \in Seq(Byte)
  BY <1>1, Field16Facts
<1>3. p.hostContext = q.hostContext /\ Field16(p.articlePath, x) = Field16(q.articlePath, y)
  BY <1>1, <1>2, Field16Unique DEF Article
<1> QED BY <1>1, <1>3, Field16Unique

LEMMA ChallengeIdFacts ==
  ASSUME NEW p, OfChallenge(p)
  PROVE  p.challengeId \in Seq(Byte) /\ Len(p.challengeId) = ChallengeIdBytes
                                     /\ ChallengeIdBytes \in Nat
BY LimitsAssumption DEF OfChallenge, ChallengeId

LEMMA WorkFacts ==
  ASSUME NEW p, OfChallenge(p), p.nonce \in Uint64
  PROVE  Work(p) \in Seq(Byte) /\ Len(Work(p)) = ChallengeIdBytes + 8
<1> DEFINE a == p.challengeId
           b == U64(p.nonce)
<1>1. a \in Seq(Byte) /\ Len(a) = ChallengeIdBytes /\ ChallengeIdBytes \in Nat
  BY ChallengeIdFacts
<1>2. b \in Seq(Byte) /\ Len(b) = 8
  BY U64Facts DEF Uint64
<1>3. Work(p) = a \o b
  BY DEF Work
<1> HIDE DEF a, b
<1>4. a \o b \in Seq(Byte) /\ Len(a \o b) = Len(a) + Len(b)
  BY <1>1, <1>2, Joined
<1> QED BY <1>1, <1>2, <1>3, <1>4

\* A challenge id of fixed length, then eight bytes.
LEMMA WorkUnique ==
  ASSUME NEW p, NEW q, OfChallenge(p), OfChallenge(q), p.nonce \in Uint64, q.nonce \in Uint64,
         Work(p) = Work(q)
  PROVE  p.challengeId = q.challengeId /\ p.nonce = q.nonce
<1>1. /\ p.challengeId \in Seq(Byte) /\ q.challengeId \in Seq(Byte)
      /\ Len(p.challengeId) = Len(q.challengeId)
  BY ChallengeIdFacts
<1>2. U64(p.nonce) \in Seq(Byte) /\ U64(q.nonce) \in Seq(Byte)
  BY U64Facts DEF Uint64
<1>3. p.challengeId = q.challengeId /\ U64(p.nonce) = U64(q.nonce)
  BY <1>1, <1>2, Cancel DEF Work
<1> QED BY <1>3, U64Unique

-----------------------------------------------------------------------------
(* What follows the article in each payload.                               *)

CommentRest(p) == Field16(p.nickname, Field32(p.body, Work(p)))
PollRest(p) == Field16(p.pollId, Field16(p.option, Work(p)))
ActionRest(p) == Field16(p.commentId, Work(p))

\* Every part of a payload and of its encoding has its type.
LEMMA CommentFacts ==
  ASSUME NEW p \in CanonicalPayload
  PROVE  /\ OfArticle(p) /\ OfChallenge(p) /\ p.nonce \in Uint64
         /\ p.nickname \in Seq(Byte) /\ Len(p.nickname) \in Uint16
         /\ p.body \in Seq(Byte) /\ Len(p.body) \in Uint16
         /\ Work(p) \in Seq(Byte) /\ Field32(p.body, Work(p)) \in Seq(Byte)
         /\ CommentRest(p) \in Seq(Byte) /\ Article(p, CommentRest(p)) \in Seq(Byte)
<1>1. OfArticle(p) /\ OfChallenge(p) /\ p.nonce \in Uint64
  BY DEF CanonicalPayload, OfArticle, OfChallenge
<1>2. p.nickname \in Text(MaxNicknameBytes) /\ p.body \in Text(MaxBodyBytes)
  BY DEF CanonicalPayload
<1>3. MaxNicknameBytes \in Uint16 /\ MaxBodyBytes \in Uint16
  BY LimitsAssumption, Widths
<1>4. /\ p.nickname \in Seq(Byte) /\ Len(p.nickname) \in Uint16
      /\ p.body \in Seq(Byte) /\ Len(p.body) \in Uint16
  BY <1>2, <1>3, TextFacts
<1>5. Work(p) \in Seq(Byte)
  BY <1>1, WorkFacts
<1>6. Field32(p.body, Work(p)) \in Seq(Byte)
  BY <1>4, <1>5, Field32Facts
<1>7. CommentRest(p) \in Seq(Byte)
  BY <1>4, <1>6, Field16Facts DEF CommentRest
<1>8. Article(p, CommentRest(p)) \in Seq(Byte)
  BY <1>1, <1>7, ArticleFacts
<1> QED BY <1>1, <1>4, <1>5, <1>6, <1>7, <1>8

LEMMA PollFacts ==
  ASSUME NEW p \in PollCanonicalPayload
  PROVE  /\ OfArticle(p) /\ OfChallenge(p) /\ p.nonce \in Uint64
         /\ p.pollId \in Seq(Byte) /\ Len(p.pollId) \in Uint16
         /\ p.option \in Seq(Byte) /\ Len(p.option) \in Byte /\ Len(p.option) \in Uint16
         /\ Work(p) \in Seq(Byte) /\ Field16(p.option, Work(p)) \in Seq(Byte)
         /\ PollRest(p) \in Seq(Byte) /\ Article(p, PollRest(p)) \in Seq(Byte)
<1>1. OfArticle(p) /\ OfChallenge(p) /\ p.nonce \in Uint64
  BY DEF PollCanonicalPayload, OfArticle, OfChallenge
<1>2. p.pollId \in Text(MaxPollIdBytes) /\ p.option \in Text(MaxOptionBytes)
  BY DEF PollCanonicalPayload
<1>3. /\ p.pollId \in Seq(Byte) /\ Len(p.pollId) \in Byte
      /\ p.option \in Seq(Byte) /\ Len(p.option) \in Byte
  BY <1>2, LimitsAssumption, ShortFacts
<1>4. Len(p.pollId) \in Uint16 /\ Len(p.option) \in Uint16
  BY <1>3, Widths
<1>5. Work(p) \in Seq(Byte)
  BY <1>1, WorkFacts
<1>6. Field16(p.option, Work(p)) \in Seq(Byte)
  BY <1>3, <1>4, <1>5, Field16Facts
<1>7. PollRest(p) \in Seq(Byte)
  BY <1>3, <1>4, <1>6, Field16Facts DEF PollRest
<1>8. Article(p, PollRest(p)) \in Seq(Byte)
  BY <1>1, <1>7, ArticleFacts
<1> QED BY <1>1, <1>3, <1>4, <1>5, <1>6, <1>7, <1>8

LEMMA ActionFacts ==
  ASSUME NEW p \in CommentActionCanonicalPayload
  PROVE  /\ OfArticle(p) /\ OfChallenge(p) /\ p.nonce \in Uint64
         /\ p.action \in {"flag", "vote"} /\ ACTION_BYTE[p.action] \in Nat
         /\ p.commentId \in Seq(Byte) /\ Len(p.commentId) \in Uint16
         /\ Work(p) \in Seq(Byte)
         /\ ActionRest(p) \in Seq(Byte) /\ Article(p, ActionRest(p)) \in Seq(Byte)
         /\ U8(ACTION_BYTE[p.action]) \o Article(p, ActionRest(p)) \in Seq(Byte)
<1>1. OfArticle(p) /\ OfChallenge(p) /\ p.nonce \in Uint64 /\ p.action \in {"flag", "vote"}
  BY DEF CommentActionCanonicalPayload, OfArticle, OfChallenge
<1>2. p.commentId \in Text(MaxCommentIdBytes)
  BY DEF CommentActionCanonicalPayload
<1>3. p.commentId \in Seq(Byte) /\ Len(p.commentId) \in Byte
  BY <1>2, LimitsAssumption, ShortFacts
<1>4. Len(p.commentId) \in Uint16
  BY <1>3, Widths
<1>5. Work(p) \in Seq(Byte)
  BY <1>1, WorkFacts
<1>6. ActionRest(p) \in Seq(Byte)
  BY <1>3, <1>4, <1>5, Field16Facts DEF ActionRest
<1>7. Article(p, ActionRest(p)) \in Seq(Byte)
  BY <1>1, <1>6, ArticleFacts
<1>8. ACTION_BYTE[p.action] \in Nat
  BY <1>1 DEF ACTION_BYTE
<1>9. U8(ACTION_BYTE[p.action]) \o Article(p, ActionRest(p)) \in Seq(Byte)
  BY <1>7, <1>8, HeadFacts
<1> QED BY <1>1, <1>3, <1>4, <1>5, <1>6, <1>7, <1>8, <1>9

LEMMA VersionFacts == ProtocolVersion \in Nat
BY LimitsAssumption, Widths

-----------------------------------------------------------------------------
(* Each encoding determines its payload.                                   *)

\* The bytes that the work of a comment or reaction is done on are those of one
\* payload: nothing can be moved from one field into the next.
THEOREM CommentDetermined ==
  \A p, q \in CanonicalPayload : encodeCanonicalPayload(p) = encodeCanonicalPayload(q) => p = q
<1> SUFFICES ASSUME NEW p \in CanonicalPayload, NEW q \in CanonicalPayload,
                    encodeCanonicalPayload(p) = encodeCanonicalPayload(q)
             PROVE  p = q
  OBVIOUS
<1> DEFINE a == Article(p, CommentRest(p))
           b == Article(q, CommentRest(q))
<1>1. U8(ProtocolVersion) \o a = U8(ProtocolVersion) \o b
  BY DEF encodeCanonicalPayload, CommentRest
<1>2. a = b
  <2>1. a \in Seq(Byte) /\ b \in Seq(Byte)
    BY CommentFacts
  <2> HIDE DEF a, b
  <2> QED BY <1>1, <2>1, VersionFacts, HeadUnique
<1>3. /\ p.hostContext = q.hostContext /\ p.articlePath = q.articlePath
      /\ CommentRest(p) = CommentRest(q)
  BY <1>2, CommentFacts, ArticleUnique
<1>4. p.nickname = q.nickname /\ Field32(p.body, Work(p)) = Field32(q.body, Work(q))
  BY <1>3, CommentFacts, Field16Unique DEF CommentRest
<1>5. p.body = q.body /\ Work(p) = Work(q)
  BY <1>4, CommentFacts, Field32Unique
<1>6. p.challengeId = q.challengeId /\ p.nonce = q.nonce
  BY <1>5, CommentFacts, WorkUnique
<1> QED BY <1>3, <1>4, <1>5, <1>6 DEF CanonicalPayload

\* The same of a vote for one option.
THEOREM PollDetermined ==
  \A p, q \in PollCanonicalPayload :
    encodeCanonicalPollPayload(p) = encodeCanonicalPollPayload(q) => p = q
<1> SUFFICES ASSUME NEW p \in PollCanonicalPayload, NEW q \in PollCanonicalPayload,
                    encodeCanonicalPollPayload(p) = encodeCanonicalPollPayload(q)
             PROVE  p = q
  OBVIOUS
<1> DEFINE a == Article(p, PollRest(p))
           b == Article(q, PollRest(q))
<1>1. U8(ProtocolVersion) \o a = U8(ProtocolVersion) \o b
  BY DEF encodeCanonicalPollPayload, PollRest
<1>2. a = b
  <2>1. a \in Seq(Byte) /\ b \in Seq(Byte)
    BY PollFacts
  <2> HIDE DEF a, b
  <2> QED BY <1>1, <2>1, VersionFacts, HeadUnique
<1>3. /\ p.hostContext = q.hostContext /\ p.articlePath = q.articlePath
      /\ PollRest(p) = PollRest(q)
  BY <1>2, PollFacts, ArticleUnique
<1>4. p.pollId = q.pollId /\ Field16(p.option, Work(p)) = Field16(q.option, Work(q))
  BY <1>3, PollFacts, Field16Unique DEF PollRest
<1>5. p.option = q.option /\ Work(p) = Work(q)
  BY <1>4, PollFacts, Field16Unique
<1>6. p.challengeId = q.challengeId /\ p.nonce = q.nonce
  BY <1>5, PollFacts, WorkUnique
<1> QED BY <1>3, <1>4, <1>5, <1>6 DEF PollCanonicalPayload

\* The same of a like or flag, the action included.
THEOREM ActionDetermined ==
  \A p, q \in CommentActionCanonicalPayload :
    encodeCanonicalCommentActionPayload(p) = encodeCanonicalCommentActionPayload(q) => p = q
<1> SUFFICES ASSUME NEW p \in CommentActionCanonicalPayload,
                    NEW q \in CommentActionCanonicalPayload,
                    encodeCanonicalCommentActionPayload(p)
                      = encodeCanonicalCommentActionPayload(q)
             PROVE  p = q
  OBVIOUS
<1> DEFINE a == U8(ACTION_BYTE[p.action]) \o Article(p, ActionRest(p))
           b == U8(ACTION_BYTE[q.action]) \o Article(q, ActionRest(q))
<1>1. U8(ProtocolVersion) \o a = U8(ProtocolVersion) \o b
  BY DEF encodeCanonicalCommentActionPayload, ActionRest
<1>2. a \in Seq(Byte) /\ b \in Seq(Byte)
  BY ActionFacts
<1> HIDE DEF a, b
<1>3. a = b
  BY <1>1, <1>2, VersionFacts, HeadUnique
<1>4. U8(ACTION_BYTE[p.action]) \o Article(p, ActionRest(p))
        = U8(ACTION_BYTE[q.action]) \o Article(q, ActionRest(q))
  BY <1>3 DEF a, b
<1>5. /\ ACTION_BYTE[p.action] % 256 = ACTION_BYTE[q.action] % 256
      /\ Article(p, ActionRest(p)) = Article(q, ActionRest(q))
  <2> DEFINE m == ACTION_BYTE[p.action]
             n == ACTION_BYTE[q.action]
             x == Article(p, ActionRest(p))
             y == Article(q, ActionRest(q))
  <2>1. m \in Nat /\ n \in Nat /\ x \in Seq(Byte) /\ y \in Seq(Byte)
    BY ActionFacts
  <2>2. U8(m) \o x = U8(n) \o y
    BY <1>4
  <2> HIDE DEF m, n, x, y
  <2>3. U8(m) = U8(n) /\ x = y
    BY <2>1, <2>2, HeadUnique
  <2>4. m % 256 = n % 256
    BY <2>1, <2>3, U8Facts
  <2> QED BY <2>3, <2>4 DEF m, n, x, y
<1>6. p.action = q.action
  <2>1. p.action \in {"flag", "vote"} /\ q.action \in {"flag", "vote"}
    BY ActionFacts
  <2>2. 1 % 256 = 1 /\ 2 % 256 = 2
    BY SMT
  <2> QED BY <1>5, <2>1, <2>2 DEF ACTION_BYTE
<1>7. /\ p.hostContext = q.hostContext /\ p.articlePath = q.articlePath
      /\ ActionRest(p) = ActionRest(q)
  BY <1>5, ActionFacts, ArticleUnique
<1>8. p.commentId = q.commentId /\ Work(p) = Work(q)
  BY <1>7, ActionFacts, Field16Unique DEF ActionRest
<1>9. p.challengeId = q.challengeId /\ p.nonce = q.nonce
  BY <1>8, ActionFacts, WorkUnique
<1> QED BY <1>6, <1>7, <1>8, <1>9 DEF CommentActionCanonicalPayload

-----------------------------------------------------------------------------
(* Several options.                                                        *)

LEMMA OptionsFacts ==
  ASSUME NEW s \in Options
  PROVE  /\ s \in Seq(Text(MaxOptionBytes)) /\ Len(s) \in 1..10
         /\ \A i \in 1..Len(s) : s[i] \in Seq(Byte) /\ Len(s[i]) \in Uint16
<1>1. PICK n \in 1..MaxPollOptions : s \in [1..n -> Text(MaxOptionBytes)]
  BY DEF Options
<1>2. n \in 1..10
  BY LimitsAssumption
<1>3. s \in Seq(Text(MaxOptionBytes)) /\ Len(s) = n
  BY <1>1, <1>2
<1>4. \A i \in 1..Len(s) : s[i] \in Text(MaxOptionBytes)
  BY <1>1, <1>3
<1>5. MaxOptionBytes \in Uint16
  BY LimitsAssumption, Widths
<1> QED BY <1>2, <1>3, <1>4, <1>5, TextFacts

LEMMA OptionType ==
  ASSUME NEW s \in Options, NEW i \in 1..10, NEW x \in Seq(Byte)
  PROVE  Option(s, i, x) \in Seq(Byte)
<1>1. CASE i <= Len(s)
  <2>1. s[i] \in Seq(Byte) /\ Len(s[i]) \in Uint16
    BY <1>1, OptionsFacts
  <2> QED BY <1>1, <2>1, Field16Facts DEF Option
<1>2. CASE ~(i <= Len(s))
  BY <1>2 DEF Option
<1> QED BY <1>1, <1>2

\* An option is read back, and what follows it.
LEMMA OptionUnique ==
  ASSUME NEW s \in Options, NEW t \in Options, Len(s) = Len(t), NEW i \in 1..10,
         NEW x \in Seq(Byte), NEW y \in Seq(Byte), Option(s, i, x) = Option(t, i, y)
  PROVE  (i <= Len(s) => s[i] = t[i]) /\ x = y
<1>1. CASE i <= Len(s)
  <2>1. s[i] \in Seq(Byte) /\ Len(s[i]) \in Uint16 /\ t[i] \in Seq(Byte) /\ Len(t[i]) \in Uint16
    BY <1>1, OptionsFacts
  <2>2. Field16(s[i], x) = Field16(t[i], y)
    BY <1>1 DEF Option
  <2> QED BY <2>1, <2>2, Field16Unique
<1>2. CASE ~(i <= Len(s))
  BY <1>2 DEF Option
<1> QED BY <1>1, <1>2

LEMMA OptionFieldsType ==
  ASSUME NEW s \in Options, NEW x \in Seq(Byte)
  PROVE  OptionFields(s, x) \in Seq(Byte)
<1> DEFINE a == Option(s, 8, Option(s, 9, Option(s, 10, x)))
           b == Option(s, 5, Option(s, 6, Option(s, 7, a)))
           c == Option(s, 2, Option(s, 3, Option(s, 4, b)))
<1>1. a \in Seq(Byte)
  BY OptionType
<1> HIDE DEF a
<1>2. b \in Seq(Byte)
  BY <1>1, OptionType
<1> HIDE DEF b
<1>3. c \in Seq(Byte)
  BY <1>2, OptionType
<1> HIDE DEF c
<1>4. Option(s, 1, c) \in Seq(Byte)
  BY <1>3, OptionType
<1> QED BY <1>4 DEF OptionFields, a, b, c

\* As many options: each is read back, and the rest too.
LEMMA OptionFieldsUnique ==
  ASSUME NEW s \in Options, NEW t \in Options, Len(s) = Len(t),
         NEW x \in Seq(Byte), NEW y \in Seq(Byte), OptionFields(s, x) = OptionFields(t, y)
  PROVE  s = t /\ x = y
<1> DEFINE s10 == Option(s, 10, x)
           t10 == Option(t, 10, y)
           s9 == Option(s, 9, s10)
           t9 == Option(t, 9, t10)
           s8 == Option(s, 8, s9)
           t8 == Option(t, 8, t9)
           s7 == Option(s, 7, s8)
           t7 == Option(t, 7, t8)
           s6 == Option(s, 6, s7)
           t6 == Option(t, 6, t7)
           s5 == Option(s, 5, s6)
           t5 == Option(t, 5, t6)
           s4 == Option(s, 4, s5)
           t4 == Option(t, 4, t5)
           s3 == Option(s, 3, s4)
           t3 == Option(t, 3, t4)
           s2 == Option(s, 2, s3)
           t2 == Option(t, 2, t3)
           s1 == Option(s, 1, s2)
           t1 == Option(t, 1, t2)
<1>1. s1 = t1
  BY DEF OptionFields
<1>2. s10 \in Seq(Byte) /\ t10 \in Seq(Byte)
  BY OptionType
<1> HIDE DEF s10, t10
<1>3. s9 \in Seq(Byte) /\ t9 \in Seq(Byte)
  BY <1>2, OptionType
<1> HIDE DEF s9, t9
<1>4. s8 \in Seq(Byte) /\ t8 \in Seq(Byte)
  BY <1>3, OptionType
<1> HIDE DEF s8, t8
<1>5. s7 \in Seq(Byte) /\ t7 \in Seq(Byte)
  BY <1>4, OptionType
<1> HIDE DEF s7, t7
<1>6. s6 \in Seq(Byte) /\ t6 \in Seq(Byte)
  BY <1>5, OptionType
<1> HIDE DEF s6, t6
<1>7. s5 \in Seq(Byte) /\ t5 \in Seq(Byte)
  BY <1>6, OptionType
<1> HIDE DEF s5, t5
<1>8. s4 \in Seq(Byte) /\ t4 \in Seq(Byte)
  BY <1>7, OptionType
<1> HIDE DEF s4, t4
<1>9. s3 \in Seq(Byte) /\ t3 \in Seq(Byte)
  BY <1>8, OptionType
<1> HIDE DEF s3, t3
<1>10. s2 \in Seq(Byte) /\ t2 \in Seq(Byte)
  BY <1>9, OptionType
<1> HIDE DEF s2, t2
<1>11. s1 \in Seq(Byte) /\ t1 \in Seq(Byte)
  BY <1>10, OptionType
<1> HIDE DEF s1, t1
<1>12. (1 <= Len(s) => s[1] = t[1]) /\ s2 = t2
  BY <1>1, <1>10, OptionUnique DEF s1, t1
<1>13. (2 <= Len(s) => s[2] = t[2]) /\ s3 = t3
  BY <1>12, <1>9, OptionUnique DEF s2, t2
<1>14. (3 <= Len(s) => s[3] = t[3]) /\ s4 = t4
  BY <1>13, <1>8, OptionUnique DEF s3, t3
<1>15. (4 <= Len(s) => s[4] = t[4]) /\ s5 = t5
  BY <1>14, <1>7, OptionUnique DEF s4, t4
<1>16. (5 <= Len(s) => s[5] = t[5]) /\ s6 = t6
  BY <1>15, <1>6, OptionUnique DEF s5, t5
<1>17. (6 <= Len(s) => s[6] = t[6]) /\ s7 = t7
  BY <1>16, <1>5, OptionUnique DEF s6, t6
<1>18. (7 <= Len(s) => s[7] = t[7]) /\ s8 = t8
  BY <1>17, <1>4, OptionUnique DEF s7, t7
<1>19. (8 <= Len(s) => s[8] = t[8]) /\ s9 = t9
  BY <1>18, <1>3, OptionUnique DEF s8, t8
<1>20. (9 <= Len(s) => s[9] = t[9]) /\ s10 = t10
  BY <1>19, <1>2, OptionUnique DEF s9, t9
<1>21. (10 <= Len(s) => s[10] = t[10]) /\ x = y
  BY <1>20, OptionUnique DEF s10, t10
<1>22. Len(s) \in 1..10 /\ s \in Seq(Text(MaxOptionBytes)) /\ t \in Seq(Text(MaxOptionBytes))
  BY OptionsFacts
<1>23. \A i \in 1..Len(s) : s[i] = t[i]
  <2> SUFFICES ASSUME NEW i \in 1..Len(s) PROVE s[i] = t[i]
    OBVIOUS
  <2> DEFINE n == Len(s)
  <2>0. n \in 1..10 /\ i \in 1..n
    BY <1>22
  <2> HIDE DEF n
  <2>1. i \in 1..10 /\ i <= n
    BY <2>0
  <2>2. i \in {1, 2, 3, 4, 5, 6, 7, 8, 9, 10}
    BY <2>1, SMT
  <2> QED BY <2>1, <2>2, <1>12, <1>13, <1>14, <1>15, <1>16, <1>17, <1>18, <1>19, <1>20, <1>21
<1>24. s = t
  BY <1>22, <1>23, SeqEqual
<1> QED BY <1>24, <1>21

-----------------------------------------------------------------------------
(* Polls with several choices.                                             *)

Ballot(p) == Sorted[p.options]
MultiTail(p) == OptionFields(Ballot(p), Work(p))
MultiRest(p) == Field16(p.pollId, U8(Len(Ballot(p))) \o MultiTail(p))

LEMMA MultiFacts ==
  ASSUME NEW p \in PollMultiCanonicalPayload
  PROVE  /\ OfArticle(p) /\ OfChallenge(p) /\ p.nonce \in Uint64
         /\ p.pollId \in Seq(Byte) /\ Len(p.pollId) \in Uint16
         /\ Ballot(p) \in Options /\ Len(Ballot(p)) \in 1..10
         /\ SameOptions(Ballot(p), p.options)
         /\ Work(p) \in Seq(Byte) /\ MultiTail(p) \in Seq(Byte)
         /\ U8(Len(Ballot(p))) \o MultiTail(p) \in Seq(Byte)
         /\ MultiRest(p) \in Seq(Byte) /\ Article(p, MultiRest(p)) \in Seq(Byte)
<1>1. /\ OfArticle(p) /\ OfChallenge(p) /\ p.nonce \in Uint64
      /\ p.pollId \in Text(MaxPollIdBytes) /\ p.options \in Options
  BY DEF PollMultiCanonicalPayload, OfArticle, OfChallenge
<1>2. p.pollId \in Seq(Byte) /\ Len(p.pollId) \in Byte
  BY <1>1, LimitsAssumption, ShortFacts
<1>3. Len(p.pollId) \in Uint16
  BY <1>2, Widths
<1>4. Ballot(p) \in Options /\ SameOptions(Ballot(p), p.options)
  BY <1>1, SortAssumption DEF Ballot
<1>5. Len(Ballot(p)) \in 1..10
  BY <1>4, OptionsFacts
<1>6. Work(p) \in Seq(Byte)
  BY <1>1, WorkFacts
<1>7. MultiTail(p) \in Seq(Byte)
  BY <1>4, <1>6, OptionFieldsType DEF MultiTail
<1>8. U8(Len(Ballot(p))) \o MultiTail(p) \in Seq(Byte)
  <2>1. Len(Ballot(p)) \in Nat
    BY <1>5
  <2> QED BY <2>1, <1>7, HeadFacts
<1>9. MultiRest(p) \in Seq(Byte)
  BY <1>2, <1>3, <1>8, Field16Facts DEF MultiRest
<1>10. Article(p, MultiRest(p)) \in Seq(Byte)
  BY <1>1, <1>9, ArticleFacts
<1> QED BY <1>1, <1>2, <1>3, <1>4, <1>5, <1>6, <1>7, <1>8, <1>9, <1>10

SameVote(p, q) ==
  /\ p.hostContext = q.hostContext /\ p.articlePath = q.articlePath /\ p.pollId = q.pollId
  /\ SameOptions(p.options, q.options)
  /\ p.challengeId = q.challengeId /\ p.nonce = q.nonce

\* One direction of ChoicesDetermined.
LEMMA MultiReadBack ==
  ASSUME NEW p \in PollMultiCanonicalPayload, NEW q \in PollMultiCanonicalPayload,
         encodeCanonicalPollPayloadMulti(p) = encodeCanonicalPollPayloadMulti(q)
  PROVE  SameVote(p, q)
<1> DEFINE a == Article(p, MultiRest(p))
           b == Article(q, MultiRest(q))
           c == U8(Len(Ballot(p))) \o MultiTail(p)
           d == U8(Len(Ballot(q))) \o MultiTail(q)
<1>1. U8(ProtocolVersion) \o a = U8(ProtocolVersion) \o b
  BY DEF encodeCanonicalPollPayloadMulti, MultiRest, MultiTail, Ballot
<1>2. a = b
  <2>1. a \in Seq(Byte) /\ b \in Seq(Byte)
    BY MultiFacts
  <2> HIDE DEF a, b
  <2> QED BY <1>1, <2>1, VersionFacts, HeadUnique
<1>3. /\ p.hostContext = q.hostContext /\ p.articlePath = q.articlePath
      /\ MultiRest(p) = MultiRest(q)
  BY <1>2, MultiFacts, ArticleUnique
<1>4. p.pollId = q.pollId /\ c = d
  <2>1. c \in Seq(Byte) /\ d \in Seq(Byte)
    BY MultiFacts
  <2>2. Field16(p.pollId, c) = Field16(q.pollId, d)
    BY <1>3 DEF MultiRest
  <2> HIDE DEF c, d
  <2> QED BY <2>1, <2>2, MultiFacts, Field16Unique
<1>5. Len(Ballot(p)) = Len(Ballot(q)) /\ MultiTail(p) = MultiTail(q)
  <2> DEFINE m == Len(Ballot(p))
             n == Len(Ballot(q))
             x == MultiTail(p)
             y == MultiTail(q)
  <2>1. m \in 1..10 /\ n \in 1..10 /\ x \in Seq(Byte) /\ y \in Seq(Byte)
    BY MultiFacts
  <2>2. U8(m) \o x = U8(n) \o y
    BY <1>4
  <2> HIDE DEF m, n, x, y
  <2>3. m \in Nat /\ n \in Nat
    BY <2>1
  <2>4. U8(m) = U8(n) /\ x = y
    BY <2>1, <2>2, <2>3, HeadUnique
  <2>5. m % 256 = n % 256
    BY <2>3, <2>4, U8Facts
  <2>6. m = n
    BY <2>1, <2>5, SMT
  <2> QED BY <2>4, <2>6 DEF m, n, x, y
<1>6. Ballot(p) = Ballot(q) /\ Work(p) = Work(q)
  BY <1>5, MultiFacts, OptionFieldsUnique DEF MultiTail
<1>7. p.challengeId = q.challengeId /\ p.nonce = q.nonce
  BY <1>6, MultiFacts, WorkUnique
<1>8. SameOptions(p.options, q.options)
  BY <1>6, MultiFacts DEF SameOptions
<1> QED BY <1>3, <1>4, <1>7, <1>8 DEF SameVote

\* A vote for several options: the bytes determine everything but the order in
\* which the options were chosen, and the order has no influence on them.
THEOREM ChoicesDetermined ==
  \A p, q \in PollMultiCanonicalPayload :
    encodeCanonicalPollPayloadMulti(p) = encodeCanonicalPollPayloadMulti(q) <=> SameVote(p, q)
<1> SUFFICES ASSUME NEW p \in PollMultiCanonicalPayload, NEW q \in PollMultiCanonicalPayload,
                    SameVote(p, q)
             PROVE  encodeCanonicalPollPayloadMulti(p) = encodeCanonicalPollPayloadMulti(q)
  BY MultiReadBack
<1>1. p.options \in Options /\ q.options \in Options
  BY DEF PollMultiCanonicalPayload
<1>2. Sorted[p.options] = Sorted[q.options]
  BY <1>1, SortAssumption DEF SameVote
<1>3. Work(p) = Work(q)
  BY DEF Work, SameVote
<1> QED BY <1>2, <1>3 DEF encodeCanonicalPollPayloadMulti, Article, SameVote

-----------------------------------------------------------------------------
(* Challenges.                                                             *)

SignedRest(c) == c.challengeId \o (U64(c.expiresAt) \o U8(c.difficulty))

\* Every part of a signed challenge has its type.
LEMMA SignedFacts ==
  ASSUME NEW c \in ChallengeFields
  PROVE  /\ OfArticle(c) /\ OfChallenge(c) /\ c.expiresAt \in Uint64
         /\ c.difficulty \in Nat /\ c.difficulty <= 256
         /\ U64(c.expiresAt) \in Seq(Byte) /\ Len(U64(c.expiresAt)) = 8
         /\ U8(c.difficulty) \in Seq(Byte)
         /\ U64(c.expiresAt) \o U8(c.difficulty) \in Seq(Byte)
         /\ SignedRest(c) \in Seq(Byte) /\ Article(c, SignedRest(c)) \in Seq(Byte)
<1>1. OfArticle(c) /\ OfChallenge(c) /\ c.expiresAt \in Uint64 /\ c.difficulty \in 0..MaxDifficulty
  BY DEF ChallengeFields, OfArticle, OfChallenge
<1>2. c.difficulty \in Nat /\ c.difficulty <= 256
  BY <1>1, LimitsAssumption
<1>3. U64(c.expiresAt) \in Seq(Byte) /\ Len(U64(c.expiresAt)) = 8
  BY <1>1, U64Facts DEF Uint64
<1>4. U8(c.difficulty) \in Seq(Byte)
  BY <1>2, U8Facts
<1>5. U64(c.expiresAt) \o U8(c.difficulty) \in Seq(Byte)
  BY <1>3, <1>4, Joined
<1>6. SignedRest(c) \in Seq(Byte)
  BY <1>1, <1>5, ChallengeIdFacts, Joined DEF SignedRest
<1>7. Article(c, SignedRest(c)) \in Seq(Byte)
  BY <1>1, <1>6, ArticleFacts
<1> QED BY <1>1, <1>2, <1>3, <1>4, <1>5, <1>6, <1>7

\* A signature covers every field of a challenge, but the two extreme difficulties
\* share a byte: setUint8 cuts 256 to 0.
THEOREM ChallengeDetermined ==
  \A c, d \in ChallengeFields :
    encodeCanonicalChallenge(c) = encodeCanonicalChallenge(d) /\ c # d =>
      /\ {c.difficulty, d.difficulty} = {0, 256}
      /\ c = [d EXCEPT !.difficulty = c.difficulty]
<1> SUFFICES ASSUME NEW c \in ChallengeFields, NEW d \in ChallengeFields,
                    encodeCanonicalChallenge(c) = encodeCanonicalChallenge(d), c # d
             PROVE  /\ {c.difficulty, d.difficulty} = {0, 256}
                    /\ c = [d EXCEPT !.difficulty = c.difficulty]
  OBVIOUS
<1> DEFINE a == Article(c, SignedRest(c))
           b == Article(d, SignedRest(d))
<1>1. a = b
  <2>1. a \in Seq(Byte) /\ b \in Seq(Byte)
    BY SignedFacts
  <2>2. U8(ProtocolVersion) \o a = U8(ProtocolVersion) \o b
    BY DEF encodeCanonicalChallenge, SignedRest
  <2> HIDE DEF a, b
  <2> QED BY <2>1, <2>2, VersionFacts, HeadUnique
<1>2. c.hostContext = d.hostContext /\ c.articlePath = d.articlePath
      /\ SignedRest(c) = SignedRest(d)
  BY <1>1, SignedFacts, ArticleUnique
<1>3. /\ c.challengeId = d.challengeId
      /\ U64(c.expiresAt) \o U8(c.difficulty) = U64(d.expiresAt) \o U8(d.difficulty)
  <2> DEFINE s == c.challengeId
             t == d.challengeId
             x == U64(c.expiresAt) \o U8(c.difficulty)
             y == U64(d.expiresAt) \o U8(d.difficulty)
  <2>1. x \in Seq(Byte) /\ y \in Seq(Byte)
    BY SignedFacts
  <2>2. s \in Seq(Byte) /\ t \in Seq(Byte) /\ Len(s) = Len(t)
    BY SignedFacts, ChallengeIdFacts
  <2>3. s \o x = t \o y
    BY <1>2 DEF SignedRest
  <2> HIDE DEF s, t, x, y
  <2>4. s = t /\ x = y
    BY <2>1, <2>2, <2>3, Cancel
  <2> QED BY <2>4 DEF s, t, x, y
<1>4. U64(c.expiresAt) = U64(d.expiresAt) /\ U8(c.difficulty) = U8(d.difficulty)
  <2> DEFINE s == U64(c.expiresAt)
             t == U64(d.expiresAt)
             x == U8(c.difficulty)
             y == U8(d.difficulty)
  <2>1. /\ s \in Seq(Byte) /\ t \in Seq(Byte) /\ Len(s) = Len(t)
        /\ x \in Seq(Byte) /\ y \in Seq(Byte)
    BY SignedFacts
  <2>2. s \o x = t \o y
    BY <1>3
  <2> HIDE DEF s, t, x, y
  <2>3. s = t /\ x = y
    BY <2>1, <2>2, Cancel
  <2> QED BY <2>3 DEF s, t, x, y
<1>5. c.expiresAt = d.expiresAt
  BY <1>4, SignedFacts, U64Unique
<1>6. c.difficulty % 256 = d.difficulty % 256
  <2> DEFINE m == c.difficulty
             n == d.difficulty
  <2>1. m \in Nat /\ n \in Nat /\ U8(m) = U8(n)
    BY <1>4, SignedFacts
  <2> HIDE DEF m, n
  <2>2. m % 256 = n % 256
    BY <2>1, U8Facts
  <2> QED BY <2>2 DEF m, n
<1>7. c = [d EXCEPT !.difficulty = c.difficulty]
  BY <1>2, <1>3, <1>5 DEF ChallengeFields
<1>8. c.difficulty # d.difficulty
  BY <1>2, <1>3, <1>5 DEF ChallengeFields
<1>9. {c.difficulty, d.difficulty} = {0, 256}
  <2> DEFINE m == c.difficulty
             n == d.difficulty
  <2>1. m \in Nat /\ m <= 256 /\ n \in Nat /\ n <= 256 /\ m % 256 = n % 256 /\ m # n
    BY SignedFacts, <1>6, <1>8
  <2> HIDE DEF m, n
  <2>2. (m = 0 /\ n = 256) \/ (m = 256 /\ n = 0)
    BY <2>1, SMT
  <2> QED BY <2>2 DEF m, n
<1> QED BY <1>7, <1>9

-----------------------------------------------------------------------------
(* No two encoders give the same bytes.                                    *)

\* Behind the same article, what begins with other bytes is other bytes.
LEMMA ArticleApart ==
  ASSUME NEW p, NEW q, OfArticle(p), OfArticle(q), NEW x \in Seq(Byte), NEW y \in Seq(Byte),
         x # y
  PROVE  U8(ProtocolVersion) \o Article(p, x) # U8(ProtocolVersion) \o Article(q, y)
<1> DEFINE a == Article(p, x)
           b == Article(q, y)
<1>1. a \in Seq(Byte) /\ b \in Seq(Byte)
  BY ArticleFacts
<1>2. a # b
  BY ArticleUnique
<1> HIDE DEF a, b
<1>3. U8(ProtocolVersion) \o a # U8(ProtocolVersion) \o b
  BY <1>1, <1>2, VersionFacts, HeadUnique
<1> QED BY <1>3 DEF a, b

\* A body takes a length of four bytes, an option one of two.
LEMMA BodyNotOption ==
  ASSUME NEW p \in CanonicalPayload, NEW q \in PollCanonicalPayload
  PROVE  Field32(p.body, Work(p)) # Field16(q.option, Work(q))
<1> SUFFICES ASSUME Field32(p.body, Work(p)) = Field16(q.option, Work(q))
             PROVE  FALSE
  OBVIOUS
<1> DEFINE a == U16(0)
           b == U16(Len(q.option))
           c == Field16(p.body, Work(p))
           d == q.option \o Work(q)
<1>1. /\ p.body \in Seq(Byte) /\ Len(p.body) \in Uint16 /\ Len(p.body) \in Nat
      /\ q.option \in Seq(Byte) /\ Len(q.option) \in Uint16 /\ Len(q.option) \in Nat
  BY CommentFacts, PollFacts, Widths
<1>2. /\ Work(p) \in Seq(Byte) /\ Len(Work(p)) = ChallengeIdBytes + 8
      /\ Work(q) \in Seq(Byte) /\ Len(Work(q)) = ChallengeIdBytes + 8
      /\ ChallengeIdBytes \in Nat
  BY CommentFacts, PollFacts, WorkFacts, LimitsAssumption
<1>3. c \in Seq(Byte) /\ Len(c) = 2 + Len(p.body) + Len(Work(p))
  BY <1>1, <1>2, Field16Facts, ZenonT(40)
<1>4. d \in Seq(Byte) /\ Len(d) = Len(q.option) + Len(Work(q))
  BY <1>1, <1>2, Joined
<1>5. a \in Seq(Byte) /\ b \in Seq(Byte) /\ Len(a) = Len(b)
  BY <1>1, U16Facts
<1>6. a \o c = b \o d
  BY <1>1, <1>2, Field32Facts DEF Field16
<1> HIDE DEF a, b, c, d
<1>7. a = b /\ c = d
  BY <1>3, <1>4, <1>5, <1>6, Cancel
<1>8. Low(0) = Low(Len(q.option))
  BY <1>1, <1>7, U16Unique DEF a, b
<1>9. Len(q.option) = 0
  <2>1. Low(0) = 0
    BY SMT DEF Low
  <2> QED BY <1>1, <1>8, <2>1, Words
<1>10. Len(c) = Len(d)
  BY <1>7
<1>11. 2 + Len(p.body) + (ChallengeIdBytes + 8) = 0 + (ChallengeIdBytes + 8)
  BY <1>2, <1>3, <1>4, <1>9, <1>10, Zenon
<1>12. \A k, m \in Nat : 2 + m + (k + 8) # 0 + (k + 8)
  BY SMT
<1> QED BY <1>1, <1>2, <1>11, <1>12, Zenon

LEMMA CommentNotPoll ==
  ASSUME NEW p \in CanonicalPayload, NEW q \in PollCanonicalPayload
  PROVE  encodeCanonicalPayload(p) # encodeCanonicalPollPayload(q)
<1>1. CommentRest(p) # PollRest(q)
  BY BodyNotOption, CommentFacts, PollFacts, Field16Unique DEF CommentRest, PollRest
<1> QED BY <1>1, ArticleApart, CommentFacts, PollFacts
        DEF encodeCanonicalPayload, encodeCanonicalPollPayload, CommentRest, PollRest

\* The number of options is not 0, the first byte of a length is.
LEMMA CountFirst ==
  ASSUME NEW q \in PollMultiCanonicalPayload
  PROVE  (U8(Len(Ballot(q))) \o MultiTail(q))[1] # 0
<1> DEFINE n == Len(Ballot(q))
           x == MultiTail(q)
<1>1. n \in 1..10 /\ x \in Seq(Byte)
  BY MultiFacts
<1> HIDE DEF n, x
<1>2. n \in Nat /\ n % 256 = n
  BY <1>1, SMT
<1>3. (U8(n) \o x)[1] = n % 256
  BY <1>1, <1>2, HeadFacts
<1>4. (U8(n) \o x)[1] # 0
  BY <1>1, <1>2, <1>3
<1> QED BY <1>4 DEF n, x

LEMMA CommentNotChoices ==
  ASSUME NEW p \in CanonicalPayload, NEW q \in PollMultiCanonicalPayload
  PROVE  encodeCanonicalPayload(p) # encodeCanonicalPollPayloadMulti(q)
<1> DEFINE c == Field32(p.body, Work(p))
           d == U8(Len(Ballot(q))) \o MultiTail(q)
<1>1. c \in Seq(Byte) /\ d \in Seq(Byte) /\ d[1] # 0
  <2>1. c \in Seq(Byte)
    BY CommentFacts
  <2>2. d \in Seq(Byte)
    BY MultiFacts
  <2>3. d[1] # 0
    BY CountFirst
  <2> QED BY <2>1, <2>2, <2>3
<1>2. c[1] = 0
  <2>1. /\ p.body \in Seq(Byte) /\ Len(p.body) \in Uint16 /\ Work(p) \in Seq(Byte)
    BY CommentFacts
  <2> DEFINE a == U16(0)
             b == Field16(p.body, Work(p))
  <2>2. c = a \o b /\ b \in Seq(Byte)
    BY <2>1, Field32Facts, Field16Facts
  <2>3. a \in Seq(Byte) /\ Len(a) = 2 /\ a[1] = 0
    <3>1. Low(0) \div 256 = 0
      BY SMT DEF Low
    <3> QED BY <3>1, U16Facts
  <2> HIDE DEF a, b, c
  <2>4. 1 \in 1..Len(a)
    BY <2>3
  <2>5. (a \o b)[1] = a[1]
    BY <2>2, <2>3, <2>4, Joined
  <2> QED BY <2>2, <2>3, <2>5
<1>3. CommentRest(p) # MultiRest(q)
  <2>1. CommentRest(p) = Field16(p.nickname, c) /\ MultiRest(q) = Field16(q.pollId, d)
    BY DEF CommentRest, MultiRest
  <2>2. c # d
    BY <1>1, <1>2
  <2> HIDE DEF c, d
  <2> QED BY <1>1, <2>1, <2>2, CommentFacts, MultiFacts, Field16Unique
<1> QED BY <1>3, ArticleApart, CommentFacts, MultiFacts
        DEF encodeCanonicalPayload, encodeCanonicalPollPayloadMulti, CommentRest, MultiRest,
            MultiTail, Ballot

LEMMA PollNotChoices ==
  ASSUME NEW p \in PollCanonicalPayload, NEW q \in PollMultiCanonicalPayload
  PROVE  encodeCanonicalPollPayload(p) # encodeCanonicalPollPayloadMulti(q)
<1> DEFINE c == Field16(p.option, Work(p))
           d == U8(Len(Ballot(q))) \o MultiTail(q)
<1>1. c \in Seq(Byte) /\ d \in Seq(Byte) /\ d[1] # 0
  <2>1. c \in Seq(Byte)
    BY PollFacts
  <2>2. d \in Seq(Byte)
    BY MultiFacts
  <2>3. d[1] # 0
    BY CountFirst
  <2> QED BY <2>1, <2>2, <2>3
<1>2. c[1] = 0
  BY PollFacts, Field16Facts, ByteParts
<1>3. PollRest(p) # MultiRest(q)
  <2>1. PollRest(p) = Field16(p.pollId, c) /\ MultiRest(q) = Field16(q.pollId, d)
    BY DEF PollRest, MultiRest
  <2>2. c # d
    BY <1>1, <1>2
  <2> HIDE DEF c, d
  <2> QED BY <1>1, <2>1, <2>2, PollFacts, MultiFacts, Field16Unique
<1> QED BY <1>3, ArticleApart, PollFacts, MultiFacts
        DEF encodeCanonicalPollPayload, encodeCanonicalPollPayloadMulti, PollRest, MultiRest,
            MultiTail, Ballot

\* The action stands where the others have the first byte of a length.
LEMMA ActionApart ==
  ASSUME NEW p \in CommentActionCanonicalPayload, NEW q, OfArticle(q), NEW y \in Seq(Byte)
  PROVE  encodeCanonicalCommentActionPayload(p) # U8(ProtocolVersion) \o Article(q, y)
<1> DEFINE n == ACTION_BYTE[p.action]
           x == Article(p, ActionRest(p))
           a == U8(n) \o x
           b == Article(q, y)
<1>1. n \in {1, 2} /\ x \in Seq(Byte)
  BY ActionFacts DEF ACTION_BYTE
<1>2. b \in Seq(Byte) /\ b[1] = 0
  BY ArticleFacts
<1>3. encodeCanonicalCommentActionPayload(p) = U8(ProtocolVersion) \o a
  BY DEF encodeCanonicalCommentActionPayload, ActionRest
<1> HIDE DEF n, x, b
<1>4. n \in Nat /\ n % 256 # 0
  BY <1>1, SMT
<1>5. a \in Seq(Byte) /\ a[1] = n % 256
  BY <1>1, <1>4, HeadFacts
<1>6. a # b
  BY <1>2, <1>4, <1>5
<1> HIDE DEF a
<1>7. U8(ProtocolVersion) \o a # U8(ProtocolVersion) \o b
  BY <1>2, <1>5, <1>6, VersionFacts, HeadUnique
<1> QED BY <1>3, <1>7 DEF b

LEMMA ActionNotOthers ==
  ASSUME NEW p \in CommentActionCanonicalPayload
  PROVE  /\ \A q \in CanonicalPayload :
              encodeCanonicalCommentActionPayload(p) # encodeCanonicalPayload(q)
         /\ \A q \in PollCanonicalPayload :
              encodeCanonicalCommentActionPayload(p) # encodeCanonicalPollPayload(q)
         /\ \A q \in PollMultiCanonicalPayload :
              encodeCanonicalCommentActionPayload(p) # encodeCanonicalPollPayloadMulti(q)
<1>1. ASSUME NEW q \in CanonicalPayload
      PROVE  encodeCanonicalCommentActionPayload(p) # encodeCanonicalPayload(q)
  BY ActionApart, CommentFacts DEF encodeCanonicalPayload, CommentRest
<1>2. ASSUME NEW q \in PollCanonicalPayload
      PROVE  encodeCanonicalCommentActionPayload(p) # encodeCanonicalPollPayload(q)
  BY ActionApart, PollFacts DEF encodeCanonicalPollPayload, PollRest
<1>3. ASSUME NEW q \in PollMultiCanonicalPayload
      PROVE  encodeCanonicalCommentActionPayload(p) # encodeCanonicalPollPayloadMulti(q)
  BY ActionApart, MultiFacts
     DEF encodeCanonicalPollPayloadMulti, MultiRest, MultiTail, Ballot
<1> QED BY <1>1, <1>2, <1>3

\* Work done for one endpoint is no work for another: no bytes that one handler
\* hashes are hashed by another.  The encoders have no field that says which they
\* are; what keeps them apart is that lengths are limited.
THEOREM EndpointsApart ==
  \A e, f \in {"comment", "flag", "like", "poll", "reaction"} :
    e # f => Canonical(e) \cap Canonical(f) = {}
<1>1. ASSUME NEW b \in Canonical("comment")
      PROVE  \E p \in CanonicalPayload : p.body # <<>> /\ b = encodeCanonicalPayload(p)
  BY DEF Canonical
<1>2. ASSUME NEW b \in Canonical("reaction")
      PROVE  \E p \in CanonicalPayload : p.body = <<>> /\ b = encodeCanonicalPayload(p)
  BY DEF Canonical
<1>3. ASSUME NEW b \in Canonical("flag")
      PROVE  \E p \in CommentActionCanonicalPayload :
               p.action = "flag" /\ b = encodeCanonicalCommentActionPayload(p)
  BY DEF Canonical
<1>4. ASSUME NEW b \in Canonical("like")
      PROVE  \E p \in CommentActionCanonicalPayload :
               p.action = "vote" /\ b = encodeCanonicalCommentActionPayload(p)
  BY DEF Canonical
<1>5. ASSUME NEW b \in Canonical("poll")
      PROVE  \/ \E p \in PollCanonicalPayload : b = encodeCanonicalPollPayload(p)
             \/ \E p \in PollMultiCanonicalPayload : b = encodeCanonicalPollPayloadMulti(p)
  BY DEF Canonical
<1>6. Canonical("comment") \cap Canonical("reaction") = {}
  BY <1>1, <1>2, CommentDetermined
<1>7. Canonical("flag") \cap Canonical("like") = {}
  BY <1>3, <1>4, ActionDetermined
<1>8. \A e \in {"comment", "reaction"} : Canonical(e) \cap Canonical("poll") = {}
  BY <1>1, <1>2, <1>5, CommentNotPoll, CommentNotChoices
<1>9. \A e \in {"comment", "reaction", "poll"}, f \in {"flag", "like"} :
        Canonical(e) \cap Canonical(f) = {}
  BY <1>1, <1>2, <1>3, <1>4, <1>5, ActionNotOthers
<1> QED BY <1>6, <1>7, <1>8, <1>9

=============================================================================
