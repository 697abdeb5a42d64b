---------------------------- MODULE MCAntiReplay ----------------------------
(* Small instances of AntiReplay and of Encoding for TLC.                  *)
EXTENDS AntiReplay, Encoding, TLC

\* Requests are interchangeable, and so are challenges.
Symmetry == Permutations(Request) \cup Permutations(Challenge)

\* Bound of the run: the challenge is named by another string than the one the
\* server wrote, whose spare bits are zero, only in its first seconds, and until
\* every string has bought something.
RespelledEarly ==
  \/ now < TtlSeconds /\ \E id \in ChallengeIdB64 : ~Accepted(id)
  \/ /\ \A id \in ChallengeIdB64 : Accepted(id) => id.spare = 0
     /\ \A q \in inflight : q.challengeId.spare = 0

-----------------------------------------------------------------------------
(* Short payloads, among them texts that begin alike, numbers at the end   *)
(* of a width, and the same options in two orders.                         *)

Texts == {<<>>, <<0>>, <<1>>, <<1, 0>>}
Short == {t \in Texts : Len(t) <= MaxOptionBytes}
Ids == {<<0>>, <<1>>}
Numbers == {0, 1, 256, 65536}

Shorter(s, t) == Len(s) < Len(t) \/ (Len(s) = 1 /\ Len(t) = 1 /\ s[1] < t[1])
InSort ==
  [s \in UNION {[1..n -> Short] : n \in 1..MaxPollOptions} |-> SortSeq(s, Shorter)]

Comments == [hostContext: Short, articlePath: Short, nickname: Short, body: Texts,
             challengeId: Ids, nonce: Numbers]
Polls == [hostContext: Short, articlePath: Short, pollId: Short, option: Short,
          challengeId: Ids, nonce: Numbers]
PollMultis == [hostContext: Short, articlePath: Short, pollId: Short, options: Options,
               challengeId: Ids, nonce: Numbers]
Actions == [action: {"flag", "vote"}, hostContext: Short, articlePath: Short,
            commentId: Short, challengeId: Ids, nonce: Numbers]
Challenges == [hostContext: Short, articlePath: Short, challengeId: Ids,
               expiresAt: Numbers, difficulty: {0, 1, 255, 256}]

EncodedOnce(Encode(_), S) == Cardinality({Encode(p) : p \in S}) = Cardinality(S)

\* What AntiReplayProofs proves of the encoders, on these payloads.
ASSUME EncodingsChecked ==
  /\ Comments \subseteq CanonicalPayload /\ Polls \subseteq PollCanonicalPayload
  /\ PollMultis \subseteq PollMultiCanonicalPayload
  /\ Actions \subseteq CommentActionCanonicalPayload /\ Challenges \subseteq ChallengeFields
  /\ EncodedOnce(encodeCanonicalPayload, Comments)
  /\ EncodedOnce(encodeCanonicalPollPayload, Polls)
  /\ EncodedOnce(encodeCanonicalPollPayloadMulti,
                 {p \in PollMultis : p.options = Sorted[p.options]})
  /\ \A p \in PollMultis :
       encodeCanonicalPollPayloadMulti(p)
         = encodeCanonicalPollPayloadMulti([p EXCEPT !.options = Sorted[@]])
  /\ EncodedOnce(encodeCanonicalCommentActionPayload, Actions)
  /\ EncodedOnce(encodeCanonicalChallenge, {c \in Challenges : c.difficulty < 256})
  /\ Cardinality({encodeCanonicalPayload(p) : p \in Comments}
                   \cup {encodeCanonicalPollPayload(p) : p \in Polls}
                   \cup {encodeCanonicalPollPayloadMulti(p) : p \in PollMultis}
                   \cup {encodeCanonicalCommentActionPayload(p) : p \in Actions})
       = Cardinality(Comments) + Cardinality(Polls) + Cardinality(Actions)
           + Cardinality({p \in PollMultis : p.options = Sorted[p.options]})

=============================================================================
