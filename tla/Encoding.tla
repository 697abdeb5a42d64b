------------------------------ MODULE Encoding ------------------------------
(***************************************************************************)
(* The canonical byte sequences of the protocol.  A proof of work is the   *)
(* SHA-256 of one of them, and the signature of a challenge the HMAC of    *)
(* another; so what is proved or signed is a payload only as far as its    *)
(* bytes determine it.                                                     *)
(*                                                                         *)
(* A text stands for its UTF-8 bytes: utf8EncodeStrict refuses a string    *)
(* with a lone surrogate, and gives two other strings two sequences.  What *)
(* an encoder throws for is outside the set of its payloads.               *)
(***************************************************************************)
EXTENDS Integers, Sequences, FiniteSets

CONSTANTS
  Utf8,               \* the byte sequences that are UTF-8
  ProtocolVersion, ChallengeIdBytes,
  MaxHostContextBytes, MaxArticlePathBytes, MaxNicknameBytes, MaxBodyBytes,
  MaxPollIdBytes, MaxOptionBytes, MaxPollOptions, MaxCommentIdBytes, MaxDifficulty,
  Sorted              \* external: Array.prototype.sort with the comparison of
                      \*   sortPollOptions, on the options of a vote

Byte == {n \in Nat : n < 256}
Uint16 == {n \in Nat : n < 65536}
Text(max) == {t \in Utf8 : Len(t) <= max}
Options == UNION {[1..n -> Text(MaxOptionBytes)] : n \in 1..MaxPollOptions}

Occurrences(s, t) == Cardinality({i \in 1..Len(s) : s[i] = t})
SameOptions(s, t) == \A x \in Utf8 : Occurrences(s, x) = Occurrences(t, x)

\* Every text but a body is shorter than 256 bytes, so the first byte of its
\* length is 0; so are the first two of a body's.  The encoding of the options
\* is written out for ten of them.
ASSUME LimitsAssumption ==
  /\ Utf8 \subseteq Seq(Byte)
  /\ ProtocolVersion \in Byte /\ ChallengeIdBytes \in Nat
  /\ MaxHostContextBytes \in Byte /\ MaxArticlePathBytes \in Byte
  /\ MaxNicknameBytes \in Byte /\ MaxPollIdBytes \in Byte /\ MaxOptionBytes \in Byte
  /\ MaxCommentIdBytes \in Byte /\ MaxBodyBytes \in Uint16
  /\ MaxPollOptions \in 1..10
  /\ MaxDifficulty \in Nat /\ MaxDifficulty <= 256

\* A sort gives the same options back, and the same sequence for the same options.
ASSUME SortAssumption ==
  \A s \in Options :
    /\ Sorted[s] \in Options /\ Len(Sorted[s]) = Len(s) /\ SameOptions(Sorted[s], s)
    /\ \A t \in Options : SameOptions(s, t) => Sorted[s] = Sorted[t]

-----------------------------------------------------------------------------
(* Integers, big-endian.  The setters of a DataView cut a value to its     *)
(* width.                                                                  *)

High(n) == n \div 65536
Low(n) == n % 65536

U8(n) == <<n % 256>>
U16(n) == <<Low(n) \div 256, Low(n) % 256>>
U32(n) == U16(High(n)) \o U16(n)
U64(n) == U32(High(High(n))) \o U32(n)

\* n <= UINT64_MAX
Uint64 == {n \in Nat : High(High(High(n))) \in Uint16}

-----------------------------------------------------------------------------
(* The payloads.                                                           *)

ChallengeId == {b \in Seq(Byte) : Len(b) = ChallengeIdBytes}

CanonicalPayload ==
  [hostContext: Text(MaxHostContextBytes), articlePath: Text(MaxArticlePathBytes),
   nickname: Text(MaxNicknameBytes), body: Text(MaxBodyBytes),
   challengeId: ChallengeId, nonce: Uint64]

PollCanonicalPayload ==
  [hostContext: Text(MaxHostContextBytes), articlePath: Text(MaxArticlePathBytes),
   pollId: Text(MaxPollIdBytes), option: Text(MaxOptionBytes),
   challengeId: ChallengeId, nonce: Uint64]

PollMultiCanonicalPayload ==
  [hostContext: Text(MaxHostContextBytes), articlePath: Text(MaxArticlePathBytes),
   pollId: Text(MaxPollIdBytes), options: Options,
   challengeId: ChallengeId, nonce: Uint64]

CommentActionCanonicalPayload ==
  [action: {"flag", "vote"},
   hostContext: Text(MaxHostContextBytes), articlePath: Text(MaxArticlePathBytes),
   commentId: Text(MaxCommentIdBytes), challengeId: ChallengeId, nonce: Uint64]

ChallengeFields ==
  [hostContext: Text(MaxHostContextBytes), articlePath: Text(MaxArticlePathBytes),
   challengeId: ChallengeId, expiresAt: Uint64, difficulty: 0..MaxDifficulty]

-----------------------------------------------------------------------------
(* The encoders.  Each begins with the version and the article, and ends   *)
(* with the challenge and a number.                                        *)

Field16(text, rest) == U16(Len(text)) \o (text \o rest)
Field32(text, rest) == U32(Len(text)) \o (text \o rest)

Article(p, rest) == Field16(p.hostContext, Field16(p.articlePath, rest))
Work(p) == p.challengeId \o U64(p.nonce)

encodeCanonicalPayload(p) ==
  U8(ProtocolVersion)
    \o Article(p, Field16(p.nickname, Field32(p.body, Work(p))))

encodeCanonicalPollPayload(p) ==
  U8(ProtocolVersion)
    \o Article(p, Field16(p.pollId, Field16(p.option, Work(p))))

ACTION_BYTE == [flag |-> 1, vote |-> 2]

encodeCanonicalCommentActionPayload(p) ==
  U8(ProtocolVersion)
    \o (U8(ACTION_BYTE[p.action]) \o Article(p, Field16(p.commentId, Work(p))))

\* The i-th option, if there is one.
Option(s, i, rest) == IF i <= Len(s) THEN Field16(s[i], rest) ELSE rest

OptionFields(s, rest) ==
  Option(s, 1, Option(s, 2, Option(s, 3, Option(s, 4, Option(s, 5,
    Option(s, 6, Option(s, 7, Option(s, 8, Option(s, 9, Option(s, 10, rest))))))))))

encodeCanonicalPollPayloadMulti(p) ==
  LET opts == Sorted[p.options] IN
  U8(ProtocolVersion)
    \o Article(p, Field16(p.pollId, U8(Len(opts)) \o OptionFields(opts, Work(p))))

encodeCanonicalChallenge(c) ==
  U8(ProtocolVersion)
    \o Article(c, c.challengeId \o (U64(c.expiresAt) \o U8(c.difficulty)))

\* The byte sequences whose hash a handler checks, at each endpoint.  A comment
\* has a body; a reaction is proved as a comment without nickname and body.
Canonical(endpoint) ==
  CASE endpoint = "comment" ->
         {encodeCanonicalPayload(p) : p \in {q \in CanonicalPayload : q.body # <<>>}}
    [] endpoint = "reaction" ->
         {encodeCanonicalPayload(p) :
            p \in {q \in CanonicalPayload : q.nickname = <<>> /\ q.body = <<>>}}
    [] endpoint = "flag" ->
         {encodeCanonicalCommentActionPayload(p) :
            p \in {q \in CommentActionCanonicalPayload : q.action = "flag"}}
    [] endpoint = "like" ->
         {encodeCanonicalCommentActionPayload(p) :
            p \in {q \in CommentActionCanonicalPayload : q.action = "vote"}}
    [] endpoint = "poll" ->
         {encodeCanonicalPollPayload(p) : p \in PollCanonicalPayload}
           \cup {encodeCanonicalPollPayloadMulti(p) : p \in PollMultiCanonicalPayload}

=============================================================================
