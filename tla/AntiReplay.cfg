SPECIFICATION Spec
CONSTANTS
  Challenge = {c1}
  SpareBits = {0, 1}
  Request = {r1, r2}
  TtlSeconds = 2
  TimeGateSeconds = 1
  HandlingSeconds = 1
  SkewSeconds = 1
  RetentionSeconds = 7
  MaxTime = 7
  Never = Never
  Utf8 <- Texts
  ProtocolVersion = 1
  ChallengeIdBytes = 1
  MaxHostContextBytes = 1
  MaxArticlePathBytes = 1
  MaxNicknameBytes = 1
  MaxBodyBytes = 2
  MaxPollIdBytes = 1
  MaxOptionBytes = 1
  MaxPollOptions = 2
  MaxCommentIdBytes = 1
  MaxDifficulty = 256
  Sorted <- InSort
SYMMETRY Symmetry
CONSTRAINT RespelledEarly
CHECK_DEADLOCK FALSE
INVARIANT TypeOK
INVARIANTS
  ExpiringProofOnce
  ReplayGateHeld
  NothingBurned
PROPERTIES
  SpacedByRetention
  ImplementsSingleUse
