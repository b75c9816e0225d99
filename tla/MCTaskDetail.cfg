SPECIFICATION FairSpec
CONSTANTS
  Readers = {r1, r2}
  Writers = {w1, w2}
  Tokens = {t1, t2}
  NoToken = NoToken
  NoEntry = NoEntry
  MaxVersion = 3
  MaxFaults = 1
INVARIANTS
  StaleOnlyByOverlap
  AnswersSettled
PROPERTY
  CacheConverges
