SPECIFICATION FairSpec
CONSTANTS
  Notices = {n1}
  Workers = {w1, w2}
  Tokens = {t1, t2}
  NoToken = NoToken
  NoPayload = NoPayload
  MaxCount = 2
  MaxCalls = 2
  MaxFaults = 1
  MaxRecovers = 1
INVARIANTS
  NothingLost
  AtMostOnce
  RetryLimitKept
  UnreadComplete
PROPERTIES
  QueueDrains
