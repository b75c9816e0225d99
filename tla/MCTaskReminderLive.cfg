SPECIFICATION FairSpec
CONSTANTS
  Tasks = {k1}
  Scanners = {s1, s2}
  Tokens = {t1, t2}
  NoToken = NoToken
  NoTime = NoTime
  MaxTime = 2
  MaxCalls = 1
  MaxRejects = 1
  MaxFaults = 1
PROPERTY
  RemindersEnd
