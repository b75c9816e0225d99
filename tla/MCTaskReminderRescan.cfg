SPECIFICATION Spec
CONSTANTS
  Tasks = {k1}
  Scanners = {s1}
  Tokens = {t1, t2}
  NoToken = NoToken
  NoTime = NoTime
  MaxTime = 1
  MaxCalls = 1
  MaxRejects = 1
  MaxFaults = 0
INVARIANT
  RescanNotifiesOnce
