SPECIFICATION Spec
CONSTANTS
  Notices = {n1}
  Workers = {w1}
  Tokens = {t1, t2}
  NoToken = NoToken
  NoPayload = NoPayload
  MaxCount = 3
  MaxCalls = 1
  MaxFaults = 1
  MaxRecovers = 1
INVARIANT
  WorkerLosesNothing
