SPECIFICATION Spec
CONSTANTS
  Tasks = {k1, k2}
  Scanners = {s1, s2}
  Tokens = {t1, t2}
  NoToken = NoToken
  NoTime = NoTime
  MaxTime = 2
  MaxCalls = 2
  MaxRejects = 1
  MaxFaults = 2
SYMMETRY Symmetry
INVARIANTS
  OneScanner
  ReminderKept
  NotifiedAtMostOnce
