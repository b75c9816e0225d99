SPECIFICATION FairSpec
CONSTANTS
  Workers = {w1, w2}
  MaxEvents = 2
  MaxSlow = 2
  MaxRejects = 1
  MaxFaults = 2
INVARIANTS
  AckedIsStored
  StoredOnce
PROPERTY
  EventsDone
