SPECIFICATION MCSpec
CONSTANTS
  Procs = {p1, p2}
  Users = {owner, u1}
  Owner = owner
  ActivityMax = 2
  MaxIncidents = 1
  Clients = {p1, p2}
  Tokens = {t1, t2}
  NoToken = NoToken
  Teams = {q1, q2}
  Requests = {q1, q2}
  NotCounted = NotCounted
  MaxHours = 2
  MaxMishaps = 1
  Notes = {t1, t2}
  Counters = {p1, p2}
  Markers = {q1, q2}
  NoNote = NoNote
  MaxFailures = 2
SYMMETRY Symmetry
INVARIANTS
  PresenceTypeOK
  RowsBounded
  AnswersComplete
  ActivitiesNewest
  OnlineAnswer
  OnlineListed
  OneOwner
  IncrementsKept
  DecaysBounded
  BoardsExpire
  UnreadCounted
  PhantomsExplained
  CountExact
PROPERTIES
  LeaseEndsByOwnerOrTTL
