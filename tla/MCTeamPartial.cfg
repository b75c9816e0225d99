SPECIFICATION PresenceSpec
CONSTANTS
  Procs = {p1}
  Users = {owner, u1}
  Owner = owner
  ActivityMax = 2
  MaxIncidents = 1
INVARIANT
  AnswersCompleteAfterTTL
