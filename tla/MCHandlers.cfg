SPECIFICATION MCSpec
CONSTANTS
  Procs = {p1, p2}
  Users = {u1, u2}
  Nobody = Nobody
  NoTask = NoTask
  Titles = {a, b}
  Statuses = {"todo", "done"}
  MaxCalls = 2
  MaxFaults = 2
  MaxMentions = 2
  Limit = 2
  MaxMinutes = 1
  MaxAsked = 4
  MaxTicks = 3
  Life = 2
  BlacklistLife = 2
  MaxCaptchas = 2
  MaxEdits = 3
SYMMETRY Symmetry
INVARIANTS
  HandlersTypeOK
  EffectsOnce
  AssigneeTold
  AnnouncedUnlessFailed
  CommentNotesOnce
  LimitKept
  CountersExpire
  LoggedOutStaysOut
  OnlyRacersSucceed
  ProfileSettled
  LikeAnswers
