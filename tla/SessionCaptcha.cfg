SPECIFICATION SessionSpec
CONSTANTS
  Procs = {p1, p2}
  Users = {u1}
  MaxTicks = 1
  Life = 1
  BlacklistLife = 1
  MaxCaptchas = 1
INVARIANT CaptchaUsedOnce
