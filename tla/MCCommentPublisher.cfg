SPECIFICATION Spec
CONSTANTS
  r1 = r1
  r2 = r2
  r3 = r3
  bot = bot
  user = user
  v1 = v1
  v2 = v2
  Runs = {r1, r2, r3}
  Verdicts = {v1, v2}
  Remark = Remark
  Verdict <- TwoVerdicts
  Users = {bot, user}
  Bot = bot
  PageSize = 2
  MaxPages = 2
  MaxComments = 5
  Settings <- Usual
INVARIANTS
  AtMostOneOwned
PROPERTIES
  SuccessShown
  OthersUntouched
CHECK_DEADLOCK FALSE
