CONSTANTS
  Requests = {r1, r2}
  Lifetime = 1
  Cooldown = 1
  MaxAttempts = 2
  MaxClock = 2
  MaxCodes = 2
  MaxOps = 5
SPECIFICATION Spec
SYMMETRY Symmetry
CHECK_DEADLOCK FALSE
INVARIANTS
  TypeOK
  GuessesBounded
  ActionCodeWorksOnce
  TokensFollowPassword
  MailedCodeIsGood
