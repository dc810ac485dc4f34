\* One handler at a time, two tokens.
CONSTANTS
  t1 = t1
  t2 = t2
  a = a
  Tokens = {t1, t2}
  NoToken = NoToken
  Callers = {a}
  Expiry = 2
  InitialCooldown = 1
  BackoffBase = 1
  MaxFailedAttempts = 2
  GuardConfigured = TRUE
  MaxTime = 3
SPECIFICATION TokensSpec
INVARIANT ExpiredAfterMaxFailures
PROPERTY ImplementsOneTimeToken
