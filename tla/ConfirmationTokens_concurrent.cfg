\* Two handlers that overlap freely, one guarded token.
CONSTANTS
  t1 = t1
  a = a
  b = b
  Tokens = {t1}
  NoToken = NoToken
  Callers = {a, b}
  Expiry = 2
  InitialCooldown = 1
  BackoffBase = 1
  MaxFailedAttempts = 2
  GuardConfigured = TRUE
  MaxTime = 3
SPECIFICATION TokensSpec
SYMMETRY Interchangeable
INVARIANTS
  PendingHasAttemptsLeft
  NoLateSettlement
  SettledInWindow
PROPERTY NoResurrection
