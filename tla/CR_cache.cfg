SPECIFICATION Spec
CONSTANTS
  ta = ta  tb = tb  la = la  lb = lb
  None = None  Torn = Torn
  Threads = {ta, tb}
  Lists = {la, lb}
  Archives = 2
  RetryDelay = 2
  MaxAge = 3
  MaxTime = 7
SYMMETRY Symmetry
INVARIANT TypeOK
INVARIANT VaultIsCurrent
INVARIANT RestartKeepsCatalog
INVARIANT OkIsFresh
PROPERTY AttemptsSpaced
