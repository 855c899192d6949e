SPECIFICATION Spec
CONSTANTS
  i1 = i1  i2 = i2
  j1 = j1  j2 = j2  j3 = j3  j4 = j4
  l1 = l1  l2 = l2
  r1 = r1  r2 = r2
  s1 = s1  s2 = s2
  None = None
  Items = {i1, i2}
  JobIds = {j1, j2, j3}
  Loops = {l1, l2}
  Requests = {}
  Starters = {s1, s2}
  ForceFallback <- Forced
  EnvFallback = FALSE
  MaxRestarts = 0
  MaxDbErrors = 0
SYMMETRY Symmetry
INVARIANT NoOrphanJob
INVARIANT OldestFirst
INVARIANT PauseBound
