SPECIFICATION Spec
CHECK_DEADLOCK FALSE
CONSTANTS
  ja = ja  jb = jb  ta = ta  da = da  db = db  f1 = f1  f2 = f2
  r1 = r1  a1 = a1  a2 = a2
  None = None
  Jobs = {ja, jb}
  Titles = {ta}
  Disks = {da}
  TitleOf <- SameTitle
  Files = {f1, f2}
  Deinstalls = {}
  Attaches = {a1}
  EnvDisks <- NoDisk
  MaxExits = 0
  MaxDbErrors = 0
SYMMETRY Symmetry
PROPERTY WrittenEventIsTrue
