SPECIFICATION Spec
CHECK_DEADLOCK FALSE
CONSTANTS
  ja = ja  jb = jb  ta = ta  da = da  db = db  f1 = f1  f2 = f2
  r1 = r1  a1 = a1  a2 = a2
  None = None
  Jobs = {ja}
  Titles = {ta}
  Disks = {da, db}
  TitleOf <- SameTitle
  Files = {f1, f2}
  Deinstalls = {r1}
  Attaches = {a1, a2}
  EnvDisks <- MaybeDisk
  MaxExits = 1
  MaxDbErrors = 1
SYMMETRY Symmetry
INVARIANT TypeOK
INVARIANT ActiveDiskIsOpen
PROPERTY GateHolds
PROPERTY RemovedIsGone
PROPERTY ReportedIsInstalled
