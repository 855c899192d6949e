SPECIFICATION Spec
CONSTANTS
  None = None
  Files <- TmdFiles
INVARIANT RecordsAre36
