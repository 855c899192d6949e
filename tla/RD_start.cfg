SPECIFICATION Spec
CONSTANTS
  ra = ra  rb = rb  ka = ka  kb = kb  da = da  db = db
  None = None  Invalid = Invalid
  Requests = {ra, rb}
  Keys = {ka, kb}
  Devices = {da, db}
SYMMETRY Symmetry
INVARIANT TypeOK
INVARIANT RestartKeepsKey
INVARIANT ReadyCanInstall
