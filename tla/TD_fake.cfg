SPECIFICATION Spec
CONSTANTS
  ja = ja  jb = jb  c1 = c1
  None = None
  Jobs = {ja}
  Contents = {c1}
  Records <- OneContent
  Listed <- OneContent
  Hashed = {c1}
  SizeOf <- TicketSizes
  Expected <- RecordSizes
  Sized = {}
  ParallelMin = 1
  CipherSize = 2
  MinSize <- Minimum
  FakeSize = 1
  Watched = "cetk"
INVARIANT FakeIsFlagged
