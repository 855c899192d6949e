SPECIFICATION Spec
CONSTANTS
  ja = ja  jb = jb  c1 = c1
  None = None
  Jobs = {ja, jb}
  Contents = {c1}
  Records <- OneContent
  Listed <- OneContent
  Hashed = {c1}
  SizeOf <- Sizes
  Expected <- RecordSizes
  Sized = {}
  ParallelMin = 1
  CipherSize = 2
  MinSize <- Minimum
  FakeSize = 1
  Watched = c1
SYMMETRY Symmetry
INVARIANT TypeOK
INVARIANT UnspoiledIsPrefix
INVARIANT ResultIsWhole
INVARIANT DirectIsDecrypted
PROPERTY WatchedImplementsFetch
