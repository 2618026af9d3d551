\* One process removes the directory it is in, and its parent.
SPECIFICATION Spec
CONSTANTS
  p1 = p1
  p2 = p2
  Procs = {p1}
  NINODES = 7
  NINODE = 7
  NFILE = 2
  NOFILE = 2
  NDEV = 1
  NBLOCKS = 18
  BSIZE = 2
  NDIRECT = 1
  NINDIRECT = 2
  MAXCHUNK = 3
  Image <- MCImage
  Dirs = {"d"}
  UintMod = 16
  ReadCounts = {2, 15}
  Calls <- MCRemoved
  MaxCalls = 5
  None = None
INVARIANT PanicOnlyWhenFull
CHECK_DEADLOCK FALSE
