\* Two processes on an image with a file f and a directory d: three calls in
\* all, and any number of closes.  Blocks, inodes, entries of the inode table,
\* files, descriptors and the entries of a directory can all run out.
SPECIFICATION Spec
CONSTANTS
  p1 = p1
  p2 = p2
  Procs = {p1, p2}
  NINODES = 6
  NINODE = 4
  NFILE = 2
  NOFILE = 2
  NDEV = 1
  NBLOCKS = 12
  BSIZE = 2
  NDIRECT = 1
  NINDIRECT = 2
  MAXCHUNK = 3
  Image <- MCImage
  Dirs = {"d"}
  UintMod = 16
  ReadCounts = {2, 15}
  Calls <- MCCalls
  MaxCalls = 3
  None = None
INVARIANTS PanicOnlyWhenFull RefsExact HeldNotFreed DiskConsistent CacheCoherent NoLockCycle
PROPERTY RemovedEmpty
CHECK_DEADLOCK FALSE
