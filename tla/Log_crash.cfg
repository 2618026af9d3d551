\* Three processes on 3 blocks, and a crash at any step.  As mkfs lays it out, the
\* on-disk log has LOGSIZE blocks with its header; two calls fit in it by begin_op's
\* reservation, so the third process waits, and a block more than what is
\* reserved is too big a transaction.
CONSTANTS
  Blocks = {b1, b2, b3}
  Values = {0, 1}
  Procs = {p1, p2, p3}
  initproc = p1
  None = None
  LogSize = 4
  DiskLogSize = 4
  MaxOpBlocks = 2
  OpBlocks = 1
SPECIFICATION Spec
SYMMETRY BlockSymmetry
INVARIANTS
  NoPanic
  NoneForgotten
  QuiescentDurable
  PinnedOnce
PROPERTIES
  ImplementsAtomicDisk
