\* Three processes and a pinned block share two buffers for three blocks; two of
\* the processes may wait for the buffer of the third.
CONSTANTS
  NBUF = 2
  Blocks = {1, 2, 3}
  Values = {0, 1}
  Procs = {p1, p2, p3}
  None = None
  MaxHeld = 1
  MaxPins = 1
SPECIFICATION Spec
SYMMETRY ProcSymmetry
INVARIANTS
  OneBufferPerBlock
  RefcntExact
  NoLostWakeup
PROPERTIES
  ImplementsBlockStore
\* The processes and the pin may use up the two buffers, and bget panics.
CHECK_DEADLOCK FALSE
