\* Two readers and a writer on a pipe of 2 bytes whose counters wrap at 4; reads
\* and writes of 1 byte and of more than the pipe holds.
CONSTANTS
  PIPESIZE = 2
  UintMod = 4
  Bytes = {0, 1}
  Readers = {r1, r2}
  Writers = {w1}
  Counts = {1, 3}
  None = None
SPECIFICATION FairSpec
INVARIANTS
  NoLostWakeup
  NotFreedInUse
PROPERTIES
  ImplementsFifo
  CallsReturn
\* All processes may have closed the pipe.
CHECK_DEADLOCK FALSE
