\* The shipped NCPU = 1: init, a child and a grandchild make every system call;
\* ticks wraps at 2 and MaxPid 3 lets the three run together, or a slot be used
\* a second time.
CONSTANTS
  NPROC = 3
  CPUs = {c1}
  CPU0 = c1
  None = None
  TickMod = 2
  SleepTicks = {1}
  KillPids = {2}
  Syscalls = {"fork", "exit", "wait", "kill", "sleep", "io", "fault"}
  MaxPid = 3
SPECIFICATION Spec
INVARIANTS
  NoPanic
  LiveParent
  KilledIsAwake
  KilledWasNamed
