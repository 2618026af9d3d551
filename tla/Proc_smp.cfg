\* Two CPUs, as when NCPU is raised: the p->lock protocol around swtch, and
\* wakeups that race with a sleep.
CONSTANTS
  NPROC = 2
  CPUs = {c1, c2}
  CPU0 = c1
  None = None
  TickMod = 2
  SleepTicks = {1}
  KillPids = {2}
  Syscalls = {"fork", "exit", "wait", "kill", "sleep", "io", "fault"}
  MaxPid = 3
SPECIFICATION Spec
INVARIANTS
  StackInUse
  NoLostExit
  NoLostTick
