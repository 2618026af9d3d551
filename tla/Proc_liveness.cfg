\* init, a child and a grandchild that may outlive it, under timer interrupts.
CONSTANTS
  NPROC = 3
  CPUs = {c1}
  CPU0 = c1
  None = None
  TickMod = 1
  SleepTicks = {0}
  KillPids = {}
  Syscalls = {"fork", "exit", "wait"}
  MaxPid = 3
SPECIFICATION FairSpec
PROPERTIES
  RunnableRuns
  OrphansReaped
