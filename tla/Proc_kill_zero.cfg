\* kill(0): the pid of a slot that holds no process.
CONSTANTS
  NPROC = 3
  CPUs = {c1}
  CPU0 = c1
  None = None
  TickMod = 1
  SleepTicks = {0}
  KillPids = {0}
  Syscalls = {"fork", "exit", "kill"}
  MaxPid = 4
SPECIFICATION Spec
INVARIANTS
  KilledWasNamed
