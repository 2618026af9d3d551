\* Three process slots and 18 pages of 2 bytes: every kalloc can fail, and
\* programs with their stacks end below TRAPFRAME, exactly at it, and beyond.
CONSTANTS
  Procs = {1, 2, 3}
  NPages = 18
  LEVELS = 2
  PGSIZE = 2
  MAXVA = 12
  MAXARG = 2
  UintMod = 32
  AddrMod = 32
  Increments <- MCIncrements
  Programs <- MCPrograms
  Vals <- MCVals
  MaxCalls = 4
SPECIFICATION Spec
CHECK_DEADLOCK FALSE
INVARIANTS PanicOnlyAtTrapframe OwnedOnce
PROPERTY ImplementsAddressSpaces
