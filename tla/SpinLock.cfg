\* Two cores, each with a handler, and two locks that nest.  No symmetry: a
\* liveness property is checked.
CONSTANTS
  CPUs = {c1, c2}
  Locks = {1, 2}
  None = None
SPECIFICATION FairSpec
INVARIANTS
  MutualExclusion
  NoPanic
  InterruptsRestored
PROPERTIES
  Released
  ImplementsLockTable
