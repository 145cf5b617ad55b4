\* A second process frees the lock key of a job that is still running.
SPECIFICATION Spec
CONSTANTS
  Jobs = {j1, j2}
  NumSteps = 1
  Keys = {k1}
  NoKey = NoKey
  MaxCrashes = 0
  MaxLost = 0
  MaxRivals = 1
INVARIANTS OneActiveMutatingJob
