\* Two jobs compete for one key (or none); one crash, one lost UPDATE.
SPECIFICATION Spec
CONSTANTS
  Jobs = {j1, j2}
  NumSteps = 3
  Keys = {k1}
  NoKey = NoKey
  MaxCrashes = 1
  MaxLost = 1
  MaxRivals = 0
SYMMETRY Symmetry
INVARIANTS TypeOK LockExclusion RunsOnlyAfterSuccess OutcomeHonest NoStaleRow
PROPERTIES TerminalIsFinal ImplementsLock
