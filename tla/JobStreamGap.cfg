\* Lines published between the replay and the status check.
SPECIFICATION StreamSpec
CONSTANTS
  j1 = j1
  Jobs = {j1}
  NumSteps = 1
  Keys = {}
  NoKey = NoKey
  MaxCrashes = 0
  MaxLost = 0
  MaxRivals = 0
  Streams = {s1}
  WatchedBy <- WatchOne
  Capacity = 8
  MaxLines = 1
  MaxLeaves = 0
  MaxFaults = 0
INVARIANTS NeverMissesALine
