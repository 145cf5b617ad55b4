\* A client that stops reading during the replay.
SPECIFICATION StalledStreamSpec
CONSTANTS
  j1 = j1
  Jobs = {j1}
  NumSteps = 1
  Keys = {}
  NoKey = NoKey
  MaxCrashes = 0
  MaxLost = 0
  MaxRivals = 0
  Streams = {s1}
  WatchedBy <- WatchOne
  Capacity = 4
  MaxLines = 1
  MaxLeaves = 0
  MaxFaults = 0
PROPERTIES SlowReaderBlocksNobody
