\* A page of a job that ends, crashes or not, eventually shows how.
SPECIFICATION LiveStreamSpec
CONSTANTS
  j1 = j1
  Jobs = {j1}
  NumSteps = 2
  Keys = {}
  NoKey = NoKey
  MaxCrashes = 1
  MaxLost = 0
  MaxRivals = 0
  Streams = {s1}
  WatchedBy <- WatchOne
  Capacity = 3
  MaxLines = 1
  MaxLeaves = 1
  MaxFaults = 1
INVARIANTS NothingShownEarly TailIsComplete
PROPERTIES EveryWatcherLearns SlowReaderBlocksNobody
