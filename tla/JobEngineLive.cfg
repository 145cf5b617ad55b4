\* Liveness under a crash and a second process; steps need not return by themselves.
SPECIFICATION LiveSpec
CONSTANTS
  Jobs = {j1, j2}
  NumSteps = 1
  Keys = {k1}
  NoKey = NoKey
  MaxCrashes = 1
  MaxLost = 0
  MaxRivals = 1
PROPERTIES CancelEndsJob EveryJobEnds
