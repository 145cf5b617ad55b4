\* Two requests, one of which may be abandoned, while templates are deleted.
SPECIFICATION LiveUpgrade
CONSTANTS
  t1 = t1  t2 = t2  t3 = t3  t4 = t4
  Templates = {t1, t2, t3, t4}
  VersionOf <- Versions
  CreatedFrom = t1
  ControlPlanes = {c1}
  Workers = {w1}
  Requests = {r1, r2}
  Cluster = Cluster
  MaxDeletes = 1
  MaxCrashes = 1
INVARIANTS WorkersDeclaredBehind
PROPERTIES OneMinorAtATime CompleteOnceNoticed WaitEnds
\* Requests are bounded: the system rests when all are answered.
CHECK_DEADLOCK FALSE
