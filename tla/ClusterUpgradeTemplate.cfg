\* The template a cluster was upgraded to is deleted.
SPECIFICATION UpgradeSpecification
CONSTANTS
  t1 = t1  t2 = t2  t3 = t3  t4 = t4
  Templates = {t1, t2, t3, t4}
  VersionOf <- Versions
  CreatedFrom = t1
  ControlPlanes = {c1}
  Workers = {w1}
  Requests = {r1}
  Cluster = Cluster
  MaxDeletes = 1
  MaxCrashes = 0
INVARIANTS TemplateInUseKept
\* Requests are bounded: the system rests when all are answered.
CHECK_DEADLOCK FALSE
