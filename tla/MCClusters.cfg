\* Three requests of any kind about one cluster, one crash, one removed connection;
\* two tabs and two applies below at most two Proxmox hosts.
SPECIFICATION ClustersSpec
CONSTANTS
  Requests = {1, 2, 3}
  Nobody = Nobody
  Connections = {c1, c2}
  Cluster = Cluster
  Counts = {1, 2}
  MaxCrashes = 1
  MaxDisconnects = 1
  Tabs = {1, 2}
  Hosts = {1, 2}
  Builds = {1, 2}
  Applies = {1, 2}
  Nothing = Nothing
  MaxId = 2
INVARIANTS
  RemovalMeansGone
  NothingForgotten
  NeverAppliedOver
  AwaitedCountIsDeclared
  OneByOneInOrder
  SentWhereShown
  NoDanglingRows
  CredentialsKept
PROPERTIES
  EveryRequestEnds
\* Requests are bounded: the system rests when all are answered.
CHECK_DEADLOCK FALSE
