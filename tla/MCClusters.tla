------------------------------ MODULE MCClusters ------------------------------
EXTENDS ClusterLifecycle, ProxmoxConnections

(* One run looks at either part: they share no state.  Of the connections it *)
(* looks in turn at two tabs that connect, two tabs of which one connects,   *)
(* with a build and an apply, and one tab with two builds and two applies.   *)

VARIABLE agenda

clustersVars == <<agenda, lifeVars, vars>>

ClustersInit ==
  LifecycleInit /\ ConnectionsInit /\ agenda \in {"requests", "connects", "tabs", "applies"}

\* Requests, builds and applies are alike, and begin in their order; so are tabs
\* and hosts: tab 1 is the first to connect, to host 1.
InOrder ==
  /\ \A a, b \in Requests : a < b /\ place'[a] = "new" => place'[b] = "new"
  /\ \A a, b \in Builds   : a < b /\ build'[a].at = "new" => build'[b].at = "new"
  /\ \A a, b \in Applies  : a < b /\ apply'[a].at = "new" => apply'[b].at = "new"
  /\ entered = [t \in Tabs |-> Nothing] => entered' \in {entered, [entered EXCEPT ![1] = 1]}

\* With two applies tab 1 stays on its panel, connects undisturbed, and connects
\* to host 2 once it has connected to host 1.
Undisturbed ==
  /\ panel[1].id = 0 \/ panel'[1].id # 0
  /\ connecting[1] = "idle" \/ connecting' # connecting
  /\ entered' = entered \/ lastId = 0 \/ entered'[1] = 2

Limited ==
  /\ connecting'[2] # "idle" => agenda = "connects"
  /\ panel'[1].id # 0 => agenda # "connects"
  /\ panel'[2].id # 0 \/ remembered' # 0 => agenda = "tabs"
  /\ apply'[2].at # "new" \/ build'[2].at # "new" => agenda = "applies"
  /\ agenda = "applies" => Undisturbed

ClustersNext ==
  /\ UNCHANGED agenda
  /\ \/ agenda = "requests" /\ LifecycleNext /\ UNCHANGED vars
     \/ agenda # "requests" /\ ConnectionsNext /\ Limited /\ UNCHANGED lifeVars
  /\ InOrder

ClustersSpec == ClustersInit /\ [][ClustersNext]_clustersVars /\ LifecycleFairness
=============================================================================
