-------------------------- MODULE MCClusterUpgrade --------------------------
(* One cluster, four templates, the versions of which are two minor versions
   apart at most and differ once in the patch version only. *)
EXTENDS ClusterUpgrade, TLC

CONSTANTS t1, t2, t3, t4

Versions ==
  t1 :> <<1, 30, 0>> @@ t2 :> <<1, 31, 0>> @@ t3 :> <<1, 31, 4>> @@ t4 :> <<1, 32, 0>>
=============================================================================
