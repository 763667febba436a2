-------------------------- MODULE MCLakeWorkloads --------------------------
(* Small instances of LakeWorkloads.                                       *)
EXTENDS LakeWorkloads

CONSTANTS wDeployment, wStatefulSet, wJob

MCKindOf ==
    [w \in Workloads |->
        CASE w = wDeployment -> "Deployment"
          [] w = wStatefulSet -> "StatefulSet"
          [] OTHER -> "Job"]

MCMixed == <<wStatefulSet, wDeployment, wJob>>
=============================================================================
