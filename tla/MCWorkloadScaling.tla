-------------------------- MODULE MCWorkloadScaling --------------------------
(***************************************************************************)
(* Small instances of WorkloadScaling: a Deployment with the API server's  *)
(* default grace period and a StatefulSet without one.                     *)
(***************************************************************************)
EXTENDS WorkloadScaling

MCWorkloads == {"deploy", "sts"}
MCOneWorkload == {"deploy"}
MCGrace     == [w \in Workloads |-> IF w = "sts" THEN Unset ELSE 30]
MCNoOverride == [w \in Workloads |-> Unset]
MCOverride  == [w \in Workloads |-> IF w = "sts" THEN 5 ELSE 10]
=============================================================================
