--------------------------- MODULE WorkloadPromise ---------------------------
(***************************************************************************)
(* What freezing and resuming a namespace promises about its workloads,    *)
(* without saying how the promise is kept: every workload has a replica    *)
(* count its owner asked for, it runs either with that count or with none, *)
(* and only its owner changes the count, while the workload is up.         *)
(***************************************************************************)
EXTENDS Naturals

CONSTANTS Workloads,        \* the Deployments and StatefulSets of a namespace
          Counts            \* the replica counts an owner may ask for

VARIABLES up,               \* up[w]: replicas workload w is scaled to now
          desired           \* desired[w]: replicas its owner asked for

pvars == <<up, desired>>

PInit ==
  /\ desired \in [Workloads -> Counts]
  /\ up = desired

\* The operator scales a running workload to zero.
PFreeze(w) ==
  /\ up[w] # 0
  /\ up' = [up EXCEPT ![w] = 0]
  /\ UNCHANGED desired

\* The operator gives a stopped workload back exactly what its owner asked for.
PResume(w) ==
  /\ up[w] = 0
  /\ up' = [up EXCEPT ![w] = desired[w]]
  /\ UNCHANGED desired

\* The owner scales a workload that is not stopped by the operator.
PScale(w, n) ==
  /\ up[w] = desired[w]
  /\ up' = [up EXCEPT ![w] = n]
  /\ desired' = [desired EXCEPT ![w] = n]

PNext ==
  \E w \in Workloads : PFreeze(w) \/ PResume(w) \/ \E n \in Counts : PScale(w, n)

PSpec == PInit /\ [][PNext]_pvars
=============================================================================
