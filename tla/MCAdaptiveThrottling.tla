------------------------ MODULE MCAdaptiveThrottling ------------------------
(***************************************************************************)
(* Two policies on two nodes for TLC.  Thresholds and what is found of the *)
(* cluster meet at the thresholds themselves.                              *)
(***************************************************************************)
EXTENDS AdaptiveThrottling, TLC

CONSTANTS p1, p2, n1, n2

MCPolicies == {p1, p2}
MCNodes    == {n1, n2}
MCCommanded == {p1}

\* Nearly everything checked, the defaults of the code where zero is given.
Careful == [initial |-> 2, min |-> 1, interval |-> 1,
            checks |-> (Slowing \ {"PendingPods"}) \cup {"NodeReady"}, selects |-> {n1},
            cpu |-> 0, memory |-> 90, pending |-> 5, restarts |-> 0,
            slowdown |-> [s \in Slowing |-> 0], waitInterval |-> 1, maxWait |-> 2,
            fallback |-> FALSE]

\* A minimum above the initial size, no node that the selector matches, a longer
\* interval, and fallback.
Hasty == [Careful EXCEPT !.initial = 1, !.min = 2, !.interval = 2, !.selects = {},
                         !.checks = {"NodeUsage", "PendingPods"}, !.fallback = TRUE]

MCThrottling == (p1 :> Careful) @@ (p2 :> Hasty)
MCWorkloads  == (p1 :> 2) @@ (p2 :> 1)

Calm == [ready |-> MCNodes, pressured |-> {}, readable |-> MCNodes,
         cpu |-> [n \in MCNodes |-> 79], memory |-> [n \in MCNodes |-> 89], pending |-> 5,
         restarts |-> [p \in MCPolicies |-> 9], crashing |-> {}]
Pressured  == [Calm EXCEPT !.pressured = {n1}]
Hot        == [Calm EXCEPT !.cpu[n1] = 80]
Restarting == [Calm EXCEPT !.restarts[p1] = 10]
Crowded    == [Calm EXCEPT !.pending = 6, !.pressured = {n2}]

\* One deviation at a time, and some that hide each other.
MCClusters ==
  {Calm, Pressured, Hot, Restarting, Crowded,
   [Hot EXCEPT !.pending = 6, !.pressured = {n1}, !.crashing = {p1}],
   [Calm EXCEPT !.readable = {n2}, !.memory[n1] = 90, !.ready = {n1}],
   [Hot EXCEPT !.ready = {n2}]}
=============================================================================
