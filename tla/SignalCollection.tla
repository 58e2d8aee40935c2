-------------------------- MODULE SignalCollection --------------------------
(***************************************************************************)
(* What a throttled resume sees of the cluster: the five checks of         *)
(* collectSignals and the cache of kubelet measurements that all policies  *)
(* share.  A signal is its type; nodes, counts and messages are dropped.   *)
(* Time is counted in half seconds, the unit in which every wait of the    *)
(* code is a whole number.                                                 *)
(***************************************************************************)
EXTENDS Integers, FiniteSets

CONSTANTS
  Policies,    \* the policies whose resumes are throttled
  Nodes,       \* the nodes of the cluster
  Throttling,  \* Throttling[p]: spec.adaptiveThrottling of p
  Clusters     \* the states of the cluster a check may find

\* In the order in which collectSignals makes them.
Checks  == <<"NodeReady", "NodePressure", "PendingPods", "NodeUsage", "ContainerRestarts">>
Signals == {"NodeNotReady", "NodePressure", "PendingPods", "NodeUsage", "ContainerRestarts"}
Slowing == Signals \ {"NodeNotReady"}

\* checks: the checks that are enabled; selects: the nodes nodeSelector matches;
\* cpu, memory, pending, restarts: thresholds; slowdown: slowdownPercent of each
\* check; fallback: fallbackOnMetricsUnavailable.  Zero stands for not given.
ThrottlingType ==
  [initial : 0..20, min : Nat, interval : 0..60,
   checks : SUBSET (Slowing \cup {"NodeReady"}), selects : SUBSET Nodes,
   cpu : 0..100, memory : 0..100, pending : Nat, restarts : Nat,
   slowdown : [Slowing -> 0..100], waitInterval : Nat, maxWait : Nat, fallback : BOOLEAN]

\* ready, pressured: nodes with these conditions; readable: nodes whose usage can
\* be read; cpu, memory: usage in percent; pending: pods no node has room for;
\* restarts, crashing: per namespace, the highest restart count and whether a
\* container is in CrashLoopBackOff.
ClusterType ==
  [ready : SUBSET Nodes, pressured : SUBSET Nodes, readable : SUBSET Nodes,
   cpu : [Nodes -> Nat], memory : [Nodes -> Nat], pending : Nat,
   restarts : [Policies -> Nat], crashing : SUBSET Policies]

ASSUME SignalAssumption ==
  /\ Throttling \in [Policies -> ThrottlingType]
  /\ Clusters \subseteq ClusterType

VARIABLE cache   \* nodeMetricsCache: the usage signal, its age and its time to live

\* ttl 0: no policy has checked yet; an age at ttl or beyond is all the same.
CacheType == [hot : BOOLEAN, age : Nat, ttl : Nat]
EmptyCache == [hot |-> FALSE, age |-> 0, ttl |-> 0]

OrDefault(n, default) == IF n = 0 THEN default ELSE n
Least(a, b) == IF a < b THEN a ELSE b

HalfSeconds(s) == 2 * s
Interval(p) == HalfSeconds(OrDefault(Throttling[p].interval, 5))
-----------------------------------------------------------------------------
NodeNotReady(p, c) == ~(Throttling[p].selects \subseteq c.ready)

NodePressure(p, c) == Throttling[p].selects \cap c.pressured # {}

PendingPods(p, c) == c.pending > Throttling[p].pending

\* Only this check falls back to all nodes when the selector matches none; nodes
\* that are not ready or cannot be read are skipped.
Measured(p, c) ==
  (IF Throttling[p].selects = {} THEN Nodes ELSE Throttling[p].selects) \cap c.ready \cap c.readable

NodeUsage(p, c) ==
  \E n \in Measured(p, c) : \/ c.cpu[n] >= OrDefault(Throttling[p].cpu, 80)
                            \/ c.memory[n] >= OrDefault(Throttling[p].memory, 80)

ContainerRestarts(p, c) ==
  p \in c.crashing \/ c.restarts[p] >= OrDefault(Throttling[p].restarts, 10)

\* Mutant: a measurement as old as the interval is still used.
HitAtLimit == cache.ttl # 0 /\ cache.age <= cache.ttl

\* nodeMetricsCache.get
Hit == cache.age < cache.ttl

\* Only the first policy that ever checks sets the time to live.
CacheTtl(p) == OrDefault(cache.ttl, Interval(p))

\* The checks p has enabled, by number; check f fails, 6 stands for no failure.
EnabledChecks(p) == {i \in 1..5 : Checks[i] \in Throttling[p].checks}
ChecksUsage(p, f) == 4 \in EnabledChecks(p) /\ f >= 4
Scrapes(p, f) == ChecksUsage(p, f) /\ f # 4 /\ ~Hit

CacheAfter(p, c, f) ==
  IF Scrapes(p, f)
    THEN [hot |-> NodeUsage(p, c), age |-> 0, ttl |-> CacheTtl(p)]
    ELSE IF ChecksUsage(p, f) /\ cache.ttl = 0
           THEN [cache EXCEPT !.age = CacheTtl(p), !.ttl = CacheTtl(p)]
           ELSE cache

\* collectSignals when no check fails.
CollectSignals(p, c) ==
  {s \in Signals :
     \/ s = "NodeNotReady" /\ "NodeReady" \in Throttling[p].checks /\ NodeNotReady(p, c)
     \/ s \in Throttling[p].checks /\ \/ s = "NodePressure" /\ NodePressure(p, c)
                                      \/ s = "PendingPods" /\ PendingPods(p, c)
                                      \/ s = "NodeUsage" /\ CacheAfter(p, c, 6).hot
                                      \/ s = "ContainerRestarts" /\ ContainerRestarts(p, c)}

\* Time passes for the cache.
Aged(d) == [cache EXCEPT !.age = Least(@ + d, cache.ttl)]
=============================================================================
