---------------------- MODULE AdaptiveThrottlingProofs ----------------------
(***************************************************************************)
(* Theorems about throttled resumes, for every set of policies, every      *)
(* configuration, every cluster and any number of commands and failures.   *)
(***************************************************************************)
EXTENDS AdaptiveThrottling, TLAPS

\* The worker holds a policy, and a batch size that is a number.
WorkerOK ==
  /\ pc # "idle" => wp \in Policies
  /\ batch \in Nat

\* The inductive invariant behind BatchWithinBounds.
BatchInv == WorkerOK /\ BatchWithinBounds
-----------------------------------------------------------------------------
(***************************************************************************)
(* The arithmetic of calculateBatchSize.                                   *)
(***************************************************************************)
\* A percentage of at most a hundred does not enlarge a batch.
LEMMA PercentShrinks ==
  ASSUME NEW n \in Nat, NEW pct \in 0..100
  PROVE  (n * pct) \div 100 \in 0..n
<1>1. n * pct \in Nat
  OBVIOUS
<1>2. n * pct <= n * 100
  <2>1. n * (100 - pct) >= 0
    OBVIOUS
  <2>2. n * 100 = n * pct + n * (100 - pct)
    OBVIOUS
  <2> QED BY <2>1, <2>2, <1>1
<1> DEFINE m == n * pct
<1>3. m \in Nat /\ m <= n * 100
  BY <1>1, <1>2
<1> HIDE DEF m
<1>4. m \div 100 \in 0..n
  BY <1>3
<1> QED BY <1>4 DEF m

\* The configuration of a policy, its defaults applied.
LEMMA ConfigOK ==
  ASSUME NEW p \in Policies
  PROVE  /\ Initial(p) \in Nat \ {0} /\ MinBatch(p) \in Nat \ {0}
         /\ \A s \in Slowing : OrDefault(Throttling[p].slowdown[s], DefaultSlowdown[s]) \in 0..100
<1>1. Throttling[p] \in ThrottlingType
  BY SignalAssumption DEF SignalAssumption
<1>2. Throttling[p].initial \in 0..20 /\ Throttling[p].min \in Nat
      /\ Throttling[p].slowdown \in [Slowing -> 0..100]
  BY <1>1 DEF ThrottlingType
<1>3. \A s \in Slowing : DefaultSlowdown[s] \in 0..100
  BY DEF DefaultSlowdown, Slowing, Signals
<1> QED BY <1>2, <1>3 DEF Initial, MinBatch, OrDefault

\* A slowed batch is not empty and is at most the minimum or the size it came from.
LEMMA SlowedBounds ==
  ASSUME NEW p \in Policies, NEW s \in Slowing, NEW size \in Nat
  PROVE  /\ Slowed(p, s, size) \in Nat \ {0}
         /\ Slowed(p, s, size) <= size \/ Slowed(p, s, size) <= MinBatch(p)
<1> DEFINE pct == OrDefault(Throttling[p].slowdown[s], DefaultSlowdown[s])
<1> DEFINE n == (size * pct) \div 100
<1>1. pct \in 0..100 /\ MinBatch(p) \in Nat \ {0}
  BY ConfigOK
<1>2. n \in 0..size
  BY <1>1, PercentShrinks
<1>3. Slowed(p, s, size) = IF n < MinBatch(p) THEN MinBatch(p) ELSE n
  BY DEF Slowed
<1> HIDE DEF n, pct
<1> QED BY <1>1, <1>2, <1>3

\* A batch size that calculateBatchSize may be given, and may return.
InBounds(p, n) == n \in Nat \ {0} /\ (n <= Initial(p) \/ n <= MinBatch(p))

\* Whatever the signals, a size in bounds is followed by one in bounds.
LEMMA BatchSizeBounds ==
  ASSUME NEW p \in Policies, NEW sig, NEW current, InBounds(p, current)
  PROVE  InBounds(p, BatchSize(p, sig, current))
<1>1. Initial(p) \in Nat \ {0} /\ MinBatch(p) \in Nat \ {0}
  BY ConfigOK
<1>2. current \in Nat \ {0} /\ (current <= Initial(p) \/ current <= MinBatch(p))
  BY DEF InBounds
<1>3. \A s \in Slowing : InBounds(p, Slowed(p, s, Initial(p)))
  BY <1>1, SlowedBounds DEF InBounds
<1>4. \A s \in Slowing : InBounds(p, Slowed(p, s, current))
  <2> SUFFICES ASSUME NEW s \in Slowing PROVE InBounds(p, Slowed(p, s, current))
    OBVIOUS
  <2>1. /\ Slowed(p, s, current) \in Nat \ {0}
        /\ Slowed(p, s, current) <= current \/ Slowed(p, s, current) <= MinBatch(p)
    BY <1>2, SlowedBounds
  <2> QED BY <2>1, <1>1, <1>2 DEF InBounds
<1>5. InBounds(p, IF current < Initial(p) THEN current + 1 ELSE current)
  BY <1>1, <1>2 DEF InBounds
<1>6. {"NodePressure", "NodeUsage", "ContainerRestarts", "PendingPods"} \subseteq Slowing
  BY DEF Slowing, Signals
<1>7. BatchSize(p, sig, current) \in
        {Slowed(p, s, Initial(p)) : s \in {"NodePressure", "NodeUsage", "ContainerRestarts"}}
        \cup {Slowed(p, "PendingPods", current),
              IF current < Initial(p) THEN current + 1 ELSE current}
  <2>1. CASE "NodePressure" \in sig
    BY <2>1 DEF BatchSize
  <2>2. CASE "NodePressure" \notin sig /\ "NodeUsage" \in sig
    BY <2>2 DEF BatchSize
  <2>3. CASE sig \cap {"NodePressure", "NodeUsage"} = {} /\ "ContainerRestarts" \in sig
    BY <2>3 DEF BatchSize
  <2>4. CASE sig = {"PendingPods"}
    BY <2>4 DEF BatchSize
  <2>5. CASE /\ "NodePressure" \notin sig /\ "NodeUsage" \notin sig
             /\ "ContainerRestarts" \notin sig /\ sig # {"PendingPods"}
    BY <2>5 DEF BatchSize
  <2> QED BY <2>1, <2>2, <2>3, <2>4, <2>5
<1> QED BY <1>3, <1>4, <1>5, <1>6, <1>7
-----------------------------------------------------------------------------
(***************************************************************************)
(* BatchWithinBounds.                                                      *)
(***************************************************************************)
\* What a step may do to the worker's policy and to its batch size.
BatchStep ==
  \/ UNCHANGED <<wp, batch>> /\ (pc = "idle" <=> pc' = "idle")
  \/ pc' = "idle" /\ batch' = 0
  \/ \E p \in Policies : wp' = p /\ batch' = Initial(p)
  \/ pc # "idle" /\ UNCHANGED wp /\ \E sig : batch' = BatchSize(wp, sig, batch)

\* Entering and leaving the loop, and the beginning of a batch.
LEMMA BatchStepOfParts ==
  /\ \A p \in Policies : \A b \in BOOLEAN : Enter(p, b) => BatchStep
  /\ Leave => BatchStep
  /\ Idle => BatchStep
  /\ \A l \in Pcs \ {"idle"} : pc # "idle" /\ Goto(l) => BatchStep
  /\ \A sig : pc # "idle" /\ BeginBatch(sig) => BatchStep
<1>1. ASSUME NEW p \in Policies, NEW b \in BOOLEAN, Enter(p, b) PROVE BatchStep
  BY <1>1 DEF Enter, BatchStep
<1>2. Leave => BatchStep
  BY DEF Leave, BatchStep
<1>3. Idle => BatchStep
  BY DEF Idle, loopVars, batchVars, BatchStep
<1>4. ASSUME NEW l \in Pcs \ {"idle"}, pc # "idle", Goto(l) PROVE BatchStep
  BY <1>4 DEF Goto, loopVars, batchVars, BatchStep
<1>5. ASSUME NEW sig, pc # "idle", BeginBatch(sig) PROVE BatchStep
  <2>1. UNCHANGED wp /\ batch' = BatchSize(wp, sig, batch)
    BY <1>5 DEF BeginBatch, loopVars
  <2> QED BY <1>5, <2>1 DEF BatchStep
<1> QED BY <1>1, <1>2, <1>3, <1>4, <1>5

\* Every step of the specification is such a step.
LEMMA NextBatchStep == [Next]_vars => BatchStep
<1> SUFFICES ASSUME [Next]_vars PROVE BatchStep
  OBVIOUS
<1> USE BatchStepOfParts DEF Pcs
<1>1. ASSUME NEW p \in Policies, StartStartupResume(p) PROVE BatchStep
  BY <1>1 DEF StartStartupResume
<1>2. ASSUME NEW p \in Policies, StartResumeCommand(p) PROVE BatchStep
  BY <1>2 DEF StartResumeCommand
<1>3. ASSUME NEW p \in Policies, FreezeCommand(p) \/ SkipHandled(p) PROVE BatchStep
  BY <1>3 DEF FreezeCommand, SkipHandled
<1>4. ASSUME NEW p \in Policies, NEW a \in Actions, Command(p, a) PROVE BatchStep
  BY <1>4 DEF Command, loopVars, batchVars, BatchStep
<1>5. CASE Head \/ NextWorkload
  BY <1>5 DEF Head, NextWorkload, CheckOverride, MissOverride, Abort
<1>6. CASE Wait \/ BatchDone \/ Sleep
  BY <1>6 DEF Wait, BatchDone, Sleep
<1>7. CASE WaitEnds \/ ScaleFails \/ EndResume
  BY <1>7 DEF WaitEnds, ScaleFails, EndResume, GiveUp
<1>8. CASE Scale
  BY <1>8 DEF Scale, loopVars, BatchStep
<1>9. ASSUME NEW c \in Clusters, Collect(c) PROVE BatchStep
  <2>1. CASE "NodeNotReady" \in CollectSignals(wp, c)
    BY <1>9, <2>1 DEF Collect, loopVars, batchVars, BatchStep
  <2>2. CASE "NodeNotReady" \notin CollectSignals(wp, c)
    <3>1. pc # "idle" /\ BeginBatch(CollectSignals(wp, c))
      BY <1>9, <2>2 DEF Collect
    <3> QED BY <3>1
  <2> QED BY <2>1, <2>2
<1>10. ASSUME NEW c \in Clusters, NEW f \in 1..6, CollectFails(c, f) PROVE BatchStep
  BY <1>10 DEF CollectFails, GiveUp
<1>11. ASSUME NEW c \in Clusters, NEW f \in 1..6, CheckAgain(c, f) PROVE BatchStep
  BY <1>11 DEF CheckAgain, GiveUp
<1>12. CASE Tick \/ UNCHANGED vars
  BY <1>12 DEF Tick, vars, loopVars, batchVars, BatchStep
<1> QED BY <1>1, <1>2, <1>3, <1>4, <1>5, <1>6, <1>7, <1>8, <1>9, <1>10, <1>11, <1>12
        DEF Next, Loop

\* Every such step keeps the invariant.
LEMMA BatchInvKept == BatchInv /\ BatchStep => BatchInv'
<1> SUFFICES ASSUME BatchInv, BatchStep PROVE BatchInv'
  OBVIOUS
<1> USE DEF BatchInv, WorkerOK, BatchWithinBounds
<1>1. CASE UNCHANGED <<wp, batch>> /\ (pc = "idle" <=> pc' = "idle")
  BY <1>1 DEF Initial, MinBatch
<1>2. CASE pc' = "idle" /\ batch' = 0
  BY <1>2
<1>3. ASSUME NEW p \in Policies, wp' = p /\ batch' = Initial(p) PROVE BatchInv'
  <2>1. Initial(p) \in Nat \ {0}
    BY ConfigOK
  <2>2. Initial(wp)' = Initial(p)
    BY <1>3 DEF Initial
  <2> QED BY <1>3, <2>1, <2>2
<1>4. ASSUME pc # "idle", UNCHANGED wp, NEW sig, batch' = BatchSize(wp, sig, batch) PROVE BatchInv'
  <2>1. InBounds(wp, batch')
    BY <1>4, BatchSizeBounds DEF InBounds
  <2>2. Initial(wp)' = Initial(wp) /\ MinBatch(wp)' = MinBatch(wp)
    BY <1>4 DEF Initial, MinBatch
  <2> QED BY <1>4, <2>1, <2>2 DEF InBounds
<1> QED BY <1>1, <1>2, <1>3, <1>4 DEF BatchStep

\* Every batch of every throttled resume has at least one workload and at most
\* initialBatchSize, or minBatchSize where that is larger (calculateBatchSize).
THEOREM BatchesKeepBounds == Spec => []BatchWithinBounds
<1>1. Init => BatchInv
  BY DEF Init, BatchInv, WorkerOK, BatchWithinBounds
<1>2. BatchInv /\ [Next]_vars => BatchInv'
  BY NextBatchStep, BatchInvKept
<1>3. BatchInv => BatchWithinBounds
  BY DEF BatchInv
<1> QED BY <1>1, <1>2, <1>3, PTL DEF Spec
-----------------------------------------------------------------------------
(***************************************************************************)
(* YieldsToCommand.                                                        *)
(***************************************************************************)
\* operationIds are numbers that only grow, so what is recorded as handled is
\* never newer than the command.
OpsOK ==
  /\ op \in [Policies -> Nat] /\ last \in [Policies -> Nat]
  /\ \A p \in Policies : last[p] <= op[p]

\* A resume in progress holds an operationId between the recorded one and the
\* current one: a command given since is therefore pending.
CopyOK ==
  /\ wp \in Policies /\ copyOp \in Nat
  /\ last[wp] <= copyOp /\ copyOp <= op[wp]

\* The startup resume that does not look at commands.
Exempt == startup /\ last[wp] = 0

\* Nothing is late before a command is given.  Afterwards a workload is late for
\* a check that missed the command, or for the one made before it was given,
\* which is still to come at most once.
LateOK ==
  /\ late \in Nat /\ misses \in Nat
  /\ op[wp] = copyOp => late = 0
  /\ Exempt \/ late <= misses + (IF pc = "scale" THEN 0 ELSE 1)

\* The inductive invariant behind YieldsToCommand.
YieldInv == OpsOK /\ (pc # "idle" => CopyOK /\ LateOK)

\* What a step may do to the operationIds and to the counters of late workloads.
OutsideStep ==
  /\ pc = "idle" /\ pc' = "idle" /\ UNCHANGED op
  /\ last' = last \/ \E p \in Policies : last' = [last EXCEPT ![p] = op[p]]
EnterStep ==
  /\ UNCHANGED op /\ late' = 0 /\ misses' = 0
  /\ \E p \in Policies :
       /\ wp' = p /\ copyOp' = op[p]
       /\ last' = last \/ last' = [last EXCEPT ![p] = op[p]]
LeaveStep ==
  /\ pc # "idle" /\ pc' = "idle" /\ UNCHANGED op
  /\ last' = last \/ last' = [last EXCEPT ![wp] = copyOp]
LoopStep ==
  /\ pc # "idle" /\ UNCHANGED <<op, last, wp, startup, copyOp>>
  /\ \/ /\ UNCHANGED <<late, misses>>
        /\ pc = "scale" => pc' = "batch"
        /\ (pc' = "scale" /\ pc # "scale") => ~Overridden
     \/ UNCHANGED late /\ misses' = misses + 1
     \/ pc = "scale" /\ pc' # "scale" /\ UNCHANGED misses /\ op[wp] # copyOp /\ late' = late + 1
CommandStep ==
  /\ UNCHANGED <<pc, last, wp, startup, copyOp, late, misses>>
  /\ \E p \in Policies : op' = [op EXCEPT ![p] = @ + 1]
YieldStep ==
  \/ OutsideStep \/ EnterStep \/ LeaveStep \/ LoopStep \/ CommandStep
  \/ UNCHANGED <<op, last, pc, wp, startup, copyOp, late, misses>>

\* Every step of the specification is one of these.
LEMMA NextYieldStep == [Next]_vars => YieldStep
<1> SUFFICES ASSUME [Next]_vars PROVE YieldStep
  OBVIOUS
<1> USE DEF YieldStep
<1>1. ASSUME NEW p \in Policies, StartStartupResume(p) PROVE YieldStep
  BY <1>1 DEF StartStartupResume, Begin, Enter, EnterStep
<1>2. ASSUME NEW p \in Policies, StartResumeCommand(p) PROVE YieldStep
  <2>1. /\ pc = "idle" /\ UNCHANGED op /\ last' = [last EXCEPT ![p] = op[p]]
        /\ Idle \/ Enter(p, FALSE)
    BY <1>2 DEF StartResumeCommand, Begin
  <2>2. CASE Idle
    BY <2>1, <2>2 DEF Idle, OutsideStep
  <2>3. CASE Enter(p, FALSE)
    BY <2>1, <2>3 DEF Enter, EnterStep
  <2> QED BY <2>1, <2>2, <2>3
<1>3. ASSUME NEW p \in Policies, FreezeCommand(p) \/ SkipHandled(p) PROVE YieldStep
  BY <1>3 DEF FreezeCommand, SkipHandled, Begin, Idle, OutsideStep
<1>4. ASSUME NEW p \in Policies, NEW a \in Actions, Command(p, a) PROVE YieldStep
  BY <1>4 DEF Command, loopVars, history, CommandStep
<1>5. ASSUME Head \/ NextWorkload, UNCHANGED op PROVE YieldStep
  <2>1. PICK l \in {"collect", "scale"} :
          pc \in {"head", "batch"} /\ (CheckOverride(l) \/ MissOverride(l))
    BY <1>5 DEF Head, NextWorkload
  <2>2. CASE CheckOverride(l) /\ Overridden
    BY <1>5, <2>1, <2>2 DEF CheckOverride, Abort, Leave, statusVars, LeaveStep
  <2>3. CASE CheckOverride(l) /\ ~Overridden
    BY <1>5, <2>1, <2>3 DEF CheckOverride, Goto, NoWrite, statusVars, loopVars, history, LoopStep
  <2>4. CASE MissOverride(l)
    BY <1>5, <2>1, <2>4 DEF MissOverride, Goto, NoWrite, statusVars, loopVars, LoopStep
  <2> QED BY <2>1, <2>2, <2>3, <2>4
<1>6. ASSUME Wait \/ BatchDone \/ Sleep, UNCHANGED op PROVE YieldStep
  BY <1>6 DEF Wait, BatchDone, Sleep, Goto, NoWrite, statusVars, loopVars, history, LoopStep
<1>7. ASSUME WaitEnds \/ ScaleFails, UNCHANGED op PROVE YieldStep
  BY <1>7 DEF WaitEnds, ScaleFails, GiveUp, Leave, LeaveStep
<1>8. ASSUME EndResume, UNCHANGED op PROVE YieldStep
  BY <1>8 DEF EndResume, Leave, LeaveStep
<1>9. ASSUME Scale, UNCHANGED op PROVE YieldStep
  BY <1>9 DEF Scale, loopVars, LoopStep
<1>10. ASSUME NEW c \in Clusters, Collect(c), UNCHANGED op PROVE YieldStep
  BY <1>10 DEF Collect, BeginBatch, Report, loopVars, LoopStep
<1>11. ASSUME NEW c \in Clusters, NEW f \in 1..6, CollectFails(c, f), UNCHANGED op PROVE YieldStep
  BY <1>11 DEF CollectFails, BeginBatch, Report, GiveUp, Leave, loopVars, LoopStep, LeaveStep
<1>12. ASSUME NEW c \in Clusters, NEW f \in 1..6, CheckAgain(c, f), UNCHANGED op PROVE YieldStep
  BY <1>12 DEF CheckAgain, Goto, NoWrite, statusVars, GiveUp, Leave, loopVars, LoopStep, LeaveStep
<1>13. CASE Tick \/ UNCHANGED vars
  BY <1>13 DEF Tick, vars, apiVars, loopVars, history
<1> QED BY <1>1, <1>2, <1>3, <1>4, <1>5, <1>6, <1>7, <1>8, <1>9, <1>10, <1>11, <1>12, <1>13
        DEF Next, Loop

\* Every one of them keeps the invariant.
LEMMA YieldInvKept == YieldInv /\ YieldStep => YieldInv'
<1> SUFFICES ASSUME YieldInv, YieldStep PROVE YieldInv'
  OBVIOUS
<1> USE DEF YieldInv, OpsOK
<1>1. CASE OutsideStep
  BY <1>1 DEF OutsideStep
<1>2. CASE EnterStep
  BY <1>2 DEF EnterStep, CopyOK, LateOK, Exempt
<1>3. CASE LeaveStep
  BY <1>3 DEF LeaveStep, CopyOK
<1>4. CASE LoopStep
  <2>1. CopyOK /\ LateOK /\ pc # "idle" /\ OpsOK' /\ CopyOK'
    BY <1>4 DEF LoopStep, CopyOK
  <2>2. Exempt' = Exempt
    BY <1>4 DEF LoopStep, Exempt
  <2>3. ~Overridden => Exempt \/ op[wp] = copyOp
    BY <2>1 DEF Overridden, CommandPending, CopyOK, Exempt
  <2>4. LateOK'
    BY <1>4, <2>1, <2>2, <2>3 DEF LoopStep, LateOK, CopyOK
  <2> QED BY <2>1, <2>4
<1>5. CASE CommandStep
  <2>1. OpsOK'
    BY <1>5 DEF CommandStep
  <2>2. ASSUME pc # "idle" PROVE CopyOK' /\ LateOK'
    <3>1. op[wp] \in Nat /\ (op'[wp] = op[wp] \/ op'[wp] = op[wp] + 1)
      BY <1>5, <2>2 DEF CommandStep, CopyOK
    <3> QED BY <1>5, <2>2, <3>1 DEF CommandStep, CopyOK, LateOK, Exempt
  <2> QED BY <1>5, <2>1, <2>2 DEF CommandStep
<1>6. CASE UNCHANGED <<op, last, pc, wp, startup, copyOp, late, misses>>
  BY <1>6 DEF CopyOK, LateOK, Exempt
<1> QED BY <1>1, <1>2, <1>3, <1>4, <1>5, <1>6 DEF YieldStep

\* Once a newer command is given, a throttled resume brings up at most one more
\* workload for every check of the override that missed the command and one for
\* the check made before (checkManualOverride before each workload).
THEOREM ResumeYields == Spec => []YieldsToCommand
<1>1. Init => YieldInv
  BY DEF Init, YieldInv, OpsOK
<1>2. YieldInv /\ [Next]_vars => YieldInv'
  BY NextYieldStep, YieldInvKept
<1>3. YieldInv => YieldsToCommand
  BY DEF YieldInv, YieldsToCommand, LateOK, Exempt
<1> QED BY <1>1, <1>2, <1>3, PTL DEF Spec
-----------------------------------------------------------------------------
(***************************************************************************)
(* TypeOK, in the parts that steps write together.                         *)
(***************************************************************************)
CacheOK == cache \in CacheType /\ cache.age <= cache.ttl

ApiOK ==
  /\ op \in [Policies -> OpIds] /\ action \in [Policies -> Actions] /\ last \in [Policies -> OpIds]
  /\ phase \in [Policies -> Phases] /\ pr \in [Policies -> BOOLEAN]
  /\ frozen \in [Policies -> Nat] /\ queue \subseteq Policies

LoopOK ==
  /\ pc \in Pcs /\ wp \in Policies \cup {NoPolicy} /\ (pc = "idle" <=> wp = NoPolicy)
  /\ startup \in BOOLEAN /\ copyOp \in OpIds
  /\ total \in Nat /\ resumed \in 0..total
  /\ todo \in 0..(total - resumed) /\ wait \in Nat

CountsOK ==
  /\ elapsed \in Nat /\ errors \in 0..MaxErrors
  /\ late \in Nat /\ misses \in 0..MaxMisses /\ since \in BOOLEAN /\ stale \in BOOLEAN

\* A workload that is being scaled is one of the batch: the counters could leave
\* the namespace otherwise.
ThrottleInv == CacheOK /\ ApiOK /\ LoopOK /\ CountsOK /\ BatchInv /\ (pc = "scale" => todo >= 1)

\* The parts are the whole.
LEMMA ThrottleParts == ThrottleInv => TypeOK
BY DEF ThrottleInv, CacheOK, ApiOK, LoopOK, CountsOK, BatchInv, WorkerOK, TypeOK

\* The intervals of a policy, its defaults applied.
LEMMA IntervalsOK ==
  ASSUME NEW p \in Policies
  PROVE  Interval(p) \in Nat \ {0} /\ WaitTick(p) \in Nat /\ MaxWait(p) \in Nat
<1>1. Throttling[p] \in ThrottlingType
  BY SignalAssumption DEF SignalAssumption
<1>2. Throttling[p].interval \in Nat /\ Throttling[p].waitInterval \in Nat /\ Throttling[p].maxWait \in Nat
  BY <1>1 DEF ThrottlingType
<1> QED BY <1>2 DEF Interval, WaitTick, MaxWait, HalfSeconds, OrDefault

\* The wait after a batch is at least batchInterval, whatever the signals.
LEMMA WaitIsLong ==
  ASSUME NEW p \in Policies, NEW sig
  PROVE  WaitDuration(p, sig) \in Nat /\ WaitDuration(p, sig) >= Interval(p)
<1> DEFINE d1 == IF "NodePressure" \in sig THEN 2 * Interval(p) ELSE Interval(p)
           d2 == IF "PendingPods" \in sig THEN (3 * d1) \div 2 ELSE d1
<1>1. Interval(p) \in Nat
  BY IntervalsOK
<1>2. d1 \in Nat /\ d1 >= Interval(p)
  BY <1>1
<1>3. WaitDuration(p, sig) = IF "ContainerRestarts" \in sig THEN 2 * d2 ELSE d2
  BY DEF WaitDuration
<1> HIDE DEF d1
<1>4. d2 \in Nat /\ d2 >= d1
  BY <1>2
<1> HIDE DEF d2
<1> QED BY <1>1, <1>2, <1>3, <1>4

\* Time passes for the cache.
LEMMA AgedOK ==
  ASSUME CacheOK, NEW d \in Nat, cache' = Aged(d)
  PROVE  /\ CacheOK' /\ cache'.ttl = cache.ttl
         /\ cache'.age >= cache.age
         /\ d >= cache.ttl => cache'.age = cache.ttl
BY DEF CacheOK, CacheType, Aged, Least

\* A collection of signals, which fails at check f or at none.
LEMMA CollectedOK ==
  ASSUME CacheOK, NEW p \in Policies, NEW c, NEW f \in 1..6, cache' = CacheAfter(p, c, f)
  PROVE  /\ CacheOK'
         /\ ~Scrapes(p, f) => cache' = cache \/ cache'.age = cache'.ttl
         /\ ~Scrapes(p, f) /\ Hit => cache' = cache
<1>1. cache.age \in Nat /\ cache.ttl \in Nat /\ cache.age <= cache.ttl
  BY DEF CacheOK, CacheType
<1>2. CacheTtl(p) \in Nat
  BY <1>1, IntervalsOK DEF CacheTtl, OrDefault
<1>3. CASE Scrapes(p, f)
  <2>1. cache' = [hot |-> NodeUsage(p, c), age |-> 0, ttl |-> CacheTtl(p)]
    BY <1>3 DEF CacheAfter
  <2>2. NodeUsage(p, c) \in BOOLEAN
    BY DEF NodeUsage
  <2> QED BY <1>2, <1>3, <2>1, <2>2 DEF CacheOK, CacheType
<1>4. CASE ~Scrapes(p, f) /\ ChecksUsage(p, f) /\ cache.ttl = 0
  <2>1. cache' = [cache EXCEPT !.age = CacheTtl(p), !.ttl = CacheTtl(p)]
    BY <1>4 DEF CacheAfter
  <2>2. ~Hit
    BY <1>1, <1>4 DEF Hit
  <2>3. cache' \in CacheType /\ cache'.age = CacheTtl(p) /\ cache'.ttl = CacheTtl(p)
    BY <1>2, <2>1 DEF CacheOK, CacheType
  <2> QED BY <1>2, <2>2, <2>3 DEF CacheOK
<1>5. CASE ~Scrapes(p, f) /\ ~(ChecksUsage(p, f) /\ cache.ttl = 0)
  <2>1. cache' = cache
    BY <1>5 DEF CacheAfter
  <2> QED BY <2>1 DEF CacheOK
<1> QED BY <1>3, <1>4, <1>5

\* Zero is within every bound.
LEMMA BoundsOK == 0 \in 0..MaxErrors /\ 0 \in 0..MaxMisses /\ 0 \in OpIds /\ NoPolicy \notin Policies
<1>1. MaxErrors \in Nat /\ MaxMisses \in Nat /\ MaxOps \in Nat /\ NoPolicy \notin Policies
  BY ThrottlingAssumption
<1> QED BY <1>1 DEF OpIds

\* The ways into the loop, out of it, and on in it.
LEMMA EnterOK ==
  ASSUME ApiOK, CountsOK, NEW p \in Policies, NEW b \in BOOLEAN, Enter(p, b)
  PROVE  LoopOK' /\ CountsOK' /\ pc' # "scale"
<1>1. op[p] \in OpIds /\ Workloads[p] \in Nat /\ frozen[p] \in Nat /\ p # NoPolicy
  BY ThrottlingAssumption DEF ApiOK
<1>2. total' \in Nat
  BY <1>1 DEF Enter
<1>3. resumed' \in 0..total' /\ todo' \in 0..(total' - resumed') /\ wait' \in Nat
  BY <1>2 DEF Enter
<1>4. pc' = "head" /\ wp' = p /\ startup' \in BOOLEAN /\ copyOp' \in OpIds
  BY <1>1, Zenon DEF Enter
<1>5. LoopOK'
  BY <1>1, <1>2, <1>3, <1>4 DEF LoopOK, Pcs
<1>6. since' \in BOOLEAN /\ stale' \in BOOLEAN
  BY Zenon DEF Enter
<1>7. elapsed' = 0 /\ late' = 0 /\ misses' = 0 /\ errors' = errors
  BY DEF Enter
<1>8. CountsOK'
  BY <1>6, <1>7, BoundsOK DEF CountsOK
<1> QED BY <1>4, <1>5, <1>8

\* Leaving the loop; a call may have failed.
LEMMA LeaveOK ==
  ASSUME CountsOK, Leave, errors' \in 0..MaxErrors
  PROVE  LoopOK' /\ CountsOK' /\ pc' # "scale"
<1>1. resumed' \in 0..total' /\ todo' \in 0..(total' - resumed') /\ wait' \in Nat /\ total' \in Nat
  BY DEF Leave
<1>2. startup' \in BOOLEAN /\ since' \in BOOLEAN /\ stale' \in BOOLEAN
  BY Zenon DEF Leave
<1>3. pc' = "idle" /\ wp' = NoPolicy /\ copyOp' = 0 /\ elapsed' = 0 /\ late' = 0 /\ misses' = 0
  BY DEF Leave
<1>4. LoopOK'
  BY <1>1, <1>2, <1>3, BoundsOK DEF LoopOK, Pcs
<1>5. CountsOK'
  BY <1>2, <1>3, BoundsOK DEF CountsOK
<1> QED BY <1>3, <1>4, <1>5

\* A policy's error that is retried.
LEMMA GiveUpOK ==
  ASSUME ApiOK, LoopOK, CountsOK, pc # "idle", GiveUp, UNCHANGED <<op, action>>, errors' \in 0..MaxErrors
  PROVE  ApiOK' /\ LoopOK' /\ CountsOK' /\ pc' # "scale"
<1>1. wp \in Policies /\ copyOp \in OpIds
  BY DEF LoopOK
<1>2. ApiOK'
  BY <1>1 DEF GiveUp, ApiOK, Phases
<1> QED BY <1>2, LeaveOK DEF GiveUp

\* Going on without a write.
LEMMA GotoOK ==
  ASSUME ApiOK, LoopOK, pc # "idle", NEW l \in Pcs \ {"idle"}, Goto(l), UNCHANGED <<op, action>>
  PROVE  ApiOK' /\ LoopOK' /\ todo' = todo
BY DEF Goto, NoWrite, statusVars, loopVars, batchVars, ApiOK, LoopOK

\* The beginning of a batch.
LEMMA BeginBatchOK ==
  ASSUME ApiOK, LoopOK, BatchInv, pc # "idle", NEW sig, BeginBatch(sig), UNCHANGED <<op, action>>
  PROVE  ApiOK' /\ LoopOK' /\ pc' = "batch" /\ wait' >= Interval(wp)
<1>1. wp \in Policies
  BY DEF LoopOK
<1>2. InBounds(wp, batch)
  BY DEF BatchInv, WorkerOK, BatchWithinBounds, InBounds
<1>3. batch' \in Nat
  BY <1>1, <1>2, BatchSizeBounds DEF BeginBatch, InBounds
<1>4. total - resumed \in Nat
  BY DEF LoopOK
<1>5. todo' \in 0..(total - resumed)
  BY <1>3, <1>4 DEF BeginBatch, Least
<1>6. wait' \in Nat /\ wait' >= Interval(wp)
  BY <1>1, WaitIsLong DEF BeginBatch
<1>7. LoopOK'
  BY <1>5, <1>6 DEF BeginBatch, loopVars, LoopOK, Pcs
<1>8. ApiOK'
  BY <1>1 DEF BeginBatch, Report, ApiOK, Phases
<1> QED BY <1>6, <1>7, <1>8 DEF BeginBatch

\* The time since the resume began.
LEMMA LaterOK ==
  ASSUME NEW d \in Nat, elapsed \in Nat, wp \in Policies
  PROVE  Later(d) \in Nat
BY IntervalsOK DEF Later, Least

\* What a collection is measured by.
LEMMA MeasureOK ==
  ASSUME CountsOK, NEW f, Measure(f)
  PROVE  since' \in BOOLEAN /\ stale' \in BOOLEAN
BY DEF Measure, CountsOK

\* The steps of the loop.
LEMMA LoopStepOK ==
  ASSUME ThrottleInv, Loop
  PROVE  /\ CacheOK' /\ ApiOK' /\ LoopOK' /\ CountsOK'
         /\ pc' = "scale" => todo' >= 1
<1> DEFINE Goal == CacheOK' /\ ApiOK' /\ LoopOK' /\ CountsOK' /\ (pc' = "scale" => todo' >= 1)
<1>0. CacheOK /\ ApiOK /\ LoopOK /\ CountsOK /\ BatchInv /\ UNCHANGED <<op, action>>
  BY DEF ThrottleInv, Loop
<1>1. ASSUME UNCHANGED cache PROVE CacheOK'
  BY <1>0, <1>1 DEF CacheOK
<1>2. pc # "idle" => wp \in Policies /\ Interval(wp) \in Nat /\ WaitTick(wp) \in Nat
  BY <1>0, IntervalsOK DEF LoopOK
<1>3. ASSUME NEW l \in {"collect", "scale"}, pc \in {"head", "batch"}, l = "scale" => todo > 0,
             CheckOverride(l) \/ MissOverride(l)
      PROVE  Goal
  <2>1. CASE CheckOverride(l) /\ Overridden
    <3>1. ApiOK' /\ Leave /\ UNCHANGED <<cache, errors>>
      BY <1>0, <2>1 DEF CheckOverride, Abort, statusVars, ApiOK
    <3> QED BY <1>0, <1>1, <3>1, LeaveOK DEF CountsOK
  <2>2. CASE Goto(l) /\ UNCHANGED <<cache, elapsed, errors, late, since, stale>> /\ misses' \in 0..MaxMisses
    BY <1>0, <1>1, <1>3, <2>2, GotoOK DEF Goto, CountsOK, Pcs, LoopOK
  <2>3. CASE CheckOverride(l) /\ ~Overridden
    BY <1>0, <2>2, <2>3 DEF CheckOverride, history, CountsOK
  <2>4. CASE MissOverride(l)
    BY <1>0, <2>2, <2>4, ThrottlingAssumption DEF MissOverride, CountsOK
  <2> QED BY <1>3, <2>1, <2>3, <2>4
<1>4. CASE Head \/ NextWorkload
  BY <1>3, <1>4 DEF Head, NextWorkload
<1>5. ASSUME NEW l \in Pcs \ {"idle", "scale"}, pc # "idle", Goto(l), CacheOK', elapsed' \in Nat,
             UNCHANGED <<errors, late, misses>>, since' \in BOOLEAN, stale' \in BOOLEAN
      PROVE  Goal
  <2>1. pc' = l
    BY <1>5 DEF Goto
  <2>2. CountsOK'
    BY <1>0, <1>5 DEF CountsOK
  <2> QED BY <1>0, <1>5, <2>1, <2>2, GotoOK
<1>6. CASE Wait
  <2>1. CacheOK' /\ elapsed' \in Nat
    BY <1>0, <1>2, <1>6, AgedOK, LaterOK DEF Wait, CountsOK
  <2> QED BY <1>0, <1>5, <1>6, <2>1 DEF Wait, Pcs, history, CountsOK
<1>7. CASE Sleep
  <2>1. CacheOK' /\ elapsed' \in Nat
    BY <1>0, <1>2, <1>7, AgedOK, LaterOK DEF Sleep, CountsOK, LoopOK
  <2> QED BY <1>0, <1>5, <1>7, <2>1 DEF Sleep, Pcs, history, CountsOK
<1>8. CASE BatchDone
  BY <1>0, <1>1, <1>5, <1>8 DEF BatchDone, Pcs, history, CountsOK
<1>9. CASE WaitEnds \/ ScaleFails
  <2>1. pc # "idle" /\ GiveUp /\ UNCHANGED cache /\ errors' \in 0..MaxErrors
    BY <1>0, <1>9, ThrottlingAssumption DEF WaitEnds, ScaleFails, CountsOK
  <2> QED BY <1>0, <1>1, <2>1, GiveUpOK
<1>10. CASE EndResume
  <2>1. ApiOK' /\ Leave /\ UNCHANGED <<cache, errors>>
    BY <1>0, <1>2, <1>10 DEF EndResume, ApiOK, LoopOK, Phases
  <2> QED BY <1>0, <1>1, <2>1, LeaveOK DEF CountsOK
<1>11. CASE Scale
  <2>1. /\ pc = "scale" /\ pc' = "batch" /\ resumed' = resumed + 1 /\ todo' = todo - 1
        /\ UNCHANGED <<cache, wp, startup, copyOp, total, wait>>
    BY <1>11 DEF Scale, loopVars
  <2>2. todo >= 1
    BY <2>1 DEF ThrottleInv
  <2>3. LoopOK'
    BY <1>0, <2>1, <2>2 DEF LoopOK, Pcs
  <2>4. ApiOK'
    BY <1>0, <1>2, <1>11 DEF Scale, ApiOK
  <2>5. UNCHANGED <<elapsed, errors, misses, stale>>
    BY <1>11 DEF Scale
  <2>6. late' \in Nat
    BY <1>0, <1>11 DEF Scale, CountsOK
  <2>7. since' = TRUE \/ since' = since
    BY <1>11 DEF Scale
  <2>8. since' \in BOOLEAN
    BY <1>0, <2>7, Zenon DEF CountsOK
  <2>9. CountsOK'
    BY <1>0, <2>5, <2>6, <2>8 DEF CountsOK
  <2> QED BY <1>1, <2>1, <2>3, <2>4, <2>9
<1>12. ASSUME NEW c \in Clusters, NEW f \in 1..6, pc # "idle", cache' = CacheAfter(wp, c, f),
              NEW sig, BeginBatch(sig), Measure(f), UNCHANGED <<elapsed, errors, late, misses>>
       PROVE  Goal
  <2>1. CacheOK'
    BY <1>0, <1>2, <1>12, CollectedOK
  <2>2. ApiOK' /\ LoopOK' /\ pc' = "batch"
    BY <1>0, <1>12, BeginBatchOK
  <2>3. CountsOK'
    BY <1>0, <1>12, MeasureOK DEF CountsOK
  <2> QED BY <2>1, <2>2, <2>3
<1>13. ASSUME NEW c \in Clusters, Collect(c) PROVE Goal
  <2>1. CASE "NodeNotReady" \notin CollectSignals(wp, c)
    BY <1>12, <1>13, <2>1 DEF Collect
  <2>2. CASE "NodeNotReady" \in CollectSignals(wp, c)
    <3>1. /\ pc = "collect" /\ pc' = "wait" /\ cache' = CacheAfter(wp, c, 6) /\ Measure(6) /\ Report
          /\ UNCHANGED <<loopVars, batchVars, elapsed, errors, late, misses>>
      BY <1>13, <2>2 DEF Collect
    <3>2. CacheOK'
      BY <1>0, <1>2, <3>1, CollectedOK
    <3>3. ApiOK'
      BY <1>0, <1>2, <3>1 DEF Report, ApiOK, Phases
    <3>4. LoopOK'
      BY <1>0, <3>1 DEF LoopOK, loopVars, batchVars, Pcs
    <3>5. CountsOK'
      BY <1>0, <3>1, MeasureOK DEF CountsOK
    <3> QED BY <3>1, <3>2, <3>3, <3>4, <3>5
  <2> QED BY <2>1, <2>2
<1>14. ASSUME NEW c \in Clusters, NEW f \in 1..6, pc # "idle", cache' = CacheAfter(wp, c, f), GiveUp,
              UNCHANGED errors
       PROVE  Goal
  <2>1. CacheOK'
    BY <1>0, <1>2, <1>14, CollectedOK
  <2> QED BY <1>0, <1>14, <2>1, GiveUpOK DEF CountsOK
<1>15. ASSUME NEW c \in Clusters, NEW f \in 1..6, CollectFails(c, f) PROVE Goal
  BY <1>12, <1>14, <1>15 DEF CollectFails
<1>16. ASSUME NEW c \in Clusters, NEW f \in 1..6, CheckAgain(c, f) PROVE Goal
  <2>1. pc = "check" /\ cache' = CacheAfter(wp, c, f) /\ UNCHANGED errors
    BY <1>16 DEF CheckAgain
  <2>2. CASE GiveUp
    BY <1>14, <2>1, <2>2
  <2>3. CASE \E l \in {"wait", "head"} : Goto(l) /\ Measure(f) /\ UNCHANGED <<elapsed, late, misses>>
    <3>1. CacheOK'
      BY <1>0, <1>2, <2>1, CollectedOK
    <3> QED BY <1>0, <1>5, <2>1, <2>3, <3>1, MeasureOK DEF Pcs, CountsOK
  <2> QED BY <1>16, <2>2, <2>3 DEF CheckAgain
<1> QED BY <1>4, <1>6, <1>7, <1>8, <1>9, <1>10, <1>11, <1>13, <1>15, <1>16 DEF Loop

\* The steps between two reconciles, and the users.
LEMMA OutsideStepOK ==
  ASSUME ThrottleInv, Next, ~Loop
  PROVE  /\ CacheOK' /\ ApiOK' /\ LoopOK' /\ CountsOK'
         /\ pc' = "scale" => todo' >= 1
<1> DEFINE Goal == CacheOK' /\ ApiOK' /\ LoopOK' /\ CountsOK' /\ (pc' = "scale" => todo' >= 1)
<1>0. CacheOK /\ ApiOK /\ LoopOK /\ CountsOK /\ (pc = "scale" => todo >= 1)
  BY DEF ThrottleInv
<1>1. ASSUME UNCHANGED cache PROVE CacheOK'
  BY <1>0, <1>1 DEF CacheOK
<1>2. ASSUME Idle PROVE LoopOK' /\ CountsOK' /\ (pc' = "scale" => todo' >= 1)
  BY <1>0, <1>2 DEF Idle, loopVars, batchVars, history, LoopOK, CountsOK
<1>3. ASSUME NEW p \in Policies, StartStartupResume(p) PROVE Goal
  <2>1. ApiOK' /\ UNCHANGED cache /\ Enter(p, TRUE)
    BY <1>0, <1>3 DEF StartStartupResume, Begin, ApiOK
  <2> QED BY <1>0, <1>1, <2>1, EnterOK
<1>4. ASSUME NEW p \in Policies, StartResumeCommand(p) PROVE Goal
  <2>1. ApiOK' /\ UNCHANGED cache /\ (Idle \/ Enter(p, FALSE))
    BY <1>0, <1>4 DEF StartResumeCommand, Begin, ApiOK, Phases
  <2> QED BY <1>0, <1>1, <1>2, <2>1, EnterOK
<1>5. ASSUME NEW p \in Policies, FreezeCommand(p) \/ SkipHandled(p) PROVE Goal
  <2>1. UNCHANGED <<cache, op, action>> /\ queue' = queue \ {p} /\ Idle
    BY <1>5 DEF FreezeCommand, SkipHandled, Begin
  <2>2. Workloads[p] \in Nat
    BY ThrottlingAssumption
  <2>3. CASE FreezeCommand(p)
    <3>1. phase' \in [Policies -> Phases] /\ frozen' \in [Policies -> Nat] /\ last' \in [Policies -> OpIds]
      BY <1>0, <2>2, <2>3 DEF FreezeCommand, ApiOK, Phases
    <3>2. pr' \in [Policies -> BOOLEAN]
      BY <1>0, <2>3 DEF FreezeCommand, ApiOK
    <3> QED BY <1>0, <1>1, <1>2, <2>1, <3>1, <3>2 DEF ApiOK
  <2>4. CASE SkipHandled(p)
    <3>1. UNCHANGED <<phase, last, pr, frozen>>
      BY <2>4 DEF SkipHandled
    <3>2. ApiOK'
      BY <1>0, <2>1, <3>1 DEF ApiOK
    <3> QED BY <1>1, <1>2, <2>1, <3>2
  <2> QED BY <1>5, <2>3, <2>4
<1>6. ASSUME NEW p \in Policies, NEW a \in Actions, Command(p, a) PROVE Goal
  <2>1. ApiOK'
    BY <1>0, <1>6, ThrottlingAssumption DEF Command, ApiOK, OpIds
  <2>2. UNCHANGED <<pc, wp, startup, copyOp, total, resumed, todo, wait, elapsed, errors, late, misses,
                    since, stale, cache>>
    BY <1>6 DEF Command, loopVars, batchVars, history
  <2> QED BY <1>0, <1>1, <2>1, <2>2 DEF LoopOK, CountsOK
<1>7. CASE Tick
  <2>1. HalfSeconds(1) \in Nat /\ CacheOK'
    BY <1>0, <1>7, AgedOK DEF Tick, HalfSeconds
  <2>2. elapsed' \in Nat
    BY <1>0, <1>7, <2>1, LaterOK DEF Tick, CountsOK, LoopOK
  <2>3. UNCHANGED <<pc, wp, startup, copyOp, total, resumed, todo, wait, errors, late, misses, since, stale,
                    op, action, phase, last, pr, frozen, queue>>
    BY <1>7 DEF Tick, apiVars, loopVars, batchVars, history
  <2> QED BY <1>0, <2>1, <2>2, <2>3 DEF LoopOK, CountsOK, ApiOK
<1> QED BY <1>3, <1>4, <1>5, <1>6, <1>7 DEF Next

\* Every step keeps the types.
LEMMA ThrottleInvStep == ThrottleInv /\ [Next]_vars => ThrottleInv'
<1> SUFFICES ASSUME ThrottleInv, [Next]_vars PROVE ThrottleInv'
  OBVIOUS
<1>1. BatchInv'
  BY NextBatchStep, BatchInvKept DEF ThrottleInv
<1>2. CASE Next
  BY <1>1, <1>2, LoopStepOK, OutsideStepOK DEF ThrottleInv
<1>3. CASE UNCHANGED vars
  BY <1>1, <1>3 DEF vars, apiVars, loopVars, batchVars, history, ThrottleInv, CacheOK, ApiOK, LoopOK, CountsOK
<1> QED BY <1>2, <1>3

\* At first every policy waits for its resume.
LEMMA ThrottleInit == Init => ThrottleInv
<1> SUFFICES ASSUME Init PROVE ThrottleInv
  OBVIOUS
<1>1. CacheOK
  BY DEF Init, CacheOK, CacheType, EmptyCache
<1>2. ApiOK
  BY ThrottlingAssumption DEF Init, ApiOK, OpIds, Actions, Phases
<1>3. LoopOK /\ CountsOK
  <2>1. startup \in BOOLEAN /\ since \in BOOLEAN /\ stale \in BOOLEAN
    BY Zenon DEF Init
  <2>2. /\ pc = "idle" /\ wp = NoPolicy /\ copyOp = 0 /\ total = 0 /\ resumed = 0 /\ todo = 0 /\ wait = 0
        /\ elapsed = 0 /\ errors = 0 /\ late = 0 /\ misses = 0
    BY DEF Init
  <2> QED BY <2>1, <2>2, BoundsOK DEF LoopOK, CountsOK, Pcs
<1>4. BatchInv /\ pc # "scale"
  BY DEF Init, BatchInv, WorkerOK, BatchWithinBounds
<1> QED BY <1>1, <1>2, <1>3, <1>4 DEF ThrottleInv

\* Every reachable state of a throttled resume has its type: the resumed count
\* stays within the namespace, a batch within what is left, and the age of the
\* shared measurement within its time to live.
THEOREM ThrottlingTypeCorrect == Spec => []TypeOK
BY ThrottleInit, ThrottleInvStep, ThrottleParts, PTL DEF Spec
-----------------------------------------------------------------------------
(***************************************************************************)
(* ResumedMeansAll.                                                        *)
(***************************************************************************)
\* What is at zero is of the namespace.
FrozenOK == \A p \in Policies : frozen[p] <= Workloads[p]

\* A resume never has fewer workloads before it than are at zero: those that were
\* passed over were up.
Covered == pc # "idle" => frozen[wp] <= total - resumed

\* The inductive invariant behind ResumedMeansAll.
ResumedInv == ThrottleInv /\ FrozenOK /\ Covered /\ ResumedMeansAll

\* What a step may do to the workloads and to the phase.
ReportStep ==
  /\ UNCHANGED frozen
  /\ \/ phase' = phase
     \/ \E p \in Policies, x \in Phases :
          phase' = [phase EXCEPT ![p] = x] /\ (x = "Resumed" => frozen[p] = 0)
FreezeStep ==
  \E p \in Policies : /\ frozen' = [frozen EXCEPT ![p] = Workloads[p]]
                      /\ phase' = [phase EXCEPT ![p] = "Frozen"]
ScaleStep ==
  /\ pc = "scale" /\ UNCHANGED <<phase, wp, total>> /\ resumed' = resumed + 1
  /\ \/ frozen[wp] > 0 /\ frozen' = [frozen EXCEPT ![wp] = @ - 1]
     \/ frozen[wp] < total - resumed /\ UNCHANGED frozen

\* What it may do to the resume that is under way.
CourseStep ==
  \/ pc' = "idle"
  \/ UNCHANGED <<wp, total, resumed>> /\ (pc = "idle" <=> pc' = "idle")
  \/ \E p \in Policies : wp' = p /\ resumed' = 0 /\ (total' = Workloads[p] \/ total' = frozen[p])

\* Every step of the specification is one of these.
LEMMA NextResumedStep ==
  ResumedInv /\ [Next]_vars => (ReportStep /\ CourseStep) \/ (FreezeStep /\ pc' = "idle") \/ ScaleStep
<1> SUFFICES ASSUME ResumedInv, [Next]_vars
             PROVE  (ReportStep /\ CourseStep) \/ (FreezeStep /\ pc' = "idle") \/ ScaleStep
  OBVIOUS
<1>0. LoopOK /\ frozen \in [Policies -> Nat] /\ (pc # "idle" => wp \in Policies)
  BY DEF ResumedInv, ThrottleInv, ApiOK, LoopOK
<1> USE DEF CourseStep
<1>1. ASSUME UNCHANGED frozen, NEW p \in Policies, NEW x \in Phases, phase' = [phase EXCEPT ![p] = x],
             x = "Resumed" => frozen[p] = 0
      PROVE  ReportStep
  BY <1>1 DEF ReportStep
<1>2. ASSUME UNCHANGED <<frozen, phase>> PROVE ReportStep
  BY <1>2 DEF ReportStep
<1>3. ASSUME NEW p \in Policies, StartStartupResume(p) PROVE ReportStep /\ CourseStep
  BY <1>2, <1>3 DEF StartStartupResume, Enter
<1>4. ASSUME NEW p \in Policies, StartResumeCommand(p) PROVE ReportStep /\ CourseStep
  <2>1. ReportStep
    BY <1>1, <1>4 DEF StartResumeCommand, Phases
  <2>2. pc = "idle" /\ (Idle \/ Enter(p, FALSE))
    BY <1>4 DEF StartResumeCommand, Begin
  <2>3. CourseStep
    BY <2>2 DEF Idle, Enter
  <2> QED BY <2>1, <2>3
<1>5. ASSUME NEW p \in Policies, FreezeCommand(p) PROVE FreezeStep /\ pc' = "idle"
  BY <1>5 DEF FreezeCommand, FreezeStep, Begin, Idle
<1>6. ASSUME NEW p \in Policies, SkipHandled(p) PROVE ReportStep /\ CourseStep
  BY <1>2, <1>6 DEF SkipHandled, Begin, Idle
<1>7. ASSUME NEW p \in Policies, NEW a \in Actions, Command(p, a) PROVE ReportStep /\ CourseStep
  BY <1>2, <1>7 DEF Command, loopVars, batchVars
<1>8. ASSUME NEW l, Goto(l), l # "idle", pc # "idle" PROVE ReportStep /\ CourseStep
  BY <1>2, <1>8 DEF Goto, NoWrite, statusVars, loopVars, batchVars
<1>9. ASSUME GiveUp, pc # "idle" PROVE ReportStep /\ CourseStep
  <2>1. CourseStep
    BY <1>9 DEF GiveUp, Leave
  <2>2. UNCHANGED frozen /\ (phase' = phase \/ phase' = [phase EXCEPT ![wp] = "Failed"])
    BY <1>9 DEF GiveUp
  <2>3. ReportStep
    BY <1>0, <1>1, <1>2, <1>9, <2>2 DEF Phases
  <2> QED BY <2>1, <2>3
<1>10. CASE Head \/ NextWorkload
  <2>1. PICK l \in {"collect", "scale"} : pc # "idle" /\ (CheckOverride(l) \/ MissOverride(l))
    BY <1>10 DEF Head, NextWorkload
  <2>2. CASE Abort
    BY <1>2, <2>2 DEF Abort, Leave, statusVars
  <2> QED BY <1>8, <2>1, <2>2 DEF CheckOverride, MissOverride
<1>11. CASE Wait \/ BatchDone \/ Sleep
  BY <1>8, <1>11 DEF Wait, BatchDone, Sleep
<1>12. CASE WaitEnds \/ ScaleFails
  BY <1>9, <1>12 DEF WaitEnds, ScaleFails
<1>13. CASE Scale
  BY <1>13 DEF Scale, ScaleStep, loopVars
<1>14. CASE EndResume
  <2>1. /\ UNCHANGED frozen /\ phase' = [phase EXCEPT ![wp] = "Resumed"] /\ wp \in Policies
        /\ pc # "idle" /\ resumed = total /\ pc' = "idle"
    BY <1>0, <1>14 DEF EndResume, Leave
  <2>2. total \in Nat /\ frozen[wp] \in Nat /\ frozen[wp] <= total - resumed
    BY <1>0, <2>1 DEF ResumedInv, Covered, LoopOK
  <2>3. frozen[wp] = 0
    BY <2>1, <2>2
  <2> QED BY <1>1, <2>1, <2>3 DEF Phases
<1>15. ASSUME pc # "idle", pc' # "idle", Report, UNCHANGED <<loopVars, resumed>>
       PROVE  ReportStep /\ CourseStep
  BY <1>0, <1>1, <1>15 DEF Report, loopVars, Phases
<1>16. ASSUME NEW c \in Clusters, Collect(c) PROVE ReportStep /\ CourseStep
  BY <1>15, <1>16 DEF Collect, BeginBatch, batchVars
<1>17. ASSUME NEW c \in Clusters, NEW f \in 1..6, CollectFails(c, f) PROVE ReportStep /\ CourseStep
  BY <1>9, <1>15, <1>17 DEF CollectFails, BeginBatch
<1>18. ASSUME NEW c \in Clusters, NEW f \in 1..6, CheckAgain(c, f) PROVE ReportStep /\ CourseStep
  BY <1>8, <1>9, <1>18 DEF CheckAgain
<1>19. CASE Tick \/ UNCHANGED vars
  BY <1>2, <1>19 DEF Tick, vars, apiVars, loopVars, batchVars
<1> QED BY <1>3, <1>4, <1>5, <1>6, <1>7, <1>10, <1>11, <1>12, <1>13, <1>14, <1>16, <1>17, <1>18, <1>19
        DEF Next, Loop

\* Every one of them keeps the invariant.
LEMMA ResumedInvKept == ResumedInv /\ [Next]_vars => ResumedInv'
<1> SUFFICES ASSUME ResumedInv, [Next]_vars PROVE ResumedInv'
  OBVIOUS
<1>0. ThrottleInv /\ ThrottleInv' /\ FrozenOK /\ Covered /\ ResumedMeansAll
  BY ThrottleInvStep DEF ResumedInv
<1>1. /\ frozen \in [Policies -> Nat] /\ phase \in [Policies -> Phases]
      /\ total \in Nat /\ resumed \in Nat /\ (pc # "idle" => wp \in Policies)
  BY <1>0 DEF ThrottleInv, ApiOK, LoopOK
<1>2. \A p \in Policies : Workloads[p] \in Nat
  BY ThrottlingAssumption
<1>3. CASE ReportStep /\ CourseStep
  <2>1. FrozenOK' /\ ResumedMeansAll'
    BY <1>0, <1>1, <1>3 DEF ReportStep, FrozenOK, ResumedMeansAll
  <2>2. UNCHANGED frozen
    BY <1>3 DEF ReportStep
  <2>3. Covered'
    BY <1>0, <1>1, <1>2, <1>3, <2>2 DEF CourseStep, Covered, FrozenOK
  <2> QED BY <1>0, <2>1, <2>3 DEF ResumedInv
<1>4. CASE FreezeStep /\ pc' = "idle"
  <2>1. FrozenOK' /\ ResumedMeansAll'
    BY <1>0, <1>1, <1>2, <1>4 DEF FreezeStep, FrozenOK, ResumedMeansAll
  <2> QED BY <1>0, <1>4, <2>1 DEF ResumedInv, Covered
<1>5. CASE ScaleStep
  <2>1. wp \in Policies /\ frozen[wp] <= total - resumed /\ UNCHANGED <<phase, wp, total>>
    BY <1>0, <1>1, <1>5 DEF ScaleStep, Covered
  <2>2. /\ \A p \in Policies : frozen'[p] <= frozen[p]
        /\ frozen' \in [Policies -> Nat] /\ frozen'[wp] <= total - (resumed + 1)
    BY <1>1, <1>5, <2>1 DEF ScaleStep
  <2>3. FrozenOK' /\ ResumedMeansAll'
    BY <1>0, <1>1, <1>2, <2>1, <2>2 DEF FrozenOK, ResumedMeansAll
  <2>4. Covered'
    BY <1>5, <2>1, <2>2 DEF ScaleStep, Covered
  <2> QED BY <1>0, <2>3, <2>4 DEF ResumedInv
<1> QED BY <1>3, <1>4, <1>5, NextResumedStep

\* A policy is reported as Resumed only when none of its workloads is at zero,
\* whatever failed, was aborted or was retried on the way (the caller of
\* resumeWithAdaptiveThrottling writes the phase).
THEOREM ResumedIsTrue == Spec => []ResumedMeansAll
<1>1. Init => ResumedInv
  <2> SUFFICES ASSUME Init PROVE ResumedInv
    OBVIOUS
  <2>1. \A p \in Policies : Workloads[p] \in Nat
    BY ThrottlingAssumption
  <2>2. FrozenOK /\ Covered /\ ResumedMeansAll
    BY <2>1 DEF Init, FrozenOK, Covered, ResumedMeansAll
  <2> QED BY <2>2, ThrottleInit DEF ResumedInv
<1>2. ResumedInv => ResumedMeansAll
  BY DEF ResumedInv
<1> QED BY <1>1, <1>2, ResumedInvKept, PTL DEF Spec
-----------------------------------------------------------------------------
(***************************************************************************)
(* EachBatchMeasured.                                                      *)
(***************************************************************************)
\* The pause after the batch under way is at least batchInterval.
WaitsOut == pc \in {"batch", "scale", "sleep"} => wait >= Interval(wp)

\* Between the pause and the next batch the shared measurement is out of date, if
\* workloads came up since it was made.  After the last batch there is no pause.
Expired ==
  (/\ since /\ pc \in {"head", "collect", "wait", "check"} /\ ~(pc = "head" /\ resumed = total)
   /\ Interval(wp) >= cache.ttl)
    => cache.age >= cache.ttl

\* The inductive invariant behind EachBatchMeasured.
MeasuredInv == ThrottleInv /\ WaitsOut /\ Expired /\ EachBatchMeasured

\* A collection of signals leaves nothing stale that could have been measured anew.
LEMMA CollectionMeasures ==
  ASSUME ThrottleInv, Expired, pc \in {"collect", "check"}, wp' = wp,
         NEW c, NEW f \in 1..6, cache' = CacheAfter(wp, c, f), Measure(f)
  PROVE  /\ EachBatchMeasured'
         /\ since' /\ Interval(wp) >= cache'.ttl => cache'.age >= cache'.ttl
<1>1. wp \in Policies /\ CacheOK
  BY DEF ThrottleInv, LoopOK
<1>2. Interval(wp)' = Interval(wp)
  BY DEF Interval
<1>3. Interval(wp) \in Nat /\ cache.age \in Nat /\ cache.ttl \in Nat
  BY <1>1, IntervalsOK DEF CacheOK, CacheType
<1>4. /\ CacheOK'
      /\ ~Scrapes(wp, f) => cache' = cache \/ cache'.age = cache'.ttl
      /\ ~Scrapes(wp, f) /\ Hit => cache' = cache
  BY <1>1, CollectedOK
<1>5. cache'.age \in Nat /\ cache'.ttl \in Nat
  BY <1>4 DEF CacheOK, CacheType
<1>6. CASE Scrapes(wp, f)
  <2>1. ~since' /\ ~stale'
    BY <1>6 DEF Measure
  <2> QED BY <2>1 DEF EachBatchMeasured
<1>7. CASE ~Scrapes(wp, f)
  <2>1. ASSUME stale', Interval(wp) >= cache'.ttl PROVE FALSE
    <3>1. since /\ f = 6 /\ ChecksUsage(wp, f)
      BY <2>1 DEF Measure
    <3>2. Hit
      BY <1>7, <3>1 DEF Scrapes
    <3>3. cache' = cache
      BY <1>4, <1>7, <3>2
    <3>4. cache.age >= cache.ttl
      BY <2>1, <3>1, <3>3 DEF Expired
    <3> QED BY <1>3, <3>2, <3>4 DEF Hit
  <2>2. EachBatchMeasured'
    BY <1>2, <2>1 DEF EachBatchMeasured
  <2>3. since' => since
    BY DEF Measure
  <2>4. CASE cache' = cache
    BY <2>2, <2>3, <2>4 DEF Expired
  <2>5. CASE cache'.age = cache'.ttl
    BY <1>5, <2>2, <2>5
  <2> QED BY <1>4, <1>7, <2>2, <2>4, <2>5
<1> QED BY <1>6, <1>7

\* A step that measures nothing and resumes nothing: time may pass for the cache.
LEMMA QuietStep ==
  ASSUME MeasuredInv, UNCHANGED <<wp, wait, since, stale, total, resumed>>, pc # "idle",
         NEW d \in Nat, cache' = cache \/ cache' = Aged(d)
  PROVE  /\ EachBatchMeasured' /\ Interval(wp)' = Interval(wp)
         /\ cache'.ttl = cache.ttl /\ cache'.age >= cache.age /\ cache'.age \in Nat
         /\ cache' = Aged(d) /\ d >= cache.ttl => cache'.age = cache.ttl
<1>1. CacheOK /\ EachBatchMeasured
  BY DEF MeasuredInv, ThrottleInv
<1>2. Interval(wp)' = Interval(wp)
  BY DEF Interval
<1>3. CacheOK' /\ cache'.ttl = cache.ttl /\ cache'.age >= cache.age
      /\ (cache' = Aged(d) /\ d >= cache.ttl => cache'.age = cache.ttl)
  <2>1. CASE cache' = cache
    BY <1>1, <2>1 DEF CacheOK, CacheType, Aged, Least
  <2>2. CASE cache' = Aged(d)
    BY <1>1, <2>2, AgedOK
  <2> QED BY <2>1, <2>2
<1>4. EachBatchMeasured'
  BY <1>1, <1>2, <1>3 DEF EachBatchMeasured
<1> QED BY <1>2, <1>3, <1>4 DEF CacheOK, CacheType

\* Every step keeps the invariant.
LEMMA MeasuredInvKept == MeasuredInv /\ [Next]_vars => MeasuredInv'
<1> SUFFICES ASSUME MeasuredInv, [Next]_vars PROVE WaitsOut' /\ Expired' /\ EachBatchMeasured'
  BY ThrottleInvStep DEF MeasuredInv
<1> DEFINE Goal == WaitsOut' /\ Expired' /\ EachBatchMeasured'
<1>0. ThrottleInv /\ ThrottleInv' /\ WaitsOut /\ Expired /\ EachBatchMeasured
  BY ThrottleInvStep DEF MeasuredInv
<1>1. /\ CacheOK /\ LoopOK /\ cache.age \in Nat /\ cache.ttl \in Nat
      /\ pc # "idle" => wp \in Policies /\ Interval(wp) \in Nat /\ WaitTick(wp) \in Nat
  BY <1>0, IntervalsOK DEF ThrottleInv, CacheOK, CacheType, LoopOK
<1>2. ASSUME pc' = "idle" PROVE Goal
  BY <1>2 DEF WaitsOut, Expired, EachBatchMeasured
<1>3. ASSUME NEW p, NEW b, Enter(p, b) PROVE Goal
  BY <1>3 DEF Enter, WaitsOut, Expired, EachBatchMeasured
<1>4. ASSUME NEW p \in Policies, StartStartupResume(p) PROVE Goal
  BY <1>3, <1>4 DEF StartStartupResume
<1>5. ASSUME NEW p \in Policies, StartResumeCommand(p) PROVE Goal
  BY <1>2, <1>3, <1>5 DEF StartResumeCommand, Begin, Idle
<1>6. ASSUME NEW p \in Policies, FreezeCommand(p) \/ SkipHandled(p) PROVE Goal
  BY <1>2, <1>6 DEF FreezeCommand, SkipHandled, Begin, Idle
\* The steps that stay where they are.
<1>7. ASSUME UNCHANGED <<pc, wp, wait, since, stale, total, resumed>>, pc # "idle",
             NEW d \in Nat, cache' = cache \/ cache' = Aged(d)
      PROVE  Goal
  <2>1. /\ EachBatchMeasured' /\ Interval(wp)' = Interval(wp)
        /\ cache'.ttl = cache.ttl /\ cache'.age >= cache.age /\ cache'.age \in Nat
    BY <1>7, QuietStep
  <2>2. WaitsOut'
    BY <1>0, <1>7, <2>1 DEF WaitsOut
  <2>3. Expired'
    BY <1>0, <1>1, <1>7, <2>1 DEF Expired
  <2> QED BY <2>1, <2>2, <2>3
<1>8. ASSUME NEW p \in Policies, NEW a \in Actions, Command(p, a) PROVE Goal
  <2>1. UNCHANGED <<cache, pc, wp, wait, since, stale, total, resumed>>
    BY <1>8 DEF Command, loopVars, batchVars, history
  <2> QED BY <1>2, <1>7, <2>1
<1>9. CASE Tick
  <2>1. UNCHANGED <<pc, wp, wait, since, stale, total, resumed>> /\ cache' = Aged(2)
    BY <1>9 DEF Tick, HalfSeconds, loopVars, batchVars, history
  <2> QED BY <1>2, <1>7, <2>1
<1>10. CASE UNCHANGED vars
  <2>1. UNCHANGED <<cache, pc, wp, wait, since, stale, total, resumed>>
    BY <1>10 DEF vars, loopVars, batchVars, history
  <2> QED BY <1>2, <1>7, <2>1
\* The steps that go on without a measurement.
<1>11. ASSUME NEW l \in {"collect", "scale"}, CheckOverride(l) \/ MissOverride(l)
       PROVE  pc' = "idle" \/ (pc' = l /\ UNCHANGED <<cache, wp, wait, since, stale, total, resumed>>)
  BY <1>11 DEF CheckOverride, MissOverride, Abort, Leave, Goto, loopVars, batchVars, history
<1>12. CASE Head
  <2>1. pc' = "idle" \/ (pc' = "collect" /\ UNCHANGED <<cache, wp, wait, since, stale, total, resumed>>)
    BY <1>11, <1>12 DEF Head
  <2>2. CASE pc' = "collect" /\ UNCHANGED <<cache, wp, wait, since, stale, total, resumed>>
    <3>1. pc = "head" /\ ~(resumed = total)
      BY <1>1, <1>12 DEF Head, LoopOK
    <3>2. EachBatchMeasured' /\ Interval(wp)' = Interval(wp)
      BY <2>2, <3>1, QuietStep, 0 \in Nat
    <3>3. WaitsOut' /\ Expired'
      BY <1>0, <2>2, <3>1, <3>2 DEF WaitsOut, Expired
    <3> QED BY <3>2, <3>3
  <2> QED BY <1>2, <2>1, <2>2
<1>13. CASE NextWorkload
  <2>1. pc' = "idle" \/ (pc' = "scale" /\ UNCHANGED <<cache, wp, wait, since, stale, total, resumed>>)
    BY <1>11, <1>13 DEF NextWorkload
  <2>2. CASE pc' = "scale" /\ UNCHANGED <<cache, wp, wait, since, stale, total, resumed>>
    <3>1. pc = "batch"
      BY <1>13 DEF NextWorkload
    <3>2. EachBatchMeasured' /\ Interval(wp)' = Interval(wp)
      BY <2>2, <3>1, QuietStep, 0 \in Nat
    <3>3. WaitsOut' /\ Expired'
      BY <1>0, <2>2, <3>1, <3>2 DEF WaitsOut, Expired
    <3> QED BY <3>2, <3>3
  <2> QED BY <1>2, <2>1, <2>2
<1>14. CASE Wait
  <2>1. /\ pc = "wait" /\ pc' = "check" /\ cache' = Aged(WaitTick(wp))
        /\ UNCHANGED <<wp, wait, since, stale, total, resumed>>
    BY <1>14 DEF Wait, Goto, loopVars, batchVars, history
  <2>2. /\ EachBatchMeasured' /\ Interval(wp)' = Interval(wp)
        /\ cache'.ttl = cache.ttl /\ cache'.age >= cache.age /\ cache'.age \in Nat
    BY <1>1, <2>1, QuietStep
  <2>3. WaitsOut' /\ Expired'
    BY <1>0, <1>1, <2>1, <2>2 DEF WaitsOut, Expired
  <2> QED BY <2>2, <2>3
<1>15. CASE BatchDone
  <2>1. /\ pc = "batch" /\ pc' \in {"sleep", "head"} /\ (pc' = "head" => ~(resumed < total))
        /\ UNCHANGED <<cache, wp, wait, since, stale, total, resumed>>
    BY <1>15 DEF BatchDone, Goto, loopVars, batchVars, history
  <2>2. pc' = "head" => resumed' = total'
    BY <1>1, <2>1 DEF LoopOK
  <2>3. EachBatchMeasured' /\ Interval(wp)' = Interval(wp)
    BY <2>1, QuietStep, 0 \in Nat
  <2>4. WaitsOut' /\ Expired'
    BY <1>0, <2>1, <2>2, <2>3 DEF WaitsOut, Expired
  <2> QED BY <2>3, <2>4
<1>16. CASE Sleep
  <2>1. /\ pc = "sleep" /\ pc' = "head" /\ cache' = Aged(wait) /\ wait \in Nat
        /\ UNCHANGED <<wp, wait, since, stale, total, resumed>>
    BY <1>1, <1>16 DEF Sleep, Goto, loopVars, batchVars, history, LoopOK
  <2>2. /\ EachBatchMeasured' /\ Interval(wp)' = Interval(wp) /\ cache'.ttl = cache.ttl
        /\ wait >= cache.ttl => cache'.age = cache.ttl
    BY <2>1, QuietStep
  <2>3. wait >= Interval(wp)
    BY <1>0, <2>1 DEF WaitsOut
  <2>4. Interval(wp) >= cache.ttl => cache'.age = cache.ttl
    BY <1>1, <2>1, <2>2, <2>3
  <2>5. WaitsOut' /\ Expired'
    BY <1>1, <2>1, <2>2, <2>4 DEF WaitsOut, Expired
  <2> QED BY <2>2, <2>5
<1>17. CASE Scale
  <2>1. pc = "scale" /\ pc' = "batch" /\ UNCHANGED <<cache, wp, wait, stale>>
    BY <1>17 DEF Scale, loopVars
  <2>2. Interval(wp)' = Interval(wp)
    BY <2>1 DEF Interval
  <2> QED BY <1>0, <2>1, <2>2 DEF WaitsOut, Expired, EachBatchMeasured
<1>18. CASE WaitEnds \/ ScaleFails \/ EndResume
  BY <1>2, <1>18 DEF WaitEnds, ScaleFails, EndResume, GiveUp, Leave
\* The steps that measure.
<1>19. ASSUME NEW c, NEW f \in 1..6, pc \in {"collect", "check"}, cache' = CacheAfter(wp, c, f), Measure(f),
              NEW sig, BeginBatch(sig)
       PROVE  Goal
  <2>1. pc' = "batch" /\ wp' = wp
    BY <1>19 DEF BeginBatch, loopVars
  <2>2. Interval(wp)' = Interval(wp)
    BY <2>1 DEF Interval
  <2>3. wait' >= Interval(wp)
    BY <1>1, <1>19, WaitIsLong DEF BeginBatch
  <2>4. EachBatchMeasured'
    BY <1>0, <1>19, <2>1, CollectionMeasures
  <2> QED BY <2>1, <2>2, <2>3, <2>4 DEF WaitsOut, Expired
<1>20. ASSUME NEW c, NEW f \in 1..6, pc \in {"collect", "check"}, cache' = CacheAfter(wp, c, f), Measure(f),
              pc' \in {"wait", "head"}, UNCHANGED wp
       PROVE  Goal
  <2>1. Interval(wp)' = Interval(wp)
    BY <1>20 DEF Interval
  <2>2. /\ EachBatchMeasured'
        /\ since' /\ Interval(wp) >= cache'.ttl => cache'.age >= cache'.ttl
    BY <1>0, <1>20, CollectionMeasures
  <2> QED BY <1>20, <2>1, <2>2 DEF WaitsOut, Expired
<1>21. ASSUME NEW c \in Clusters, Collect(c) PROVE Goal
  <2>1. /\ pc = "collect" /\ cache' = CacheAfter(wp, c, 6) /\ Measure(6)
        /\ (pc' = "wait" /\ UNCHANGED loopVars) \/ BeginBatch(CollectSignals(wp, c))
    BY <1>21 DEF Collect
  <2>2. CASE pc' = "wait" /\ UNCHANGED loopVars
    BY <1>20, <2>1, <2>2 DEF loopVars
  <2>3. CASE BeginBatch(CollectSignals(wp, c))
    BY <1>19, <2>1, <2>3
  <2> QED BY <2>1, <2>2, <2>3
<1>22. ASSUME NEW c \in Clusters, NEW f \in 1..6, CollectFails(c, f) PROVE Goal
  <2>1. CASE GiveUp
    BY <1>2, <2>1 DEF GiveUp, Leave
  <2>2. CASE BeginBatch({}) /\ Measure(f)
    BY <1>19, <1>22, <2>2 DEF CollectFails
  <2> QED BY <1>22, <2>1, <2>2 DEF CollectFails
<1>23. ASSUME NEW c \in Clusters, NEW f \in 1..6, CheckAgain(c, f) PROVE Goal
  <2>1. CASE GiveUp
    BY <1>2, <2>1 DEF GiveUp, Leave
  <2>2. CASE \E l \in {"wait", "head"} : Goto(l) /\ Measure(f)
    BY <1>20, <1>23, <2>2 DEF CheckAgain, Goto, loopVars
  <2> QED BY <1>23, <2>1, <2>2 DEF CheckAgain
<1> QED
  BY <1>4, <1>5, <1>6, <1>8, <1>9, <1>10, <1>12, <1>13, <1>14, <1>15, <1>16, <1>17, <1>18, <1>21, <1>22, <1>23
     DEF Next, Loop

\* A batch never relies on a usage signal measured before the workloads of the
\* batch before it came up, for every policy whose batchInterval is at least the
\* time to live of the cache it shares with the others (nodeMetricsCache).
THEOREM BatchesAreMeasured == Spec => []EachBatchMeasured
<1>1. Init => MeasuredInv
  <2> SUFFICES ASSUME Init PROVE MeasuredInv
    OBVIOUS
  <2>1. WaitsOut /\ Expired /\ EachBatchMeasured
    BY DEF Init, WaitsOut, Expired, EachBatchMeasured
  <2> QED BY <2>1, ThrottleInit DEF MeasuredInv
<1>2. MeasuredInv => EachBatchMeasured
  BY DEF MeasuredInv
<1> QED BY <1>1, <1>2, MeasuredInvKept, PTL DEF Spec
=============================================================================
