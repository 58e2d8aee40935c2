------------------------- MODULE AdaptiveThrottling -------------------------
(***************************************************************************)
(* A throttled resume: resumeWithAdaptiveThrottling as the single worker   *)
(* runs it, for a pending startup resume and for a Resume command, beside  *)
(* the users who give new commands.  PolicyReconciler has the stages       *)
(* before it and WorkloadScaling the single workload; here workloads are   *)
(* interchangeable and a namespace is the number of those still at zero.   *)
(***************************************************************************)
EXTENDS SignalCollection

CONSTANTS
  NoPolicy,    \* not a policy
  Workloads,   \* Workloads[p]: how many workloads p's namespace has
  Commanded,   \* the policies to which users give commands
  MaxOps,      \* bound on the operationIds a user gives to one policy
  MaxErrors,   \* bound on the calls that fail to scale a workload
  MaxMisses    \* bound on the reads that do not show a newer command

ASSUME ThrottlingAssumption ==
  /\ NoPolicy \notin Policies
  /\ Workloads \in [Policies -> Nat] /\ Commanded \subseteq Policies
  /\ MaxOps \in Nat \ {0} /\ MaxErrors \in Nat /\ MaxMisses \in Nat

Actions == {"Freeze", "Resume"}
Phases  == {"Idle", "Resuming", "Resumed", "Frozen", "Failed"}
OpIds   == 0..MaxOps

VARIABLES
  op, action,          \* spec.operationId (0: empty) and spec.action
  phase, last, pr,     \* status: phase, lastHandledOperationId, pendingStartupResume
  frozen,              \* frozen[p]: how many workloads are at zero
  queue,               \* the workqueue
  pc, wp,              \* the worker: where it is, whose resume it is
  startup,             \* isStartupOperation
  copyOp,              \* spec.operationId as read when the reconcile began
  total, resumed,      \* totalWorkloads, resumedCount
  batch, todo,         \* currentBatchSize, and what is left of the batch
  wait,                \* the duration to sleep after the batch
  elapsed,             \* the time since the resume began, up to maxWait
  errors,              \* calls that failed so far
  late, misses,        \* history: workloads resumed, reads failed after a newer command
  since, stale         \* history: workloads resumed since the last scrape; a batch sized before them

apiVars    == <<op, action, phase, last, pr, frozen>>
statusVars == <<phase, last, pr, frozen>>
loopVars   == <<wp, startup, copyOp, total>>
batchVars  == <<resumed, batch, todo, wait>>
history    == <<late, misses, since, stale>>
vars == <<cache, apiVars, queue, pc, loopVars, batchVars, elapsed, errors, history>>

Pcs == {"idle", "head", "collect", "wait", "check", "batch", "scale", "sleep"}

Initial(p)  == OrDefault(Throttling[p].initial, 3)
MinBatch(p) == OrDefault(Throttling[p].min, 1)
WaitTick(p) == HalfSeconds(OrDefault(Throttling[p].waitInterval, 20))
MaxWait(p)  == HalfSeconds(OrDefault(Throttling[p].maxWait, 1800))
-----------------------------------------------------------------------------
(***************************************************************************)
(* Batch sizes and waits.                                                  *)
(***************************************************************************)
DefaultSlowdown == [s \in Slowing |-> CASE s = "NodePressure" -> 50
                                        [] s = "NodeUsage" -> 60
                                        [] s = "ContainerRestarts" -> 50
                                        [] s = "PendingPods" -> 70]

\* Mutant: the minimum is not enforced.
SlowedUnbounded(p, s, size) ==
  (size * OrDefault(Throttling[p].slowdown[s], DefaultSlowdown[s])) \div 100

Slowed(p, s, size) ==
  LET n == (size * OrDefault(Throttling[p].slowdown[s], DefaultSlowdown[s])) \div 100
  IN IF n < MinBatch(p) THEN MinBatch(p) ELSE n

\* calculateBatchSize: the first of these signals that is present decides, the
\* last one on the current size instead of the initial one.
BatchSize(p, sig, current) ==
  CASE "NodePressure" \in sig -> Slowed(p, "NodePressure", Initial(p))
    [] "NodePressure" \notin sig /\ "NodeUsage" \in sig -> Slowed(p, "NodeUsage", Initial(p))
    [] sig \cap {"NodePressure", "NodeUsage"} = {} /\ "ContainerRestarts" \in sig
         -> Slowed(p, "ContainerRestarts", Initial(p))
    [] sig = {"PendingPods"} -> Slowed(p, "PendingPods", current)
    [] OTHER -> IF current < Initial(p) THEN current + 1 ELSE current

WaitDuration(p, sig) ==
  LET d1 == IF "NodePressure" \in sig THEN 2 * Interval(p) ELSE Interval(p)
      d2 == IF "PendingPods" \in sig THEN (3 * d1) \div 2 ELSE d1
  IN IF "ContainerRestarts" \in sig THEN 2 * d2 ELSE d2
-----------------------------------------------------------------------------
(***************************************************************************)
(* The reconcile around the loop.                                          *)
(***************************************************************************)
Idle == UNCHANGED <<pc, loopVars, batchVars, elapsed, errors, history>>

\* The loop's variables on entry.  A startup resume goes through all workloads, a
\* command through those that filterWorkloadsRequiringResume leaves.
Enter(p, isStartup) ==
  /\ pc' = "head" /\ wp' = p /\ startup' = isStartup
  /\ copyOp' = op[p]
  /\ total' = (IF isStartup THEN Workloads[p] ELSE frozen[p]) /\ resumed' = 0 /\ batch' = Initial(p) /\ todo' = 0 /\ wait' = 0
  /\ elapsed' = 0 /\ late' = 0 /\ misses' = 0 /\ since' = FALSE /\ stale' = FALSE
  /\ UNCHANGED errors

CommandPending(p) == op[p] # 0 /\ last[p] # op[p]

Begin(p) == pc = "idle" /\ p \in queue /\ queue' = queue \ {p} /\ UNCHANGED <<cache, op, action>>

StartStartupResume(p) ==
  /\ Begin(p) /\ pr[p] /\ ~CommandPending(p)
  /\ Enter(p, TRUE)
  /\ UNCHANGED <<phase, last, pr, frozen>>

\* A command cancels the pending startup resume and is recorded before it runs.
StartResumeCommand(p) ==
  /\ Begin(p) /\ CommandPending(p) /\ action[p] = "Resume"
  /\ pr' = [pr EXCEPT ![p] = FALSE] /\ last' = [last EXCEPT ![p] = op[p]]
  /\ phase' = [phase EXCEPT ![p] = IF frozen[p] = 0 THEN "Resumed" ELSE "Resuming"]
  /\ IF frozen[p] = 0 THEN Idle ELSE Enter(p, FALSE)
  /\ UNCHANGED frozen

FreezeCommand(p) ==
  /\ Begin(p) /\ CommandPending(p) /\ action[p] = "Freeze"
  /\ pr' = [pr EXCEPT ![p] = FALSE] /\ last' = [last EXCEPT ![p] = op[p]]
  /\ phase' = [phase EXCEPT ![p] = "Frozen"] /\ frozen' = [frozen EXCEPT ![p] = Workloads[p]]
  /\ Idle

SkipHandled(p) ==
  /\ Begin(p) /\ ~pr[p] /\ ~CommandPending(p)
  /\ Idle /\ UNCHANGED <<phase, last, pr, frozen>>

\* The worker's variables between two reconciles.
Leave ==
  /\ pc' = "idle" /\ wp' = NoPolicy /\ startup' = FALSE
  /\ copyOp' = 0 /\ total' = 0 /\ resumed' = 0 /\ batch' = 0 /\ todo' = 0 /\ wait' = 0 /\ elapsed' = 0
  /\ late' = 0 /\ misses' = 0 /\ since' = FALSE /\ stale' = FALSE

\* Mutant: an aborted resume acknowledges the command that aborted it.
AbortAcknowledging ==
  /\ Leave
  /\ last' = [last EXCEPT ![wp] = op[wp]]
  /\ UNCHANGED <<phase, pr, frozen, queue>>

\* "operation aborted due to manual override": nothing is requeued, the newer
\* command has put the policy in the workqueue.
Abort == Leave /\ UNCHANGED <<statusVars, queue>>

\* Any other error is retried; a manual resume is recorded as failed.
GiveUp ==
  /\ Leave
  /\ IF startup THEN UNCHANGED <<phase, last>>
     ELSE /\ phase' = [phase EXCEPT ![wp] = "Failed"]
          /\ last' = [last EXCEPT ![wp] = copyOp]
  /\ queue' = queue \cup {wp}
  /\ UNCHANGED <<pr, frozen>>

NoWrite == UNCHANGED <<statusVars, queue>>
Goto(l) == pc' = l /\ NoWrite /\ UNCHANGED <<loopVars, batchVars>>
-----------------------------------------------------------------------------
(***************************************************************************)
(* The loop.                                                               *)
(***************************************************************************)
\* checkManualOverride on the latest policy.
Overridden ==
  \/ /\ CommandPending(wp) /\ ~(startup /\ last[wp] = 0)
     /\ op[wp] # copyOp
  \/ ~startup /\ action[wp] = "Freeze"

\* Mutant: inside a batch the override is not looked for.
CheckOverrideOncePerBatch(next) ==
  /\ IF pc = "head" /\ Overridden THEN Abort ELSE Goto(next) /\ UNCHANGED <<elapsed, history>>
  /\ UNCHANGED <<cache, errors>>

CheckOverride(next) ==
  /\ IF Overridden THEN Abort ELSE Goto(next) /\ UNCHANGED <<elapsed, history>>
  /\ UNCHANGED <<cache, errors>>

\* The read fails or returns an object older than the command: the loop goes on.
MissOverride(next) ==
  /\ misses < MaxMisses /\ op[wp] # copyOp
  /\ misses' = misses + 1
  /\ Goto(next)
  /\ UNCHANGED <<cache, elapsed, errors, late, since, stale>>

Head ==
  /\ pc = "head" /\ resumed < total
  /\ CheckOverride("collect") \/ MissOverride("collect")

\* updateAdaptiveProgress.
Report ==
  /\ phase' = [phase EXCEPT ![wp] = "Resuming"]
  /\ UNCHANGED <<last, pr, frozen, queue>>

\* Mutant: the last batch is not cut to what is left.
BeginBatchUncut(sig) ==
  /\ pc' = "batch" /\ batch' = BatchSize(wp, sig, batch)
  /\ todo' = batch' /\ wait' = WaitDuration(wp, sig)
  /\ Report /\ UNCHANGED <<loopVars, resumed>>

\* A batch of the size the signals allow is begun.
BeginBatch(sig) ==
  /\ pc' = "batch" /\ batch' = BatchSize(wp, sig, batch)
  /\ todo' = Least(batch', total - resumed) /\ wait' = WaitDuration(wp, sig)
  /\ Report /\ UNCHANGED <<loopVars, resumed>>

\* The batch relies on a measurement made before the last workloads were resumed.
Measure(f) ==
  /\ since' = (since /\ ~Scrapes(wp, f))
  /\ stale' = (since /\ f = 6 /\ ChecksUsage(wp, f) /\ ~Scrapes(wp, f))

Collect(c) ==
  /\ pc = "collect"
  /\ cache' = CacheAfter(wp, c, 6) /\ Measure(6)
  /\ LET sig == CollectSignals(wp, c) IN
       IF "NodeNotReady" \in sig
         THEN pc' = "wait" /\ Report /\ UNCHANGED <<loopVars, batchVars>>
         ELSE BeginBatch(sig)
  /\ UNCHANGED <<elapsed, errors, late, misses>>

\* A check fails: the resume goes on without throttling, or fails.
CollectFails(c, f) ==
  /\ pc = "collect" /\ f \in EnabledChecks(wp)
  /\ cache' = CacheAfter(wp, c, f)
  /\ \/ Throttling[wp].fallback /\ BeginBatch({}) /\ Measure(f) /\ UNCHANGED <<elapsed, late, misses>>
     \/ ~Throttling[wp].fallback /\ GiveUp
  /\ UNCHANGED errors

Later(d) == Least(elapsed + d, MaxWait(wp))

\* waitForSignalClear: first the interval, then the checks, as long as the time
\* since the beginning of the resume is below the maximum.
Wait ==
  /\ pc = "wait" /\ elapsed < MaxWait(wp)
  /\ Goto("check")
  /\ cache' = Aged(WaitTick(wp)) /\ elapsed' = Later(WaitTick(wp))
  /\ UNCHANGED <<errors, history>>

WaitEnds ==
  /\ pc = "wait" /\ elapsed >= MaxWait(wp)
  /\ GiveUp
  /\ UNCHANGED <<cache, errors>>

\* Mutant: the time is counted from the beginning of each wait.
CheckAgainAnew(c, f) ==
  /\ pc = "check" /\ f = 6
  /\ cache' = CacheAfter(wp, c, f) /\ Measure(f)
  /\ IF "NodeNotReady" \in CollectSignals(wp, c)
       THEN Goto("wait") /\ UNCHANGED elapsed
       ELSE Goto("head") /\ elapsed' = 0
  /\ UNCHANGED <<errors, late, misses>>

CheckAgain(c, f) ==
  /\ pc = "check" /\ f \in EnabledChecks(wp) \cup {6}
  /\ cache' = CacheAfter(wp, c, f)
  /\ \/ /\ f = 6 \/ Throttling[wp].fallback
        /\ Goto(IF f = 6 /\ "NodeNotReady" \in CollectSignals(wp, c) THEN "wait" ELSE "head")
        /\ Measure(f) /\ UNCHANGED <<elapsed, late, misses>>
     \/ f # 6 /\ ~Throttling[wp].fallback /\ GiveUp
  /\ UNCHANGED errors

NextWorkload ==
  /\ pc = "batch" /\ todo > 0
  /\ CheckOverride("scale") \/ MissOverride("scale")

\* The next workload may be up already, if enough of the others are at zero.
Scale ==
  /\ pc = "scale" /\ pc' = "batch"
  /\ resumed' = resumed + 1 /\ todo' = todo - 1
  /\ \/ /\ frozen[wp] > 0
        /\ frozen' = [frozen EXCEPT ![wp] = @ - 1]
        /\ late' = IF op[wp] # copyOp THEN late + 1 ELSE late
        /\ since' = TRUE
     \/ frozen[wp] < total - resumed /\ UNCHANGED <<frozen, late, since>>
  /\ UNCHANGED <<cache, phase, last, pr, queue, loopVars, batch, wait, elapsed, errors,
                 misses, stale>>

\* Mutant: a workload that cannot be resumed is passed over.
ScaleFailsSilently ==
  /\ pc = "scale" /\ errors < MaxErrors /\ errors' = errors + 1
  /\ pc' = "batch" /\ resumed' = resumed + 1 /\ todo' = todo - 1
  /\ NoWrite /\ UNCHANGED <<cache, loopVars, batch, wait, elapsed, history>>

ScaleFails ==
  /\ pc = "scale" /\ errors < MaxErrors /\ errors' = errors + 1
  /\ GiveUp
  /\ UNCHANGED cache

BatchDone ==
  /\ pc = "batch" /\ todo = 0
  /\ Goto(IF resumed < total THEN "sleep" ELSE "head")
  /\ UNCHANGED <<cache, elapsed, errors, history>>

Sleep ==
  /\ pc = "sleep" /\ Goto("head")
  /\ cache' = Aged(wait) /\ elapsed' = Later(wait)
  /\ UNCHANGED <<errors, history>>

\* The caller's write.  The progress that the loop reports is read by nobody and
\* left out.
EndResume ==
  /\ pc = "head" /\ resumed = total
  /\ phase' = [phase EXCEPT ![wp] = "Resumed"]
  /\ IF startup
       THEN pr' = [pr EXCEPT ![wp] = FALSE] /\ UNCHANGED last
       ELSE last' = [last EXCEPT ![wp] = copyOp] /\ UNCHANGED pr
  /\ Leave
  /\ UNCHANGED <<cache, frozen, queue, errors>>

Loop ==
  /\ \/ Head \/ Wait \/ WaitEnds \/ NextWorkload \/ Scale \/ ScaleFails \/ BatchDone \/ Sleep
     \/ EndResume
     \/ \E c \in Clusters : \/ Collect(c)
                            \/ \E f \in 1..6 : CollectFails(c, f) \/ CheckAgain(c, f)
  /\ UNCHANGED <<op, action>>
-----------------------------------------------------------------------------
\* A user gives a command.
Command(p, a) ==
  /\ p \in Commanded /\ op[p] < MaxOps
  /\ op' = [op EXCEPT ![p] = @ + 1] /\ action' = [action EXCEPT ![p] = a]
  /\ queue' = queue \cup {p}
  /\ UNCHANGED <<cache, phase, last, pr, frozen, pc, loopVars, batchVars, elapsed, errors,
                 history>>

\* A second passes between two reconciles or while the calls of the loop take
\* their time; the clocks are read only in what follows collect.
Tick ==
  /\ pc \in {"idle", "collect"}
  /\ cache' = Aged(HalfSeconds(1))
  /\ elapsed' = IF pc = "idle" THEN elapsed ELSE Later(HalfSeconds(1))
  /\ UNCHANGED <<apiVars, queue, pc, loopVars, batchVars, errors, history>>

\* Startup has flagged every policy; an operationId given before was a Freeze, and
\* is recorded as handled.
Init ==
  /\ cache = EmptyCache
  /\ op \in [Policies -> {0, 1}] /\ last = op
  /\ action = [p \in Policies |-> IF op[p] = 0 THEN "Resume" ELSE "Freeze"]
  /\ \A p \in Policies \ Commanded : op[p] = 0
  /\ phase = [p \in Policies |-> "Idle"]
  /\ pr = [p \in Policies |-> TRUE] /\ queue = Policies
  /\ frozen = Workloads
  /\ pc = "idle" /\ wp = NoPolicy /\ startup = FALSE /\ copyOp = 0
  /\ total = 0 /\ resumed = 0 /\ batch = 0 /\ todo = 0 /\ wait = 0
  /\ elapsed = 0 /\ errors = 0
  /\ late = 0 /\ misses = 0 /\ since = FALSE /\ stale = FALSE

Next ==
  \/ \E p \in Policies :
       \/ StartStartupResume(p) \/ StartResumeCommand(p) \/ FreezeCommand(p) \/ SkipHandled(p)
       \/ \E a \in Actions : Command(p, a)
  \/ Loop \/ Tick

Spec == Init /\ [][Next]_vars

Worker(p) ==
  StartStartupResume(p) \/ StartResumeCommand(p) \/ FreezeCommand(p) \/ SkipHandled(p)

\* The worker runs, and the workqueue serves every waiting policy in its turn.
\* Nodes may flap for ever, users owe nothing.
FairSpec == Spec /\ WF_vars(Loop) /\ \A p \in Policies : SF_vars(Worker(p))
-----------------------------------------------------------------------------
(***************************************************************************)
(* Properties.                                                             *)
(***************************************************************************)
\* The shape of the state; the worker's counters stay within the namespace.
TypeOK ==
  /\ cache \in CacheType /\ cache.age <= cache.ttl
  /\ op \in [Policies -> OpIds] /\ action \in [Policies -> Actions] /\ last \in [Policies -> OpIds]
  /\ phase \in [Policies -> Phases] /\ pr \in [Policies -> BOOLEAN]
  /\ frozen \in [Policies -> Nat] /\ queue \subseteq Policies
  /\ pc \in Pcs /\ wp \in Policies \cup {NoPolicy} /\ (pc = "idle" <=> wp = NoPolicy)
  /\ startup \in BOOLEAN
  /\ copyOp \in OpIds
  /\ total \in Nat /\ resumed \in 0..total
  /\ batch \in Nat /\ todo \in 0..(total - resumed) /\ wait \in Nat
  /\ elapsed \in Nat /\ errors \in 0..MaxErrors
  /\ late \in Nat /\ misses \in 0..MaxMisses /\ since \in BOOLEAN /\ stale \in BOOLEAN

\* A batch is never empty and never larger than initialBatchSize, or minBatchSize
\* where that is larger, whatever signals came in whatever order
\* (calculateBatchSize is applied to its own results).
BatchWithinBounds ==
  pc # "idle" => batch >= 1 /\ (batch <= Initial(wp) \/ batch <= MinBatch(wp))

\* The usage signal behind a batch was measured after the workloads of the batch
\* before it were resumed, for a policy whose batchInterval is at least the time
\* to live of the shared cache.
EachBatchMeasured ==
  (pc # "idle" /\ Interval(wp) >= cache.ttl) => ~stale

\* After a newer command is given, at most one more workload comes up for every
\* check of the override that could not read it, and one for the check that had
\* been made.  A startup resume of a policy that never handled an operation does
\* not look at commands at all.
YieldsToCommand ==
  pc # "idle" => (startup /\ last[wp] = 0) \/ late <= 1 + misses

\* The phase Resumed is the truth: no workload of the namespace is at zero,
\* whatever failed and was retried on the way.
ResumedMeansAll == \A p \in Policies : phase[p] = "Resumed" => frozen[p] = 0

\* A resume ends, even when nodes flap for ever between Ready and NotReady: all
\* waits of one resume share one budget.
ResumeEnds == (pc # "idle") ~> (pc = "idle")

\* A Freeze command is carried out unless a newer Resume is given, whatever resume
\* it interrupts and however that resume ends.
FreezeGetsThrough ==
  \A p \in Commanded :
    (action[p] = "Freeze" /\ CommandPending(p))
      ~> (action[p] = "Resume" \/ (phase[p] = "Frozen" /\ frozen[p] = Workloads[p]))
=============================================================================
