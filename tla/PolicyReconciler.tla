-------------------------- MODULE PolicyReconciler --------------------------
(***************************************************************************)
(* The life of NamespaceLifecyclePolicy objects under the operator: the    *)
(* single reconcile worker with its workqueue, the startup goroutine that  *)
(* runs beside it, the node watch, the users who change the spec, and      *)
(* crashes of the operator.                                                *)
(*                                                                         *)
(* A reconcile reads the policy once (the view) and decides from what it   *)
(* read; every status write starts from the latest object and changes only *)
(* the fields named in the code.  Between any two of these steps the other *)
(* actors may act.  The workloads of a namespace are abstracted to whether *)
(* the operator holds them at zero; WorkloadScaling has the detail.        *)
(***************************************************************************)
EXTENDS Integers, FiniteSets

CONSTANTS
  Policies,     \* the policies, each with a namespace of its own
  NoPolicy,     \* not a policy
  Workloads,    \* the workloads of each namespace
  Config,       \* Config[p]: the part of p's spec that no command changes
  Commanded,    \* the policies that are ever given an operationId
  MaxOps,       \* bound on the operationIds a user gives to one policy
  MaxCrashes,   \* bound on the crashes of the operator
  MaxFailures,  \* bound on the failures of the node
  Features      \* which of the failures below happen

AllFeatures == {"apiError",         \* a call that scales a workload fails
                "missingNamespace", \* the target namespace may not exist
                "freezeTimeout",    \* startup gives up waiting for a freeze
                "preError",         \* pre-conditions time out or cannot be read
                "conflict"}         \* an Update that is not retried meets a newer object

Actions == {"Freeze", "Resume"}
Phases  == {"Idle", "Freezing", "Frozen", "Resuming", "Resumed", "Failed"}

\* startup: spec.startupPolicy; prio, fprio: resumePriority and freezePriority;
\* fdelay, rdelay: a positive freezeDelay, resumeDelay; nodeFail:
\* handleNodeFailure; pre: no pre-conditions, or enabled with the value of
\* blockPriorityChain; needs: the policies whose applications must be ready.
ConfigType ==
  [startup : {"Ignore", "Freeze", "Resume"}, prio : Nat, fprio : Nat,
   fdelay : BOOLEAN, rdelay : BOOLEAN, nodeFail : BOOLEAN,
   pre : {"none", "block", "nonblock"}, needs : SUBSET Policies]

ASSUME ConfigAssumption ==
  /\ NoPolicy \notin Policies
  /\ Config \in [Policies -> ConfigType] /\ Commanded \subseteq Policies
  /\ MaxOps \in Nat \ {0} /\ MaxCrashes \in Nat /\ MaxFailures \in Nat
  /\ Features \subseteq AllFeatures

(***************************************************************************)
(* status: phase, lastHandledOperationId (0 for the empty string),         *)
(* pendingFreeze, pendingStartupResume, the node failure event (detected:  *)
(* detected after it was last handled), failedNodeName # "", and           *)
(* preConditionsStatus.checking.                                           *)
(***************************************************************************)
OpIds  == 0..MaxOps
Status == [phase : Phases, last : OpIds, pf : BOOLEAN, pr : BOOLEAN,
           nf : {"none", "detected", "handled"}, node : BOOLEAN, checking : BOOLEAN]
View   == [op : OpIds, action : Actions, st : Status]

NewStatus == [phase |-> "Idle", last |-> 0, pf |-> FALSE, pr |-> FALSE,
              nf |-> "none", node |-> FALSE, checking |-> FALSE]
NoView    == [op |-> 0, action |-> "Resume", st |-> NewStatus]

VARIABLES
  \* in the API server
  op,        \* spec.operationId (0: empty)
  action,    \* spec.action
  st,        \* status
  frozen,    \* frozen[p]: workloads of p's namespace held at zero
  exists,    \* exists[p]: p's target namespace exists
  \* time and the cluster
  fOver,     \* fOver[p]: freezeDelay has passed since freezeDelayStartedAt
  rOver,     \* rOver[p]: resumeDelay has passed since resumeDelayStartedAt
  ready,     \* the namespaces some pre-condition names whose applications are ready
  nodeUp,    \* the node is Ready
  crashes, failures,   \* how often each happened
  \* the operator process
  up,        \* it runs
  gate,      \* startupComplete
  queue,     \* the workqueue
  timers,    \* requests that will be added to the workqueue later
  wpc, wp, view, wtodo,            \* the reconcile worker
  spc, gpc, gtodo, stodo, slist,   \* the startup goroutine
  mapTodo, mapFresh,               \* the node event being mapped to policies
  \* history
  begun,     \* begun[p]: operationIds whose action was started
  done       \* done[p]: operationIds whose action was carried out

apiVars     == <<op, action, st, frozen, exists>>
clusterVars == <<fOver, rOver, ready, nodeUp, crashes, failures>>
workerVars  == <<wpc, wp, view, wtodo>>
startupVars == <<spc, gpc, gtodo, stodo, slist>>
mapVars     == <<mapTodo, mapFresh>>
history     == <<begun, done>>
vars == <<apiVars, clusterVars, up, gate, queue, timers, workerVars, startupVars, mapVars, history>>

FreezeLoops == {"pendingFreeze", "failureFreeze", "freeze"}
ResumeLoops == {"pendingResume", "checkingResume", "resume"}
StrictLoops == {"freeze", "resume"}
WorkerPcs   == {"idle", "read", "atResume", "atFailure", "atCommand", "listed", "waiting"}
               \cup FreezeLoops \cup ResumeLoops

FreezePolicies == {p \in Policies : Config[p].startup = "Freeze"}
\* Mutant: every startup policy but Ignore resumes.
ResumeUnlessIgnored == {p \in Policies : Config[p].startup # "Ignore"}
ResumePolicies == {p \in Policies : Config[p].startup = "Resume"}
Needed         == UNION {Config[p].needs : p \in Policies}
-----------------------------------------------------------------------------
(***************************************************************************)
(* Writing and watching a policy.                                          *)
(***************************************************************************)
ViewOf(p) == [op |-> op[p], action |-> action[p], st |-> st[p]]

\* Mutant: a resume that becomes pending does not pass the predicate.
TriggersWithoutResume(old, new, delay) ==
  \/ ~old.pf /\ new.pf
  \/ delay /\ new.pf
  \/ old.nf # "detected" /\ new.nf = "detected"

\* UpdateFunc for a status write; delay: a delay's start time was rewritten.
Triggers(old, new, delay) ==
  \/ ~old.pf /\ new.pf
  \/ ~old.pr /\ new.pr
  \/ delay /\ (new.pf \/ new.pr)
  \/ old.nf # "detected" /\ new.nf = "detected"

\* A status write: the watch may put p in the workqueue, and a copy of p read
\* before the write can no longer be used for an Update.
WriteStatus(p, s, delay) ==
  /\ st' = [st EXCEPT ![p] = s]
  /\ queue' = IF Triggers(st[p], s, delay) THEN queue \cup {p} ELSE queue
  /\ mapFresh' = mapFresh \ {p}

\* CreateFunc: what the initial list of a new process puts in the workqueue.
Unhandled(p, s) == Config[p].nodeFail /\ s.nf = "detected"
\* Mutant: node failures recorded before a restart do not pass the predicate.
EnqueuedWithoutFailures(p) == st[p].pr \/ st[p].pf \/ (op[p] # 0 /\ st[p].last # op[p])
Enqueued(p) ==
  \/ st[p].pr \/ st[p].pf
  \/ Unhandled(p, st[p])
  \/ op[p] # 0 /\ st[p].last # op[p]

\* shouldSkipOperation, on the object a reconcile has read.
ShouldSkip(v) ==
  /\ v.op # 0
  /\ ~v.st.checking
  /\ ~(v.st.pr /\ v.st.last # v.op)
  /\ v.st.last = v.op

\* The acknowledgement of whatever operationId the latest object carries.
Acked(p) == IF op[p] # 0 THEN op[p] ELSE st[p].last

BlockedByHigherPriority(p) ==
  \E q \in Policies \ {p} : st[q].pr /\ Config[q].prio < Config[p].prio

\* checkPreConditions: the applications of the needed namespaces are ready.
PreConditionsPass(p) == Config[p].pre = "none" \/ Config[p].needs \subseteq ready

\* They do not pass, or cannot be read.
ChecksFail(p) == ~PreConditionsPass(p) \/ (Config[p].pre # "none" /\ "preError" \in Features)

\* listDeployments and listStatefulSets; a missing namespace has no workloads.
Listed(p) == IF exists[p] THEN Workloads ELSE {}
-----------------------------------------------------------------------------
(***************************************************************************)
(* The reconcile worker.  A reconcile passes through the stages read,      *)
(* atResume, atFailure and atCommand; each stage either ends the reconcile *)
(* or falls through to the next with a fresh copy of the policy.           *)
(***************************************************************************)
AtResume  == wpc = "atResume"  \/ (wpc = "read" /\ ~view.st.pf)
AtFailure == wpc = "atFailure" \/ (AtResume /\ ~view.st.pr)
InCleanup == Config[wp].nodeFail /\ view.st.node /\ ShouldSkip(view)
AtCommand == wpc = "atCommand" \/ (AtFailure /\ ~Unhandled(wp, view.st) /\ ~InCleanup)

\* Mutant: the request is not marked done.
ReturnWithoutDone(requeue) ==
  /\ timers' = IF requeue THEN timers \cup {wp} ELSE timers
  /\ wpc' = "idle" /\ wp' = wp /\ view' = NoView /\ wtodo' = {}

\* return ctrl.Result{...}: a delayed requeue, or none.
Return(requeue) ==
  /\ timers' = IF requeue THEN timers \cup {wp} ELSE timers
  /\ wpc' = "idle" /\ wp' = NoPolicy /\ view' = NoView /\ wtodo' = {}

Continue(pc, v) == wpc' = pc /\ view' = v /\ UNCHANGED <<wp, wtodo, timers>>
Loop(pc, S)     == wpc' = pc /\ wtodo' = S /\ UNCHANGED <<wp, view, timers>>

NoStatusWrite == UNCHANGED <<st, queue, mapFresh>>
WorkerFrame   == UNCHANGED <<op, action, exists, nodeUp, crashes, failures, up, gate,
                             startupVars, mapTodo>>

Begin(p) ==
  /\ up /\ wpc = "idle" /\ p \in queue
  /\ queue' = queue \ {p}
  /\ wpc' = "read" /\ wp' = p /\ view' = ViewOf(p)
  /\ UNCHANGED <<st, mapFresh, wtodo, timers, frozen, fOver, rOver, ready, history>>
  /\ WorkerFrame

\* --- pendingFreeze ---
CancelPendingFreeze ==
  /\ wpc = "read" /\ view.st.pf /\ ~ShouldSkip(view)
  /\ LET s == [st[wp] EXCEPT !.pf = FALSE] IN
       /\ WriteStatus(wp, s, FALSE)
       /\ Continue("atResume", [ViewOf(wp) EXCEPT !.st = s])
  /\ UNCHANGED <<frozen, fOver, rOver, ready, history>>

WaitFreezeDelay ==
  /\ wpc = "read" /\ view.st.pf /\ ShouldSkip(view) /\ ~fOver[wp]
  /\ Return(TRUE)
  /\ NoStatusWrite /\ UNCHANGED <<frozen, fOver, rOver, ready, history>>

StartPendingFreeze ==
  /\ wpc = "read" /\ view.st.pf /\ ShouldSkip(view) /\ fOver[wp]
  /\ Loop("pendingFreeze", Listed(wp))
  /\ NoStatusWrite /\ UNCHANGED <<frozen, fOver, rOver, ready, history>>

EndPendingFreeze ==
  /\ wpc = "pendingFreeze" /\ wtodo = {}
  /\ WriteStatus(wp, [st[wp] EXCEPT !.phase = "Frozen", !.pf = FALSE], FALSE)
  /\ Return(FALSE)
  /\ UNCHANGED <<frozen, fOver, rOver, ready, history>>

\* --- pendingStartupResume ---
WaitStartup ==
  /\ AtResume /\ view.st.pr /\ ~gate
  /\ Return(TRUE)
  /\ NoStatusWrite /\ UNCHANGED <<frozen, fOver, rOver, ready, history>>

\* Mutant: commands are not looked for while a resume is pending.
CommandPendingNever == FALSE
CommandPending == view.op # 0 /\ view.st.last # view.op

\* A node failure, or a command given after startup, cancels the startup resume.
CancelPendingResume ==
  /\ AtResume /\ view.st.pr /\ gate
  /\ Unhandled(wp, view.st) \/ CommandPending
  /\ LET s == [st[wp] EXCEPT !.pr = FALSE] IN
       /\ WriteStatus(wp, s, FALSE)
       /\ Continue("atFailure", [ViewOf(wp) EXCEPT !.st = s])
  /\ UNCHANGED <<frozen, fOver, rOver, ready, history>>

\* Mutant: no gate, resumes are processed while startup still flags policies.
AtPendingResumeUngated == AtResume /\ view.st.pr /\ ~Unhandled(wp, view.st) /\ ~CommandPending
AtPendingResume == AtResume /\ view.st.pr /\ gate /\ ~Unhandled(wp, view.st) /\ ~CommandPending

\* Mutant: a blocked policy is not requeued.
WaitTurnForever ==
  /\ AtPendingResume
  /\ BlockedByHigherPriority(wp) \/ ~rOver[wp]
  /\ Return(FALSE)
  /\ NoStatusWrite /\ UNCHANGED <<frozen, fOver, rOver, ready, history>>

\* A higher priority is pending, or the delay is not over.
WaitTurn ==
  /\ AtPendingResume
  /\ BlockedByHigherPriority(wp) \/ ~rOver[wp]
  /\ Return(TRUE)
  /\ NoStatusWrite /\ UNCHANGED <<frozen, fOver, rOver, ready, history>>

\* The whole status is overwritten with the copy read at the start, except for
\* lastHandledOperationId; both values of blockPriorityChain do the same.
WaitPreConditions ==
  /\ AtPendingResume /\ ~BlockedByHigherPriority(wp) /\ rOver[wp]
  /\ ChecksFail(wp)
  /\ WriteStatus(wp, [view.st EXCEPT !.checking = TRUE, !.phase = "Resuming",
                                     !.pr = TRUE, !.last = st[wp].last], FALSE)
  /\ Return(TRUE)
  /\ UNCHANGED <<frozen, fOver, rOver, ready, history>>

StartPendingResume ==
  /\ AtPendingResume /\ ~BlockedByHigherPriority(wp) /\ rOver[wp]
  /\ PreConditionsPass(wp)
  /\ Loop("pendingResume", frozen[wp])
  /\ NoStatusWrite /\ UNCHANGED <<frozen, fOver, rOver, ready, history>>

\* The checking flag is cleared in the local copy only, not in the status.
EndPendingResume ==
  /\ wpc = "pendingResume" /\ wtodo = {}
  /\ WriteStatus(wp, [st[wp] EXCEPT !.phase = "Resumed", !.pr = FALSE], FALSE)
  /\ Return(Config[wp].nodeFail /\ view.st.node)
  /\ UNCHANGED <<frozen, fOver, rOver, ready, history>>

\* --- node failure ---
\* handleNodeFailureEvent: the workloads whose pods all ran on the failed node,
\* none when the namespace is already Frozen.
FullyLocal(p, phase) == IF phase = "Frozen" THEN {{}} ELSE SUBSET (Listed(p) \ frozen[p])

StartNodeFailure ==
  /\ AtFailure /\ Unhandled(wp, view.st)
  /\ \E S \in FullyLocal(wp, view.st.phase) : Loop("failureFreeze", S)
  /\ NoStatusWrite /\ UNCHANGED <<frozen, fOver, rOver, ready, history>>

\* Mutant: the recovery resume is not requested.
EndNodeFailureWithoutResume ==
  /\ wpc = "failureFreeze" /\ wtodo = {}
  /\ WriteStatus(wp, [st[wp] EXCEPT !.nf = "handled", !.last = Acked(wp)], TRUE)
  /\ rOver' = [rOver EXCEPT ![wp] = ~Config[wp].rdelay]
  /\ Return(TRUE)
  /\ UNCHANGED <<frozen, fOver, ready, history>>

EndNodeFailure ==
  /\ wpc = "failureFreeze" /\ wtodo = {}
  /\ WriteStatus(wp, [st[wp] EXCEPT !.nf = "handled", !.last = Acked(wp), !.pr = TRUE], TRUE)
  /\ rOver' = [rOver EXCEPT ![wp] = ~Config[wp].rdelay]
  /\ Return(TRUE)
  /\ UNCHANGED <<frozen, fOver, ready, history>>

CleanUpFailedNode ==
  /\ AtFailure /\ ~Unhandled(wp, view.st) /\ InCleanup /\ ~nodeUp
  /\ Return(TRUE)
  /\ NoStatusWrite /\ UNCHANGED <<frozen, fOver, rOver, ready, history>>

ForgetFailedNode ==
  /\ AtFailure /\ ~Unhandled(wp, view.st) /\ InCleanup /\ nodeUp
  /\ LET s == [st[wp] EXCEPT !.node = FALSE] IN
       /\ WriteStatus(wp, s, FALSE)
       /\ Continue("atCommand", [ViewOf(wp) EXCEPT !.st = s])
  /\ UNCHANGED <<frozen, fOver, rOver, ready, history>>

\* --- the manual command ---
SkipHandled ==
  /\ AtCommand /\ ShouldSkip(view)
  /\ Return(FALSE)
  /\ NoStatusWrite /\ UNCHANGED <<frozen, fOver, rOver, ready, history>>

NamespaceMissing ==
  /\ AtCommand /\ ~ShouldSkip(view) /\ ~exists[wp]
  /\ WriteStatus(wp, [st[wp] EXCEPT !.phase = "Failed", !.last = view.op], FALSE)
  /\ Return(FALSE)
  /\ UNCHANGED <<frozen, fOver, rOver, ready, history>>

\* Pre-conditions being checked come first, whatever spec.action says.
CheckAgain ==
  /\ AtCommand /\ ~ShouldSkip(view) /\ exists[wp] /\ view.st.checking
  /\ ChecksFail(wp)
  /\ Return(TRUE)
  /\ NoStatusWrite /\ UNCHANGED <<frozen, fOver, rOver, ready, history>>

StartCheckedResume ==
  /\ AtCommand /\ ~ShouldSkip(view) /\ exists[wp] /\ view.st.checking
  /\ PreConditionsPass(wp)
  /\ Loop("checkingResume", frozen[wp])
  /\ NoStatusWrite /\ UNCHANGED <<frozen, fOver, rOver, ready, history>>

CommandDone == done' = [done EXCEPT ![wp] = @ \cup {view.op}]

\* The resume of a command counts as carried out, a freeze does not.
EndCheckedResume ==
  /\ wpc = "checkingResume" /\ wtodo = {}
  /\ WriteStatus(wp, [st[wp] EXCEPT !.phase = "Resumed", !.checking = FALSE, !.pr = FALSE], FALSE)
  /\ IF view.action = "Resume" THEN CommandDone ELSE UNCHANGED done
  /\ Return(FALSE)
  /\ UNCHANGED <<frozen, fOver, rOver, ready, begun>>

\* Mutant: the operation is not recorded when it is started.
StartCommandUnrecorded ==
  /\ AtCommand /\ ~ShouldSkip(view) /\ exists[wp] /\ ~view.st.checking
  /\ WriteStatus(wp, [st[wp] EXCEPT !.phase = IF view.action = "Freeze" THEN "Freezing" ELSE "Resuming"],
                 FALSE)
  /\ IF view.action = "Freeze" THEN Loop("freeze", Listed(wp)) ELSE Loop("listed", frozen[wp])
  /\ begun' = [begun EXCEPT ![wp] = @ \cup {view.op}]
  /\ UNCHANGED <<frozen, fOver, rOver, ready, done>>

\* updateStatus: the operation is recorded as handled before it is carried out.
StartCommand ==
  /\ AtCommand /\ ~ShouldSkip(view) /\ exists[wp] /\ ~view.st.checking
  /\ WriteStatus(wp, [st[wp] EXCEPT !.last = view.op,
                        !.phase = IF view.action = "Freeze" THEN "Freezing" ELSE "Resuming"], FALSE)
  /\ IF view.action = "Freeze" THEN Loop("freeze", Listed(wp)) ELSE Loop("listed", frozen[wp])
  /\ begun' = [begun EXCEPT ![wp] = @ \cup {view.op}]
  /\ UNCHANGED <<frozen, fOver, rOver, ready, done>>

EndFreeze ==
  /\ wpc = "freeze" /\ wtodo = {}
  /\ WriteStatus(wp, [st[wp] EXCEPT !.phase = "Frozen", !.last = view.op], FALSE)
  /\ CommandDone
  /\ Return(FALSE)
  /\ UNCHANGED <<frozen, fOver, rOver, ready, begun>>

\* Nothing was frozen, or everything has been resumed.
EndResume ==
  /\ wpc \in {"listed", "resume"} /\ wtodo = {}
  /\ WriteStatus(wp, [st[wp] EXCEPT !.phase = "Resumed", !.last = view.op], FALSE)
  /\ CommandDone
  /\ Return(FALSE)
  /\ UNCHANGED <<frozen, fOver, rOver, ready, begun>>

\* The pre-conditions of a manual resume: blocking ones hold the worker.
ResumeWithoutConditions ==
  /\ wpc = "listed" /\ wtodo # {} /\ Config[wp].pre = "none"
  /\ Continue("resume", view)
  /\ NoStatusWrite /\ UNCHANGED <<frozen, fOver, rOver, ready, history>>

StartWaiting ==
  /\ wpc = "listed" /\ wtodo # {} /\ Config[wp].pre = "block"
  /\ WriteStatus(wp, [st[wp] EXCEPT !.phase = "Resuming", !.last = view.op, !.checking = TRUE], FALSE)
  /\ Continue("waiting", view)
  /\ UNCHANGED <<frozen, fOver, rOver, ready, history>>

NewFreeze(p) == op[p] # 0 /\ op[p] # st[p].last /\ action[p] = "Freeze"

StopWaiting ==
  /\ wpc = "waiting" /\ NewFreeze(wp)
  /\ WriteStatus(wp, [st[wp] EXCEPT !.checking = FALSE], FALSE)
  /\ Return(TRUE)
  /\ UNCHANGED <<frozen, fOver, rOver, ready, history>>

ConditionsPass ==
  /\ wpc = "waiting" /\ ~NewFreeze(wp) /\ PreConditionsPass(wp)
  /\ WriteStatus(wp, [st[wp] EXCEPT !.checking = FALSE], FALSE)
  /\ Continue("resume", view)
  /\ UNCHANGED <<frozen, fOver, rOver, ready, history>>

\* Non-blocking ones are checked once, and the checking flag brings them back.
CheckOnce ==
  /\ wpc = "listed" /\ wtodo # {} /\ Config[wp].pre = "nonblock"
  /\ WriteStatus(wp, [st[wp] EXCEPT !.phase = "Resuming", !.last = view.op,
                                    !.checking = ~PreConditionsPass(wp)], FALSE)
  /\ IF PreConditionsPass(wp) THEN Continue("resume", view) ELSE Return(TRUE)
  /\ UNCHANGED <<frozen, fOver, rOver, ready, history>>

\* A manual resume gives up: at a timeout, or at an error, which is requeued.
ConditionsFail ==
  /\ "preError" \in Features
  /\ wpc = "waiting" \/ (wpc = "listed" /\ wtodo # {} /\ Config[wp].pre = "nonblock")
  /\ WriteStatus(wp, [st[wp] EXCEPT !.phase = "Failed", !.last = view.op,
                        !.checking = IF wpc = "waiting" THEN FALSE ELSE @], FALSE)
  /\ \E requeue \in BOOLEAN : Return(requeue)
  /\ UNCHANGED <<frozen, fOver, rOver, ready, history>>

\* --- the loops over workloads ---
ScaleWorkload(w) ==
  /\ w \in wtodo /\ wpc \in FreezeLoops \cup ResumeLoops
  /\ IF wpc \in FreezeLoops
       THEN /\ frozen' = [frozen EXCEPT ![wp] = @ \cup {w}]
            /\ ready'  = ready \ {wp}
       ELSE /\ frozen' = [frozen EXCEPT ![wp] = @ \ {w}]
            /\ UNCHANGED ready
  /\ wtodo' = wtodo \ {w}
  /\ NoStatusWrite /\ UNCHANGED <<wpc, wp, view, timers, fOver, rOver, history>>

\* A manual command gives up at the first error, everything else carries on.
ScaleFails(w) ==
  /\ "apiError" \in Features
  /\ w \in wtodo /\ wpc \in FreezeLoops \cup ResumeLoops
  /\ IF wpc \in StrictLoops
       THEN /\ WriteStatus(wp, [st[wp] EXCEPT !.phase = "Failed", !.last = view.op], FALSE)
            /\ Return(TRUE)
       ELSE NoStatusWrite /\ Loop(wpc, wtodo \ {w})
  /\ UNCHANGED <<frozen, fOver, rOver, ready, history>>

Stage ==
  \/ CancelPendingFreeze \/ WaitFreezeDelay \/ StartPendingFreeze \/ EndPendingFreeze
  \/ WaitStartup \/ CancelPendingResume \/ WaitTurn \/ WaitPreConditions
  \/ StartPendingResume \/ EndPendingResume
  \/ StartNodeFailure \/ EndNodeFailure \/ CleanUpFailedNode \/ ForgetFailedNode
  \/ SkipHandled \/ NamespaceMissing \/ CheckAgain \/ StartCheckedResume \/ EndCheckedResume
  \/ StartCommand \/ EndFreeze \/ EndResume
  \/ ResumeWithoutConditions \/ StartWaiting \/ StopWaiting \/ ConditionsPass \/ CheckOnce
  \/ ConditionsFail

Reconcile ==
  /\ up /\ wpc # "idle"
  /\ \/ Stage
     \/ \E w \in Workloads : ScaleWorkload(w) \/ ScaleFails(w)
  /\ WorkerFrame
-----------------------------------------------------------------------------
(***************************************************************************)
(* The startup goroutine, beside the worker: the freeze policies group by  *)
(* group, each in a goroutine of its own; then the policies a failed node  *)
(* affects; then the resume policies; then the gate opens.  gpc[p] is the  *)
(* progress of p's part, slist what the goroutine listed at its start.     *)
(***************************************************************************)
GoroutinePcs == {"todo", "freezing", "waiting", "verifying", "done"}
StartupPcs   == {"off", "list", "freeze", "scan", "resume", "done"}

StartupFrame == UNCHANGED <<op, action, exists, nodeUp, crashes, failures, up, timers,
                            workerVars, mapTodo, history>>

\* After the node scan, whose polling only takes time.
StartupList ==
  /\ spc = "list"
  /\ spc' = "freeze" /\ slist' = st
  /\ NoStatusWrite /\ UNCHANGED <<gate, gpc, gtodo, stodo, frozen, fOver, rOver, ready>>

\* ApplyStartupPolicy for Freeze, once every group before p's has finished.
StartupFreeze(p) ==
  /\ spc = "freeze" /\ p \in FreezePolicies /\ gpc[p] = "todo"
  /\ \A q \in FreezePolicies : Config[q].fprio < Config[p].fprio => gpc[q] = "done"
  /\ IF exists[p] /\ Config[p].fdelay
       THEN /\ WriteStatus(p, [st[p] EXCEPT !.pf = TRUE, !.phase = "Idle"], TRUE)
            /\ fOver' = [fOver EXCEPT ![p] = FALSE]
       ELSE NoStatusWrite /\ UNCHANGED fOver
  /\ gpc' = [gpc EXCEPT ![p] = IF exists[p] /\ ~Config[p].fdelay THEN "freezing" ELSE "waiting"]
  /\ gtodo' = [gtodo EXCEPT ![p] = IF exists[p] /\ ~Config[p].fdelay THEN Workloads ELSE {}]
  /\ UNCHANGED <<gate, spc, stodo, slist, frozen, rOver, ready>>

\* The freeze loops of the startup goroutine carry on after an error.
StartupScale(p, w) ==
  /\ gpc[p] = "freezing" /\ w \in gtodo[p]
  /\ gtodo' = [gtodo EXCEPT ![p] = @ \ {w}]
  /\ \/ frozen' = [frozen EXCEPT ![p] = @ \cup {w}] /\ ready' = ready \ {p}
     \/ "apiError" \in Features /\ UNCHANGED <<frozen, ready>>
  /\ NoStatusWrite /\ UNCHANGED <<gate, spc, gpc, stodo, slist, fOver, rOver>>

StartupFrozen(p) ==
  /\ spc = "freeze" /\ gpc[p] = "freezing" /\ gtodo[p] = {}
  /\ WriteStatus(p, [st[p] EXCEPT !.phase = "Frozen"], FALSE)
  /\ gpc' = [gpc EXCEPT ![p] = "waiting"]
  /\ UNCHANGED <<gate, spc, gtodo, stodo, slist, frozen, fOver, rOver, ready>>

\* Mutant: only the delay is waited for, not the freeze that follows it.
StartupWaitForDelay(p) ==
  /\ gpc[p] = "waiting" /\ (Config[p].fdelay => fOver[p])
  /\ gpc' = [gpc EXCEPT ![p] = "done"]
  /\ NoStatusWrite /\ UNCHANGED <<gate, spc, gtodo, stodo, slist, frozen, fOver, rOver, ready>>

\* processPolicyWithDelayAndFreeze: the delay, then the phase, then the replicas.
StartupWait(p) ==
  /\ \/ /\ gpc[p] = "waiting"
        /\ Config[p].fdelay => fOver[p]
        /\ st[p].phase \in {"Frozen", "Failed"} \/ "freezeTimeout" \in Features
        /\ gpc' = [gpc EXCEPT ![p] = "verifying"]
     \/ /\ gpc[p] = "verifying"
        /\ frozen[p] = Listed(p) \/ "freezeTimeout" \in Features
        /\ gpc' = [gpc EXCEPT ![p] = "done"]
  /\ NoStatusWrite /\ UNCHANGED <<gate, spc, gtodo, stodo, slist, frozen, fOver, rOver, ready>>

\* The pre-scan for failed nodes.
StartupScan ==
  /\ spc = "freeze" /\ \A p \in FreezePolicies : gpc[p] = "done"
  /\ spc' = IF nodeUp THEN "resume" ELSE "scan"
  /\ stodo' = IF nodeUp THEN ResumePolicies ELSE {p \in ResumePolicies : Config[p].nodeFail}
  /\ NoStatusWrite /\ UNCHANGED <<gate, gpc, gtodo, slist, frozen, fOver, rOver, ready>>

ScanNext(p) == spc = "scan" /\ p \in stodo /\ gpc[p] = "todo"
               /\ \A q \in stodo : gpc[q] # "freezing"

\* alreadyHandled compares whole seconds, so it may miss an event already handled.
SkipScanned(p) ==
  /\ ScanNext(p) /\ slist[p].node /\ slist[p].nf = "handled"
  /\ stodo' = stodo \ {p}
  /\ NoStatusWrite /\ UNCHANGED <<gate, spc, gpc, gtodo, slist, frozen, fOver, rOver, ready>>

\* HandleNodeFailureAtStartup.
StartScanned(p) ==
  /\ ScanNext(p)
  /\ \E S \in FullyLocal(p, slist[p].phase) : gtodo' = [gtodo EXCEPT ![p] = S]
  /\ gpc' = [gpc EXCEPT ![p] = "freezing"]
  /\ NoStatusWrite /\ UNCHANGED <<gate, spc, stodo, slist, frozen, fOver, rOver, ready>>

EndScanned(p) ==
  /\ spc = "scan" /\ gpc[p] = "freezing" /\ gtodo[p] = {}
  /\ \/ /\ WriteStatus(p, [st[p] EXCEPT !.node = TRUE, !.nf = "handled",
                                        !.last = Acked(p), !.pr = TRUE], TRUE)
        /\ rOver' = [rOver EXCEPT ![p] = ~Config[p].rdelay]
     \/ "conflict" \in Features /\ NoStatusWrite /\ UNCHANGED rOver
  /\ gpc' = [gpc EXCEPT ![p] = "done"] /\ stodo' = stodo \ {p}
  /\ UNCHANGED <<gate, spc, gtodo, slist, frozen, fOver, ready>>

EndScan ==
  /\ spc = "scan" /\ stodo = {}
  /\ spc' = "resume" /\ stodo' = {p \in ResumePolicies : ~Config[p].nodeFail}
  /\ NoStatusWrite /\ UNCHANGED <<gate, gpc, gtodo, slist, frozen, fOver, rOver, ready>>

\* Mutant: the status is written from the copy that was listed.
StartupResumeFromListed(p) ==
  /\ spc = "resume" /\ p \in stodo
  /\ \A q \in stodo : Config[q].prio >= Config[p].prio
  /\ WriteStatus(p, [slist[p] EXCEPT !.last = Acked(p), !.pr = TRUE, !.phase = "Idle"], TRUE)
  /\ rOver' = [rOver EXCEPT ![p] = ~Config[p].rdelay]
  /\ stodo' = stodo \ {p}
  /\ UNCHANGED <<gate, spc, gpc, gtodo, slist, frozen, fOver, ready>>

\* ApplyStartupPolicy for Resume, highest priority first; a policy that was
\* Resumed when it was listed is left alone.
StartupResume(p) ==
  /\ spc = "resume" /\ p \in stodo
  /\ \A q \in stodo : Config[q].prio >= Config[p].prio
  /\ IF slist[p].phase = "Resumed"
       THEN NoStatusWrite /\ UNCHANGED rOver
       ELSE /\ WriteStatus(p, [st[p] EXCEPT !.last = Acked(p), !.pr = TRUE, !.phase = "Idle"], TRUE)
            /\ rOver' = [rOver EXCEPT ![p] = ~Config[p].rdelay]
  /\ stodo' = stodo \ {p}
  /\ UNCHANGED <<gate, spc, gpc, gtodo, slist, frozen, fOver, ready>>

MarkStartupComplete ==
  /\ spc = "resume" /\ stodo = {}
  /\ gate' = TRUE /\ spc' = "done" /\ slist' = [p \in Policies |-> NewStatus]
  /\ NoStatusWrite /\ UNCHANGED <<gpc, gtodo, stodo, frozen, fOver, rOver, ready>>

StartupOf(p) ==
  \/ StartupFreeze(p) \/ StartupFrozen(p) \/ StartupWait(p)
  \/ \E w \in Workloads : StartupScale(p, w)
  \/ SkipScanned(p) \/ StartScanned(p) \/ EndScanned(p) \/ StartupResume(p)

Startup ==
  /\ up
  /\ \/ StartupList \/ StartupScan \/ EndScan \/ MarkStartupComplete
     \/ \E p \in Policies : StartupOf(p)
  /\ StartupFrame
-----------------------------------------------------------------------------
(***************************************************************************)
(* The node watch, the users, the cluster, time and crashes.               *)
(***************************************************************************)
OutsideFrame == UNCHANGED <<workerVars, startupVars, history>>

\* The node turns NotReady.  A running operator lists the policies to tell them
\* (mapNodeReadyToPolicy); one that is down never hears of it.
NodeFails ==
  /\ nodeUp /\ mapTodo = {} /\ failures < MaxFailures
  /\ nodeUp' = FALSE /\ failures' = failures + 1
  /\ ready' \in SUBSET ready
  /\ LET told     == {p \in Policies : up /\ Config[p].nodeFail}
         tracking == {p \in told : st[p].node /\ st[p].nf = "detected"}
     IN /\ mapTodo' = told \ tracking
        /\ mapFresh' = told \ tracking
        /\ queue' = queue \cup tracking
  /\ UNCHANGED <<apiVars, fOver, rOver, crashes, up, gate, timers>>
  /\ OutsideFrame

NodeRecovers ==
  /\ ~nodeUp /\ nodeUp' = TRUE
  /\ UNCHANGED <<apiVars, fOver, rOver, ready, crashes, failures, up, gate, queue, timers, mapVars>>
  /\ OutsideFrame

\* The Update of one listed policy; the event is lost for a policy that has
\* changed since it was listed.
MapNode(p) ==
  /\ p \in mapTodo
  /\ IF p \in mapFresh
       THEN WriteStatus(p, [st[p] EXCEPT !.node = TRUE, !.nf = "detected"], FALSE)
       ELSE NoStatusWrite
  /\ mapTodo' = mapTodo \ {p}
  /\ UNCHANGED <<op, action, frozen, exists, clusterVars, up, gate, timers>>
  /\ OutsideFrame

\* A user gives a command: a new operationId with an action.
Command(p, a) ==
  /\ p \in Commanded /\ op[p] < MaxOps
  /\ op' = [op EXCEPT ![p] = @ + 1] /\ action' = [action EXCEPT ![p] = a]
  /\ queue' = IF up THEN queue \cup {p} ELSE queue
  /\ mapFresh' = mapFresh \ {p}
  /\ UNCHANGED <<st, frozen, exists, clusterVars, up, gate, timers, mapTodo>>
  /\ OutsideFrame

CreateNamespace(p) ==
  /\ ~exists[p] /\ exists' = [exists EXCEPT ![p] = TRUE]
  /\ UNCHANGED <<op, action, st, frozen, clusterVars, up, gate, queue, timers, mapVars>>
  /\ OutsideFrame

DelayOver(p) ==
  /\ \/ ~fOver[p] /\ fOver' = [fOver EXCEPT ![p] = TRUE] /\ UNCHANGED rOver
     \/ ~rOver[p] /\ rOver' = [rOver EXCEPT ![p] = TRUE] /\ UNCHANGED fOver
  /\ UNCHANGED <<apiVars, ready, nodeUp, crashes, failures, up, gate, queue, timers, mapVars>>
  /\ OutsideFrame

PodsReady(p) ==
  /\ p \in Needed \ ready /\ exists[p] /\ frozen[p] = {}
  /\ ready' = ready \cup {p}
  /\ UNCHANGED <<apiVars, fOver, rOver, nodeUp, crashes, failures, up, gate, queue, timers, mapVars>>
  /\ OutsideFrame

TimerFires(p) ==
  /\ p \in timers
  /\ timers' = timers \ {p} /\ queue' = queue \cup {p}
  /\ UNCHANGED <<apiVars, clusterVars, up, gate, mapVars>>
  /\ OutsideFrame

NoProcess ==
  /\ gate' = FALSE /\ timers' = {}
  /\ wpc' = "idle" /\ wp' = NoPolicy /\ view' = NoView /\ wtodo' = {}
  /\ gpc' = [p \in Policies |-> "todo"] /\ gtodo' = [p \in Policies |-> {}]
  /\ stodo' = {} /\ slist' = [p \in Policies |-> NewStatus]
  /\ mapTodo' = {} /\ mapFresh' = {}

Crash ==
  /\ up /\ crashes < MaxCrashes
  /\ up' = FALSE /\ crashes' = crashes + 1
  /\ queue' = {} /\ spc' = "off"
  /\ NoProcess
  /\ UNCHANGED <<apiVars, fOver, rOver, ready, nodeUp, failures, history>>

\* A new process: the cache delivers a Create event for every policy.
Start ==
  /\ ~up /\ up' = TRUE
  /\ queue' = {p \in Policies : Enqueued(p)} /\ spc' = "list"
  /\ NoProcess
  /\ UNCHANGED <<apiVars, clusterVars, history>>

Outside ==
  \/ NodeFails \/ NodeRecovers \/ Crash
  \/ \E p \in Policies :
       \/ MapNode(p) \/ DelayOver(p) \/ PodsReady(p) \/ TimerFires(p) \/ CreateNamespace(p)
       \/ \E a \in Actions : Command(p, a)

Init ==
  /\ op \in [Policies -> {0, 1}] /\ action \in [Policies -> Actions]
  /\ \A p \in Policies \ Commanded : op[p] = 0
  /\ st = [p \in Policies |-> NewStatus]
  /\ exists \in [Policies -> IF "missingNamespace" \in Features THEN BOOLEAN ELSE {TRUE}]
  /\ frozen \in [Policies -> {{}, Workloads}]
  /\ \A p \in Policies : ~exists[p] => frozen[p] = {}
  /\ fOver = [p \in Policies |-> TRUE] /\ rOver = [p \in Policies |-> TRUE]
  /\ ready = {p \in Needed : exists[p] /\ frozen[p] = {}}
  /\ nodeUp = TRUE /\ crashes = 0 /\ failures = 0
  /\ up = FALSE /\ gate = FALSE /\ queue = {} /\ timers = {}
  /\ wpc = "idle" /\ wp = NoPolicy /\ view = NoView /\ wtodo = {}
  /\ spc = "off" /\ gpc = [p \in Policies |-> "todo"] /\ gtodo = [p \in Policies |-> {}]
  /\ stodo = {} /\ slist = [p \in Policies |-> NewStatus]
  /\ mapTodo = {} /\ mapFresh = {}
  /\ begun = [p \in Policies |-> {}] /\ done = [p \in Policies |-> {}]

Next ==
  \/ \E p \in Policies : Begin(p)
  \/ Reconcile \/ Startup \/ Start \/ Outside

Spec == Init /\ [][Next]_vars

(***************************************************************************)
(* Fairness: the process is restarted, its goroutines run, the workqueue   *)
(* is first in first out, so that a waiting request is taken again and     *)
(* again until it is served, timers fire, delays pass, pods become ready.  *)
(* Users, nodes and crashes owe nothing.                                   *)
(***************************************************************************)
Fairness ==
  /\ WF_vars(Start) /\ WF_vars(Reconcile) /\ WF_vars(Startup)
  /\ \A p \in Policies : SF_vars(Begin(p)) /\ WF_vars(TimerFires(p))
  /\ WF_vars(\E p \in Policies : DelayOver(p) \/ PodsReady(p) \/ MapNode(p))

FairSpec == Spec /\ Fairness
-----------------------------------------------------------------------------
(***************************************************************************)
(* Properties.                                                             *)
(***************************************************************************)
\* The shape of the state: what the API server, the cluster and the process
\* of the operator hold.
TypeOK ==
  /\ op \in [Policies -> OpIds] /\ action \in [Policies -> Actions]
  /\ st \in [Policies -> Status]
  /\ frozen \in [Policies -> SUBSET Workloads] /\ exists \in [Policies -> BOOLEAN]
  /\ fOver \in [Policies -> BOOLEAN] /\ rOver \in [Policies -> BOOLEAN]
  /\ ready \subseteq Policies /\ nodeUp \in BOOLEAN
  /\ crashes \in 0..MaxCrashes /\ failures \in 0..MaxFailures
  /\ up \in BOOLEAN /\ gate \in BOOLEAN /\ queue \subseteq Policies /\ timers \subseteq Policies
  /\ wpc \in WorkerPcs /\ wp \in Policies \cup {NoPolicy} /\ (wpc = "idle" <=> wp = NoPolicy)
  /\ view \in View /\ wtodo \subseteq Workloads
  /\ spc \in StartupPcs /\ gpc \in [Policies -> GoroutinePcs]
  /\ gtodo \in [Policies -> SUBSET Workloads] /\ stodo \subseteq Policies
  /\ slist \in [Policies -> Status]
  /\ mapTodo \subseteq Policies /\ mapFresh \subseteq Policies
  /\ begun \in [Policies -> SUBSET OpIds] /\ done \in [Policies -> SUBSET OpIds]

\* The step does not start an operation of the worker that was started before.
StartsOnlyNew ==
  \A p \in Policies, o \in OpIds \ {0} :
    (wpc' \in {"freeze", "listed"} /\ wpc # wpc' /\ wp' = p /\ view'.op = o) => o \notin begun[p]

\* The worker starts the action of an operationId at most once, whatever the
\* startup goroutine acknowledges, whatever fails and however often the operator
\* crashes (shouldSkipOperation against the writes of lastHandledOperationId).
AtMostOnce == [][StartsOnlyNew]_vars

\* While a startup or recovery resume scales workloads, no policy with a higher
\* priority is waiting for its resume: the startupComplete gate, the priority
\* gate and the single worker together keep the order of resumePriority.
ResumeInPriorityOrder ==
  wpc = "pendingResume" =>
    \A q \in Policies : Config[q].prio < Config[wp].prio => ~st[q].pr

\* Work recorded in the status is never forgotten: once startup is over, a policy
\* with a pending resume, a pending freeze or an unhandled node failure is in
\* the workqueue, waits for a timer or is being reconciled (the predicates of
\* SetupWithManager and the requeues of Reconcile).
NoLostWakeup ==
  spc = "done" =>
    \A p \in Policies : (st[p].pr \/ st[p].pf \/ Unhandled(p, st[p])) => p \in queue \cup timers \cup {wp}

\* A namespace frozen by a command stays frozen until the next command, across
\* crashes and restarts, unless its startup policy is to resume it.
ManualFreezeHolds ==
  [][\A p \in Policies :
       (/\ Config[p].startup # "Resume" /\ ~Config[p].nodeFail
        /\ action[p] = "Freeze" /\ op[p] # 0 /\ op[p] \in done[p])
         => frozen[p] \subseteq frozen'[p]]_vars

\* Groups of freezePriority are frozen one after the other: startup scales down
\* no workload of a group while an earlier group that no command has touched is
\* not at zero.
FreezeInPriorityOrder ==
  \A p, q \in FreezePolicies :
    (/\ spc = "freeze" /\ gpc[p] = "freezing" /\ Config[q].fprio < Config[p].fprio
     /\ op[q] = 0 /\ action[q] = "Freeze")
      => frozen[q] = Listed(q)

\* A pending startup or recovery resume whose pre-conditions come to hold ends:
\* the namespace comes back, or a command has been started for it.
PendingResumeEnds ==
  \A p \in Policies :
    <>[]PreConditionsPass(p) =>
      (st[p].pr ~> ~st[p].pr /\ (frozen[p] = {} \/ (op[p] # 0 /\ op[p] \in begun[p])))

\* A command given after startup is carried out unless a newer one replaces it,
\* provided the pre-conditions of its policy come to hold.
CommandCarriedOut ==
  \A p \in Policies, o \in OpIds \ {0} :
    <>[]PreConditionsPass(p) =>
      ((gate /\ op[p] = o /\ st[p].last # o) ~> (o \in done[p] \/ op[p] # o))

\* A recorded node failure is not forgotten: it goes away only by being handled,
\* whatever status writes of other actors cross its record.
FailureNotForgotten ==
  [][\A p \in Policies : st[p].nf = "detected" => st'[p].nf # "none"]_vars

\* A recorded node failure is handled, and everything it scaled down comes back
\* unless a command decides about the namespace.
NodeFailureRecovers ==
  \A p \in Policies :
    Unhandled(p, st[p]) ~> /\ ~Unhandled(p, st[p]) /\ ~st[p].pr
                           /\ frozen[p] = {} \/ (op[p] # 0 /\ op[p] \in begun[p])
=============================================================================
