------------------------- MODULE PolicyOrderProofs --------------------------
(***************************************************************************)
(* Proofs about the order and the permanence of freezes and resumes:       *)
(* resumes follow resumePriority, startup freezes follow freezePriority,   *)
(* and a namespace frozen by a command stays frozen.                       *)
(***************************************************************************)
EXTENDS PolicyFlagProofs

(***************************************************************************)
(* A resume that scales workloads was admitted by the priority gate, after *)
(* startup: since then nobody can have become pending, as only startup and *)
(* the worker itself raise that flag.                                      *)
(***************************************************************************)
OrderInv ==
  wpc = "pendingResume" =>
    gate /\ \A q \in Policies : Config[q].prio < Config[wp].prio => ~st[q].pr

\* The steps of the worker that can leave it in the loop of a pending freeze or
\* of a pending resume.
LEMMA EntersPending ==
  ASSUME Reconcile, wpc' \in {"pendingFreeze", "pendingResume"}
  PROVE  \/ StartPendingFreeze /\ wpc' = "pendingFreeze"
         \/ StartPendingResume /\ wpc' = "pendingResume"
         \/ wpc' = wpc /\ NoStatusWrite /\ UNCHANGED <<wp, view>>
<1>1. CASE \/ CancelPendingFreeze \/ WaitFreezeDelay \/ StartPendingFreeze \/ EndPendingFreeze
           \/ WaitStartup \/ CancelPendingResume \/ WaitTurn \/ WaitPreConditions \/ StartPendingResume
           \/ EndPendingResume \/ StartNodeFailure \/ EndNodeFailure \/ CleanUpFailedNode
           \/ ForgetFailedNode
  BY <1>1 DEF CancelPendingFreeze, WaitFreezeDelay, StartPendingFreeze, EndPendingFreeze, WaitStartup,
     CancelPendingResume, WaitTurn, WaitPreConditions, StartPendingResume, EndPendingResume,
     StartNodeFailure, EndNodeFailure, CleanUpFailedNode, ForgetFailedNode, Return, Continue, Loop
<1>2. CASE \/ SkipHandled \/ NamespaceMissing \/ CheckAgain \/ StartCheckedResume \/ EndCheckedResume
           \/ StartCommand \/ EndFreeze \/ EndResume \/ ResumeWithoutConditions \/ StartWaiting
           \/ StopWaiting \/ ConditionsPass \/ CheckOnce \/ ConditionsFail
  BY <1>2 DEF SkipHandled, NamespaceMissing, CheckAgain, StartCheckedResume, EndCheckedResume,
     StartCommand, EndFreeze, EndResume, ResumeWithoutConditions, StartWaiting, StopWaiting,
     ConditionsPass, CheckOnce, ConditionsFail, Return, Continue, Loop
<1>3. ASSUME NEW w \in Workloads, ScaleWorkload(w) \/ ScaleFails(w)
      PROVE  wpc' = wpc /\ NoStatusWrite /\ UNCHANGED <<wp, view>>
  BY <1>3 DEF ScaleWorkload, ScaleFails, Return, Loop
<1> QED BY <1>1, <1>2, <1>3 DEF Reconcile, Stage

\* Every step keeps the order.
LEMMA OrderInvStep == FlowInv /\ OrderInv /\ [Next]_vars => OrderInv'
<1> SUFFICES ASSUME FlowInv, OrderInv, [Next]_vars, wpc' = "pendingResume" PROVE OrderInv'
  BY DEF OrderInv
<1>0. TypeOK /\ StartupInv
  BY DEF FlowInv
<1>1. ASSUME wpc = "pendingResume", UNCHANGED <<gate, wp>>, \A q \in Policies : st'[q].pr => st[q].pr
      PROVE  OrderInv'
  BY <1>1 DEF OrderInv
<1>2. CASE Reconcile
  <2>1. UNCHANGED gate
    BY <1>2 DEF Reconcile, WorkerFrame
  <2>2. CASE StartPendingResume
    <3>1. gate /\ ~BlockedByHigherPriority(wp) /\ UNCHANGED <<st, wp>>
      BY <2>2 DEF StartPendingResume, AtPendingResume, NoStatusWrite, Loop
    <3>2. Config \in [Policies -> ConfigType] /\ wp \in Policies
      BY <1>0, <1>2, ConfigAssumption DEF Reconcile, TypeOK
    <3>3. ASSUME NEW q \in Policies, Config[q].prio < Config[wp].prio PROVE ~st[q].pr
      <4>1. q # wp
        BY <3>2, <3>3 DEF ConfigType
      <4> QED BY <3>1, <3>3, <4>1 DEF BlockedByHigherPriority
    <3> QED BY <2>1, <3>1, <3>3 DEF OrderInv
  <2> QED BY <1>1, <1>2, <2>1, <2>2, EntersPending DEF NoStatusWrite
<1>3. CASE Startup
  <2>1. wpc = "pendingResume" /\ wp' = wp
    BY <1>3 DEF Startup, StartupFrame, workerVars
  <2>2. spc = "done"
    BY <1>0, <2>1 DEF OrderInv, StartupInv
  <2>3. UNCHANGED <<gate, st>>
    BY <1>3, <2>2 DEF Startup, StartupOf, StartupList, StartupScan, EndScan, MarkStartupComplete,
       StartupFreeze, StartupFrozen, StartupWait, StartupScale, SkipScanned, StartScanned, ScanNext,
       EndScanned, StartupResume, NoStatusWrite
  <2> QED BY <1>1, <2>1, <2>3
<1>4. CASE Start \/ Crash \/ \E p \in Policies : Begin(p)
  BY <1>4 DEF Start, Crash, NoProcess, Begin
<1>5. ASSUME NEW p \in Policies, MapNode(p) PROVE OrderInv'
  <2>1. UNCHANGED <<gate, wpc, wp>>
    BY <1>5 DEF MapNode, OutsideFrame, workerVars
  <2> DEFINE s == [st[p] EXCEPT !.node = TRUE, !.nf = "detected"]
  <2>2. s.pr = st[p].pr
    BY <1>0 DEF TypeOK, Status
  <2>3. st' = st \/ st' = [st EXCEPT ![p] = s]
    BY <1>5 DEF MapNode, WriteStatus, NoStatusWrite
  <2> HIDE DEF s
  <2>4. \A q \in Policies : st'[q].pr => st[q].pr
    BY <1>0, <2>2, <2>3 DEF TypeOK
  <2> QED BY <1>1, <2>1, <2>4
<1>6. CASE UNCHANGED <<gate, wpc, wp, st>>
  BY <1>1, <1>6
<1>7. CASE \/ NodeFails \/ NodeRecovers
           \/ \E p \in Policies : \/ DelayOver(p) \/ PodsReady(p) \/ TimerFires(p)
                                  \/ CreateNamespace(p) \/ \E a \in Actions : Command(p, a)
  BY <1>6, <1>7 DEF NodeFails, NodeRecovers, DelayOver, PodsReady, TimerFires, CreateNamespace, Command,
     OutsideFrame, apiVars, workerVars
<1> QED BY <1>2, <1>3, <1>4, <1>5, <1>6, <1>7 DEF Next, Outside, vars, apiVars, workerVars

\* The priority gate, the startupComplete gate and the single worker keep the
\* order of resumePriority, whatever fails and whatever crashes: while a resume
\* scales workloads no policy with a higher priority waits for its own.
THEOREM ResumesKeepOrder == Spec => []ResumeInPriorityOrder
<1>1. Init => OrderInv
  BY DEF Init, OrderInv
<1>2. OrderInv => ResumeInPriorityOrder
  BY DEF OrderInv, ResumeInPriorityOrder
<1> QED BY <1>1, <1>2, OrderInvStep, FlagsBelong, PTL DEF Spec
(***************************************************************************)
(* preConditionsStatus.checking sends a later reconcile into a resume,     *)
(* whatever spec.action says, so a freeze holds only while it is down.     *)
(* Who raises it: a manual resume, and a pending resume.                   *)
(***************************************************************************)
OthersKept == \A q \in Policies : q # wp => st'[q] = st[q]
CheckingNotRaised == st'[wp].checking => st[wp].checking

\* A write of the status of the policy being reconciled.
LEMMA CheckedWrite ==
  ASSUME Busy, NEW s, st' = [st EXCEPT ![wp] = s]
  PROVE  OthersKept /\ st'[wp] = s
BY DEF Busy, TypeOK, OthersKept

\* The steps of the worker that leave the flag alone, or lower it.
LEMMA CheckingKept ==
  ASSUME Busy, Reconcile
  PROVE  OthersKept /\ (CheckingNotRaised \/ WaitPreConditions \/ wpc = "listed")
<1>1. CASE UNCHANGED st
  BY <1>1 DEF OthersKept, CheckingNotRaised
<1>2. ASSUME NEW s, st' = [st EXCEPT ![wp] = s], s.checking \in {st[wp].checking, FALSE}
      PROVE  OthersKept /\ CheckingNotRaised
  BY <1>2, CheckedWrite DEF CheckingNotRaised
<1>3. CASE WaitPreConditions \/ StartWaiting \/ CheckOnce
  BY <1>3, CheckedWrite DEF WaitPreConditions, StartWaiting, CheckOnce, WriteStatus
<1>4. CASE EndPendingFreeze
  BY <1>2, <1>4 DEF EndPendingFreeze, WriteStatus, Busy, Status
<1>5. CASE EndPendingResume
  BY <1>2, <1>5 DEF EndPendingResume, WriteStatus, Busy, Status
<1>6. CASE EndNodeFailure
  BY <1>2, <1>6 DEF EndNodeFailure, WriteStatus, Busy, Status
<1>7. CASE NamespaceMissing
  BY <1>2, <1>7 DEF NamespaceMissing, WriteStatus, Busy, Status
<1>8. CASE StopWaiting
  BY <1>2, <1>8 DEF StopWaiting, WriteStatus, Busy, Status
<1>9. CASE ConditionsFail
  BY <1>2, <1>9 DEF ConditionsFail, WriteStatus, Busy, Status
<1>10. CASE EndCheckedResume
  BY <1>2, <1>10 DEF EndCheckedResume, WriteStatus, Busy, Status
<1>11. CASE EndFreeze
  BY <1>2, <1>11 DEF EndFreeze, WriteStatus, Busy, Status
<1>12. CASE EndResume
  BY <1>2, <1>12 DEF EndResume, WriteStatus, Busy, Status
<1>13. CASE CancelPendingFreeze
  BY <1>2, <1>13 DEF CancelPendingFreeze, WriteStatus, Busy, Status
<1>14. CASE CancelPendingResume
  BY <1>2, <1>14 DEF CancelPendingResume, WriteStatus, Busy, Status
<1>15. CASE ForgetFailedNode
  BY <1>2, <1>15 DEF ForgetFailedNode, WriteStatus, Busy, Status
<1>16. CASE ConditionsPass
  BY <1>2, <1>16 DEF ConditionsPass, WriteStatus, Busy, Status
<1>17. CASE StartCommand
  BY <1>2, <1>17 DEF StartCommand, WriteStatus, Busy, Status
<1>18. ASSUME NEW w \in Workloads, ScaleWorkload(w) \/ ScaleFails(w) PROVE OthersKept /\ CheckingNotRaised
  <2> DEFINE s == [st[wp] EXCEPT !.phase = "Failed", !.last = view.op]
  <2>1. s.checking \in {st[wp].checking, FALSE}
    BY DEF Busy, Status
  <2>2. st' = st \/ st' = [st EXCEPT ![wp] = s]
    BY <1>18 DEF ScaleWorkload, ScaleFails, WriteStatus, NoStatusWrite
  <2> HIDE DEF s
  <2>3. CASE st' = st
    BY <2>3 DEF OthersKept, CheckingNotRaised
  <2>4. CASE st' = [st EXCEPT ![wp] = s]
    BY <1>2, <2>1, <2>4
  <2> QED BY <2>2, <2>3, <2>4
<1> QED BY <1>1, <1>3, <1>4, <1>5, <1>6, <1>7, <1>8, <1>9, <1>10, <1>11, <1>12, <1>13, <1>14, <1>15, <1>16, <1>17, <1>18
  DEF Reconcile, Stage, NoStatusWrite, WaitFreezeDelay, WaitStartup, WaitTurn, CleanUpFailedNode,
      SkipHandled, CheckAgain, StartPendingFreeze, StartPendingResume, StartNodeFailure,
      StartCheckedResume, ResumeWithoutConditions

(***************************************************************************)
(* What holds a commanded freeze in place.  A reconcile works for the      *)
(* latest command or for one that was replaced before being carried out,   *)
(* and once the freeze is carried out checking is down: for a policy that  *)
(* no startup or recovery resume concerns, nothing can raise it then.      *)
(***************************************************************************)
Held(p) == op[p] # 0 /\ op[p] \in done[p] /\ action[p] = "Freeze"

\* The reconcile under way, the command it carries out and the flag.
WorkFollowsCommand ==
  /\ view.op <= op[wp]
  /\ view.op # op[wp] => op[wp] \notin done[wp]
  /\ view.op = op[wp] => view.action = action[wp]

WorkFollowsFlag ==
  /\ wpc \in Reading => view.st.checking = st[wp].checking
  /\ wpc = "freeze" => ~st[wp].checking
  /\ wpc = "checkingResume" => st[wp].checking
  /\ wpc \in {"listed", "waiting", "resume"} => view.action = "Resume"

HoldInv ==
  /\ \A p \in Policies : done[p] \subseteq 0..op[p]
  /\ \A p \in Policies : ~Resumable(p) /\ Held(p) => ~st[p].checking
  /\ wpc # "idle" => WorkFollowsCommand /\ WorkFollowsFlag

\* The flag of the policy being reconciled is raised only where it may be.
LEMMA RaisedByResume ==
  ASSUME Busy, FlagInv, HoldInv, Reconcile, st'[wp].checking
  PROVE  \/ st[wp].checking
         \/ view.action = "Resume"
         \/ Resumable(wp) /\ Config[wp].pre # "none"
<1>1. CASE CheckingNotRaised
  BY <1>1 DEF CheckingNotRaised
<1>2. CASE WaitPreConditions
  <2>1. view.st.pr /\ Config[wp].pre # "none"
    BY <1>2 DEF WaitPreConditions, AtPendingResume, ChecksFail, PreConditionsPass
  <2>2. FlagsOK(wp, view.st)
    BY DEF Busy, FlagInv
  <2> QED BY <2>1, <2>2 DEF FlagsOK
<1>3. CASE wpc = "listed"
  BY <1>3 DEF HoldInv, WorkFollowsFlag
<1> QED BY <1>1, <1>2, <1>3, CheckingKept

\* A step of the worker leaves every held policy with the flag down.
LEMMA HeldStaysDown ==
  ASSUME Busy, FlagInv, HoldInv, Reconcile,
         \/ done' = done
         \/ CommandDone /\ (view.action = "Resume" \/ ~st'[wp].checking)
  PROVE  /\ \A p \in Policies : done'[p] \subseteq 0..op'[p]
         /\ \A p \in Policies : ~Resumable(p) /\ Held(p)' => ~st'[p].checking
<1>1. UNCHANGED <<op, action>> /\ OthersKept /\ wp \in Policies /\ WorkFollowsCommand
  BY CheckingKept DEF Reconcile, WorkerFrame, Busy, HoldInv
<1>2. /\ done \in [Policies -> SUBSET OpIds] /\ op \in [Policies -> OpIds] /\ view.op \in OpIds
      /\ MaxOps \in Nat
  BY ConfigAssumption DEF Busy, TypeOK, View
<1>3. \A p \in Policies : p # wp => done'[p] = done[p]
  BY <1>1, <1>2 DEF CommandDone
<1>4. done'[wp] = done[wp] \/ done'[wp] = done[wp] \cup {view.op}
  BY <1>1, <1>2 DEF CommandDone
<1>5. \A p \in Policies : done'[p] \subseteq 0..op'[p]
  <2>1. view.op \in 0..op[wp]
    BY <1>1, <1>2 DEF WorkFollowsCommand, OpIds
  <2> QED BY <1>1, <1>3, <1>4, <2>1 DEF HoldInv
<1>6. ASSUME NEW p \in Policies, p # wp, ~Resumable(p), Held(p)' PROVE ~st'[p].checking
  BY <1>1, <1>3, <1>6 DEF Held, HoldInv, OthersKept
<1>7. ASSUME NEW p \in Policies, p = wp, ~Resumable(p), Held(p)', st'[p].checking PROVE FALSE
  <2>1. view.op = op[wp] /\ view.action = "Freeze"
    BY <1>1, <1>4, <1>7 DEF Held, WorkFollowsCommand
  <2>2. done' = done
    BY <1>7, <2>1
  <2>3. ~st[wp].checking
    BY <1>1, <1>7, <2>2 DEF Held, HoldInv
  <2> QED BY <1>7, <2>1, <2>3, RaisedByResume
<1> QED BY <1>5, <1>6, <1>7
\* A reconcile that returns.
LEMMA HoldReturn ==
  ASSUME Busy, FlagInv, HoldInv, Reconcile, NEW r, Return(r),
         \/ done' = done
         \/ CommandDone /\ (view.action = "Resume" \/ ~st'[wp].checking)
  PROVE  HoldInv'
BY HeldStaysDown DEF HoldInv, Return

\* A reconcile that goes on.
LEMMA HoldGoesOn ==
  ASSUME Busy, FlagInv, HoldInv, Reconcile, UNCHANGED <<done, wp>>,
         view' = view \/ (view'.op = op[wp] /\ view'.action = action[wp]),
         WorkFollowsFlag'
  PROVE  HoldInv'
<1>1. WorkFollowsCommand /\ UNCHANGED <<op, action>> /\ op[wp] \in Nat
  BY DEF Busy, HoldInv, Reconcile, WorkerFrame, TypeOK, OpIds
<1>2. WorkFollowsCommand'
  BY <1>1 DEF WorkFollowsCommand
<1> QED BY <1>2, HeldStaysDown DEF HoldInv

\* The stages that return.
LEMMA ReturnsHold ==
  ASSUME Busy, FlagInv, HoldInv, Reconcile,
         \/ WaitFreezeDelay \/ EndPendingFreeze \/ WaitStartup \/ WaitTurn \/ WaitPreConditions
         \/ EndPendingResume \/ EndNodeFailure \/ CleanUpFailedNode \/ SkipHandled \/ NamespaceMissing
         \/ CheckAgain \/ EndCheckedResume \/ EndFreeze \/ EndResume \/ StopWaiting \/ ConditionsFail
  PROVE  HoldInv'
<1>1. \E r : Return(r)
  BY DEF WaitFreezeDelay, EndPendingFreeze, WaitStartup, WaitTurn, WaitPreConditions, EndPendingResume,
     EndNodeFailure, CleanUpFailedNode, SkipHandled, NamespaceMissing, CheckAgain, EndCheckedResume,
     EndFreeze, EndResume, StopWaiting, ConditionsFail
<1>2. CASE done' = done
  BY <1>1, <1>2, HoldReturn
<1>3. CASE EndCheckedResume
  BY <1>1, <1>2, <1>3, HoldReturn DEF EndCheckedResume
<1>4. WorkFollowsFlag
  BY DEF Busy, HoldInv
<1>5. CASE EndFreeze
  <2> DEFINE s == [st[wp] EXCEPT !.phase = "Frozen", !.last = view.op]
  <2>1. CommandDone /\ st' = [st EXCEPT ![wp] = s] /\ ~st[wp].checking
    BY <1>4, <1>5 DEF EndFreeze, WriteStatus, WorkFollowsFlag
  <2>2. ~s.checking
    BY <2>1 DEF Busy, Status
  <2> HIDE DEF s
  <2>3. ~st'[wp].checking
    BY <2>1, <2>2, CheckedWrite
  <2> QED BY <1>1, <2>1, <2>3, HoldReturn
<1>6. CASE EndResume
  BY <1>1, <1>4, <1>6, HoldReturn DEF EndResume, WorkFollowsFlag
<1> QED BY <1>2, <1>3, <1>5, <1>6 DEF WaitFreezeDelay, EndPendingFreeze, WaitStartup, WaitTurn,
     WaitPreConditions, EndPendingResume, EndNodeFailure, CleanUpFailedNode, SkipHandled, NamespaceMissing,
     CheckAgain, StopWaiting, ConditionsFail, history

\* The stages that read the policy again.
LEMMA RereadsHold ==
  ASSUME Busy, FlagInv, HoldInv, Reconcile,
         CancelPendingFreeze \/ CancelPendingResume \/ ForgetFailedNode
  PROVE  HoldInv'
<1>1. ASSUME NEW s, st' = [st EXCEPT ![wp] = s], view' = [ViewOf(wp) EXCEPT !.st = s],
             wpc' \in Reading, UNCHANGED <<done, wp>>
      PROVE  HoldInv'
  <2>1. view'.op = op[wp] /\ view'.action = action[wp] /\ view'.st = s
    BY <1>1 DEF ViewOf
  <2>2. st'[wp] = s
    BY <1>1, CheckedWrite
  <2>3. WorkFollowsFlag'
    BY <1>1, <2>1, <2>2 DEF WorkFollowsFlag, Reading
  <2> QED BY <1>1, <2>1, <2>3, HoldGoesOn
<1>2. CASE CancelPendingFreeze
  BY <1>1, <1>2 DEF CancelPendingFreeze, WriteStatus, Continue, Reading, history
<1>3. CASE CancelPendingResume
  BY <1>1, <1>3 DEF CancelPendingResume, WriteStatus, Continue, Reading, history
<1>4. CASE ForgetFailedNode
  BY <1>1, <1>4 DEF ForgetFailedNode, WriteStatus, Continue, Reading, history
<1> QED BY <1>2, <1>3, <1>4

\* The stages that start a loop or go on to the next check.
LEMMA StartsHold ==
  ASSUME Busy, FlagInv, HoldInv, Reconcile,
         \/ StartPendingFreeze \/ StartPendingResume \/ StartNodeFailure \/ StartCheckedResume
         \/ StartCommand \/ ResumeWithoutConditions \/ StartWaiting \/ ConditionsPass \/ CheckOnce
  PROVE  HoldInv'
<1>1. WorkFollowsFlag /\ view.action \in Actions
  BY DEF Busy, HoldInv, View
<1>2. ASSUME UNCHANGED <<done, wp, view>>, WorkFollowsFlag' PROVE HoldInv'
  BY <1>2, HoldGoesOn
<1>3. CASE StartPendingFreeze \/ StartPendingResume \/ StartNodeFailure
  <2>1. wpc' \in {"pendingFreeze", "pendingResume", "failureFreeze"} /\ UNCHANGED <<done, wp, view>>
    BY <1>3 DEF StartPendingFreeze, StartPendingResume, StartNodeFailure, Loop, history
  <2> QED BY <1>2, <2>1 DEF WorkFollowsFlag, Reading
<1>4. CASE StartCheckedResume
  <2>1. /\ wpc' = "checkingResume" /\ UNCHANGED <<st, done, wp, view>>
        /\ view.st.checking /\ AtCommand
    BY <1>4 DEF StartCheckedResume, Loop, NoStatusWrite, history
  <2>2. st[wp].checking
    BY <1>1, <2>1, StageReads DEF WorkFollowsFlag
  <2> QED BY <1>2, <2>1, <2>2 DEF WorkFollowsFlag, Reading
<1>5. CASE StartCommand
  <2> DEFINE s == [st[wp] EXCEPT !.last = view.op,
                     !.phase = IF view.action = "Freeze" THEN "Freezing" ELSE "Resuming"]
  <2>1. /\ wpc' = IF view.action = "Freeze" THEN "freeze" ELSE "listed"
        /\ UNCHANGED <<done, wp, view>> /\ ~view.st.checking /\ AtCommand
    BY <1>5 DEF StartCommand, Loop
  <2>2. st' = [st EXCEPT ![wp] = s]
    BY <1>5 DEF StartCommand, WriteStatus
  <2>3. ~st[wp].checking
    BY <1>1, <2>1, StageReads DEF WorkFollowsFlag
  <2>4. ~s.checking
    BY <2>3 DEF Busy, Status
  <2> HIDE DEF s
  <2>5. ~st'[wp].checking
    BY <2>2, <2>4, CheckedWrite
  <2> QED BY <1>1, <1>2, <2>1, <2>5 DEF WorkFollowsFlag, Reading, Actions
<1>6. CASE ResumeWithoutConditions \/ StartWaiting \/ ConditionsPass \/ (CheckOnce /\ PreConditionsPass(wp))
  <2>1. wpc \in {"listed", "waiting"} /\ wpc' \in {"resume", "waiting"} /\ UNCHANGED <<done, wp, view>>
    BY <1>6 DEF ResumeWithoutConditions, StartWaiting, ConditionsPass, CheckOnce, Continue, history
  <2> QED BY <1>1, <1>2, <2>1 DEF WorkFollowsFlag, Reading
<1>7. CASE CheckOnce /\ ~PreConditionsPass(wp)
  BY <1>7, HoldReturn DEF CheckOnce, history
<1> QED BY <1>3, <1>4, <1>5, <1>6, <1>7

\* Every step of the worker.
LEMMA ReconcileHolds == TypeOK /\ FlagInv /\ HoldInv /\ Reconcile => HoldInv'
<1> SUFFICES ASSUME TypeOK, FlagInv, HoldInv, Reconcile PROVE HoldInv'
  OBVIOUS
<1>1. Busy /\ WorkFollowsFlag
  BY BusyWorker DEF Reconcile, HoldInv
<1>2. ASSUME UNCHANGED <<st, wpc, wp, view, done>> PROVE HoldInv'
  BY <1>1, <1>2, HoldGoesOn DEF WorkFollowsFlag
<1>3. ASSUME NEW w \in Workloads, ScaleWorkload(w) \/ ScaleFails(w) PROVE HoldInv'
  BY <1>1, <1>2, <1>3, HoldReturn DEF ScaleWorkload, ScaleFails, NoStatusWrite, Loop, history
<1> QED BY <1>1, <1>3, ReturnsHold, RereadsHold, StartsHold DEF Reconcile, Stage

\* A step of anybody else leaves the flag alone.
LEMMA QuietHolds ==
  ASSUME HoldInv, UNCHANGED <<op, action, done, wpc, wp, view>>, wpc # "idle" => wp \in Policies,
         \A q \in Policies : st'[q].checking = st[q].checking
  PROVE  HoldInv'
BY DEF HoldInv, WorkFollowsCommand, WorkFollowsFlag, Held

\* The status writes of startup and of the node watch.
LEMMA StartupChecks ==
  ASSUME TypeOK, Startup \/ \E p \in Policies : MapNode(p)
  PROVE  \A q \in Policies : st'[q].checking = st[q].checking
<1>1. CASE st' = st
  BY <1>1
<1>2. ASSUME NEW p \in Policies, NEW s, st' = [st EXCEPT ![p] = s], s.checking = st[p].checking
      PROVE  \A q \in Policies : st'[q].checking = st[q].checking
  BY <1>2 DEF TypeOK
<1>3. ASSUME NEW p \in Policies PROVE st[p] \in Status
  BY DEF TypeOK
<1>4. ASSUME NEW p \in Policies, StartupFreeze(p)
      PROVE  \A q \in Policies : st'[q].checking = st[q].checking
  BY <1>1, <1>2, <1>3, <1>4 DEF StartupFreeze, WriteStatus, NoStatusWrite, Status
<1>5. ASSUME NEW p \in Policies, StartupFrozen(p)
      PROVE  \A q \in Policies : st'[q].checking = st[q].checking
  BY <1>2, <1>3, <1>5 DEF StartupFrozen, WriteStatus, Status
<1>6. ASSUME NEW p \in Policies, EndScanned(p)
      PROVE  \A q \in Policies : st'[q].checking = st[q].checking
  BY <1>1, <1>2, <1>3, <1>6 DEF EndScanned, WriteStatus, NoStatusWrite, Status
<1>7. ASSUME NEW p \in Policies, StartupResume(p)
      PROVE  \A q \in Policies : st'[q].checking = st[q].checking
  BY <1>1, <1>2, <1>3, <1>7 DEF StartupResume, WriteStatus, NoStatusWrite, Status
<1>8. ASSUME NEW p \in Policies, MapNode(p)
      PROVE  \A q \in Policies : st'[q].checking = st[q].checking
  BY <1>1, <1>2, <1>3, <1>8 DEF MapNode, WriteStatus, NoStatusWrite, Status
<1> QED BY <1>1, <1>4, <1>5, <1>6, <1>7, <1>8
        DEF Startup, StartupOf, StartupList, StartupScan, EndScan, MarkStartupComplete, StartupWait,
            StartupScale, SkipScanned, StartScanned, NoStatusWrite

\* Every step keeps what holds a freeze.
LEMMA HoldInvStep == FlowInv /\ HoldInv /\ [Next]_vars => HoldInv'
<1> SUFFICES ASSUME FlowInv, HoldInv, [Next]_vars PROVE HoldInv'
  OBVIOUS
<1>0. TypeOK /\ FlagInv /\ (wpc # "idle" => wp \in Policies)
  BY DEF FlowInv, TypeOK
<1>1. CASE Reconcile
  BY <1>0, <1>1, ReconcileHolds
<1>2. CASE Startup \/ \E p \in Policies : MapNode(p)
  <2>1. UNCHANGED <<op, action, done, wpc, wp, view>>
    BY <1>2 DEF Startup, StartupFrame, MapNode, OutsideFrame, workerVars, history
  <2> QED BY <1>0, <1>2, <2>1, QuietHolds, StartupChecks
<1>3. ASSUME NEW p \in Policies, Begin(p) PROVE HoldInv'
  <2>1. /\ wpc' = "read" /\ wp' = p /\ view' = ViewOf(p) /\ UNCHANGED <<op, action, st, done>>
        /\ op[p] \in Nat
    BY <1>0, <1>3 DEF Begin, WorkerFrame, history, TypeOK, OpIds
  <2>2. view'.op = op[p] /\ view'.action = action[p] /\ view'.st = st[p]
    BY <2>1 DEF ViewOf
  <2> QED BY <2>1, <2>2 DEF HoldInv, WorkFollowsCommand, WorkFollowsFlag, Held, Reading
<1>4. CASE Crash \/ Start
  BY <1>4 DEF Crash, Start, NoProcess, apiVars, history, HoldInv, Held
<1>5. ASSUME NEW p \in Policies, NEW a \in Actions, Command(p, a) PROVE HoldInv'
  <2>1. /\ op' = [op EXCEPT ![p] = @ + 1] /\ action' = [action EXCEPT ![p] = a]
        /\ UNCHANGED <<st, done, wpc, wp, view>>
    BY <1>5 DEF Command, OutsideFrame, workerVars, history
  <2>2. op \in [Policies -> Nat] /\ action \in [Policies -> Actions] /\ view.op \in Nat
    BY <1>0 DEF TypeOK, OpIds, View
  <2>3. \A q \in Policies : q # p => op'[q] = op[q] /\ action'[q] = action[q]
    BY <2>1, <2>2
  <2>4. op'[p] = op[p] + 1 /\ op'[p] \notin done[p] /\ done[p] \subseteq 0..op'[p]
    BY <2>1, <2>2 DEF HoldInv
  <2>5. wpc # "idle" => WorkFollowsCommand'
    BY <1>0, <2>1, <2>2, <2>3, <2>4 DEF HoldInv, WorkFollowsCommand
  <2>6. wpc # "idle" => WorkFollowsFlag'
    BY <2>1 DEF HoldInv, WorkFollowsFlag
  <2>7. \A q \in Policies : Held(q)' => Held(q)
    BY <2>1, <2>3, <2>4 DEF Held
  <2> QED BY <2>1, <2>3, <2>4, <2>5, <2>6, <2>7 DEF HoldInv
<1>6. CASE UNCHANGED <<op, action, done, wpc, wp, view, st>>
  BY <1>0, <1>6, QuietHolds
<1>7. CASE \/ NodeFails \/ NodeRecovers
           \/ \E p \in Policies : DelayOver(p) \/ PodsReady(p) \/ TimerFires(p) \/ CreateNamespace(p)
  BY <1>6, <1>7 DEF NodeFails, NodeRecovers, DelayOver, PodsReady, TimerFires, CreateNamespace,
     OutsideFrame, apiVars, workerVars, history
<1> QED BY <1>1, <1>2, <1>3, <1>4, <1>5, <1>6, <1>7 DEF Next, Outside, vars, apiVars, workerVars, history

\* At first nothing is carried out.
LEMMA HoldInit == Init => HoldInv
BY DEF Init, HoldInv, Held, NewStatus
\* The steps that bring workloads back: the resume loops of the worker.
LEMMA OnlyResumesShrink ==
  ASSUME TypeOK, [Next]_vars, NEW p \in Policies, ~(frozen[p] \subseteq frozen'[p])
  PROVE  wpc \in ResumeLoops /\ wp = p
<1>0. frozen \in [Policies -> SUBSET Workloads]
  BY DEF TypeOK
<1>1. ~UNCHANGED frozen
  OBVIOUS
<1>2. CASE Startup
  <2>1. PICK q \in Policies, w \in Workloads : frozen' = [frozen EXCEPT ![q] = @ \cup {w}]
    BY <1>1, <1>2 DEF Startup, StartupOf, StartupList, StartupScan, EndScan, MarkStartupComplete,
       StartupFreeze, StartupFrozen, StartupWait, StartupScale, SkipScanned, StartScanned,
       EndScanned, StartupResume
  <2> QED BY <1>0, <2>1
<1>3. CASE Reconcile /\ Stage
  BY <1>1, <1>3 DEF Stage, CancelPendingFreeze, WaitFreezeDelay, StartPendingFreeze, EndPendingFreeze,
     WaitStartup, CancelPendingResume, WaitTurn, WaitPreConditions, StartPendingResume,
     EndPendingResume, StartNodeFailure, EndNodeFailure, CleanUpFailedNode, ForgetFailedNode,
     SkipHandled, NamespaceMissing, CheckAgain, StartCheckedResume, EndCheckedResume,
     StartCommand, EndFreeze, EndResume, ResumeWithoutConditions, StartWaiting, StopWaiting,
     ConditionsPass, CheckOnce, ConditionsFail
<1>4. ASSUME NEW w \in Workloads, ScaleWorkload(w) PROVE wpc \in ResumeLoops /\ wp = p
  BY <1>0, <1>4 DEF ScaleWorkload
<1>5. ASSUME NEW w \in Workloads, ScaleFails(w) PROVE FALSE
  BY <1>1, <1>5 DEF ScaleFails
<1>6. CASE Outside \/ Start \/ \E q \in Policies : Begin(q)
  BY <1>1, <1>6 DEF Outside, Start, Begin, NodeFails, NodeRecovers, Crash, MapNode, DelayOver, PodsReady,
     TimerFires, CreateNamespace, Command, apiVars
<1> QED BY <1>1, <1>2, <1>3, <1>4, <1>5, <1>6 DEF Next, Reconcile, vars, apiVars

\* A namespace frozen by a command that was carried out stays frozen until the
\* next command, for every policy that startup and node failures do not resume:
\* no reconcile that read an older command, no restart and no leftover of a wait
\* for pre-conditions brings a workload back.
THEOREM FreezesHold == Spec => ManualFreezeHolds
<1> DEFINE Inv == FlowInv /\ HoldInv
           Keeps == \A p \in Policies :
             (/\ Config[p].startup # "Resume" /\ ~Config[p].nodeFail
              /\ action[p] = "Freeze" /\ op[p] # 0 /\ op[p] \in done[p]) => frozen[p] \subseteq frozen'[p]
<1>1. Inv /\ [Next]_vars => [Keeps]_vars
  <2> SUFFICES ASSUME FlowInv, HoldInv, [Next]_vars, NEW p \in Policies,
                      Config[p].startup # "Resume", ~Config[p].nodeFail,
                      action[p] = "Freeze", op[p] # 0, op[p] \in done[p],
                      ~(frozen[p] \subseteq frozen'[p])
               PROVE  FALSE
    OBVIOUS
  <2>1. wpc \in ResumeLoops /\ wp = p
    BY OnlyResumesShrink DEF FlowInv
  <2>2. ~Resumable(p) /\ Held(p)
    BY DEF Resumable, Held
  <2>3. CASE wpc = "pendingResume"
    BY <2>1, <2>2, <2>3 DEF FlowInv, FlagInv
  <2>4. CASE wpc = "checkingResume"
    BY <2>1, <2>2, <2>4 DEF HoldInv, WorkFollowsFlag
  <2>5. CASE wpc = "resume"
    BY <2>1, <2>2, <2>5 DEF HoldInv, WorkFollowsFlag, WorkFollowsCommand, Held
  <2> QED BY <2>1, <2>3, <2>4, <2>5 DEF ResumeLoops
<1>2. Init => HoldInv
  BY HoldInit
<1> QED BY <1>1, <1>2, HoldInvStep, FlagsBelong, PTL DEF Spec, ManualFreezeHolds

(***************************************************************************)
(* The groups of freezePriority.  A policy that no command has touched and *)
(* whose part of startup is done is at zero and stays there while startup  *)
(* freezes: the pending resumes wait for the gate, and its command can     *)
(* only be Freeze.  One resume passes the gate: a checking flag left       *)
(* behind by a recovery before a restart resumes the namespace as soon as  *)
(* a reconcile gets to the command.  LeftAlone says why none does once the *)
(* part of the policy is done.                                             *)
(***************************************************************************)
Untouched(q) == q \in FreezePolicies /\ op[q] = 0 /\ action[q] = "Freeze"

\* Startup never gives up waiting for a freeze, and every target namespace exists.
GroupsCanFinish == "freezeTimeout" \notin Features /\ "missingNamespace" \notin Features

\* A delayed freeze makes the policy Frozen only with the flag down, so its part
\* cannot end; without a delay only resumes and node failures wake the policy,
\* and those wait for the gate.
LeftAlone(q) ==
  IF Delayed(q)
    THEN /\ gpc[q] \in {"todo", "waiting"}
         /\ gpc[q] = "waiting" => st[q].phase \notin {"Frozen", "Failed"}
    ELSE /\ q \in queue \cup timers => st[q].pr \/ st[q].nf = "detected"
         /\ wp = q => \/ wpc = "failureFreeze"
                      \/ wpc = "read" /\ view.st.pr /\ st[q].pr
                      \/ wpc = "read" /\ view.st.nf = "detected" /\ st[q].nf = "detected"

CheckedAreLeftAlone ==
  spc \in {"list", "freeze"} => \A q \in Policies : Untouched(q) /\ st[q].checking => LeftAlone(q)

UntouchedAtZero ==
  spc = "freeze" => \A q \in Policies : Untouched(q) /\ gpc[q] = "done" => frozen[q] = Workloads

GroupsInTurn ==
  spc = "freeze" =>
    \A p, q \in FreezePolicies : gpc[p] # "todo" /\ Config[q].fprio < Config[p].fprio => gpc[q] = "done"

GroupInv ==
  /\ \A p \in Policies : exists[p]
  /\ wpc = "pendingFreeze" => view.op # 0
  /\ CheckedAreLeftAlone /\ UntouchedAtZero /\ GroupsInTurn

\* A step of the worker wakes no policy but the one it reconciles.
LEMMA WorkerReach ==
  ASSUME Reconcile
  PROVE  queue' \subseteq queue \cup {wp} /\ timers' \subseteq timers \cup {wp} /\ wp' \in {wp, NoPolicy}
<1>1. CASE \/ CancelPendingFreeze \/ WaitFreezeDelay \/ StartPendingFreeze \/ EndPendingFreeze
           \/ WaitStartup \/ CancelPendingResume \/ WaitTurn \/ WaitPreConditions \/ StartPendingResume
           \/ EndPendingResume \/ StartNodeFailure \/ EndNodeFailure \/ CleanUpFailedNode
           \/ ForgetFailedNode
  BY <1>1 DEF CancelPendingFreeze, WaitFreezeDelay, StartPendingFreeze, EndPendingFreeze, WaitStartup,
     CancelPendingResume, WaitTurn, WaitPreConditions, StartPendingResume, EndPendingResume,
     StartNodeFailure, EndNodeFailure, CleanUpFailedNode, ForgetFailedNode, Return, Continue, Loop,
     WriteStatus, NoStatusWrite
<1>2. CASE \/ SkipHandled \/ NamespaceMissing \/ CheckAgain \/ StartCheckedResume \/ EndCheckedResume
           \/ StartCommand \/ EndFreeze \/ EndResume \/ ResumeWithoutConditions \/ StartWaiting
           \/ StopWaiting \/ ConditionsPass \/ CheckOnce \/ ConditionsFail
  BY <1>2 DEF SkipHandled, NamespaceMissing, CheckAgain, StartCheckedResume, EndCheckedResume,
     StartCommand, EndFreeze, EndResume, ResumeWithoutConditions, StartWaiting, StopWaiting,
     ConditionsPass, CheckOnce, ConditionsFail, Return, Continue, Loop, WriteStatus, NoStatusWrite
<1>3. CASE \E w \in Workloads : ScaleWorkload(w) \/ ScaleFails(w)
  BY <1>3 DEF ScaleWorkload, ScaleFails, Return, Loop, WriteStatus, NoStatusWrite
<1> QED BY <1>1, <1>2, <1>3 DEF Reconcile, Stage

\* What a reconcile does that has read a pending resume or a node failure while
\* the gate is closed.
LEMMA GatedRead ==
  ASSUME Reconcile, wpc = "read", ~gate, ~view.st.pf, view.st.pr \/ Unhandled(wp, view.st)
  PROVE  (view.st.pr /\ WaitStartup) \/ StartNodeFailure
<1>1. ~AtCommand /\ (AtFailure => ~view.st.pr /\ Unhandled(wp, view.st))
  BY DEF AtCommand, AtFailure, AtResume
<1>2. CASE Stage
  BY <1>1, <1>2 DEF Stage, CancelPendingFreeze, WaitFreezeDelay, StartPendingFreeze, EndPendingFreeze,
     WaitStartup, CancelPendingResume, WaitTurn, WaitPreConditions, StartPendingResume,
     EndPendingResume, EndNodeFailure, CleanUpFailedNode, ForgetFailedNode, AtPendingResume,
     SkipHandled, NamespaceMissing, CheckAgain, StartCheckedResume, EndCheckedResume,
     StartCommand, EndFreeze, EndResume, ResumeWithoutConditions, StartWaiting, StopWaiting,
     ConditionsPass, CheckOnce, ConditionsFail
<1>3. ASSUME NEW w \in Workloads, ScaleWorkload(w) \/ ScaleFails(w) PROVE FALSE
  BY <1>3 DEF ScaleWorkload, ScaleFails, FreezeLoops, ResumeLoops
<1> QED BY <1>2, <1>3 DEF Reconcile

\* What a reconcile does that handles a node failure.
LEMMA HandlingFailure ==
  ASSUME Reconcile, wpc = "failureFreeze"
  PROVE  EndNodeFailure \/ (UNCHANGED <<st, queue, timers, wpc, wp>>)
<1>1. ~AtCommand /\ ~AtFailure /\ ~AtResume
  BY DEF AtCommand, AtFailure, AtResume
<1>2. CASE Stage
  BY <1>1, <1>2 DEF Stage, CancelPendingFreeze, WaitFreezeDelay, StartPendingFreeze, EndPendingFreeze,
     WaitStartup, CancelPendingResume, WaitTurn, WaitPreConditions, StartPendingResume,
     EndPendingResume, StartNodeFailure, CleanUpFailedNode, ForgetFailedNode, AtPendingResume,
     SkipHandled, NamespaceMissing, CheckAgain, StartCheckedResume, EndCheckedResume,
     StartCommand, EndFreeze, EndResume, ResumeWithoutConditions, StartWaiting, StopWaiting,
     ConditionsPass, CheckOnce, ConditionsFail
<1>3. ASSUME NEW w \in Workloads, ScaleWorkload(w) \/ ScaleFails(w)
      PROVE  UNCHANGED <<st, queue, timers, wpc, wp>>
  BY <1>3 DEF ScaleWorkload, ScaleFails, StrictLoops, NoStatusWrite, Loop
<1> QED BY <1>2, <1>3 DEF Reconcile
\* The steps of the worker that make a policy Frozen or Failed.
LEMMA PhaseKept ==
  ASSUME Busy, Reconcile, ~EndPendingFreeze, ~EndFreeze, ~NamespaceMissing, ~ConditionsFail,
         wpc \notin StrictLoops \/ wtodo = {}
  PROVE  st'[wp].phase \in {st[wp].phase, "Resumed", "Resuming", "Freezing"}
<1> DEFINE Goal == st'[wp].phase \in {st[wp].phase, "Resumed", "Resuming", "Freezing"}
<1>1. CASE st' = st
  BY <1>1
<1>2. ASSUME NEW s, st' = [st EXCEPT ![wp] = s],
             s.phase \in {st[wp].phase, "Resumed", "Resuming", "Freezing"}
      PROVE  Goal
  BY <1>2, CheckedWrite
<1>3. CASE WaitPreConditions
  BY <1>2, <1>3 DEF WaitPreConditions, WriteStatus, Busy, Status, View
<1>4. CASE EndPendingResume
  BY <1>2, <1>4 DEF EndPendingResume, WriteStatus, Busy, Status, View
<1>5. CASE EndNodeFailure
  BY <1>2, <1>5 DEF EndNodeFailure, WriteStatus, Busy, Status, View
<1>6. CASE StopWaiting
  BY <1>2, <1>6 DEF StopWaiting, WriteStatus, Busy, Status, View
<1>7. CASE EndCheckedResume
  BY <1>2, <1>7 DEF EndCheckedResume, WriteStatus, Busy, Status, View
<1>8. CASE EndResume
  BY <1>2, <1>8 DEF EndResume, WriteStatus, Busy, Status, View
<1>9. CASE CancelPendingFreeze
  BY <1>2, <1>9 DEF CancelPendingFreeze, WriteStatus, Busy, Status, View
<1>10. CASE CancelPendingResume
  BY <1>2, <1>10 DEF CancelPendingResume, WriteStatus, Busy, Status, View
<1>11. CASE ForgetFailedNode
  BY <1>2, <1>11 DEF ForgetFailedNode, WriteStatus, Busy, Status, View
<1>12. CASE StartWaiting
  BY <1>2, <1>12 DEF StartWaiting, WriteStatus, Busy, Status, View
<1>13. CASE ConditionsPass
  BY <1>2, <1>13 DEF ConditionsPass, WriteStatus, Busy, Status, View
<1>14. CASE StartCommand
  BY <1>2, <1>14 DEF StartCommand, WriteStatus, Busy, Status, View
<1>15. CASE CheckOnce
  BY <1>2, <1>15 DEF CheckOnce, WriteStatus, Busy, Status, View
<1>16. ASSUME NEW w \in Workloads, ScaleWorkload(w) \/ ScaleFails(w) PROVE st' = st
  BY <1>16 DEF ScaleWorkload, ScaleFails, NoStatusWrite
<1> QED BY <1>1, <1>3, <1>4, <1>5, <1>6, <1>7, <1>8, <1>9, <1>10, <1>11, <1>12, <1>13, <1>14, <1>15, <1>16
  DEF Reconcile, Stage, NoStatusWrite, WaitFreezeDelay, WaitStartup, WaitTurn, CleanUpFailedNode,
      SkipHandled, CheckAgain, StartPendingFreeze, StartPendingResume, StartNodeFailure,
      StartCheckedResume, ResumeWithoutConditions

\* The reconcile of an untouched policy whose flag is up while startup freezes.
LEMMA CheckedWork ==
  ASSUME FlowInv, HoldInv, GroupInv, Reconcile, spc \in {"list", "freeze"},
         Untouched(wp), st'[wp].checking
  PROVE  /\ ~gate /\ Busy /\ st[wp].checking /\ LeftAlone(wp)
         /\ wpc \notin {"pendingFreeze", "freeze", "listed", "waiting", "resume"}
<1>1. Busy /\ ~gate
  BY BusyWorker DEF FlowInv, StartupInv, Reconcile
<1>2. WorkFollowsCommand /\ WorkFollowsFlag /\ view.op \in Nat
  BY <1>1 DEF HoldInv, Busy, View, OpIds
<1>3. view.op = 0 /\ view.action = "Freeze"
  BY <1>2 DEF WorkFollowsCommand, Untouched
<1>4. st[wp].checking
  BY <1>1, <1>2, <1>3, CheckingKept DEF CheckingNotRaised, WaitPreConditions, AtPendingResume,
     WorkFollowsFlag
<1>5. wpc \notin {"pendingFreeze", "freeze", "listed", "waiting", "resume"}
  BY <1>2, <1>3, <1>4 DEF WorkFollowsFlag, GroupInv
<1> QED BY <1>1, <1>4, <1>5 DEF GroupInv, CheckedAreLeftAlone, Busy

\* It leaves the policy alone.
LEMMA CheckedWorkEnds ==
  ASSUME FlowInv, HoldInv, GroupInv, Reconcile, spc \in {"list", "freeze"},
         NEW q \in Policies, q = wp, Untouched(q), st'[q].checking
  PROVE  LeftAlone(q)'
<1>1. /\ ~gate /\ Busy /\ st[wp].checking /\ LeftAlone(wp)
      /\ wpc \notin {"pendingFreeze", "freeze", "listed", "waiting", "resume"}
  BY CheckedWork
<1>2. CASE Delayed(q)
  <2>1. ~EndPendingFreeze /\ ~EndFreeze /\ ~ConditionsFail /\ wpc \notin StrictLoops
    BY <1>1 DEF EndPendingFreeze, EndFreeze, ConditionsFail, StrictLoops
  <2>2. ~NamespaceMissing
    BY DEF NamespaceMissing, GroupInv
  <2>3. st'[wp].phase \in {st[wp].phase, "Resumed", "Resuming", "Freezing"}
    BY <1>1, <2>1, <2>2, PhaseKept
  <2>4. UNCHANGED gpc
    BY DEF Reconcile, WorkerFrame, startupVars
  <2> QED BY <1>1, <1>2, <2>3, <2>4 DEF LeftAlone, Delayed
<1>3. CASE ~Delayed(q) /\ wpc = "failureFreeze"
  <2>1. CASE EndNodeFailure
    <3> DEFINE s == [st[wp] EXCEPT !.nf = "handled", !.last = Acked(wp), !.pr = TRUE]
    <3>1. st' = [st EXCEPT ![wp] = s] /\ wp' = NoPolicy
      BY <2>1 DEF EndNodeFailure, WriteStatus, Return
    <3>2. s.pr
      BY <1>1 DEF Busy, Status
    <3> HIDE DEF s
    <3>3. st'[q].pr
      BY <1>1, <3>1, <3>2, CheckedWrite
    <3> QED BY <1>3, <3>1, <3>3, ConfigAssumption DEF LeftAlone, Delayed
  <2>2. CASE UNCHANGED <<st, queue, timers, wpc, wp>>
    BY <1>1, <1>3, <2>2 DEF LeftAlone, Delayed
  <2> QED BY <1>3, <2>1, <2>2, HandlingFailure
<1>4. CASE ~Delayed(q) /\ wpc = "read"
  <2>1. FlagsOK(wp, view.st) /\ LeftAlone(wp)
    BY <1>1 DEF FlowInv, FlagInv, Busy
  <2>2. ~view.st.pf /\ (view.st.pr \/ Unhandled(wp, view.st))
    BY <1>4, <2>1 DEF FlagsOK, LeftAlone, Unhandled
  <2>3. CASE view.st.pr /\ WaitStartup
    <3>1. st' = st /\ queue' = queue /\ timers' = timers \cup {wp} /\ wp' = NoPolicy
      BY <2>3 DEF WaitStartup, NoStatusWrite, Return
    <3>2. st[q].pr \/ st[q].nf = "detected"
      BY <1>4, <2>1 DEF LeftAlone
    <3> QED BY <1>4, <2>1, <3>1, <3>2, ConfigAssumption DEF LeftAlone, Delayed
  <2>4. CASE StartNodeFailure
    BY <1>4, <2>1, <2>4 DEF StartNodeFailure, NoStatusWrite, Loop, LeftAlone, Delayed
  <2> QED BY <1>1, <1>4, <2>2, <2>3, <2>4, GatedRead
<1> QED BY <1>1, <1>2, <1>3, <1>4 DEF LeftAlone
\* A policy stays left alone when its status, its part of startup and the
\* reconcile under way stay the same and nobody wakes it.
LEMMA LeftAloneKept ==
  ASSUME NEW q \in Policies, LeftAlone(q), st'[q] = st[q], gpc'[q] = gpc[q],
         q \in queue' \cup timers' => q \in queue \cup timers,
         UNCHANGED <<wpc, wp, view>> \/ wp' # q
  PROVE  LeftAlone(q)'
BY DEF LeftAlone, Delayed

\* Every step of the worker.
LEMMA WorkLeavesAlone ==
  ASSUME FlowInv, HoldInv, GroupInv, Reconcile
  PROVE  CheckedAreLeftAlone' /\ (wpc' = "pendingFreeze" => view'.op # 0)
<1>1. Busy /\ OthersKept /\ UNCHANGED <<op, action, spc, gpc>>
  BY BusyWorker, CheckingKept DEF FlowInv, Reconcile, WorkerFrame, startupVars
<1>2. ASSUME spc \in {"list", "freeze"}, NEW q \in Policies, q # wp, Untouched(q), st'[q].checking
      PROVE  LeftAlone(q)'
  <2>1. st'[q] = st[q]
    BY <1>1, <1>2 DEF OthersKept
  <2>2. LeftAlone(q)
    BY <1>2, <2>1 DEF GroupInv, CheckedAreLeftAlone
  <2>3. (q \in queue' \cup timers' => q \in queue \cup timers) /\ wp' # q
    BY <1>2, WorkerReach, ConfigAssumption
  <2> QED BY <1>1, <2>1, <2>2, <2>3, LeftAloneKept
<1>3. CheckedAreLeftAlone'
  BY <1>1, <1>2, CheckedWorkEnds DEF CheckedAreLeftAlone, Untouched
<1>4. ASSUME wpc' = "pendingFreeze" PROVE view'.op # 0
  BY <1>4, EntersPending DEF StartPendingFreeze, ShouldSkip, Loop, GroupInv
<1> QED BY <1>3, <1>4

\* Every step of startup.
LEMMA StartupLeavesAlone ==
  ASSUME GroupsCanFinish, FlowInv, GroupInv, Startup
  PROVE  CheckedAreLeftAlone'
<1> SUFFICES ASSUME spc' \in {"list", "freeze"}, NEW q \in Policies, Untouched(q)', st'[q].checking
             PROVE  LeftAlone(q)'
  BY DEF CheckedAreLeftAlone
<1>0. TypeOK /\ StartupInv
  BY DEF FlowInv
<1>1. UNCHANGED <<op, action, exists, timers, wpc, wp, view>> /\ spc \in {"list", "freeze"}
  BY DEF Startup, StartupFrame, workerVars, StartupOf, StartupList, StartupScan, EndScan,
     MarkStartupComplete, StartupFreeze, StartupFrozen, StartupWait, StartupScale, SkipScanned,
     StartScanned, ScanNext, EndScanned, StartupResume
<1>2. Untouched(q) /\ st[q].checking
  BY <1>0, <1>1, StartupChecks DEF Untouched
<1>3. LeftAlone(q)
  BY <1>1, <1>2 DEF GroupInv, CheckedAreLeftAlone
<1>4. gpc \in [Policies -> GoroutinePcs] /\ st \in [Policies -> Status] /\ st[q] \in Status
  BY <1>0 DEF TypeOK
<1>5. ASSUME st'[q] = st[q], gpc'[q] = gpc[q], q \in queue' => q \in queue PROVE LeftAlone(q)'
  BY <1>1, <1>3, <1>5, LeftAloneKept
<1>6. ASSUME NEW p \in Policies, StartupFreeze(p) PROVE LeftAlone(q)'
  <2>1. CASE p # q
    BY <1>4, <1>5, <1>6, <2>1 DEF StartupFreeze, WriteStatus, NoStatusWrite
  <2>2. CASE p = q /\ Delayed(q)
    <3> DEFINE s == [st[q] EXCEPT !.pf = TRUE, !.phase = "Idle"]
    <3>1. st' = [st EXCEPT ![q] = s] /\ gpc' = [gpc EXCEPT ![q] = "waiting"]
      BY <1>6, <2>2 DEF StartupFreeze, WriteStatus, GroupInv, Delayed
    <3>2. s.phase = "Idle"
      BY <1>4 DEF Status
    <3> HIDE DEF s
    <3>3. st'[q].phase = "Idle" /\ gpc'[q] = "waiting"
      BY <1>4, <3>1, <3>2
    <3> QED BY <2>2, <3>3 DEF LeftAlone, Delayed
  <2>3. CASE p = q /\ ~Delayed(q)
    <3>1. UNCHANGED <<st, queue>>
      BY <1>2, <1>6, <2>3 DEF StartupFreeze, NoStatusWrite, Delayed, Untouched, FreezePolicies
    <3> QED BY <1>1, <1>3, <2>3, <3>1 DEF LeftAlone, Delayed
  <2> QED BY <2>1, <2>2, <2>3
<1>7. ASSUME NEW p \in Policies, StartupFrozen(p) PROVE LeftAlone(q)'
  <2>1. CASE p # q
    BY <1>4, <1>5, <1>7, <2>1 DEF StartupFrozen, WriteStatus
  <2>2. CASE p = q
    <3> DEFINE s == [st[q] EXCEPT !.phase = "Frozen"]
    <3>1. ~Delayed(q)
      BY <1>3, <1>7, <2>2 DEF StartupFrozen, LeftAlone
    <3>2. s.pf = st[q].pf /\ s.pr = st[q].pr /\ s.nf = st[q].nf
      BY <1>4 DEF Status
    <3>3. st' = [st EXCEPT ![q] = s] /\ (queue' = IF Triggers(st[q], s, FALSE) THEN queue \cup {q} ELSE queue)
      BY <1>7, <2>2 DEF StartupFrozen, WriteStatus
    <3> HIDE DEF s
    <3>4. st'[q] = s /\ queue' = queue
      BY <1>4, <3>2, <3>3 DEF Triggers
    <3> QED BY <1>1, <1>3, <3>1, <3>2, <3>4 DEF LeftAlone, Delayed
  <2> QED BY <2>1, <2>2
<1>8. ASSUME NEW p \in Policies, StartupWait(p) PROVE LeftAlone(q)'
  <2>1. CASE p # q
    BY <1>4, <1>5, <1>8, <2>1 DEF StartupWait, NoStatusWrite
  <2>2. CASE p = q
    <3>1. ~Delayed(q)
      BY <1>3, <1>8, <2>2 DEF StartupWait, LeftAlone, GroupsCanFinish
    <3> QED BY <1>1, <1>3, <1>8, <3>1 DEF StartupWait, NoStatusWrite, LeftAlone, Delayed
  <2> QED BY <2>1, <2>2
<1>9. CASE UNCHANGED <<st, queue, gpc>>
  BY <1>5, <1>9
<1> QED BY <1>1, <1>6, <1>7, <1>8, <1>9
        DEF Startup, StartupOf, StartupList, StartupScan, EndScan, MarkStartupComplete, StartupScale,
            SkipScanned, StartScanned, ScanNext, EndScanned, StartupResume, NoStatusWrite

\* A command: the policy it is given to is touched.
LEMMA TouchedStaysTouched ==
  ASSUME TypeOK, [Next]_vars, NEW q \in Policies, Untouched(q)'
  PROVE  Untouched(q)
<1>1. UNCHANGED <<op, action>> \/ \E p \in Policies, a \in Actions : Command(p, a)
  BY DEF Next, Begin, Reconcile, WorkerFrame, Startup, StartupFrame, Start, Outside, NodeFails, NodeRecovers,
     Crash, MapNode, DelayOver, PodsReady, TimerFires, CreateNamespace, apiVars, vars
<1>2. op \in [Policies -> Nat] /\ action \in [Policies -> Actions]
  BY DEF TypeOK, OpIds
<1> QED BY <1>1, <1>2 DEF Command, Untouched

\* The node watch, users, time and the process.
LEMMA OthersLeaveAlone ==
  ASSUME FlowInv, GroupInv, [Next]_vars, ~Reconcile, ~Startup
  PROVE  CheckedAreLeftAlone'
<1> SUFFICES ASSUME spc' \in {"list", "freeze"}, NEW q \in Policies, Untouched(q)', st'[q].checking
             PROVE  LeftAlone(q)'
  BY DEF CheckedAreLeftAlone
<1>0. TypeOK /\ FlagInv
  BY DEF FlowInv
<1>1. Untouched(q) /\ FlagsOK(q, st[q])
  BY <1>0, TouchedStaysTouched DEF FlagInv
<1>2. st \in [Policies -> Status] /\ st[q] \in Status /\ queue \subseteq Policies
  BY <1>0 DEF TypeOK
<1>3. CASE Start
  <2>1. /\ gpc'[q] = "todo" /\ wp' # q /\ timers' = {} /\ st' = st
        /\ q \in queue' => Enqueued(q)
    BY <1>3, ConfigAssumption DEF Start, NoProcess, apiVars
  <2>2. ~Delayed(q) /\ q \in queue' => st[q].pr \/ st[q].nf = "detected"
    BY <1>1, <2>1 DEF Enqueued, Unhandled, FlagsOK, Untouched
  <2> QED BY <2>1, <2>2 DEF LeftAlone, Delayed
<1>4. CASE Crash
  BY <1>4 DEF Crash
<1>5. ASSUME NEW p \in Policies, Begin(p) PROVE LeftAlone(q)'
  <2>1. /\ UNCHANGED <<st, spc, gpc, timers>> /\ queue' = queue \ {p} /\ p \in queue
        /\ wpc' = "read" /\ wp' = p /\ view'.st = st[p]
    BY <1>5 DEF Begin, WorkerFrame, startupVars, ViewOf
  <2>2. LeftAlone(q)
    BY <1>1, <2>1 DEF GroupInv, CheckedAreLeftAlone
  <2> QED BY <2>1, <2>2 DEF LeftAlone, Delayed
<1>6. ASSUME NEW p \in Policies, MapNode(p) PROVE LeftAlone(q)'
  <2>1. UNCHANGED <<spc, gpc, timers, wpc, wp, view>>
    BY <1>6 DEF MapNode, OutsideFrame, startupVars, workerVars
  <2>2. st[q].checking
    BY <1>0, <1>6, StartupChecks
  <2>3. LeftAlone(q)
    BY <1>1, <2>1, <2>2 DEF GroupInv, CheckedAreLeftAlone
  <2>4. CASE p # q \/ p \notin mapFresh
    <3>1. \/ UNCHANGED <<st, queue>>
          \/ p # q /\ queue' \subseteq queue \cup {p} /\ \E s : st' = [st EXCEPT ![p] = s]
      BY <1>6, <2>4 DEF MapNode, WriteStatus, NoStatusWrite
    <3>2. st'[q] = st[q] /\ (q \in queue' => q \in queue)
      BY <1>2, <3>1
    <3> QED BY <2>1, <2>3, <3>2, LeftAloneKept
  <2>5. CASE p = q /\ p \in mapFresh
    <3> DEFINE s == [st[q] EXCEPT !.node = TRUE, !.nf = "detected"]
    <3>1. st' = [st EXCEPT ![q] = s]
      BY <1>6, <2>5 DEF MapNode, WriteStatus
    <3>2. s.phase = st[q].phase /\ s.pr = st[q].pr /\ s.nf = "detected"
      BY <1>2 DEF Status
    <3> HIDE DEF s
    <3>3. st'[q] = s
      BY <1>2, <3>1
    <3> QED BY <2>1, <2>3, <3>2, <3>3 DEF LeftAlone, Delayed
  <2> QED BY <2>4, <2>5
<1>7. ASSUME UNCHANGED <<st, spc, gpc, wpc, wp, view>>,
             q \in queue' \cup timers' => q \in queue \cup timers \/ st[q].nf = "detected"
      PROVE  LeftAlone(q)'
  <2>1. LeftAlone(q)
    BY <1>1, <1>7 DEF GroupInv, CheckedAreLeftAlone
  <2> QED BY <1>7, <2>1 DEF LeftAlone, Delayed
<1>8. CASE NodeFails
  BY <1>7, <1>8 DEF NodeFails, OutsideFrame, apiVars, startupVars, workerVars
<1>9. ASSUME NEW p \in Policies, NEW a \in Actions, Command(p, a) PROVE LeftAlone(q)'
  <2>1. p # q
    <3>1. op \in [Policies -> Nat]
      BY <1>0 DEF TypeOK, OpIds
    <3> QED BY <1>9, <3>1 DEF Command, Untouched
  <2> QED BY <1>7, <1>9, <2>1 DEF Command, OutsideFrame, startupVars, workerVars
<1>10. ASSUME NEW p \in Policies, TimerFires(p) PROVE LeftAlone(q)'
  BY <1>7, <1>10 DEF TimerFires, OutsideFrame, apiVars, startupVars, workerVars
<1>11. CASE UNCHANGED <<st, spc, gpc, wpc, wp, view, queue, timers>>
  BY <1>7, <1>11
<1>12. CASE NodeRecovers \/ \E p \in Policies : DelayOver(p) \/ PodsReady(p) \/ CreateNamespace(p)
  BY <1>11, <1>12 DEF NodeRecovers, DelayOver, PodsReady, CreateNamespace, OutsideFrame, apiVars,
     startupVars, workerVars
<1> QED BY <1>3, <1>4, <1>5, <1>6, <1>8, <1>9, <1>10, <1>11, <1>12 DEF Next, Outside, vars, apiVars,
        startupVars, workerVars
\* No step brings back a workload of an untouched policy during the freezes.
LEMMA UntouchedStaysAtZero ==
  ASSUME FlowInv, OrderInv, HoldInv, GroupInv, [Next]_vars, spc = "freeze",
         NEW q \in Policies, Untouched(q), gpc[q] \in {"verifying", "done"}, frozen[q] = Workloads
  PROVE  frozen'[q] = Workloads
<1>1. frozen[q] \subseteq frozen'[q]
  <2> SUFFICES ASSUME ~(frozen[q] \subseteq frozen'[q]) PROVE FALSE
    OBVIOUS
  <2>1. wpc \in ResumeLoops /\ wp = q
    BY OnlyResumesShrink DEF FlowInv
  <2>2. WorkFollowsCommand /\ WorkFollowsFlag /\ view.op \in Nat
    BY <2>1 DEF ResumeLoops, HoldInv, FlowInv, TypeOK, View, OpIds
  <2>3. CASE wpc = "pendingResume"
    BY <2>3 DEF OrderInv, FlowInv, StartupInv
  <2>4. CASE wpc = "checkingResume"
    <3>1. st[q].checking
      BY <2>1, <2>2, <2>4 DEF WorkFollowsFlag
    <3> QED BY <2>1, <2>4, <3>1 DEF GroupInv, CheckedAreLeftAlone, LeftAlone
  <2>5. CASE wpc = "resume"
    BY <2>1, <2>2, <2>5 DEF WorkFollowsFlag, WorkFollowsCommand, Untouched
  <2> QED BY <2>1, <2>3, <2>4, <2>5 DEF ResumeLoops
<1>2. frozen' \in [Policies -> SUBSET Workloads]
  BY PolicyTypeStep DEF FlowInv, TypeOK
<1> QED BY <1>1, <1>2

\* A part of startup that is done, or that has seen its namespace at zero.
DoneOrVerified(q) ==
  spc = "freeze" /\ (gpc[q] = "done" \/ (gpc[q] = "verifying" /\ frozen[q] = Workloads))

\* The progress of startup: a part is done only once its namespace is at zero.
LEMMA GroupsProgress ==
  ASSUME GroupsCanFinish, FlowInv, GroupInv, Startup, spc' = "freeze"
  PROVE  /\ GroupsInTurn'
         /\ \A q \in Policies : gpc'[q] = "done" => DoneOrVerified(q)
<1>0. gpc \in [Policies -> GoroutinePcs] /\ StartupInv
  BY DEF FlowInv, TypeOK
<1>1. CASE StartupList
  <2>1. gpc' = gpc /\ \A p \in Policies : gpc[p] = "todo"
    BY <1>0, <1>1 DEF StartupList, StartupInv
  <2> QED BY <2>1 DEF GroupsInTurn, FreezePolicies, DoneOrVerified
<1>2. CASE gpc' = gpc /\ spc = "freeze"
  BY <1>2 DEF GroupInv, GroupsInTurn, DoneOrVerified
<1>3. ASSUME NEW p \in Policies, StartupFreeze(p)
      PROVE  /\ GroupsInTurn'
             /\ \A q \in Policies : gpc'[q] = "done" => DoneOrVerified(q)
  <2>1. PICK pc \in {"freezing", "waiting"} : gpc' = [gpc EXCEPT ![p] = pc]
    BY <1>3 DEF StartupFreeze
  <2>2. /\ gpc'[p] = pc /\ gpc[p] = "todo" /\ spc = "freeze"
        /\ \A q \in Policies : q # p => gpc'[q] = gpc[q]
        /\ \A q \in FreezePolicies : Config[q].fprio < Config[p].fprio => gpc[q] = "done"
    BY <1>0, <1>3, <2>1 DEF StartupFreeze
  <2> QED BY <2>2 DEF GroupInv, GroupsInTurn, FreezePolicies, DoneOrVerified
<1>4. ASSUME NEW p \in Policies, StartupFrozen(p) \/ StartupWait(p)
      PROVE  /\ GroupsInTurn'
             /\ \A q \in Policies : gpc'[q] = "done" => DoneOrVerified(q)
  <2>1. PICK pc \in {"waiting", "verifying", "done"} : gpc' = [gpc EXCEPT ![p] = pc]
    BY <1>4 DEF StartupFrozen, StartupWait
  <2>2. spc = "freeze" /\ gpc[p] \notin {"todo", "done"}
    BY <1>4 DEF StartupFrozen, StartupWait
  <2>3. pc = "done" => gpc[p] = "verifying" /\ frozen[p] = Workloads
    BY <1>0, <1>4, <2>1 DEF StartupFrozen, StartupWait, Listed, GroupInv, GroupsCanFinish
  <2>4. gpc'[p] = pc /\ \A q \in Policies : q # p => gpc'[q] = gpc[q]
    BY <1>0, <2>1
  <2> QED BY <2>2, <2>3, <2>4 DEF GroupInv, GroupsInTurn, FreezePolicies, DoneOrVerified
<1> QED BY <1>1, <1>2, <1>3, <1>4 DEF Startup, StartupOf, StartupScan, EndScan, MarkStartupComplete,
        StartupScale, SkipScanned, StartScanned, ScanNext, EndScanned, StartupResume

\* Every step keeps the groups in order.
LEMMA GroupInvStep ==
  ASSUME GroupsCanFinish, FlowInv, OrderInv, HoldInv, GroupInv, [Next]_vars
  PROVE  GroupInv'
<1>0. TypeOK
  BY DEF FlowInv
<1>1. \A p \in Policies : exists'[p]
  <2>1. exists' = exists \/ \E p \in Policies : CreateNamespace(p)
    BY DEF Next, Begin, Reconcile, WorkerFrame, Startup, StartupFrame, Start, Outside, NodeFails, NodeRecovers,
       Crash, MapNode, DelayOver, PodsReady, TimerFires, Command, apiVars, vars
  <2> QED BY <2>1 DEF GroupInv, CreateNamespace
<1>2. CheckedAreLeftAlone'
  BY WorkLeavesAlone, StartupLeavesAlone, OthersLeaveAlone
<1>3. wpc' = "pendingFreeze" => view'.op # 0
  <2>1. CASE Reconcile
    BY <2>1, WorkLeavesAlone
  <2>2. CASE UNCHANGED <<wpc, view>> \/ wpc' \in {"idle", "read"}
    BY <2>2 DEF GroupInv
  <2> QED BY <2>1, <2>2 DEF Next, Begin, Startup, StartupFrame, Start, Outside, NodeFails, NodeRecovers, Crash,
          MapNode, DelayOver, PodsReady, TimerFires, CreateNamespace, Command, OutsideFrame, NoProcess,
          workerVars, vars
<1>4. UntouchedAtZero' /\ GroupsInTurn'
  <2> SUFFICES ASSUME spc' = "freeze" PROVE UntouchedAtZero' /\ GroupsInTurn'
    BY DEF UntouchedAtZero, GroupsInTurn
  <2>1. CASE Startup
    <3>1. \A q \in Policies : gpc'[q] = "done" => DoneOrVerified(q)
      BY <2>1, GroupsProgress
    <3>2. ASSUME NEW q \in Policies, Untouched(q)', gpc'[q] = "done" PROVE frozen'[q] = Workloads
      <4>1. Untouched(q) /\ spc = "freeze" /\ gpc[q] \in {"verifying", "done"} /\ frozen[q] = Workloads
        BY <1>0, <3>1, <3>2, TouchedStaysTouched DEF DoneOrVerified, GroupInv, UntouchedAtZero
      <4> QED BY <4>1, UntouchedStaysAtZero
    <3> QED BY <2>1, <3>2, GroupsProgress DEF UntouchedAtZero
  <2>2. CASE UNCHANGED <<spc, gpc>>
    <3>1. ASSUME NEW q \in Policies, Untouched(q)', gpc'[q] = "done" PROVE frozen'[q] = Workloads
      <4>1. Untouched(q) /\ frozen[q] = Workloads
        BY <1>0, <2>2, <3>1, TouchedStaysTouched DEF GroupInv, UntouchedAtZero
      <4> QED BY <2>2, <3>1, <4>1, UntouchedStaysAtZero
    <3> QED BY <2>2, <3>1 DEF UntouchedAtZero, GroupInv, GroupsInTurn
  <2>3. CASE Crash \/ Start
    BY <2>3 DEF Crash, Start
  <2> QED BY <2>1, <2>2, <2>3 DEF Next, Begin, Reconcile, WorkerFrame, Outside, NodeFails, NodeRecovers,
          MapNode, DelayOver, PodsReady, TimerFires, CreateNamespace, Command, OutsideFrame, startupVars, vars
<1> QED BY <1>1, <1>2, <1>3, <1>4 DEF GroupInv

\* Startup freezes group by group: it scales down no workload of a group while
\* an earlier group that no command has touched is not at zero, whatever the
\* worker, node failures and crashes do beside it.  It holds when startup never
\* gives up waiting for a freeze and every target namespace exists.
THEOREM FreezesKeepOrder ==
  ASSUME GroupsCanFinish
  PROVE  Spec => []FreezeInPriorityOrder
<1> DEFINE Inv == FlowInv /\ OrderInv /\ HoldInv /\ GroupInv
<1>1. Init => Inv
  <2> SUFFICES ASSUME Init PROVE Inv
    OBVIOUS
  <2>1. OrderInv /\ HoldInv
    BY HoldInit DEF Init, OrderInv
  <2>2. GroupInv
    BY DEF Init, GroupInv, GroupsCanFinish, CheckedAreLeftAlone, UntouchedAtZero, GroupsInTurn
  <2> QED BY <2>1, <2>2, PolicyTypeInit, FlowInit DEF FlowInv
<1>2. Inv /\ [Next]_vars => Inv'
  BY PolicyTypeStep, StartupInvStep, FlagInvStep, OrderInvStep, HoldInvStep, GroupInvStep DEF FlowInv
<1>3. Inv => FreezeInPriorityOrder
  <2> SUFFICES ASSUME GroupInv, NEW p \in FreezePolicies, NEW q \in FreezePolicies,
                      spc = "freeze", gpc[p] = "freezing", Config[q].fprio < Config[p].fprio,
                      op[q] = 0, action[q] = "Freeze"
               PROVE  frozen[q] = Listed(q)
    BY DEF FreezeInPriorityOrder
  <2>1. gpc[q] = "done" /\ q \in Policies
    BY DEF GroupInv, GroupsInTurn, FreezePolicies
  <2> QED BY <2>1 DEF GroupInv, UntouchedAtZero, Untouched, Listed
<1> HIDE DEF Inv
<1> QED BY <1>1, <1>2, <1>3, PTL DEF Spec
=============================================================================
