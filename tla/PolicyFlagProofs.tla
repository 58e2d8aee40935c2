-------------------------- MODULE PolicyFlagProofs --------------------------
(***************************************************************************)
(* Proofs about the work that the status records: the pending freeze, the  *)
(* pending resume and the detected node failure.  Only certain policies    *)
(* ever carry such a flag, no flag loses its wake-up, and no detected      *)
(* failure is forgotten.                                                   *)
(***************************************************************************)
EXTENDS PolicyTypeProofs

\* The policies that startup freezes after a delay, and those a resume can be
\* pending for: at startup, or after a node failure.
Delayed(p)   == Config[p].startup = "Freeze" /\ Config[p].fdelay
Resumable(p) == Config[p].startup = "Resume" \/ Config[p].nodeFail

FlagsOK(p, s) ==
  /\ s.pf => Delayed(p)
  /\ s.pr => Resumable(p)
  /\ s.nf = "detected" => Config[p].nodeFail

(***************************************************************************)
(* How far the startup goroutine is.                                       *)
(***************************************************************************)
StartupInv ==
  /\ gate => spc = "done"
  /\ ~up => spc = "off"
  /\ stodo \subseteq ResumePolicies
  /\ spc \in {"off", "list"} => \A p \in Policies : gpc[p] = "todo"
  /\ spc = "freeze" => \A p \in Policies \ FreezePolicies : gpc[p] = "todo"
  /\ spc = "scan" => /\ \A p \in stodo : Config[p].nodeFail
                     /\ \A p \in Policies : gpc[p] = "freezing" => Config[p].nodeFail

\* The worker and the cluster do not touch it.
LEMMA StartupInvKept == StartupInv /\ UNCHANGED <<up, gate, startupVars>> => StartupInv'
BY DEF StartupInv, startupVars

\* The steps of the goroutine for one policy.
LEMMA StartupOfInv ==
  ASSUME TypeOK, StartupInv, up, UNCHANGED up, NEW p \in Policies, StartupOf(p)
  PROVE  StartupInv'
<1>0. gpc \in [Policies -> GoroutinePcs]
  BY DEF TypeOK
<1>1. CASE StartupFreeze(p)
  BY <1>0, <1>1 DEF StartupFreeze, StartupInv
<1>2. CASE StartupFrozen(p) \/ StartupWait(p)
  <2>1. PICK pc \in {"waiting", "verifying", "done"} : gpc' = [gpc EXCEPT ![p] = pc]
    BY <1>2 DEF StartupFrozen, StartupWait
  <2>2. UNCHANGED <<gate, spc, stodo>> /\ gpc[p] # "todo"
    BY <1>2 DEF StartupFrozen, StartupWait
  <2>3. \A q \in Policies : gpc'[q] = gpc[q] \/ (q = p /\ gpc'[q] = pc)
    BY <1>0, <2>1
  <2> QED BY <2>2, <2>3 DEF StartupInv
<1>3. CASE \E w \in Workloads : StartupScale(p, w)
  BY <1>3 DEF StartupScale, StartupInv
<1>4. CASE SkipScanned(p)
  BY <1>4 DEF SkipScanned, ScanNext, StartupInv
<1>5. CASE StartScanned(p)
  BY <1>0, <1>5 DEF StartScanned, ScanNext, StartupInv
<1>6. CASE EndScanned(p)
  BY <1>0, <1>6 DEF EndScanned, StartupInv
<1>7. CASE StartupResume(p)
  BY <1>7 DEF StartupResume, StartupInv
<1> QED BY <1>1, <1>2, <1>3, <1>4, <1>5, <1>6, <1>7 DEF StartupOf

\* Every step keeps it.
LEMMA StartupInvStep == TypeOK /\ StartupInv /\ [Next]_vars => StartupInv'
<1> SUFFICES ASSUME TypeOK, StartupInv, [Next]_vars PROVE StartupInv'
  OBVIOUS
<1>1. CASE Reconcile \/ \E p \in Policies : Begin(p)
  BY <1>1, StartupInvKept DEF Reconcile, Begin, WorkerFrame
<1>2. CASE Startup
  <2>1. up /\ UNCHANGED up
    BY <1>2 DEF Startup, StartupFrame
  <2>2. CASE StartupList
    BY <2>1, <2>2 DEF StartupList, StartupInv
  <2>3. CASE StartupScan
    <3>1. \A p \in Policies : gpc[p] \in {"todo", "done"}
      BY <2>3 DEF StartupScan, StartupInv
    <3>2. UNCHANGED <<gate, gpc>> /\ spc = "freeze" /\ spc' \in {"scan", "resume"}
      BY <2>3 DEF StartupScan
    <3>3. stodo' \subseteq ResumePolicies /\ (spc' = "scan" => \A p \in stodo' : Config[p].nodeFail)
      BY <2>3 DEF StartupScan
    <3> QED BY <2>1, <3>1, <3>2, <3>3 DEF StartupInv
  <2>4. CASE EndScan \/ MarkStartupComplete
    BY <2>1, <2>4 DEF EndScan, MarkStartupComplete, StartupInv
  <2> QED BY <1>2, <2>1, <2>2, <2>3, <2>4, StartupOfInv DEF Startup
<1>3. CASE Crash \/ Start
  BY <1>3 DEF Crash, Start, NoProcess, StartupInv
<1>4. CASE Outside /\ ~Crash
  BY <1>4, StartupInvKept DEF Outside, NodeFails, NodeRecovers, MapNode, DelayOver, PodsReady, TimerFires,
     CreateNamespace, Command, OutsideFrame
<1>5. CASE UNCHANGED vars
  BY <1>5, StartupInvKept DEF vars
<1> QED BY <1>1, <1>2, <1>3, <1>4, <1>5 DEF Next

(***************************************************************************)
(* Which policies carry which flag.                                        *)
(***************************************************************************)
FlagInv ==
  /\ \A p \in Policies : FlagsOK(p, st[p])
  /\ wpc # "idle" => FlagsOK(wp, view.st)
  /\ wpc = "pendingFreeze" => Delayed(wp)
  /\ wpc = "pendingResume" => Resumable(wp)
  /\ wpc = "failureFreeze" => Config[wp].nodeFail
  /\ \A p \in mapTodo : Config[p].nodeFail

\* A write of flags that p may carry.
LEMMA FlagWrite ==
  ASSUME TypeOK, FlagInv, NEW p \in Policies, NEW s, st' = [st EXCEPT ![p] = s], FlagsOK(p, s)
  PROVE  \A q \in Policies : FlagsOK(q, st'[q])
BY DEF TypeOK, FlagInv

\* A reconcile that returns.
LEMMA FlagReturn ==
  ASSUME Busy, FlagInv, WorkerFrame, \A q \in Policies : FlagsOK(q, st'[q]), NEW r, Return(r)
  PROVE  FlagInv'
BY DEF FlagInv, WorkerFrame, Return, FlagsOK, Delayed, Resumable

\* A reconcile that goes on.
LEMMA FlagGoesOn ==
  ASSUME Busy, FlagInv, WorkerFrame, \A q \in Policies : FlagsOK(q, st'[q]),
         wp' = wp, FlagsOK(wp, view'.st),
         wpc' = "pendingFreeze" => Delayed(wp),
         wpc' = "pendingResume" => Resumable(wp),
         wpc' = "failureFreeze" => Config[wp].nodeFail
  PROVE  FlagInv'
BY DEF FlagInv, WorkerFrame, FlagsOK, Delayed, Resumable

\* Stages that write nothing.
LEMMA QuietStageFlags ==
  ASSUME Busy, FlagInv, WorkerFrame,
         \/ WaitFreezeDelay \/ WaitStartup \/ WaitTurn \/ CleanUpFailedNode \/ SkipHandled \/ CheckAgain
         \/ StartPendingFreeze \/ StartPendingResume \/ StartNodeFailure \/ StartCheckedResume
         \/ ResumeWithoutConditions
  PROVE  FlagInv'
<1>1. \A q \in Policies : FlagsOK(q, st'[q])
  BY DEF FlagInv, WaitFreezeDelay, WaitStartup, WaitTurn, CleanUpFailedNode, SkipHandled, CheckAgain,
         StartPendingFreeze, StartPendingResume, StartNodeFailure, StartCheckedResume,
         ResumeWithoutConditions, NoStatusWrite
<1>2. FlagsOK(wp, view.st)
  BY DEF Busy, FlagInv
<1>3. CASE \E r : Return(r)
  BY <1>1, <1>3, FlagReturn
<1>4. CASE StartPendingFreeze
  BY <1>1, <1>2, <1>4, FlagGoesOn DEF StartPendingFreeze, Loop, FlagsOK
<1>5. CASE StartPendingResume
  BY <1>1, <1>2, <1>5, FlagGoesOn DEF StartPendingResume, AtPendingResume, Loop, FlagsOK
<1>6. CASE StartNodeFailure
  BY <1>1, <1>2, <1>6, FlagGoesOn DEF StartNodeFailure, Unhandled, Loop, FlagsOK
<1>7. CASE StartCheckedResume \/ ResumeWithoutConditions
  BY <1>1, <1>2, <1>7, FlagGoesOn DEF StartCheckedResume, ResumeWithoutConditions, Loop, Continue
<1> QED BY <1>3, <1>4, <1>5, <1>6, <1>7 DEF WaitFreezeDelay, WaitStartup, WaitTurn, CleanUpFailedNode,
         SkipHandled, CheckAgain

\* Stages that write and return.
LEMMA ReturnFlags ==
  ASSUME Busy, FlagInv, WorkerFrame,
         \/ EndPendingFreeze \/ WaitPreConditions \/ EndPendingResume \/ NamespaceMissing
         \/ StopWaiting \/ ConditionsFail \/ EndNodeFailure \/ EndCheckedResume \/ EndFreeze \/ EndResume
  PROVE  FlagInv'
<1>0. FlagsOK(wp, view.st) /\ FlagsOK(wp, st[wp])
  BY DEF Busy, FlagInv
<1>1. ASSUME NEW s, FlagsOK(wp, s), NEW d, WriteStatus(wp, s, d), NEW r, Return(r) PROVE FlagInv'
  <2>1. \A q \in Policies : FlagsOK(q, st'[q])
    BY <1>1, FlagWrite DEF Busy, WriteStatus
  <2> QED BY <1>1, <2>1, FlagReturn
<1>2. CASE EndPendingFreeze
  <2> DEFINE s == [st[wp] EXCEPT !.phase = "Frozen", !.pf = FALSE]
  <2>1. FlagsOK(wp, s)
    BY <1>0, <1>2 DEF EndPendingFreeze, FlagsOK, Busy, Status
  <2>2. \E d, r : WriteStatus(wp, s, d) /\ Return(r)
    BY <1>2 DEF EndPendingFreeze
  <2> QED BY <1>1, <2>1, <2>2
<1>3. CASE WaitPreConditions
  <2> DEFINE s == [view.st EXCEPT !.checking = TRUE, !.phase = "Resuming", !.pr = TRUE, !.last = st[wp].last]
  <2>1. FlagsOK(wp, s)
    BY <1>0, <1>3 DEF WaitPreConditions, FlagsOK, Busy, Status, AtPendingResume
  <2>2. \E d, r : WriteStatus(wp, s, d) /\ Return(r)
    BY <1>3 DEF WaitPreConditions
  <2> QED BY <1>1, <2>1, <2>2
<1>4. CASE EndPendingResume
  <2> DEFINE s == [st[wp] EXCEPT !.phase = "Resumed", !.pr = FALSE]
  <2>1. FlagsOK(wp, s)
    BY <1>0, <1>4 DEF EndPendingResume, FlagsOK, Busy, Status
  <2>2. \E d, r : WriteStatus(wp, s, d) /\ Return(r)
    BY <1>4 DEF EndPendingResume
  <2> QED BY <1>1, <2>1, <2>2
<1>5. CASE NamespaceMissing
  <2> DEFINE s == [st[wp] EXCEPT !.phase = "Failed", !.last = view.op]
  <2>1. FlagsOK(wp, s)
    BY <1>0, <1>5 DEF NamespaceMissing, FlagsOK, Busy, Status
  <2>2. \E d, r : WriteStatus(wp, s, d) /\ Return(r)
    BY <1>5 DEF NamespaceMissing
  <2> QED BY <1>1, <2>1, <2>2
<1>6. CASE StopWaiting
  <2> DEFINE s == [st[wp] EXCEPT !.checking = FALSE]
  <2>1. FlagsOK(wp, s)
    BY <1>0, <1>6 DEF StopWaiting, FlagsOK, Busy, Status
  <2>2. \E d, r : WriteStatus(wp, s, d) /\ Return(r)
    BY <1>6 DEF StopWaiting
  <2> QED BY <1>1, <2>1, <2>2
<1>7. CASE ConditionsFail
  <2> DEFINE s == [st[wp] EXCEPT !.phase = "Failed", !.last = view.op,
                     !.checking = IF wpc = "waiting" THEN FALSE ELSE @]
  <2>1. FlagsOK(wp, s)
    BY <1>0, <1>7 DEF ConditionsFail, FlagsOK, Busy, Status
  <2>2. \E d, r : WriteStatus(wp, s, d) /\ Return(r)
    BY <1>7 DEF ConditionsFail
  <2> QED BY <1>1, <2>1, <2>2
<1>8. CASE EndNodeFailure
  <2> DEFINE s == [st[wp] EXCEPT !.nf = "handled", !.last = Acked(wp), !.pr = TRUE]
  <2>1. FlagsOK(wp, s)
    BY <1>0, <1>8 DEF EndNodeFailure, FlagsOK, Busy, Status, FlagInv, Resumable
  <2>2. \E d, r : WriteStatus(wp, s, d) /\ Return(r)
    BY <1>8 DEF EndNodeFailure
  <2> QED BY <1>1, <2>1, <2>2
<1>9. CASE EndCheckedResume
  <2> DEFINE s == [st[wp] EXCEPT !.phase = "Resumed", !.checking = FALSE, !.pr = FALSE]
  <2>1. FlagsOK(wp, s)
    BY <1>0, <1>9 DEF EndCheckedResume, FlagsOK, Busy, Status
  <2>2. \E d, r : WriteStatus(wp, s, d) /\ Return(r)
    BY <1>9 DEF EndCheckedResume
  <2> QED BY <1>1, <2>1, <2>2
<1>10. CASE EndFreeze
  <2> DEFINE s == [st[wp] EXCEPT !.phase = "Frozen", !.last = view.op]
  <2>1. FlagsOK(wp, s)
    BY <1>0, <1>10 DEF EndFreeze, FlagsOK, Busy, Status
  <2>2. \E d, r : WriteStatus(wp, s, d) /\ Return(r)
    BY <1>10 DEF EndFreeze
  <2> QED BY <1>1, <2>1, <2>2
<1>11. CASE EndResume
  <2> DEFINE s == [st[wp] EXCEPT !.phase = "Resumed", !.last = view.op]
  <2>1. FlagsOK(wp, s)
    BY <1>0, <1>11 DEF EndResume, FlagsOK, Busy, Status
  <2>2. \E d, r : WriteStatus(wp, s, d) /\ Return(r)
    BY <1>11 DEF EndResume
  <2> QED BY <1>1, <2>1, <2>2
<1> QED BY <1>2, <1>3, <1>4, <1>5, <1>6, <1>7, <1>8, <1>9, <1>10, <1>11

\* Stages that write and go on.
LEMMA ContinueFlags ==
  ASSUME Busy, FlagInv, WorkerFrame,
         \/ CancelPendingFreeze \/ CancelPendingResume \/ ForgetFailedNode
         \/ StartWaiting \/ ConditionsPass \/ StartCommand \/ CheckOnce
  PROVE  FlagInv'
<1>0. FlagsOK(wp, view.st) /\ FlagsOK(wp, st[wp])
  BY DEF Busy, FlagInv
<1>1. ASSUME NEW s, FlagsOK(wp, s), st' = [st EXCEPT ![wp] = s],
             \/ \E r : Return(r)
             \/ /\ wp' = wp /\ (view' = view \/ view'.st = s)
                /\ wpc' \notin {"pendingFreeze", "pendingResume", "failureFreeze"}
      PROVE FlagInv'
  <2>1. \A q \in Policies : FlagsOK(q, st'[q])
    BY <1>1, FlagWrite DEF Busy
  <2>2. CASE \E r : Return(r)
    BY <2>1, <2>2, FlagReturn
  <2>3. CASE /\ wp' = wp /\ (view' = view \/ view'.st = s)
             /\ wpc' \notin {"pendingFreeze", "pendingResume", "failureFreeze"}
    BY <1>0, <1>1, <2>1, <2>3, FlagGoesOn
  <2> QED BY <1>1, <2>2, <2>3
<1>2. CASE CancelPendingFreeze
  <2> DEFINE s == [st[wp] EXCEPT !.pf = FALSE]
  <2>1. FlagsOK(wp, s)
    BY <1>0 DEF FlagsOK, Busy, Status
  <2>2. st' = [st EXCEPT ![wp] = s]
    BY <1>2 DEF CancelPendingFreeze, WriteStatus
  <2>3. wp' = wp /\ wpc' \notin {"pendingFreeze", "pendingResume", "failureFreeze"} /\ view'.st = s
    BY <1>2 DEF CancelPendingFreeze, Continue, ViewOf
  <2> HIDE DEF s
  <2> QED BY <1>1, <2>1, <2>2, <2>3
<1>3. CASE CancelPendingResume
  <2> DEFINE s == [st[wp] EXCEPT !.pr = FALSE]
  <2>1. FlagsOK(wp, s)
    BY <1>0 DEF FlagsOK, Busy, Status
  <2>2. st' = [st EXCEPT ![wp] = s]
    BY <1>3 DEF CancelPendingResume, WriteStatus
  <2>3. wp' = wp /\ wpc' \notin {"pendingFreeze", "pendingResume", "failureFreeze"} /\ view'.st = s
    BY <1>3 DEF CancelPendingResume, Continue, ViewOf
  <2> HIDE DEF s
  <2> QED BY <1>1, <2>1, <2>2, <2>3
<1>4. CASE ForgetFailedNode
  <2> DEFINE s == [st[wp] EXCEPT !.node = FALSE]
  <2>1. FlagsOK(wp, s)
    BY <1>0 DEF FlagsOK, Busy, Status
  <2>2. st' = [st EXCEPT ![wp] = s]
    BY <1>4 DEF ForgetFailedNode, WriteStatus
  <2>3. wp' = wp /\ wpc' \notin {"pendingFreeze", "pendingResume", "failureFreeze"} /\ view'.st = s
    BY <1>4 DEF ForgetFailedNode, Continue, ViewOf
  <2> HIDE DEF s
  <2> QED BY <1>1, <2>1, <2>2, <2>3
<1>5. CASE StartWaiting
  <2> DEFINE s == [st[wp] EXCEPT !.phase = "Resuming", !.last = view.op, !.checking = TRUE]
  <2>1. FlagsOK(wp, s)
    BY <1>0 DEF FlagsOK, Busy, Status
  <2>2. st' = [st EXCEPT ![wp] = s]
    BY <1>5 DEF StartWaiting, WriteStatus
  <2>3. wp' = wp /\ wpc' \notin {"pendingFreeze", "pendingResume", "failureFreeze"} /\ view' = view
    BY <1>5 DEF StartWaiting, Continue
  <2> HIDE DEF s
  <2> QED BY <1>1, <2>1, <2>2, <2>3
<1>6. CASE ConditionsPass
  <2> DEFINE s == [st[wp] EXCEPT !.checking = FALSE]
  <2>1. FlagsOK(wp, s)
    BY <1>0 DEF FlagsOK, Busy, Status
  <2>2. st' = [st EXCEPT ![wp] = s]
    BY <1>6 DEF ConditionsPass, WriteStatus
  <2>3. wp' = wp /\ wpc' \notin {"pendingFreeze", "pendingResume", "failureFreeze"} /\ view' = view
    BY <1>6 DEF ConditionsPass, Continue
  <2> HIDE DEF s
  <2> QED BY <1>1, <2>1, <2>2, <2>3
<1>7. CASE StartCommand
  <2> DEFINE s == [st[wp] EXCEPT !.last = view.op,
                     !.phase = IF view.action = "Freeze" THEN "Freezing" ELSE "Resuming"]
  <2>1. FlagsOK(wp, s)
    BY <1>0 DEF FlagsOK, Busy, Status
  <2>2. st' = [st EXCEPT ![wp] = s]
    BY <1>7 DEF StartCommand, WriteStatus
  <2>3. wp' = wp /\ wpc' \notin {"pendingFreeze", "pendingResume", "failureFreeze"} /\ view' = view
    BY <1>7 DEF StartCommand, Loop
  <2> HIDE DEF s
  <2> QED BY <1>1, <2>1, <2>2, <2>3
<1>8. CASE CheckOnce
  <2> DEFINE s == [st[wp] EXCEPT !.phase = "Resuming", !.last = view.op, !.checking = ~PreConditionsPass(wp)]
  <2>1. FlagsOK(wp, s)
    BY <1>0 DEF FlagsOK, Busy, Status
  <2>2. st' = [st EXCEPT ![wp] = s]
    BY <1>8 DEF CheckOnce, WriteStatus
  <2>3. (\E r : Return(r)) \/ (wp' = wp /\ wpc' \notin {"pendingFreeze", "pendingResume", "failureFreeze"} /\ view' = view)
    BY <1>8 DEF CheckOnce, Continue
  <2> HIDE DEF s
  <2> QED BY <1>1, <2>1, <2>2, <2>3
<1> QED BY <1>2, <1>3, <1>4, <1>5, <1>6, <1>7, <1>8

\* Every step of the worker.
LEMMA ReconcileFlags == TypeOK /\ FlagInv /\ Reconcile => FlagInv'
<1> SUFFICES ASSUME TypeOK, FlagInv, Reconcile PROVE FlagInv'
  OBVIOUS
<1>1. Busy /\ WorkerFrame
  BY BusyWorker DEF Reconcile
<1>2. ASSUME NEW w \in Workloads, ScaleWorkload(w) PROVE FlagInv'
  BY <1>1, <1>2 DEF ScaleWorkload, NoStatusWrite, FlagInv, WorkerFrame, FlagsOK, Delayed, Resumable
<1>3. ASSUME NEW w \in Workloads, ScaleFails(w) PROVE FlagInv'
  <2>1. CASE wpc \in StrictLoops
    <3> DEFINE s == [st[wp] EXCEPT !.phase = "Failed", !.last = view.op]
    <3>1. FlagsOK(wp, s)
      BY <1>1 DEF FlagInv, FlagsOK, Busy, Status
    <3>2. st' = [st EXCEPT ![wp] = s] /\ Return(TRUE)
      BY <1>3, <2>1 DEF ScaleFails, WriteStatus
    <3>3. \A q \in Policies : FlagsOK(q, st'[q])
      BY <1>1, <3>1, <3>2, FlagWrite DEF Busy
    <3> QED BY <1>1, <3>2, <3>3, FlagReturn
  <2>2. CASE wpc \notin StrictLoops
    BY <1>1, <1>3, <2>2 DEF ScaleFails, NoStatusWrite, Loop, FlagInv, WorkerFrame, FlagsOK, Delayed, Resumable
  <2> QED BY <2>1, <2>2
<1> QED BY <1>1, <1>2, <1>3, QuietStageFlags, ReturnFlags, ContinueFlags DEF Reconcile, Stage

\* Every step of the startup goroutine.
LEMMA StartupFlags == TypeOK /\ StartupInv /\ FlagInv /\ Startup => FlagInv'
<1> SUFFICES ASSUME TypeOK, StartupInv, FlagInv, Startup PROVE FlagInv'
  OBVIOUS
<1>1. UNCHANGED <<wpc, wp, view, mapTodo>>
  BY DEF Startup, StartupFrame, workerVars
<1>2. ASSUME \A q \in Policies : FlagsOK(q, st'[q]) PROVE FlagInv'
  BY <1>1, <1>2 DEF FlagInv, FlagsOK, Delayed, Resumable
<1>3. CASE UNCHANGED st
  BY <1>2, <1>3 DEF FlagInv
<1>4. ASSUME NEW p \in Policies, NEW s, st' = [st EXCEPT ![p] = s], FlagsOK(p, s) PROVE FlagInv'
  BY <1>2, <1>4, FlagWrite
<1>5. ASSUME NEW p \in Policies PROVE FlagsOK(p, st[p]) /\ st[p] \in Status
  BY DEF FlagInv, TypeOK
<1>6. ASSUME NEW p \in Policies, StartupFreeze(p) PROVE FlagInv'
  <2> DEFINE s == [st[p] EXCEPT !.pf = TRUE, !.phase = "Idle"]
  <2>1. Config[p].fdelay => FlagsOK(p, s)
    BY <1>5, <1>6 DEF StartupFreeze, FreezePolicies, FlagsOK, Delayed, Status
  <2> QED BY <1>3, <1>4, <1>6, <2>1 DEF StartupFreeze, WriteStatus, NoStatusWrite
<1>7. ASSUME NEW p \in Policies, StartupFrozen(p) PROVE FlagInv'
  <2> DEFINE s == [st[p] EXCEPT !.phase = "Frozen"]
  <2>1. FlagsOK(p, s)
    BY <1>5 DEF FlagsOK, Status
  <2> QED BY <1>4, <1>7, <2>1 DEF StartupFrozen, WriteStatus
<1>8. ASSUME NEW p \in Policies, EndScanned(p) PROVE FlagInv'
  <2> DEFINE s == [st[p] EXCEPT !.node = TRUE, !.nf = "handled", !.last = Acked(p), !.pr = TRUE]
  <2>1. Config[p].nodeFail
    BY <1>8 DEF EndScanned, StartupInv
  <2>2. FlagsOK(p, s)
    BY <1>5, <2>1 DEF FlagsOK, Resumable, Status
  <2> QED BY <1>3, <1>4, <1>8, <2>2 DEF EndScanned, WriteStatus, NoStatusWrite
<1>9. ASSUME NEW p \in Policies, StartupResume(p) PROVE FlagInv'
  <2> DEFINE s == [st[p] EXCEPT !.last = Acked(p), !.pr = TRUE, !.phase = "Idle"]
  <2>1. Config[p].startup = "Resume"
    BY <1>9 DEF StartupResume, StartupInv, ResumePolicies
  <2>2. FlagsOK(p, s)
    BY <1>5, <2>1 DEF FlagsOK, Resumable, Status
  <2> QED BY <1>3, <1>4, <1>9, <2>2 DEF StartupResume, WriteStatus, NoStatusWrite
<1> QED BY <1>3, <1>6, <1>7, <1>8, <1>9
        DEF Startup, StartupOf, StartupList, StartupScan, EndScan, MarkStartupComplete, StartupWait,
            StartupScale, SkipScanned, StartScanned, NoStatusWrite

\* Every step keeps the flags where they belong.
LEMMA FlagInvStep == TypeOK /\ StartupInv /\ FlagInv /\ [Next]_vars => FlagInv'
<1> SUFFICES ASSUME TypeOK, StartupInv, FlagInv, [Next]_vars PROVE FlagInv'
  OBVIOUS
<1>1. ASSUME NEW p \in Policies, Begin(p) PROVE FlagInv'
  BY <1>1 DEF Begin, WorkerFrame, ViewOf, FlagInv, FlagsOK, Delayed, Resumable
<1>2. CASE Crash \/ Start
  BY <1>2 DEF Crash, Start, NoProcess, apiVars, FlagInv, FlagsOK, Delayed, Resumable
<1>3. CASE NodeFails
  BY <1>3 DEF NodeFails, OutsideFrame, apiVars, workerVars, FlagInv, FlagsOK, Delayed, Resumable
<1>4. ASSUME NEW p \in Policies, MapNode(p) PROVE FlagInv'
  <2> DEFINE s == [st[p] EXCEPT !.node = TRUE, !.nf = "detected"]
  <2>1. UNCHANGED <<wpc, wp, view>> /\ mapTodo' \subseteq mapTodo
    BY <1>4 DEF MapNode, OutsideFrame, workerVars
  <2>2. Config[p].nodeFail /\ st[p] \in Status
    BY <1>4 DEF MapNode, FlagInv, TypeOK
  <2>3. FlagsOK(p, s)
    BY <2>2 DEF FlagInv, FlagsOK, Status
  <2>4. \A q \in Policies : FlagsOK(q, st'[q])
    BY <1>4, <2>3, FlagWrite DEF MapNode, WriteStatus, NoStatusWrite, FlagInv
  <2> QED BY <2>1, <2>4 DEF FlagInv, FlagsOK, Delayed, Resumable
<1>5. CASE UNCHANGED <<st, wpc, wp, view, mapTodo>>
  BY <1>5 DEF FlagInv, FlagsOK, Delayed, Resumable
<1>6. CASE NodeRecovers \/ \E p \in Policies : \/ DelayOver(p) \/ PodsReady(p) \/ TimerFires(p)
                          \/ CreateNamespace(p) \/ \E a \in Actions : Command(p, a)
  BY <1>5, <1>6 DEF NodeRecovers, DelayOver, PodsReady, TimerFires, CreateNamespace, Command, OutsideFrame,
     apiVars, workerVars, mapVars
<1> QED BY <1>1, <1>2, <1>3, <1>4, <1>5, <1>6, ReconcileFlags, StartupFlags
        DEF Next, Outside, vars, apiVars, workerVars, mapVars

\* At first there is no flag and no process.
LEMMA FlowInit == Init => StartupInv /\ FlagInv
BY DEF Init, StartupInv, FlagInv, FlagsOK, Delayed, Resumable, NewStatus

\* The facts every later proof starts from.
FlowInv == TypeOK /\ StartupInv /\ FlagInv

\* They hold in every reachable state: a pending freeze belongs to a policy with
\* a freeze delay, a pending resume to one that startup resumes or that handles
\* node failures, a detected failure to one that handles them, and the gate is
\* closed until startup is done.
THEOREM FlagsBelong == Spec => []FlowInv
<1>1. Init => FlowInv
  BY PolicyTypeInit, FlowInit DEF FlowInv
<1>2. FlowInv /\ [Next]_vars => FlowInv'
  BY PolicyTypeStep, StartupInvStep, FlagInvStep DEF FlowInv
<1> QED BY <1>1, <1>2, PTL DEF Spec
(***************************************************************************)
(* A detected failure goes away only by being handled.  One write could    *)
(* erase it: waiting for pre-conditions puts back the status read at the   *)
(* start of the reconcile (the run checked_failure shows it).              *)
(***************************************************************************)
Remembers == \A p \in Policies : st[p].nf = "detected" => st'[p].nf # "none"

\* A write of a status that keeps the failure, or records one.
LEMMA RememberingWrite ==
  ASSUME TypeOK, NEW p \in Policies, NEW s, st' = [st EXCEPT ![p] = s],
         s.nf \in {st[p].nf, "detected", "handled"}
  PROVE  Remembers
BY DEF TypeOK, Remembers

\* The writes of the worker, but for the wait for pre-conditions.
LEMMA WorkerRemembers ==
  ASSUME Busy, Reconcile, ~WaitPreConditions
  PROVE  Remembers
<1>1. CASE UNCHANGED st
  BY <1>1 DEF Remembers
<1>2. ASSUME NEW s, st' = [st EXCEPT ![wp] = s], s.nf \in {st[wp].nf, "handled"} PROVE Remembers
  BY <1>2, RememberingWrite DEF Busy
<1>3. CASE EndPendingFreeze
  BY <1>2, <1>3 DEF EndPendingFreeze, WriteStatus, Busy, Status
<1>4. CASE EndPendingResume
  BY <1>2, <1>4 DEF EndPendingResume, WriteStatus, Busy, Status
<1>5. CASE NamespaceMissing
  BY <1>2, <1>5 DEF NamespaceMissing, WriteStatus, Busy, Status
<1>6. CASE StopWaiting
  BY <1>2, <1>6 DEF StopWaiting, WriteStatus, Busy, Status
<1>7. CASE ConditionsFail
  BY <1>2, <1>7 DEF ConditionsFail, WriteStatus, Busy, Status
<1>8. CASE EndNodeFailure
  BY <1>2, <1>8 DEF EndNodeFailure, WriteStatus, Busy, Status
<1>9. CASE EndCheckedResume
  BY <1>2, <1>9 DEF EndCheckedResume, WriteStatus, Busy, Status
<1>10. CASE EndFreeze
  BY <1>2, <1>10 DEF EndFreeze, WriteStatus, Busy, Status
<1>11. CASE EndResume
  BY <1>2, <1>11 DEF EndResume, WriteStatus, Busy, Status
<1>12. CASE CancelPendingFreeze
  BY <1>2, <1>12 DEF CancelPendingFreeze, WriteStatus, Busy, Status
<1>13. CASE CancelPendingResume
  BY <1>2, <1>13 DEF CancelPendingResume, WriteStatus, Busy, Status
<1>14. CASE ForgetFailedNode
  BY <1>2, <1>14 DEF ForgetFailedNode, WriteStatus, Busy, Status
<1>15. CASE StartWaiting
  BY <1>2, <1>15 DEF StartWaiting, WriteStatus, Busy, Status
<1>16. CASE ConditionsPass
  BY <1>2, <1>16 DEF ConditionsPass, WriteStatus, Busy, Status
<1>17. CASE StartCommand
  BY <1>2, <1>17 DEF StartCommand, WriteStatus, Busy, Status
<1>18. CASE CheckOnce
  BY <1>2, <1>18 DEF CheckOnce, WriteStatus, Busy, Status
<1>19. ASSUME NEW w \in Workloads, ScaleWorkload(w) \/ ScaleFails(w) PROVE Remembers
  BY <1>1, <1>2, <1>19 DEF ScaleWorkload, ScaleFails, WriteStatus, NoStatusWrite, Busy, Status
<1> QED BY <1>1, <1>3, <1>4, <1>5, <1>6, <1>7, <1>8, <1>9, <1>10, <1>11, <1>12, <1>13, <1>14, <1>15, <1>16, <1>17, <1>18, <1>19
  DEF Reconcile, Stage, NoStatusWrite, WaitFreezeDelay, WaitStartup, WaitTurn, CleanUpFailedNode,
      SkipHandled, CheckAgain, StartPendingFreeze, StartPendingResume, StartNodeFailure,
      StartCheckedResume, ResumeWithoutConditions

\* The writes of startup and of the node watch.
LEMMA OthersRemember ==
  ASSUME TypeOK, Startup \/ Outside \/ Start \/ \E p \in Policies : Begin(p)
  PROVE  Remembers
<1>1. CASE UNCHANGED st
  BY <1>1 DEF Remembers
<1>2. ASSUME NEW p \in Policies, NEW s, st' = [st EXCEPT ![p] = s],
             s.nf \in {st[p].nf, "detected", "handled"}
      PROVE  Remembers
  BY <1>2, RememberingWrite
<1>3. ASSUME NEW p \in Policies PROVE st[p] \in Status
  BY DEF TypeOK
<1>4. ASSUME NEW p \in Policies, StartupFreeze(p) \/ StartupFrozen(p) PROVE Remembers
  BY <1>1, <1>2, <1>3, <1>4 DEF StartupFreeze, StartupFrozen, WriteStatus, NoStatusWrite, Status
<1>5. ASSUME NEW p \in Policies, EndScanned(p) \/ StartupResume(p) PROVE Remembers
  BY <1>1, <1>2, <1>3, <1>5 DEF EndScanned, StartupResume, WriteStatus, NoStatusWrite, Status
<1>6. ASSUME NEW p \in Policies, MapNode(p) PROVE Remembers
  BY <1>1, <1>2, <1>3, <1>6 DEF MapNode, WriteStatus, NoStatusWrite, Status
<1>7. CASE Startup
  BY <1>1, <1>4, <1>5, <1>7 DEF Startup, StartupOf, StartupList, StartupScan, EndScan, MarkStartupComplete,
     StartupWait, StartupScale, SkipScanned, StartScanned, NoStatusWrite
<1>8. CASE Outside \/ Start \/ \E p \in Policies : Begin(p)
  BY <1>1, <1>6, <1>8 DEF Outside, Start, Begin, NodeFails, NodeRecovers, Crash, DelayOver, PodsReady,
     TimerFires, CreateNamespace, Command, apiVars
<1> QED BY <1>7, <1>8

\* Whatever status writes cross its record, a detected node failure is never
\* forgotten, provided that no policy that handles node failures also has
\* pre-conditions for its resumes.
THEOREM FailuresAreRemembered ==
  ASSUME \A p \in Policies : Config[p].nodeFail => Config[p].pre = "none"
  PROVE  Spec => FailureNotForgotten
<1>1. FlowInv /\ [Next]_vars => [Remembers]_vars
  <2> SUFFICES ASSUME FlowInv, Next PROVE Remembers
    OBVIOUS
  <2>1. CASE Reconcile /\ ~WaitPreConditions
    BY <2>1, BusyWorker, WorkerRemembers DEF FlowInv, Reconcile
  <2>2. CASE Reconcile /\ WaitPreConditions
    <3>1. Busy
      BY <2>2, BusyWorker DEF FlowInv, Reconcile
    <3>2. Config[wp].pre # "none"
      BY <2>2 DEF WaitPreConditions, ChecksFail, PreConditionsPass
    <3>3. st[wp].nf # "detected"
      BY <3>1, <3>2 DEF FlowInv, FlagInv, FlagsOK, Busy
    <3>4. \A q \in Policies : q # wp => st'[q] = st[q]
      BY <2>2, <3>1 DEF WaitPreConditions, WriteStatus, Busy, TypeOK
    <3> QED BY <3>3, <3>4 DEF Remembers
  <2> QED BY <2>1, <2>2, OthersRemember DEF FlowInv, Next
<1> QED BY <1>1, FlagsBelong, PTL DEF Spec, FailureNotForgotten, Remembers
(***************************************************************************)
(* No flag loses its wake-up.  A policy with a flag that is neither in the *)
(* workqueue nor waits for a timer is being reconciled, by a reconcile     *)
(* that has read the flag and has yet to reach the stage that serves it.   *)
(***************************************************************************)
WakeAt(p) ==
  /\ st[p].pf => wp = p /\ ((wpc = "read" /\ view.st.pf) \/ wpc = "pendingFreeze")
  /\ st[p].pr => wp = p /\ ((wpc \in {"read", "atResume"} /\ view.st.pr) \/ wpc = "pendingResume")
  /\ st[p].nf = "detected" =>
       wp = p /\ ((wpc \in {"read", "atResume", "atFailure"} /\ view.st.nf = "detected")
                  \/ wpc = "failureFreeze")

WakeInv == up => \A p \in Policies \ (queue \cup timers) : WakeAt(p)

\* A status without a flag.
NoFlag(s) == ~s.pf /\ ~s.pr /\ s.nf # "detected"

\* A status write outside the worker: whatever it raises, it enqueues.
LEMMA WriteWakes ==
  ASSUME TypeOK, WakeInv, NEW p \in Policies, NEW s \in Status, NEW d, WriteStatus(p, s, d),
         UNCHANGED <<up, timers, wpc, wp, view>>
  PROVE  WakeInv'
<1> SUFFICES ASSUME up, NEW q \in Policies, q \notin queue' \cup timers PROVE WakeAt(q)'
  BY DEF WakeInv
<1>1. st' = [st EXCEPT ![p] = s] /\ queue \subseteq queue'
  BY DEF WriteStatus
<1>2. WakeAt(q)
  BY <1>1 DEF WakeInv
<1>3. CASE q # p
  BY <1>1, <1>2, <1>3 DEF WakeAt, TypeOK
<1>4. CASE q = p
  <2>1. st'[q] = s
    BY <1>1, <1>4 DEF TypeOK
  <2>2. (s.pf => st[q].pf) /\ (s.pr => st[q].pr) /\ (s.nf = "detected" => st[q].nf = "detected")
    BY <1>4 DEF WriteStatus, Triggers
  <2> QED BY <1>2, <2>1, <2>2 DEF WakeAt
<1> QED BY <1>3, <1>4

\* A step that leaves flags and worker alone and drops no request.
LEMMA QuietWakes ==
  ASSUME WakeInv, UNCHANGED <<st, up, wpc, wp, view>>, queue \cup timers \subseteq queue' \cup timers'
  PROVE  WakeInv'
BY DEF WakeInv, WakeAt

\* A step of the worker on p concerns no other policy.
LEMMA WorkerWakes ==
  ASSUME Busy, WakeInv, up, UNCHANGED up, NEW p \in Policies, p = wp,
         queue \subseteq queue', timers \subseteq timers',
         \A q \in Policies : q # p => st'[q] = st[q],
         p \in queue' \cup timers' \/ WakeAt(p)'
  PROVE  WakeInv'
<1> SUFFICES ASSUME NEW q \in Policies, q \notin queue' \cup timers', q # p PROVE WakeAt(q)'
  BY DEF WakeInv
<1>1. WakeAt(q)
  BY DEF WakeInv
<1>2. NoFlag(st[q])
  BY <1>1 DEF WakeAt, NoFlag
<1> QED BY <1>2 DEF WakeAt, NoFlag

\* A reconcile that returns with a requeue.
LEMMA RequeueWakes ==
  ASSUME Busy, WakeInv, up, WorkerFrame, Return(TRUE),
         NoStatusWrite \/ \E s, d : WriteStatus(wp, s, d)
  PROVE  WakeInv'
<1>1. PICK p \in Policies : p = wp
  BY DEF Busy
<1>2. queue \subseteq queue' /\ \A q \in Policies : q # p => st'[q] = st[q]
  BY <1>1 DEF NoStatusWrite, WriteStatus, Busy, TypeOK
<1>3. p \in timers' /\ timers \subseteq timers'
  BY <1>1 DEF Return
<1> QED BY <1>1, <1>2, <1>3, WorkerWakes DEF WorkerFrame

\* A step of the worker after which p has no flag that it did not have before,
\* when a p that nobody would wake had none.
LEMMA FlaglessWakes ==
  ASSUME Busy, WakeInv, up, WorkerFrame, timers \subseteq timers',
         wp \notin queue \cup timers => NoFlag(st[wp]),
         \/ NoStatusWrite
         \/ \E s, d : /\ WriteStatus(wp, s, d)
                      /\ s.pf => st[wp].pf
                      /\ s.pr => st[wp].pr
                      /\ s.nf = "detected" => st[wp].nf = "detected"
  PROVE  WakeInv'
<1>1. PICK p \in Policies : p = wp
  BY DEF Busy
<1>2. queue \subseteq queue' /\ \A q \in Policies : q # p => st'[q] = st[q]
  BY <1>1 DEF NoStatusWrite, WriteStatus, Busy, TypeOK
<1>3. /\ st'[p].pf => st[p].pf
      /\ st'[p].pr => st[p].pr
      /\ st'[p].nf = "detected" => st[p].nf = "detected"
  BY <1>1 DEF NoStatusWrite, WriteStatus, Busy, TypeOK
<1>4. ASSUME p \notin queue' \cup timers' PROVE WakeAt(p)'
  BY <1>1, <1>2, <1>3, <1>4 DEF NoFlag, WakeAt
<1> QED BY <1>1, <1>2, <1>4, WorkerWakes DEF WorkerFrame

\* At the command, and after it, a policy that nobody would wake has no flag.
LEMMA CommandFlagless ==
  ASSUME Busy, FlagInv, WakeInv, up,
         AtCommand \/ wpc \in {"listed", "waiting", "freeze", "resume", "checkingResume"},
         wp \notin queue \cup timers
  PROVE  NoFlag(st[wp])
<1>1. WakeAt(wp) /\ FlagsOK(wp, view.st)
  BY DEF Busy, WakeInv, FlagInv
<1>2. CASE wpc \in {"atCommand", "listed", "waiting", "freeze", "resume", "checkingResume"}
  BY <1>1, <1>2 DEF WakeAt, NoFlag
<1>3. CASE AtFailure /\ ~Unhandled(wp, view.st)
  BY <1>1, <1>3 DEF WakeAt, NoFlag, AtFailure, AtResume, Unhandled, FlagsOK
<1> QED BY <1>2, <1>3 DEF AtCommand

\* The stages of the command.
LEMMA CommandWakes ==
  ASSUME Busy, FlagInv, WakeInv, up, WorkerFrame,
         \/ SkipHandled \/ NamespaceMissing \/ CheckAgain \/ StartCheckedResume \/ EndCheckedResume
         \/ StartCommand \/ EndFreeze \/ EndResume \/ ResumeWithoutConditions \/ StartWaiting
         \/ StopWaiting \/ ConditionsPass \/ CheckOnce \/ ConditionsFail
  PROVE  WakeInv'
<1>1. wp \notin queue \cup timers => NoFlag(st[wp])
  <2>1. AtCommand \/ wpc \in {"listed", "waiting", "freeze", "resume", "checkingResume"}
    BY DEF SkipHandled, NamespaceMissing, CheckAgain, StartCheckedResume, EndCheckedResume,
           StartCommand, EndFreeze, EndResume, ResumeWithoutConditions, StartWaiting,
           StopWaiting, ConditionsPass, CheckOnce, ConditionsFail
  <2> QED BY <2>1, CommandFlagless
<1>2. timers \subseteq timers'
  BY DEF SkipHandled, NamespaceMissing, CheckAgain, StartCheckedResume, EndCheckedResume,
         StartCommand, EndFreeze, EndResume, ResumeWithoutConditions, StartWaiting,
         StopWaiting, ConditionsPass, CheckOnce, ConditionsFail, Return, Continue, Loop
<1>3. CASE NoStatusWrite
  BY <1>1, <1>2, <1>3, FlaglessWakes
<1>4. ASSUME NEW s, NEW d, WriteStatus(wp, s, d), s.pf = st[wp].pf, s.pr => st[wp].pr, s.nf = st[wp].nf
      PROVE  WakeInv'
  BY <1>1, <1>2, <1>4, FlaglessWakes
<1>5. CASE NamespaceMissing \/ EndFreeze \/ EndResume
  BY <1>4, <1>5 DEF NamespaceMissing, EndFreeze, EndResume, Busy, Status
<1>6. CASE StartCommand
  BY <1>4, <1>6 DEF StartCommand, Busy, Status
<1>7. CASE EndCheckedResume
  BY <1>4, <1>7 DEF EndCheckedResume, Busy, Status
<1>8. CASE StartWaiting \/ StopWaiting \/ ConditionsPass \/ CheckOnce
  BY <1>4, <1>8 DEF StartWaiting, StopWaiting, ConditionsPass, CheckOnce, Busy, Status
<1>9. CASE ConditionsFail
  BY <1>4, <1>9 DEF ConditionsFail, Busy, Status
<1> QED BY <1>3, <1>5, <1>6, <1>7, <1>8, <1>9 DEF SkipHandled, CheckAgain, StartCheckedResume,
        ResumeWithoutConditions

\* The stages of the pending freeze.  A policy with a freeze delay does not
\* handle node failures, so that nothing else is flagged when the freeze ends.
LEMMA FreezeWakes ==
  ASSUME \A p \in Policies : ~(Delayed(p) /\ Config[p].nodeFail),
         Busy, FlagInv, WakeInv, up, WorkerFrame,
         CancelPendingFreeze \/ WaitFreezeDelay \/ StartPendingFreeze \/ EndPendingFreeze
  PROVE  WakeInv'
<1>0. PICK p \in Policies : p = wp
  BY DEF Busy
<1>1. CASE WaitFreezeDelay
  BY <1>1, RequeueWakes DEF WaitFreezeDelay
<1>2. CASE CancelPendingFreeze
  <2> DEFINE s == [st[wp] EXCEPT !.pf = FALSE]
  <2>1. /\ queue \subseteq queue' /\ timers' = timers
        /\ wp' = wp /\ wpc' = "atResume" /\ view'.st = s /\ st' = [st EXCEPT ![wp] = s]
    BY <1>2 DEF CancelPendingFreeze, WriteStatus, Continue, ViewOf
  <2>2. st'[p] = s /\ ~s.pf /\ \A q \in Policies : q # p => st'[q] = st[q]
    BY <1>0, <2>1 DEF Busy, TypeOK, Status
  <2> HIDE DEF s
  <2>3. WakeAt(p)'
    BY <1>0, <2>1, <2>2 DEF WakeAt
  <2> QED BY <1>0, <2>1, <2>2, <2>3, WorkerWakes DEF WorkerFrame
<1>3. CASE StartPendingFreeze
  <2>1. UNCHANGED <<st, queue, timers, wp, view>> /\ wpc' = "pendingFreeze" /\ wpc = "read" /\ view.st.pf
    BY <1>3 DEF StartPendingFreeze, NoStatusWrite, Loop
  <2>2. Delayed(p) /\ FlagsOK(p, st[p])
    BY <1>0, <2>1 DEF FlagInv, FlagsOK
  <2>3. ~Config[p].nodeFail /\ ~Resumable(p)
    BY <2>2 DEF Delayed, Resumable
  <2>4. ~st[p].pr /\ st[p].nf # "detected"
    BY <2>2, <2>3 DEF FlagsOK
  <2>5. WakeAt(p)'
    BY <1>0, <2>1, <2>4 DEF WakeAt
  <2> QED BY <1>0, <2>1, <2>5, WorkerWakes DEF WorkerFrame
<1>4. CASE EndPendingFreeze
  <2> DEFINE s == [st[wp] EXCEPT !.phase = "Frozen", !.pf = FALSE]
  <2>1. queue \subseteq queue' /\ timers' = timers /\ st' = [st EXCEPT ![wp] = s] /\ wpc = "pendingFreeze"
    BY <1>4 DEF EndPendingFreeze, WriteStatus, Return
  <2>2. Delayed(p) /\ FlagsOK(p, st[p])
    BY <1>0, <2>1 DEF FlagInv
  <2>3. ~Config[p].nodeFail /\ ~Resumable(p)
    BY <2>2 DEF Delayed, Resumable
  <2>4. ~st[p].pr /\ st[p].nf # "detected"
    BY <2>2, <2>3 DEF FlagsOK
  <2>5. /\ st'[p] = s /\ ~s.pf /\ s.pr = st[p].pr /\ s.nf = st[p].nf
        /\ \A q \in Policies : q # p => st'[q] = st[q]
    BY <1>0, <2>1 DEF Busy, TypeOK, Status
  <2> HIDE DEF s
  <2>6. WakeAt(p)'
    BY <2>4, <2>5 DEF WakeAt
  <2> QED BY <1>0, <2>1, <2>5, <2>6, WorkerWakes DEF WorkerFrame
<1> QED BY <1>1, <1>2, <1>3, <1>4

\* The stages of the pending resume.
LEMMA ResumeWakes ==
  ASSUME Busy, FlagInv, WakeInv, up, WorkerFrame,
         \/ WaitStartup \/ CancelPendingResume \/ WaitTurn \/ WaitPreConditions
         \/ StartPendingResume \/ EndPendingResume
  PROVE  WakeInv'
<1>0. PICK p \in Policies : p = wp
  BY DEF Busy
<1>1. CASE WaitStartup \/ WaitTurn
  BY <1>1, RequeueWakes DEF WaitStartup, WaitTurn
<1>2. CASE WaitPreConditions
  BY <1>2, RequeueWakes DEF WaitPreConditions
<1>3. ASSUME AtResume, p \notin queue \cup timers PROVE ~st[p].pf
  BY <1>0, <1>3 DEF WakeInv, WakeAt, AtResume
<1>4. CASE CancelPendingResume
  <2> DEFINE s == [st[wp] EXCEPT !.pr = FALSE]
  <2>1. /\ queue \subseteq queue' /\ timers' = timers /\ AtResume
        /\ wp' = wp /\ wpc' = "atFailure" /\ view'.st = s /\ st' = [st EXCEPT ![wp] = s]
    BY <1>4 DEF CancelPendingResume, WriteStatus, Continue, ViewOf
  <2>2. st'[p] = s /\ ~s.pr /\ s.pf = st[p].pf /\ \A q \in Policies : q # p => st'[q] = st[q]
    BY <1>0, <2>1 DEF Busy, TypeOK, Status
  <2> HIDE DEF s
  <2>3. p \in queue' \cup timers' \/ WakeAt(p)'
    BY <1>0, <1>3, <2>1, <2>2 DEF WakeAt
  <2> QED BY <1>0, <2>1, <2>2, <2>3, WorkerWakes DEF WorkerFrame
<1>5. CASE StartPendingResume
  <2>1. /\ UNCHANGED <<st, queue, timers, wp, view>> /\ wpc' = "pendingResume" /\ AtResume
        /\ ~Unhandled(wp, view.st)
    BY <1>5 DEF StartPendingResume, AtPendingResume, NoStatusWrite, Loop
  <2>2. view.st.nf # "detected"
    BY <2>1 DEF Unhandled, FlagInv, FlagsOK, Busy
  <2>3. wpc # "failureFreeze"
    BY <2>1 DEF AtResume
  <2>4. p \notin queue \cup timers => st[p].nf # "detected"
    BY <1>0, <2>2, <2>3 DEF WakeInv, WakeAt
  <2>5. p \in queue' \cup timers' \/ WakeAt(p)'
    BY <1>0, <1>3, <2>1, <2>4 DEF WakeAt
  <2> QED BY <1>0, <2>1, <2>5, WorkerWakes DEF WorkerFrame
<1>6. CASE EndPendingResume
  <2> DEFINE s == [st[wp] EXCEPT !.phase = "Resumed", !.pr = FALSE]
  <2>1. /\ queue \subseteq queue' /\ timers \subseteq timers' /\ st' = [st EXCEPT ![wp] = s]
        /\ wpc = "pendingResume"
    BY <1>6 DEF EndPendingResume, WriteStatus, Return
  <2>2. /\ st'[p] = s /\ ~s.pr /\ s.pf = st[p].pf /\ s.nf = st[p].nf
        /\ \A q \in Policies : q # p => st'[q] = st[q]
    BY <1>0, <2>1 DEF Busy, TypeOK, Status
  <2>3. p \notin queue \cup timers => ~st[p].pf /\ st[p].nf # "detected"
    BY <2>1 DEF WakeInv, WakeAt
  <2> HIDE DEF s
  <2>4. p \in queue' \cup timers' \/ WakeAt(p)'
    BY <2>1, <2>2, <2>3 DEF WakeAt
  <2> QED BY <1>0, <2>1, <2>2, <2>4, WorkerWakes DEF WorkerFrame
<1> QED BY <1>1, <1>2, <1>4, <1>5, <1>6

\* The stages of the node failure, and the loops.
LEMMA FailureWakes ==
  ASSUME Busy, FlagInv, WakeInv, up, WorkerFrame,
         \/ StartNodeFailure \/ EndNodeFailure \/ CleanUpFailedNode \/ ForgetFailedNode
         \/ \E w \in Workloads : ScaleWorkload(w) \/ ScaleFails(w)
  PROVE  WakeInv'
<1>0. PICK p \in Policies : p = wp
  BY DEF Busy
<1>1. CASE EndNodeFailure \/ CleanUpFailedNode
  BY <1>1, RequeueWakes DEF EndNodeFailure, CleanUpFailedNode
<1>2. ASSUME AtFailure, p \notin queue \cup timers PROVE ~st[p].pf /\ ~st[p].pr
  BY <1>0, <1>2 DEF WakeInv, WakeAt, AtFailure, AtResume
<1>3. CASE StartNodeFailure
  <2>1. UNCHANGED <<st, queue, timers, wp, view>> /\ wpc' = "failureFreeze" /\ AtFailure
    BY <1>3 DEF StartNodeFailure, NoStatusWrite, Loop
  <2>2. p \in queue' \cup timers' \/ WakeAt(p)'
    BY <1>0, <1>2, <2>1 DEF WakeAt
  <2> QED BY <1>0, <2>1, <2>2, WorkerWakes DEF WorkerFrame
<1>4. CASE ForgetFailedNode
  <2> DEFINE s == [st[wp] EXCEPT !.node = FALSE]
  <2>1. timers' = timers /\ WriteStatus(wp, s, FALSE) /\ AtFailure /\ ~Unhandled(wp, view.st)
    BY <1>4 DEF ForgetFailedNode, Continue
  <2>2. s.pf = st[wp].pf /\ s.pr = st[wp].pr /\ s.nf = st[wp].nf
    BY DEF Busy, Status
  <2>3. view.st.nf # "detected" /\ wpc # "failureFreeze"
    BY <2>1 DEF Unhandled, FlagInv, FlagsOK, Busy, AtFailure, AtResume
  <2>4. wp \notin queue \cup timers => NoFlag(st[wp])
    BY <1>0, <1>2, <2>1, <2>3 DEF WakeInv, WakeAt, NoFlag
  <2> HIDE DEF s
  <2> QED BY <2>1, <2>2, <2>4, FlaglessWakes
<1>5. ASSUME NEW w \in Workloads, ScaleWorkload(w) PROVE WakeInv'
  BY <1>5, QuietWakes DEF ScaleWorkload, NoStatusWrite, WorkerFrame
<1>6. ASSUME NEW w \in Workloads, ScaleFails(w) PROVE WakeInv'
  BY <1>6, QuietWakes, RequeueWakes DEF ScaleFails, NoStatusWrite, Loop, WorkerFrame
<1> QED BY <1>1, <1>3, <1>4, <1>5, <1>6

\* Startup, the node watch, users, time and the process.
LEMMA OthersWake ==
  ASSUME FlowInv, WakeInv, Startup \/ Outside \/ Start \/ \E p \in Policies : Begin(p)
  PROVE  WakeInv'
<1>0. TypeOK
  BY DEF FlowInv
<1>1. ASSUME NEW p \in Policies PROVE st[p] \in Status /\ op[p] \in OpIds /\ Acked(p) \in OpIds
  <2>1. st[p] \in Status /\ op[p] \in OpIds
    BY <1>0 DEF TypeOK
  <2> QED BY <2>1 DEF Acked, Status
<1>2. CASE Startup
  <2>1. UNCHANGED <<up, timers, wpc, wp, view>>
    BY <1>2 DEF Startup, StartupFrame, workerVars
  <2>2. CASE NoStatusWrite
    BY <2>1, <2>2, QuietWakes DEF NoStatusWrite
  <2>3. ASSUME NEW p \in Policies, NEW s \in Status, NEW d, WriteStatus(p, s, d) PROVE WakeInv'
    BY <1>0, <2>1, <2>3, WriteWakes
  <2>4. ASSUME NEW p \in Policies, StartupFreeze(p) PROVE WakeInv'
    <3>1. [st[p] EXCEPT !.pf = TRUE, !.phase = "Idle"] \in Status
      BY <1>1 DEF Status, Phases
    <3> QED BY <2>2, <2>3, <2>4, <3>1 DEF StartupFreeze
  <2>5. ASSUME NEW p \in Policies, StartupFrozen(p) PROVE WakeInv'
    <3>1. [st[p] EXCEPT !.phase = "Frozen"] \in Status
      BY <1>1 DEF Status, Phases
    <3> QED BY <2>3, <2>5, <3>1 DEF StartupFrozen
  <2>6. ASSUME NEW p \in Policies, EndScanned(p) PROVE WakeInv'
    <3>1. [st[p] EXCEPT !.node = TRUE, !.nf = "handled", !.last = Acked(p), !.pr = TRUE] \in Status
      BY <1>1 DEF Status
    <3> QED BY <2>2, <2>3, <2>6, <3>1 DEF EndScanned
  <2>7. ASSUME NEW p \in Policies, StartupResume(p) PROVE WakeInv'
    <3>1. [st[p] EXCEPT !.last = Acked(p), !.pr = TRUE, !.phase = "Idle"] \in Status
      BY <1>1 DEF Status, Phases
    <3> QED BY <2>2, <2>3, <2>7, <3>1 DEF StartupResume
  <2> QED BY <1>2, <2>2, <2>4, <2>5, <2>6, <2>7
          DEF Startup, StartupOf, StartupList, StartupScan, EndScan, MarkStartupComplete, StartupWait,
              StartupScale, SkipScanned, StartScanned
<1>3. ASSUME NEW p \in Policies, Begin(p) PROVE WakeInv'
  <2>1. /\ queue' = queue \ {p} /\ wpc' = "read" /\ wp' = p /\ view'.st = st[p] /\ wp = NoPolicy
        /\ UNCHANGED <<st, timers, up>>
    BY <1>0, <1>3 DEF Begin, ViewOf, WorkerFrame, TypeOK
  <2>2. WakeAt(p)'
    BY <2>1 DEF WakeAt
  <2>3. ASSUME up, NEW q \in Policies, q \notin queue \cup timers PROVE NoFlag(st[q])
    BY <2>1, <2>3, ConfigAssumption DEF WakeInv, WakeAt, NoFlag
  <2>4. ASSUME up, NEW q \in Policies, q # p, q \notin queue' \cup timers PROVE WakeAt(q)'
    BY <2>1, <2>3, <2>4 DEF WakeAt, NoFlag
  <2> QED BY <2>1, <2>2, <2>4 DEF WakeInv
<1>4. CASE Crash
  BY <1>4 DEF Crash, WakeInv
<1>5. CASE Start
  <2>1. queue' = {p \in Policies : Enqueued(p)} /\ UNCHANGED st
    BY <1>5 DEF Start, apiVars
  <2>2. \A p \in Policies : ~Enqueued(p) => NoFlag(st[p])
    BY DEF FlowInv, FlagInv, FlagsOK, Enqueued, Unhandled, NoFlag
  <2> QED BY <2>1, <2>2 DEF WakeInv, WakeAt, NoFlag
<1>6. ASSUME NEW p \in Policies, MapNode(p) PROVE WakeInv'
  <2>1. UNCHANGED <<up, timers, wpc, wp, view>>
    BY <1>6 DEF MapNode, OutsideFrame, workerVars
  <2>2. [st[p] EXCEPT !.node = TRUE, !.nf = "detected"] \in Status
    BY <1>1 DEF Status
  <2> QED BY <1>0, <1>6, <2>1, <2>2, WriteWakes, QuietWakes DEF MapNode, NoStatusWrite
<1>7. CASE NodeFails \/ NodeRecovers
  BY <1>7, QuietWakes DEF NodeFails, NodeRecovers, OutsideFrame, apiVars, workerVars
<1>8. ASSUME NEW p \in Policies, DelayOver(p) \/ PodsReady(p) \/ TimerFires(p) \/ CreateNamespace(p)
      PROVE  WakeInv'
  BY <1>8, QuietWakes DEF DelayOver, PodsReady, TimerFires, CreateNamespace, OutsideFrame, apiVars,
     workerVars
<1>9. ASSUME NEW p \in Policies, NEW a \in Actions, Command(p, a) PROVE WakeInv'
  BY <1>9, QuietWakes DEF Command, OutsideFrame, workerVars
<1> QED BY <1>2, <1>3, <1>4, <1>5, <1>6, <1>7, <1>8, <1>9 DEF Outside

\* Once startup is over, and in fact as long as the process runs, a policy with a
\* pending resume, a pending freeze or an unhandled node failure is in the
\* workqueue, waits for a timer or is being reconciled, provided that no policy
\* has both a delayed startup freeze and handleNodeFailure: the return after a
\* delayed freeze requeues nothing, and would leave a failure read with it.
THEOREM WakeupsAreKept ==
  ASSUME \A p \in Policies : ~(Config[p].startup = "Freeze" /\ Config[p].fdelay /\ Config[p].nodeFail)
  PROVE  Spec => []NoLostWakeup
<1>0. \A p \in Policies : ~(Delayed(p) /\ Config[p].nodeFail)
  BY DEF Delayed
<1>1. Init => WakeInv
  BY DEF Init, WakeInv
<1>2. FlowInv /\ WakeInv /\ [Next]_vars => WakeInv'
  <2> SUFFICES ASSUME FlowInv, WakeInv, [Next]_vars PROVE WakeInv'
    OBVIOUS
  <2>1. CASE Reconcile
    <3>1. Busy /\ up /\ WorkerFrame /\ FlagInv
      BY <2>1, BusyWorker DEF Reconcile, FlowInv
    <3> QED BY <1>0, <2>1, <3>1, CommandWakes, FreezeWakes, ResumeWakes, FailureWakes DEF Reconcile, Stage
  <2>2. CASE UNCHANGED vars
    BY <2>2, QuietWakes DEF vars, apiVars, workerVars
  <2> QED BY <2>1, <2>2, OthersWake DEF Next
<1>3. FlowInv /\ WakeInv => NoLostWakeup
  <2> SUFFICES ASSUME FlowInv, WakeInv, spc = "done", NEW p \in Policies,
                      st[p].pr \/ st[p].pf \/ Unhandled(p, st[p]), p \notin queue \cup timers
               PROVE  p = wp
    BY DEF NoLostWakeup
  <2>1. up
    BY DEF FlowInv, StartupInv
  <2> QED BY <2>1 DEF WakeInv, WakeAt, Unhandled
<1> QED BY <1>1, <1>2, <1>3, FlagsBelong, PTL DEF Spec
=============================================================================
