-------------------------- MODULE PolicyTypeProofs --------------------------
(***************************************************************************)
(* Proof that every reachable state of PolicyReconciler has its type.      *)
(***************************************************************************)
EXTENDS PolicyReconcilerProofs

\* TypeOK in the parts that steps write together: the status and who is told
\* of it, the reconcile under way, the rest that worker and startup write.
StatusTyped == st \in [Policies -> Status] /\ queue \subseteq Policies /\ mapFresh \subseteq Policies

ReconcileTyped ==
  /\ timers \subseteq Policies
  /\ wpc \in WorkerPcs /\ wp \in Policies \cup {NoPolicy} /\ (wpc = "idle" <=> wp = NoPolicy)
  /\ view \in View /\ wtodo \subseteq Workloads

EffectsTyped ==
  /\ frozen \in [Policies -> SUBSET Workloads] /\ ready \subseteq Policies
  /\ fOver \in [Policies -> BOOLEAN] /\ rOver \in [Policies -> BOOLEAN]

HistoryTyped == begun \in [Policies -> SUBSET OpIds] /\ done \in [Policies -> SUBSET OpIds]

CommandTyped == op \in [Policies -> OpIds] /\ action \in [Policies -> Actions]

ClusterTyped ==
  /\ exists \in [Policies -> BOOLEAN] /\ nodeUp \in BOOLEAN
  /\ crashes \in 0..MaxCrashes /\ failures \in 0..MaxFailures

StartupTyped ==
  /\ spc \in StartupPcs /\ gpc \in [Policies -> GoroutinePcs]
  /\ gtodo \in [Policies -> SUBSET Workloads] /\ stodo \subseteq Policies
  /\ slist \in [Policies -> Status]

ProcessTyped == up \in BOOLEAN /\ gate \in BOOLEAN /\ mapTodo \subseteq Policies

\* The parts are the whole.
LEMMA TypeParts ==
  TypeOK <=> /\ StatusTyped /\ ReconcileTyped /\ EffectsTyped /\ HistoryTyped /\ CommandTyped
             /\ ClusterTyped /\ StartupTyped /\ ProcessTyped
BY DEF TypeOK, StatusTyped, ReconcileTyped, EffectsTyped, HistoryTyped, CommandTyped,
       ClusterTyped, StartupTyped, ProcessTyped

\* A status write, and the absence of one.
LEMMA WriteTyped ==
  ASSUME StatusTyped, NEW p \in Policies, NEW s \in Status, NEW d, WriteStatus(p, s, d)
  PROVE  StatusTyped'
BY DEF StatusTyped, WriteStatus

\* A step without a status write.
LEMMA NoWriteTyped == StatusTyped /\ NoStatusWrite => StatusTyped'
BY DEF StatusTyped, NoStatusWrite

\* The ways a reconcile goes on.
LEMMA ReturnTyped ==
  ASSUME ReconcileTyped, wp \in Policies, NEW r, Return(r)
  PROVE  ReconcileTyped'
BY NewStatusType DEF ReconcileTyped, Return, WorkerPcs

\* A reconcile goes on to its next stage.
LEMMA ContinueTyped ==
  ASSUME ReconcileTyped, wp \in Policies, NoPolicy \notin Policies,
         NEW pc \in WorkerPcs \ {"idle"}, NEW v \in View, Continue(pc, v)
  PROVE  ReconcileTyped'
BY DEF ReconcileTyped, Continue

\* A reconcile starts or goes on with a loop over workloads.
LEMMA LoopTyped ==
  ASSUME ReconcileTyped, wp \in Policies, NoPolicy \notin Policies,
         NEW pc \in WorkerPcs \ {"idle"}, NEW S \in SUBSET Workloads, Loop(pc, S)
  PROVE  ReconcileTyped'
BY DEF ReconcileTyped, Loop

\* What a stage of the worker has to show.
LEMMA StageTyped ==
  TypeOK /\ WorkerFrame /\ StatusTyped' /\ ReconcileTyped' /\ EffectsTyped' /\ HistoryTyped' => TypeOK'
BY DEF TypeOK, StatusTyped, ReconcileTyped, EffectsTyped, HistoryTyped, WorkerFrame, startupVars

\* A stage that changes neither effects nor history.
LEMMA PlainStage ==
  TypeOK /\ UNCHANGED <<frozen, fOver, rOver, ready, history>> => EffectsTyped' /\ HistoryTyped'
BY DEF TypeOK, EffectsTyped, HistoryTyped, history

\* A command carried out was read by the worker.
LEMMA DoneTyped ==
  ASSUME HistoryTyped, wp \in Policies, view.op \in OpIds, CommandDone, UNCHANGED begun
  PROVE  HistoryTyped'
BY DEF HistoryTyped, CommandDone

\* The worker's part of TypeOK, as the stages use it.
Busy ==
  /\ TypeOK /\ wpc # "idle" /\ wp \in Policies /\ NoPolicy \notin Policies
  /\ op[wp] \in OpIds /\ action[wp] \in Actions /\ st[wp] \in Status
  /\ view \in View /\ view.op \in OpIds /\ view.st \in Status
  /\ frozen[wp] \in SUBSET Workloads /\ Listed(wp) \in SUBSET Workloads

\* A worker that is not idle works for a policy.
LEMMA BusyWorker == TypeOK /\ wpc # "idle" => Busy
BY ConfigAssumption DEF TypeOK, Busy, View, Listed

\* Stages that return without a write, or go on without one.
LEMMA QuietStagesTyped ==
  ASSUME Busy, WorkerFrame,
         \/ WaitFreezeDelay \/ WaitStartup \/ WaitTurn \/ CleanUpFailedNode \/ SkipHandled \/ CheckAgain
         \/ StartPendingFreeze \/ StartPendingResume \/ StartNodeFailure \/ StartCheckedResume
         \/ ResumeWithoutConditions
  PROVE  TypeOK'
<1>1. /\ NoStatusWrite /\ UNCHANGED <<frozen, fOver, rOver, ready, history>>
  BY DEF WaitFreezeDelay, WaitStartup, WaitTurn, CleanUpFailedNode, SkipHandled, CheckAgain,
         StartPendingFreeze, StartPendingResume, StartNodeFailure, StartCheckedResume,
         ResumeWithoutConditions
<1>2. \A pc \in FreezeLoops \cup ResumeLoops : pc \in WorkerPcs \ {"idle"}
  BY DEF WorkerPcs, FreezeLoops, ResumeLoops
<1>3. ReconcileTyped
  BY TypeParts DEF Busy
<1>4. ASSUME \E r : Return(r) PROVE ReconcileTyped'
  BY <1>3, <1>4, ReturnTyped DEF Busy
<1>5. ASSUME \E pc \in FreezeLoops \cup ResumeLoops, S \in SUBSET Workloads : Loop(pc, S)
      PROVE  ReconcileTyped'
  BY <1>2, <1>3, <1>5, LoopTyped DEF Busy
<1>6. ASSUME Continue("resume", view) PROVE ReconcileTyped'
  BY <1>2, <1>3, <1>6, ContinueTyped DEF Busy, ResumeLoops
<1>7. ASSUME StartNodeFailure
      PROVE  \E S \in SUBSET Workloads : Loop("failureFreeze", S)
  BY <1>7 DEF StartNodeFailure, FullyLocal, Busy
<1>8. \/ \E r : Return(r)
      \/ \E pc \in FreezeLoops \cup ResumeLoops, S \in SUBSET Workloads : Loop(pc, S)
      \/ Continue("resume", view)
  BY <1>7 DEF WaitFreezeDelay, WaitStartup, WaitTurn, CleanUpFailedNode, SkipHandled, CheckAgain,
         StartPendingFreeze, StartPendingResume, StartCheckedResume, ResumeWithoutConditions,
         FreezeLoops, ResumeLoops, Busy
<1>9. ReconcileTyped'
  BY <1>4, <1>5, <1>6, <1>8
<1> QED BY <1>1, <1>9, NoWriteTyped, PlainStage, StageTyped, TypeParts DEF Busy

\* A stage that writes s and returns.
LEMMA WritesAndReturns ==
  ASSUME Busy, WorkerFrame, NEW s \in Status, NEW d, WriteStatus(wp, s, d), NEW r, Return(r),
         EffectsTyped', HistoryTyped'
  PROVE  TypeOK'
BY WriteTyped, ReturnTyped, StageTyped, TypeParts DEF Busy

\* Stages that return after a write.
LEMMA WritingReturnsTyped ==
  ASSUME Busy, WorkerFrame,
         \/ EndPendingFreeze \/ WaitPreConditions \/ EndPendingResume \/ NamespaceMissing
         \/ StopWaiting \/ ConditionsFail
  PROVE  TypeOK'
<1>1. EffectsTyped' /\ HistoryTyped'
  BY PlainStage DEF Busy, EndPendingFreeze, WaitPreConditions, EndPendingResume, NamespaceMissing,
         StopWaiting, ConditionsFail
<1>2. CASE EndPendingFreeze
  <2> DEFINE s == [st[wp] EXCEPT !.phase = "Frozen", !.pf = FALSE]
  <2>1. s \in Status
    BY DEF Busy, Status, Phases
  <2>2. \E d, r : WriteStatus(wp, s, d) /\ Return(r)
    BY <1>2 DEF EndPendingFreeze
  <2> QED BY <1>1, <2>1, <2>2, WritesAndReturns
<1>3. CASE WaitPreConditions
  <2> DEFINE s == [view.st EXCEPT !.checking = TRUE, !.phase = "Resuming", !.pr = TRUE, !.last = st[wp].last]
  <2>1. s \in Status
    BY DEF Busy, Status, Phases
  <2>2. \E d, r : WriteStatus(wp, s, d) /\ Return(r)
    BY <1>3 DEF WaitPreConditions
  <2> QED BY <1>1, <2>1, <2>2, WritesAndReturns
<1>4. CASE EndPendingResume
  <2> DEFINE s == [st[wp] EXCEPT !.phase = "Resumed", !.pr = FALSE]
  <2>1. s \in Status
    BY DEF Busy, Status, Phases
  <2>2. \E d, r : WriteStatus(wp, s, d) /\ Return(r)
    BY <1>4 DEF EndPendingResume
  <2> QED BY <1>1, <2>1, <2>2, WritesAndReturns
<1>5. CASE NamespaceMissing
  <2> DEFINE s == [st[wp] EXCEPT !.phase = "Failed", !.last = view.op]
  <2>1. s \in Status
    BY DEF Busy, Status, Phases
  <2>2. \E d, r : WriteStatus(wp, s, d) /\ Return(r)
    BY <1>5 DEF NamespaceMissing
  <2> QED BY <1>1, <2>1, <2>2, WritesAndReturns
<1>6. CASE StopWaiting
  <2> DEFINE s == [st[wp] EXCEPT !.checking = FALSE]
  <2>1. s \in Status
    BY DEF Busy, Status, Phases
  <2>2. \E d, r : WriteStatus(wp, s, d) /\ Return(r)
    BY <1>6 DEF StopWaiting
  <2> QED BY <1>1, <2>1, <2>2, WritesAndReturns
<1>7. CASE ConditionsFail
  <2> DEFINE s == [st[wp] EXCEPT !.phase = "Failed", !.last = view.op,
                     !.checking = IF wpc = "waiting" THEN FALSE ELSE @]
  <2>1. s \in Status
    BY DEF Busy, Status, Phases
  <2>2. \E d, r : WriteStatus(wp, s, d) /\ Return(r)
    BY <1>7 DEF ConditionsFail
  <2> QED BY <1>1, <2>1, <2>2, WritesAndReturns
<1> QED BY <1>2, <1>3, <1>4, <1>5, <1>6, <1>7

\* Stages that end a command, a checked resume or the handling of a failure.
LEMMA EndsTyped ==
  ASSUME Busy, WorkerFrame, EndNodeFailure \/ EndCheckedResume \/ EndFreeze \/ EndResume
  PROVE  TypeOK'
<1>1. EffectsTyped /\ HistoryTyped
  BY TypeParts DEF Busy
<1>2. CASE EndNodeFailure
  <2> DEFINE s == [st[wp] EXCEPT !.nf = "handled", !.last = Acked(wp), !.pr = TRUE]
  <2>1. s \in Status
    BY DEF Busy, Status, Acked
  <2>2. WriteStatus(wp, s, TRUE) /\ Return(TRUE)
    BY <1>2 DEF EndNodeFailure
  <2>3. EffectsTyped' /\ HistoryTyped'
    BY <1>1, <1>2, ConfigAssumption DEF EndNodeFailure, EffectsTyped, HistoryTyped, history, ConfigType, Busy
  <2> QED BY <2>1, <2>2, <2>3, WritesAndReturns
<1>3. CASE EndCheckedResume
  <2> DEFINE s == [st[wp] EXCEPT !.phase = "Resumed", !.checking = FALSE, !.pr = FALSE]
  <2>1. s \in Status
    BY DEF Busy, Status, Phases
  <2>2. WriteStatus(wp, s, FALSE) /\ Return(FALSE)
    BY <1>3 DEF EndCheckedResume
  <2>3. EffectsTyped' /\ HistoryTyped'
    BY <1>1, <1>3, DoneTyped DEF EndCheckedResume, EffectsTyped, HistoryTyped, Busy
  <2> QED BY <2>1, <2>2, <2>3, WritesAndReturns
<1>4. CASE EndFreeze
  <2> DEFINE s == [st[wp] EXCEPT !.phase = "Frozen", !.last = view.op]
  <2>1. s \in Status
    BY DEF Busy, Status, Phases
  <2>2. WriteStatus(wp, s, FALSE) /\ Return(FALSE)
    BY <1>4 DEF EndFreeze
  <2>3. EffectsTyped' /\ HistoryTyped'
    BY <1>1, <1>4, DoneTyped DEF EndFreeze, EffectsTyped, Busy
  <2> QED BY <2>1, <2>2, <2>3, WritesAndReturns
<1>5. CASE EndResume
  <2> DEFINE s == [st[wp] EXCEPT !.phase = "Resumed", !.last = view.op]
  <2>1. s \in Status
    BY DEF Busy, Status, Phases
  <2>2. WriteStatus(wp, s, FALSE) /\ Return(FALSE)
    BY <1>5 DEF EndResume
  <2>3. EffectsTyped' /\ HistoryTyped'
    BY <1>1, <1>5, DoneTyped DEF EndResume, EffectsTyped, Busy
  <2> QED BY <2>1, <2>2, <2>3, WritesAndReturns
<1> QED BY <1>2, <1>3, <1>4, <1>5

\* A stage that writes s and goes on with v.
LEMMA WritesAndContinues ==
  ASSUME Busy, WorkerFrame, NEW s \in Status, NEW d, WriteStatus(wp, s, d),
         NEW pc \in WorkerPcs \ {"idle"}, NEW v \in View, Continue(pc, v),
         UNCHANGED <<frozen, fOver, rOver, ready, history>>
  PROVE  TypeOK'
BY WriteTyped, ContinueTyped, PlainStage, StageTyped, TypeParts DEF Busy

\* Stages that go on after a write.
LEMMA ContinuesTyped ==
  ASSUME Busy, WorkerFrame,
         \/ CancelPendingFreeze \/ CancelPendingResume \/ ForgetFailedNode
         \/ StartWaiting \/ ConditionsPass
  PROVE  TypeOK'
<1>0. UNCHANGED <<frozen, fOver, rOver, ready, history>>
  BY DEF CancelPendingFreeze, CancelPendingResume, ForgetFailedNode, StartWaiting, ConditionsPass
<1>1. ASSUME NEW s \in Status PROVE [ViewOf(wp) EXCEPT !.st = s] \in View
  BY <1>1 DEF Busy, ViewOf, View
<1>2. {"atResume", "atFailure", "atCommand", "waiting", "resume"} \subseteq WorkerPcs \ {"idle"}
  BY DEF WorkerPcs, ResumeLoops
<1>3. CASE CancelPendingFreeze
  <2> DEFINE s == [st[wp] EXCEPT !.pf = FALSE]
             v == [ViewOf(wp) EXCEPT !.st = s]
  <2>1. s \in Status
    BY DEF Busy, Status, Phases
  <2>2. WriteStatus(wp, s, FALSE) /\ Continue("atResume", v)
    BY <1>3 DEF CancelPendingFreeze
  <2>3. v \in View
    BY <1>1, <2>1 DEF Busy
  <2> HIDE DEF s, v
  <2> QED BY <1>0, <1>2, <2>1, <2>2, <2>3, WritesAndContinues
<1>4. CASE CancelPendingResume
  <2> DEFINE s == [st[wp] EXCEPT !.pr = FALSE]
             v == [ViewOf(wp) EXCEPT !.st = s]
  <2>1. s \in Status
    BY DEF Busy, Status, Phases
  <2>2. WriteStatus(wp, s, FALSE) /\ Continue("atFailure", v)
    BY <1>4 DEF CancelPendingResume
  <2>3. v \in View
    BY <1>1, <2>1 DEF Busy
  <2> HIDE DEF s, v
  <2> QED BY <1>0, <1>2, <2>1, <2>2, <2>3, WritesAndContinues
<1>5. CASE ForgetFailedNode
  <2> DEFINE s == [st[wp] EXCEPT !.node = FALSE]
             v == [ViewOf(wp) EXCEPT !.st = s]
  <2>1. s \in Status
    BY DEF Busy, Status, Phases
  <2>2. WriteStatus(wp, s, FALSE) /\ Continue("atCommand", v)
    BY <1>5 DEF ForgetFailedNode
  <2>3. v \in View
    BY <1>1, <2>1 DEF Busy
  <2> HIDE DEF s, v
  <2> QED BY <1>0, <1>2, <2>1, <2>2, <2>3, WritesAndContinues
<1>6. CASE StartWaiting
  <2> DEFINE s == [st[wp] EXCEPT !.phase = "Resuming", !.last = view.op, !.checking = TRUE]
             v == view
  <2>1. s \in Status
    BY DEF Busy, Status, Phases
  <2>2. WriteStatus(wp, s, FALSE) /\ Continue("waiting", v)
    BY <1>6 DEF StartWaiting
  <2>3. v \in View
    BY <1>1, <2>1 DEF Busy
  <2> HIDE DEF s, v
  <2> QED BY <1>0, <1>2, <2>1, <2>2, <2>3, WritesAndContinues
<1>7. CASE ConditionsPass
  <2> DEFINE s == [st[wp] EXCEPT !.checking = FALSE]
             v == view
  <2>1. s \in Status
    BY DEF Busy, Status, Phases
  <2>2. WriteStatus(wp, s, FALSE) /\ Continue("resume", v)
    BY <1>7 DEF ConditionsPass
  <2>3. v \in View
    BY <1>1, <2>1 DEF Busy
  <2> HIDE DEF s, v
  <2> QED BY <1>0, <1>2, <2>1, <2>2, <2>3, WritesAndContinues
<1> QED BY <1>3, <1>4, <1>5, <1>6, <1>7

\* The start of a command, the single check, and the loops over workloads.
LEMMA StartsTyped ==
  ASSUME Busy, WorkerFrame, StartCommand \/ CheckOnce
  PROVE  TypeOK'
<1>0. StatusTyped /\ ReconcileTyped /\ EffectsTyped /\ HistoryTyped
  BY TypeParts DEF Busy
<1>1. CASE StartCommand
  <2> DEFINE s == [st[wp] EXCEPT !.last = view.op,
                     !.phase = IF view.action = "Freeze" THEN "Freezing" ELSE "Resuming"]
  <2>1. s \in Status /\ WriteStatus(wp, s, FALSE)
    BY <1>1 DEF Busy, Status, Phases, StartCommand
  <2>2. StatusTyped'
    BY <1>0, <2>1, WriteTyped DEF Busy
  <2>3. \E pc \in WorkerPcs \ {"idle"}, S \in SUBSET Workloads : Loop(pc, S)
    BY <1>1 DEF StartCommand, Busy, WorkerPcs, FreezeLoops
  <2>4. ReconcileTyped'
    BY <1>0, <2>3, LoopTyped DEF Busy
  <2>5. EffectsTyped' /\ HistoryTyped'
    BY <1>0, <1>1 DEF StartCommand, EffectsTyped, HistoryTyped, Busy
  <2> QED BY <2>2, <2>4, <2>5, StageTyped DEF Busy
<1>2. CASE CheckOnce
  <2> DEFINE s == [st[wp] EXCEPT !.phase = "Resuming", !.last = view.op, !.checking = ~PreConditionsPass(wp)]
  <2>1. PreConditionsPass(wp) \in BOOLEAN
    BY DEF PreConditionsPass
  <2>2. s \in Status /\ WriteStatus(wp, s, FALSE) /\ UNCHANGED <<frozen, fOver, rOver, ready, history>>
    BY <1>2, <2>1 DEF Busy, Status, Phases, CheckOnce
  <2>3. StatusTyped' /\ EffectsTyped' /\ HistoryTyped'
    BY <1>0, <2>2, WriteTyped, PlainStage DEF Busy
  <2>4. "resume" \in WorkerPcs \ {"idle"} /\ (Continue("resume", view) \/ Return(TRUE))
    BY <1>2 DEF CheckOnce, WorkerPcs, ResumeLoops
  <2>5. ReconcileTyped'
    BY <1>0, <2>4, ContinueTyped, ReturnTyped DEF Busy
  <2> QED BY <2>3, <2>5, StageTyped DEF Busy
<1> QED BY <1>1, <1>2

\* One workload is scaled, or a call for it fails.
LEMMA LoopsTyped ==
  ASSUME Busy, WorkerFrame, NEW w \in Workloads, ScaleWorkload(w) \/ ScaleFails(w)
  PROVE  TypeOK'
<1>0. StatusTyped /\ ReconcileTyped /\ EffectsTyped /\ HistoryTyped
  BY TypeParts DEF Busy
<1>1. CASE ScaleWorkload(w)
  <2>1. EffectsTyped'
    <3>1. ready' \subseteq Policies /\ UNCHANGED <<fOver, rOver>>
      BY <1>0, <1>1 DEF ScaleWorkload, EffectsTyped
    <3>2. frozen' \in [Policies -> SUBSET Workloads]
      BY <1>0, <1>1 DEF ScaleWorkload, EffectsTyped, Busy
    <3> QED BY <1>0, <3>1, <3>2 DEF EffectsTyped
  <2>2. HistoryTyped' /\ StatusTyped' /\ ReconcileTyped'
    BY <1>0, <1>1, NoWriteTyped DEF ScaleWorkload, HistoryTyped, history, ReconcileTyped
  <2> QED BY <2>1, <2>2, StageTyped DEF Busy
<1>2. CASE ScaleFails(w) /\ wpc \in StrictLoops
  <2> DEFINE s == [st[wp] EXCEPT !.phase = "Failed", !.last = view.op]
  <2>1. s \in Status
    BY DEF Busy, Status, Phases
  <2>2. WriteStatus(wp, s, FALSE) /\ Return(TRUE) /\ UNCHANGED <<frozen, fOver, rOver, ready, history>>
    BY <1>2 DEF ScaleFails
  <2> QED BY <2>1, <2>2, PlainStage, WritesAndReturns DEF Busy
<1>3. CASE ScaleFails(w) /\ wpc \notin StrictLoops
  <2>1. NoStatusWrite /\ Loop(wpc, wtodo \ {w}) /\ UNCHANGED <<frozen, fOver, rOver, ready, history>>
    BY <1>3 DEF ScaleFails
  <2>2. wpc \in WorkerPcs \ {"idle"} /\ wtodo \ {w} \in SUBSET Workloads
    BY <1>0 DEF ReconcileTyped, Busy
  <2>3. ReconcileTyped'
    BY <1>0, <2>1, <2>2, LoopTyped DEF Busy
  <2> QED BY <1>0, <2>1, <2>3, NoWriteTyped, PlainStage, StageTyped DEF Busy
<1> QED BY <1>1, <1>2, <1>3

\* Every step of the worker keeps the types.
LEMMA ReconcileTypes == TypeOK /\ Reconcile => TypeOK'
<1> SUFFICES ASSUME TypeOK, Reconcile PROVE TypeOK'
  OBVIOUS
<1>1. Busy /\ WorkerFrame
  BY BusyWorker DEF Reconcile
<1> QED
  BY <1>1, QuietStagesTyped, WritingReturnsTyped, EndsTyped, ContinuesTyped, StartsTyped, LoopsTyped
  DEF Reconcile, Stage

\* A step of the startup goroutine that keeps its own types keeps all.
LEMMA StartupTypesStep ==
  TypeOK /\ StartupFrame /\ StatusTyped' /\ EffectsTyped' /\ StartupTyped' /\ gate' \in BOOLEAN => TypeOK'
BY DEF TypeOK, StatusTyped, EffectsTyped, StartupTyped, StartupFrame, workerVars, history

\* Steps of startup that write no status.
LEMMA QuietStartupTyped ==
  ASSUME TypeOK, StartupFrame, StartupList \/ StartupScan \/ EndScan \/ MarkStartupComplete
  PROVE  TypeOK'
<1>0. StatusTyped /\ EffectsTyped /\ StartupTyped /\ gate \in BOOLEAN
  BY TypeParts DEF TypeOK
<1>1. NoStatusWrite /\ UNCHANGED <<frozen, fOver, rOver, ready>>
  BY DEF StartupList, StartupScan, EndScan, MarkStartupComplete
<1>2. StatusTyped' /\ EffectsTyped'
  BY <1>0, <1>1, NoWriteTyped DEF EffectsTyped
<1>3. gate' \in BOOLEAN
  BY <1>0 DEF StartupList, StartupScan, EndScan, MarkStartupComplete
<1>4. StartupTyped'
  BY <1>0, NewStatusType DEF StartupList, StartupScan, EndScan, MarkStartupComplete, StatusTyped,
         StartupTyped, StartupPcs, ResumePolicies
<1> QED BY <1>2, <1>3, <1>4, StartupTypesStep

\* Steps of startup for one policy.
LEMMA StartupOfTyped ==
  ASSUME TypeOK, StartupFrame, NEW p \in Policies, StartupOf(p)
  PROVE  TypeOK'
<1>0. /\ StatusTyped /\ EffectsTyped /\ StartupTyped /\ gate \in BOOLEAN
      /\ st[p] \in Status /\ op[p] \in OpIds /\ Config[p].rdelay \in BOOLEAN
  BY TypeParts, ConfigAssumption DEF TypeOK, ConfigType
<1>1. gate' \in BOOLEAN
  BY <1>0 DEF StartupOf, StartupFreeze, StartupFrozen, StartupWait, StartupScale, SkipScanned,
              StartScanned, EndScanned, StartupResume
<1>2. ASSUME NEW s \in Status, NEW d, WriteStatus(p, s, d) \/ NoStatusWrite PROVE StatusTyped'
  BY <1>0, <1>2, WriteTyped, NoWriteTyped
<1>3. CASE StartupFreeze(p)
  <2>1. [st[p] EXCEPT !.pf = TRUE, !.phase = "Idle"] \in Status
    BY <1>0 DEF Status, Phases
  <2>2. StatusTyped'
    BY <1>2, <1>3, <2>1 DEF StartupFreeze
  <2>3. EffectsTyped' /\ StartupTyped'
    BY <1>0, <1>3 DEF StartupFreeze, EffectsTyped, StartupTyped, GoroutinePcs
  <2> QED BY <1>1, <2>2, <2>3, StartupTypesStep
<1>4. CASE StartupFrozen(p)
  <2>1. [st[p] EXCEPT !.phase = "Frozen"] \in Status
    BY <1>0 DEF Status, Phases
  <2>2. StatusTyped'
    BY <1>2, <1>4, <2>1 DEF StartupFrozen
  <2>3. EffectsTyped' /\ StartupTyped'
    BY <1>0, <1>4 DEF StartupFrozen, EffectsTyped, StartupTyped, GoroutinePcs
  <2> QED BY <1>1, <2>2, <2>3, StartupTypesStep
<1>5. CASE StartupWait(p) \/ SkipScanned(p)
  <2>1. StatusTyped' /\ EffectsTyped'
    BY <1>0, <1>5, NoWriteTyped DEF StartupWait, SkipScanned, EffectsTyped
  <2>2. StartupTyped'
    BY <1>0, <1>5 DEF StartupWait, SkipScanned, StartupTyped, GoroutinePcs
  <2> QED BY <1>1, <2>1, <2>2, StartupTypesStep
<1>6. ASSUME NEW w \in Workloads, StartupScale(p, w) PROVE TypeOK'
  <2>1. frozen' \in [Policies -> SUBSET Workloads]
    BY <1>0, <1>6 DEF StartupScale, EffectsTyped
  <2>2. StatusTyped' /\ EffectsTyped'
    BY <1>0, <1>6, <2>1, NoWriteTyped DEF StartupScale, EffectsTyped
  <2>3. gtodo' \in [Policies -> SUBSET Workloads]
    BY <1>0, <1>6 DEF StartupScale, StartupTyped
  <2>4. StartupTyped'
    BY <1>0, <1>6, <2>3 DEF StartupScale, StartupTyped
  <2> QED BY <1>1, <2>2, <2>4, StartupTypesStep
<1>7. CASE StartScanned(p)
  <2>1. \A phase : \A S \in FullyLocal(p, phase) : S \in SUBSET Workloads
    BY DEF FullyLocal, Listed
  <2>2. gtodo' \in [Policies -> SUBSET Workloads]
    BY <1>0, <1>7, <2>1 DEF StartScanned, StartupTyped
  <2>3. StatusTyped' /\ EffectsTyped' /\ StartupTyped'
    BY <1>0, <1>7, <2>2, NoWriteTyped DEF StartScanned, EffectsTyped, StartupTyped, GoroutinePcs
  <2> QED BY <1>1, <2>3, StartupTypesStep
<1>8. Acked(p) \in OpIds
  BY <1>0 DEF Acked, Status
<1>9. CASE EndScanned(p)
  <2>1. [st[p] EXCEPT !.node = TRUE, !.nf = "handled", !.last = Acked(p), !.pr = TRUE] \in Status
    BY <1>0, <1>8 DEF Status
  <2>2. StatusTyped'
    BY <1>2, <1>9, <2>1 DEF EndScanned
  <2>3. EffectsTyped' /\ StartupTyped'
    BY <1>0, <1>9 DEF EndScanned, EffectsTyped, StartupTyped, GoroutinePcs
  <2> QED BY <1>1, <2>2, <2>3, StartupTypesStep
<1>10. CASE StartupResume(p)
  <2>1. [st[p] EXCEPT !.last = Acked(p), !.pr = TRUE, !.phase = "Idle"] \in Status
    BY <1>0, <1>8 DEF Status, Phases
  <2>2. StatusTyped'
    BY <1>2, <1>10, <2>1 DEF StartupResume
  <2>3. EffectsTyped' /\ StartupTyped'
    BY <1>0, <1>10 DEF StartupResume, EffectsTyped, StartupTyped
  <2> QED BY <1>1, <2>2, <2>3, StartupTypesStep
<1> QED BY <1>3, <1>4, <1>5, <1>6, <1>7, <1>9, <1>10 DEF StartupOf

\* Steps of the users, the cluster, time and the process.
LEMMA OutsideTyped == TypeOK /\ (Outside \/ Start) => TypeOK'
<1> SUFFICES ASSUME TypeOK, Outside \/ Start PROVE TypeOK'
  OBVIOUS
<1>1. CASE NodeFails
  <2>1. failures' \in 0..MaxFailures
    BY <1>1, ConfigAssumption DEF NodeFails, TypeOK
  <2>2. mapTodo' \subseteq Policies /\ mapFresh' \subseteq Policies /\ queue' \subseteq Policies
    BY <1>1 DEF NodeFails, TypeOK
  <2>3. ready' \subseteq Policies /\ nodeUp' \in BOOLEAN
    BY <1>1 DEF NodeFails, TypeOK
  <2>4. UNCHANGED <<op, action, st, frozen, exists, fOver, rOver, crashes, up, gate, timers,
                    wpc, wp, view, wtodo, spc, gpc, gtodo, stodo, slist, begun, done>>
    BY <1>1 DEF NodeFails, OutsideFrame, apiVars, workerVars, startupVars, history
  <2> QED BY <2>1, <2>2, <2>3, <2>4 DEF TypeOK
<1>2. CASE NodeRecovers
  BY <1>2 DEF NodeRecovers, TypeOK, OutsideFrame, apiVars, workerVars, startupVars, history, mapVars
<1>3. ASSUME NEW p \in Policies, MapNode(p) PROVE TypeOK'
  <2>0. st[p] \in Status
    BY DEF TypeOK
  <2>1. [st[p] EXCEPT !.node = TRUE, !.nf = "detected"] \in Status
    BY <2>0 DEF Status
  <2>2. StatusTyped'
    BY <1>3, <2>1, WriteTyped, NoWriteTyped, TypeParts DEF MapNode
  <2> QED BY <1>3, <2>2 DEF MapNode, TypeOK, StatusTyped, OutsideFrame, clusterVars, workerVars,
              startupVars, history
<1>4. ASSUME NEW p \in Policies, NEW a \in Actions, Command(p, a) PROVE TypeOK'
  <2>1. op' \in [Policies -> OpIds]
    BY <1>4, ConfigAssumption DEF Command, TypeOK, OpIds
  <2> QED BY <1>4, <2>1 DEF Command, TypeOK, OutsideFrame, clusterVars, workerVars, startupVars, history
<1>5. ASSUME NEW p \in Policies, DelayOver(p) \/ TimerFires(p) \/ CreateNamespace(p) PROVE TypeOK'
  BY <1>5 DEF DelayOver, TimerFires, CreateNamespace, TypeOK, OutsideFrame, apiVars, clusterVars,
              workerVars, startupVars, history, mapVars
<1>6. ASSUME NEW p \in Policies, PodsReady(p) PROVE TypeOK'
  BY <1>6 DEF PodsReady, TypeOK, OutsideFrame, apiVars, workerVars, startupVars, history, mapVars
<1>7. ASSUME NoProcess, spc' \in StartupPcs, queue' \subseteq Policies, up' \in BOOLEAN,
             crashes' \in 0..MaxCrashes,
             UNCHANGED <<apiVars, fOver, rOver, ready, nodeUp, failures, history>>
      PROVE  TypeOK'
  BY <1>7, NewStatusType DEF NoProcess, TypeOK, apiVars, history, WorkerPcs, GoroutinePcs
<1>8. CASE Crash
  <2>1. crashes' \in 0..MaxCrashes
    BY <1>8, ConfigAssumption DEF Crash, TypeOK
  <2> QED BY <1>7, <1>8, <2>1 DEF Crash, StartupPcs
<1>9. CASE Start
  BY <1>7, <1>9 DEF Start, StartupPcs, clusterVars, TypeOK
<1> QED BY <1>1, <1>2, <1>3, <1>4, <1>5, <1>6, <1>8, <1>9 DEF Outside

\* Taking a request from the workqueue.
LEMMA BeginTyped == ASSUME TypeOK, NEW p \in Policies, Begin(p) PROVE TypeOK'
<1>1. ViewOf(p) \in View
  BY DEF TypeOK, ViewOf, View
<1> QED BY <1>1, ConfigAssumption DEF Begin, TypeOK, WorkerFrame, startupVars, history, WorkerPcs

\* Every step keeps the types.
LEMMA PolicyTypeStep == TypeOK /\ [Next]_vars => TypeOK'
<1> SUFFICES ASSUME TypeOK, [Next]_vars PROVE TypeOK'
  OBVIOUS
<1>1. CASE Startup
  BY <1>1, QuietStartupTyped, StartupOfTyped DEF Startup
<1>2. CASE UNCHANGED vars
  BY <1>2 DEF vars, apiVars, clusterVars, workerVars, startupVars, mapVars, history, TypeOK
<1> QED BY <1>1, <1>2, ReconcileTypes, OutsideTyped, BeginTyped DEF Next

\* The types hold when the manager first starts.
LEMMA PolicyTypeInit == Init => TypeOK
<1> SUFFICES ASSUME Init PROVE TypeOK
  OBVIOUS
<1>1. {0, 1} \subseteq OpIds
  BY ConfigAssumption DEF OpIds
<1>2. frozen \in [Policies -> SUBSET Workloads] /\ exists \in [Policies -> BOOLEAN]
  BY DEF Init
<1>3. Needed \subseteq Policies
  BY ConfigAssumption DEF Needed, ConfigType
<1>4. crashes \in 0..MaxCrashes /\ failures \in 0..MaxFailures
  BY ConfigAssumption DEF Init
<1>5. StatusTyped /\ ReconcileTyped /\ HistoryTyped
  BY NewStatusType, ConfigAssumption DEF Init, StatusTyped, ReconcileTyped, HistoryTyped, WorkerPcs
<1>6. EffectsTyped
  BY <1>2, <1>3 DEF Init, EffectsTyped
<1>7. StartupTyped /\ ProcessTyped
  BY NewStatusType DEF Init, StartupTyped, ProcessTyped, StartupPcs, GoroutinePcs
<1>8. CommandTyped /\ ClusterTyped
  BY <1>1, <1>2, <1>4 DEF Init, CommandTyped, ClusterTyped
<1> QED BY <1>5, <1>6, <1>7, <1>8, TypeParts

\* Every reachable state of the policies, the worker and the startup goroutine
\* has its type, whatever is configured, commanded, fails or crashes.
THEOREM PolicyTypeCorrect == Spec => []TypeOK
<1>1. Init => TypeOK
  BY PolicyTypeInit
<1>2. TypeOK /\ [Next]_vars => TypeOK'
  BY PolicyTypeStep
<1> QED BY <1>1, <1>2, PTL DEF Spec
=============================================================================
