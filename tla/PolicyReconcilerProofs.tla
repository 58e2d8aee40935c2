----------------------- MODULE PolicyReconcilerProofs -----------------------
(***************************************************************************)
(* Proof that the worker starts the action of an operationId at most once, *)
(* for every set of policies, every configuration and every bound.         *)
(*                                                                         *)
(* The steps of PolicyReconciler are first classified by what they do to   *)
(* the few variables the argument is about; the argument then has one case *)
(* per class instead of one per action.                                    *)
(***************************************************************************)
EXTENDS PolicyReconciler, TLAPS

\* The types the argument needs.
CommandTypes ==
  /\ op \in [Policies -> OpIds]
  /\ action \in [Policies -> Actions]
  /\ st \in [Policies -> Status]
  /\ begun \in [Policies -> SUBSET OpIds]
  /\ view \in View
  /\ wpc # "idle" => wp \in Policies

\* The stages in which a reconcile has not yet decided about the command.
Reading == {"read", "atResume", "atFailure", "atCommand"}

(***************************************************************************)
(* The inductive invariant.                                                *)
(***************************************************************************)
\* Only operationIds that have been given were started.
BegunWasGiven == \A p \in Policies : begun[p] \subseteq 0..op[p]

\* The current operationId, once started, is recorded in the status.
StartedIsRecorded ==
  \A p \in Policies : op[p] # 0 /\ op[p] \in begun[p] => st[p].last = op[p]

\* A worker that has read an older operationId than the current one knows that
\* the current one was not started: only the worker starts operations.
NewerNotStarted ==
  wpc # "idle" => /\ view.op <= op[wp]
                  /\ view.op # op[wp] => op[wp] \notin begun[wp]

\* A worker that has yet to decide sees a started operation as recorded.
StartedIsSeen ==
  wpc \in Reading /\ view.op # 0 /\ view.op \in begun[wp] => view.st.last = view.op

CommandInv == CommandTypes /\ BegunWasGiven /\ StartedIsRecorded /\ NewerNotStarted /\ StartedIsSeen

(***************************************************************************)
(* The classes of steps.                                                   *)
(***************************************************************************)
\* A status write whose lastHandledOperationId is the old one, the current
\* operationId or, if the worker writes, the one the worker has read.
Writes(p, s) == s \in Status /\ st' = [st EXCEPT ![p] = s]
KeepsLast(p, s) == s.last = st[p].last \/ (op[p] # 0 /\ s.last = op[p])

StatusKept  == st' = st \/ \E p \in Policies, s \in Status : Writes(p, s) /\ KeepsLast(p, s)
WorkerWrote == st' = st \/ \E s \in Status : Writes(wp, s) /\ (KeepsLast(wp, s) \/ s.last = view.op)

OutsideStep == StatusKept /\ UNCHANGED <<op, action, begun, wpc, wp, view>>

CommandStep ==
  /\ \E p \in Policies, a \in Actions :
       /\ op[p] < MaxOps
       /\ op' = [op EXCEPT ![p] = op[p] + 1] /\ action' = [action EXCEPT ![p] = a]
  /\ UNCHANGED <<st, begun, wpc, wp, view>>

ResetStep == wpc' = "idle" /\ view' = NoView /\ UNCHANGED <<op, action, st, begun>>

ReadStep ==
  /\ \E p \in Policies : wpc' = "read" /\ wp' = p /\ view' = ViewOf(p)
  /\ UNCHANGED <<op, action, st, begun>>

RereadStep ==
  /\ wpc # "idle" /\ wp' = wp /\ wpc' \in Reading
  /\ \E s \in Status : Writes(wp, s) /\ s.last = st[wp].last /\ view' = [ViewOf(wp) EXCEPT !.st = s]
  /\ UNCHANGED <<op, action, begun>>

WorkStep ==
  /\ wpc # "idle" /\ WorkerWrote
  /\ wpc' = wpc \/ wpc' \notin Reading \cup {"idle", "freeze", "listed"}
  /\ UNCHANGED <<op, action, begun, wp, view>>

EndStep ==
  /\ wpc # "idle" /\ WorkerWrote
  /\ wpc' = "idle" /\ view' = NoView
  /\ UNCHANGED <<op, action, begun>>

StartStep == wpc \in Reading /\ up /\ StartCommand /\ UNCHANGED <<op, action>>

ClassifiedStep ==
  \/ OutsideStep \/ CommandStep \/ ResetStep \/ ReadStep
  \/ RereadStep \/ WorkStep \/ EndStep \/ StartStep
-----------------------------------------------------------------------------
\* What a status write does to the statuses.
LEMMA WriteLemma ==
  ASSUME NEW p \in Policies, NEW s, st \in [Policies -> Status], Writes(p, s)
  PROVE  /\ st' \in [Policies -> Status]
         /\ st'[p] = s
         /\ \A q \in Policies : q # p => st'[q] = st[q]
BY DEF Writes

\* A status with other values in some fields is a status.
LEMMA NewStatusType == NewStatus \in Status /\ NoView \in View
BY ConfigAssumption DEF NewStatus, NoView, Status, View, OpIds, Phases, Actions

\* The invariant holds when the manager first starts.
LEMMA CommandInit == Init => CommandInv
<1> SUFFICES ASSUME Init PROVE CommandInv
  OBVIOUS
<1>1. {0, 1} \subseteq OpIds
  BY ConfigAssumption DEF OpIds
<1>2. CommandTypes
  BY <1>1, NewStatusType DEF Init, CommandTypes
<1> QED
  BY <1>2 DEF Init, CommandInv, CommandTypes, BegunWasGiven, StartedIsRecorded, NewerNotStarted,
              StartedIsSeen, Reading

\* The worker at a stage before the command is in one of the reading stages.
LEMMA StageReads == AtCommand \/ AtFailure \/ AtResume => wpc \in Reading
BY DEF AtCommand, AtFailure, AtResume, Reading

(***************************************************************************)
(* Every class of steps preserves the invariant.                           *)
(***************************************************************************)
\* A write that keeps the record, or records the worker's operation, leaves a
\* started current operation recorded.
LEMMA RecordedAfterWrite ==
  ASSUME CommandInv, NEW p \in Policies, NEW s \in Status, Writes(p, s),
         \/ KeepsLast(p, s)
         \/ p = wp /\ wpc # "idle" /\ s.last = view.op
  PROVE  /\ st' \in [Policies -> Status]
         /\ \A q \in Policies : op[q] # 0 /\ op[q] \in begun[q] => st'[q].last = op[q]
<1>1. /\ st' \in [Policies -> Status] /\ st'[p] = s
      /\ \A q \in Policies : q # p => st'[q] = st[q]
  BY WriteLemma DEF CommandInv, CommandTypes
<1>2. op[p] # 0 /\ op[p] \in begun[p] => s.last = op[p]
  BY DEF CommandInv, StartedIsRecorded, NewerNotStarted, KeepsLast
<1> QED BY <1>1, <1>2 DEF CommandInv, StartedIsRecorded

\* Acknowledgements, startup writes and cluster events keep the invariant.
LEMMA OutsidePreserves == CommandInv /\ OutsideStep => CommandInv'
<1> SUFFICES ASSUME CommandInv, OutsideStep PROVE CommandInv'
  OBVIOUS
<1>1. /\ st' \in [Policies -> Status]
      /\ \A q \in Policies : op[q] # 0 /\ op[q] \in begun[q] => st'[q].last = op[q]
  <2>1. CASE st' = st
    BY <2>1 DEF CommandInv, CommandTypes, StartedIsRecorded
  <2>2. CASE \E p \in Policies, s \in Status : Writes(p, s) /\ KeepsLast(p, s)
    BY <2>2, RecordedAfterWrite
  <2> QED BY <2>1, <2>2 DEF OutsideStep, StatusKept
<1> QED
  BY <1>1 DEF OutsideStep, CommandInv, CommandTypes, BegunWasGiven, StartedIsRecorded,
              NewerNotStarted, StartedIsSeen

\* A new command is newer than everything read or started.
LEMMA CommandPreserves == CommandInv /\ CommandStep => CommandInv'
<1> SUFFICES ASSUME CommandInv, CommandStep PROVE CommandInv'
  OBVIOUS
<1>1. PICK p \in Policies, a \in Actions :
        /\ op[p] < MaxOps
        /\ op' = [op EXCEPT ![p] = op[p] + 1] /\ action' = [action EXCEPT ![p] = a]
  BY DEF CommandStep
<1>2. UNCHANGED <<st, begun, wpc, wp, view>>
  BY DEF CommandStep
<1>3. /\ op' \in [Policies -> OpIds] /\ op'[p] = op[p] + 1
      /\ \A q \in Policies : q # p => op'[q] = op[q]
  BY <1>1, ConfigAssumption DEF CommandInv, CommandTypes, OpIds
<1>4. op[p] \in Nat /\ op[p] + 1 \notin begun[p]
  BY ConfigAssumption DEF CommandInv, CommandTypes, BegunWasGiven, OpIds
<1>5. CommandTypes'
  BY <1>1, <1>2, <1>3 DEF CommandInv, CommandTypes
<1>6. BegunWasGiven'
  BY <1>2, <1>3, <1>4, ConfigAssumption DEF CommandInv, CommandTypes, BegunWasGiven, OpIds
<1>7. StartedIsRecorded'
  BY <1>2, <1>3, <1>4 DEF CommandInv, StartedIsRecorded
<1>8. NewerNotStarted'
  <2> SUFFICES ASSUME wpc # "idle" PROVE view.op <= op'[wp] /\ (view.op # op'[wp] => op'[wp] \notin begun[wp])
    BY <1>2 DEF NewerNotStarted
  <2>1. wp \in Policies /\ view.op \in Int /\ view.op <= op[wp] /\ (view.op # op[wp] => op[wp] \notin begun[wp])
    BY ConfigAssumption DEF CommandInv, CommandTypes, NewerNotStarted, View, OpIds
  <2> QED BY <2>1, <1>3, <1>4
<1>9. StartedIsSeen'
  BY <1>2 DEF CommandInv, StartedIsSeen
<1> QED BY <1>5, <1>6, <1>7, <1>8, <1>9 DEF CommandInv

\* A crash forgets what the worker has read and keeps the status.
LEMMA ResetPreserves == CommandInv /\ ResetStep => CommandInv'
BY NewStatusType DEF ResetStep, CommandInv, CommandTypes, BegunWasGiven, StartedIsRecorded,
                     NewerNotStarted, StartedIsSeen, Reading

\* A reconcile that begins reads the current command and status.
LEMMA ReadPreserves == CommandInv /\ ReadStep => CommandInv'
<1> SUFFICES ASSUME CommandInv, ReadStep PROVE CommandInv'
  OBVIOUS
<1>1. PICK p \in Policies : wpc' = "read" /\ wp' = p /\ view' = ViewOf(p)
  BY DEF ReadStep
<1>2. view' \in View /\ view'.op = op[p] /\ view'.st = st[p]
  BY <1>1 DEF ViewOf, View, CommandInv, CommandTypes
<1>3. op[p] <= op[p]
  BY ConfigAssumption DEF CommandInv, CommandTypes, OpIds
<1> QED
  BY <1>1, <1>2, <1>3 DEF ReadStep, CommandInv, CommandTypes, BegunWasGiven, StartedIsRecorded,
              NewerNotStarted, StartedIsSeen

\* A status update that fetches the policy again sees the current record.
LEMMA RereadPreserves == CommandInv /\ RereadStep => CommandInv'
<1> SUFFICES ASSUME CommandInv, RereadStep PROVE CommandInv'
  OBVIOUS
<1>1. PICK s \in Status : Writes(wp, s) /\ s.last = st[wp].last /\ view' = [ViewOf(wp) EXCEPT !.st = s]
  BY DEF RereadStep
<1>2. wp \in Policies /\ wpc # "idle" /\ wp' = wp /\ UNCHANGED <<op, action, begun>>
  BY DEF RereadStep, CommandInv, CommandTypes
<1>3. view' \in View /\ view'.op = op[wp] /\ view'.st = s
  BY <1>1, <1>2 DEF ViewOf, View, CommandInv, CommandTypes
<1>4. /\ st' \in [Policies -> Status]
      /\ \A q \in Policies : op[q] # 0 /\ op[q] \in begun[q] => st'[q].last = op[q]
  BY <1>1, <1>2, RecordedAfterWrite DEF KeepsLast
<1>5. op[wp] # 0 /\ op[wp] \in begun[wp] => s.last = op[wp]
  BY <1>1, <1>2 DEF CommandInv, StartedIsRecorded
<1>6. op[wp] <= op[wp]
  BY <1>2, ConfigAssumption DEF CommandInv, CommandTypes, OpIds
<1> QED
  BY <1>2, <1>3, <1>4, <1>5, <1>6 DEF CommandInv, CommandTypes, BegunWasGiven, StartedIsRecorded,
              NewerNotStarted, StartedIsSeen

\* The part WorkStep and EndStep share.
LEMMA WorkerWrites ==
  ASSUME CommandInv, wpc # "idle", WorkerWrote
  PROVE  /\ st' \in [Policies -> Status]
         /\ \A q \in Policies : op[q] # 0 /\ op[q] \in begun[q] => st'[q].last = op[q]
<1>1. wp \in Policies
  BY DEF CommandInv, CommandTypes
<1>2. CASE st' = st
  BY <1>2 DEF CommandInv, CommandTypes, StartedIsRecorded
<1>3. CASE \E s \in Status : Writes(wp, s) /\ (KeepsLast(wp, s) \/ s.last = view.op)
  BY <1>1, <1>3, RecordedAfterWrite
<1> QED BY <1>2, <1>3 DEF WorkerWrote

\* A worker that goes on with its action keeps the invariant.
LEMMA WorkPreserves == CommandInv /\ WorkStep => CommandInv'
BY WorkerWrites DEF WorkStep, CommandInv, CommandTypes, BegunWasGiven, StartedIsRecorded,
                    NewerNotStarted, StartedIsSeen

\* A reconcile that returns keeps the invariant.
LEMMA EndPreserves == CommandInv /\ EndStep => CommandInv'
BY WorkerWrites, NewStatusType DEF EndStep, CommandInv, CommandTypes, BegunWasGiven,
                    StartedIsRecorded, NewerNotStarted, StartedIsSeen, Reading

\* An operation that was started is skipped.
LEMMA StartedIsSkipped ==
  ASSUME CommandInv, wpc \in Reading, ~ShouldSkip(view), ~view.st.checking, view.op # 0
  PROVE  view.op \notin begun[wp]
BY DEF CommandInv, StartedIsSeen, ShouldSkip

\* Starting an action records its operationId in the same status write.
LEMMA StartPreserves == CommandInv /\ StartStep => CommandInv'
<1> SUFFICES ASSUME CommandInv, StartStep PROVE CommandInv'
  OBVIOUS
<1> DEFINE s == [st[wp] EXCEPT !.last = view.op,
                   !.phase = IF view.action = "Freeze" THEN "Freezing" ELSE "Resuming"]
<1>1. wp \in Policies /\ wpc # "idle" /\ view \in View /\ view.op \in OpIds /\ st[wp] \in Status
  BY DEF StartStep, CommandInv, CommandTypes, Reading, View
<1>2. s \in Status /\ s.last = view.op
  BY <1>1 DEF Status, Phases
<1>3. st' = [st EXCEPT ![wp] = s]
  BY DEF StartStep, StartCommand, WriteStatus
<1>4. /\ st' \in [Policies -> Status] /\ st'[wp] = s
      /\ \A q \in Policies : q # wp => st'[q] = st[q]
  BY <1>1, <1>2, <1>3 DEF CommandInv, CommandTypes
<1>5. begun' = [begun EXCEPT ![wp] = @ \cup {view.op}] /\ UNCHANGED <<op, action, wp, view>>
  BY DEF StartStep, StartCommand, Loop
<1>6. /\ begun' \in [Policies -> SUBSET OpIds] /\ begun'[wp] = begun[wp] \cup {view.op}
      /\ \A q \in Policies : q # wp => begun'[q] = begun[q]
  BY <1>1, <1>5 DEF CommandInv, CommandTypes
<1>7. wpc' \in {"freeze", "listed"}
  BY DEF StartStep, StartCommand, Loop
<1>8. view.op <= op[wp] /\ (view.op # op[wp] => op[wp] \notin begun[wp])
  BY <1>1 DEF CommandInv, NewerNotStarted
<1>9. CommandTypes'
  BY <1>1, <1>4, <1>5, <1>6 DEF CommandInv, CommandTypes
<1>10. BegunWasGiven'
  <2> SUFFICES ASSUME NEW q \in Policies PROVE begun'[q] \subseteq 0..op[q]
    BY <1>5 DEF BegunWasGiven
  <2>1. view.op \in 0..op[wp]
    BY <1>1, <1>8, ConfigAssumption DEF CommandInv, CommandTypes, OpIds
  <2> QED BY <2>1, <1>6 DEF CommandInv, BegunWasGiven
<1>11. StartedIsRecorded'
  BY <1>1, <1>2, <1>4, <1>5, <1>6, <1>8 DEF CommandInv, StartedIsRecorded
<1>12. NewerNotStarted' /\ StartedIsSeen'
  BY <1>1, <1>5, <1>6, <1>7, <1>8 DEF NewerNotStarted, StartedIsSeen, Reading
<1> QED BY <1>9, <1>10, <1>11, <1>12 DEF CommandInv

(***************************************************************************)
(* Every step belongs to a class.                                          *)
(***************************************************************************)
\* What is known of a reconcile that is under way.
WorkerTypes ==
  /\ wpc # "idle" /\ wp \in Policies
  /\ op[wp] \in OpIds /\ st[wp] \in Status
  /\ view.op \in OpIds /\ view.st \in Status

\* The types of what a busy worker holds.
LEMMA WorkerTyped == ASSUME CommandTypes, wpc # "idle" PROVE WorkerTypes
BY DEF CommandTypes, WorkerTypes, View

\* A reconcile returns after writing s, or without a write.
LEMMA ReturnsAfterWrite ==
  ASSUME WorkerTypes, NEW s \in Status, st' = [st EXCEPT ![wp] = s],
         KeepsLast(wp, s) \/ s.last = view.op,
         NEW requeue, Return(requeue), UNCHANGED <<op, action, begun>>
  PROVE  EndStep
BY DEF WorkerTypes, EndStep, WorkerWrote, Writes, Return

\* A return without a status write is an EndStep.
LEMMA ReturnsQuietly ==
  ASSUME WorkerTypes, UNCHANGED st, NEW requeue, Return(requeue), UNCHANGED <<op, action, begun>>
  PROVE  EndStep
BY DEF WorkerTypes, EndStep, WorkerWrote, Return

\* Stages that return without a write.
LEMMA QuietReturns ==
  ASSUME WorkerTypes, UNCHANGED <<op, action>>,
         \/ WaitFreezeDelay \/ WaitStartup \/ WaitTurn \/ CleanUpFailedNode \/ SkipHandled \/ CheckAgain
  PROVE  EndStep
<1>1. CASE WaitFreezeDelay
  BY <1>1, ReturnsQuietly DEF WaitFreezeDelay, NoStatusWrite, history
<1>2. CASE WaitStartup
  BY <1>2, ReturnsQuietly DEF WaitStartup, NoStatusWrite, history
<1>3. CASE WaitTurn
  BY <1>3, ReturnsQuietly DEF WaitTurn, NoStatusWrite, history
<1>4. CASE CleanUpFailedNode
  BY <1>4, ReturnsQuietly DEF CleanUpFailedNode, NoStatusWrite, history
<1>5. CASE SkipHandled
  BY <1>5, ReturnsQuietly DEF SkipHandled, NoStatusWrite, history
<1>6. CASE CheckAgain
  BY <1>6, ReturnsQuietly DEF CheckAgain, NoStatusWrite, history
<1> QED BY <1>1, <1>2, <1>3, <1>4, <1>5, <1>6

\* Stages that return after a write.
LEMMA WritingReturns ==
  ASSUME WorkerTypes, UNCHANGED <<op, action>>,
         \/ EndPendingFreeze \/ WaitPreConditions \/ EndPendingResume \/ EndNodeFailure
         \/ NamespaceMissing \/ EndCheckedResume \/ EndFreeze \/ EndResume
         \/ StopWaiting \/ ConditionsFail
  PROVE  EndStep
<1>1. Acked(wp) \in OpIds /\ (Acked(wp) = st[wp].last \/ (op[wp] # 0 /\ Acked(wp) = op[wp]))
  BY DEF WorkerTypes, Acked, Status
<1>2. CASE EndPendingFreeze
  <2> DEFINE s == [st[wp] EXCEPT !.phase = "Frozen", !.pf = FALSE]
  <2>1. s \in Status /\ s.last = st[wp].last
    BY WorkerTypes DEF WorkerTypes, Status, Phases
  <2>2. st' = [st EXCEPT ![wp] = s] /\ UNCHANGED begun
    BY <1>2 DEF EndPendingFreeze, WriteStatus, history
  <2>3. \E requeue : Return(requeue)
    BY <1>2 DEF EndPendingFreeze
  <2> QED BY <2>1, <2>2, <2>3, ReturnsAfterWrite DEF KeepsLast
<1>3. CASE WaitPreConditions
  <2> DEFINE s == [view.st EXCEPT !.checking = TRUE, !.phase = "Resuming",
                                      !.pr = TRUE, !.last = st[wp].last]
  <2>1. s \in Status /\ s.last = st[wp].last
    BY WorkerTypes DEF WorkerTypes, Status, Phases
  <2>2. st' = [st EXCEPT ![wp] = s] /\ UNCHANGED begun
    BY <1>3 DEF WaitPreConditions, WriteStatus, history
  <2>3. \E requeue : Return(requeue)
    BY <1>3 DEF WaitPreConditions
  <2> QED BY <2>1, <2>2, <2>3, ReturnsAfterWrite DEF KeepsLast
<1>4. CASE EndPendingResume
  <2> DEFINE s == [st[wp] EXCEPT !.phase = "Resumed", !.pr = FALSE]
  <2>1. s \in Status /\ s.last = st[wp].last
    BY WorkerTypes DEF WorkerTypes, Status, Phases
  <2>2. st' = [st EXCEPT ![wp] = s] /\ UNCHANGED begun
    BY <1>4 DEF EndPendingResume, WriteStatus, history
  <2>3. \E requeue : Return(requeue)
    BY <1>4 DEF EndPendingResume
  <2> QED BY <2>1, <2>2, <2>3, ReturnsAfterWrite DEF KeepsLast
<1>5. CASE EndNodeFailure
  <2> DEFINE s == [st[wp] EXCEPT !.nf = "handled", !.last = Acked(wp), !.pr = TRUE]
  <2>1. s \in Status /\ s.last = Acked(wp)
    BY <1>1, WorkerTypes DEF WorkerTypes, Status, Phases
  <2>2. st' = [st EXCEPT ![wp] = s] /\ UNCHANGED begun
    BY <1>5 DEF EndNodeFailure, WriteStatus, history
  <2>3. \E requeue : Return(requeue)
    BY <1>5 DEF EndNodeFailure
  <2> QED BY <1>1, <2>1, <2>2, <2>3, ReturnsAfterWrite DEF KeepsLast
<1>6. CASE NamespaceMissing
  <2> DEFINE s == [st[wp] EXCEPT !.phase = "Failed", !.last = view.op]
  <2>1. s \in Status /\ s.last = view.op
    BY WorkerTypes DEF WorkerTypes, Status, Phases
  <2>2. st' = [st EXCEPT ![wp] = s] /\ UNCHANGED begun
    BY <1>6 DEF NamespaceMissing, WriteStatus, history
  <2>3. \E requeue : Return(requeue)
    BY <1>6 DEF NamespaceMissing
  <2> QED BY <2>1, <2>2, <2>3, ReturnsAfterWrite DEF KeepsLast
<1>7. CASE EndCheckedResume
  <2> DEFINE s == [st[wp] EXCEPT !.phase = "Resumed", !.checking = FALSE, !.pr = FALSE]
  <2>1. s \in Status /\ s.last = st[wp].last
    BY WorkerTypes DEF WorkerTypes, Status, Phases
  <2>2. st' = [st EXCEPT ![wp] = s] /\ UNCHANGED begun
    BY <1>7 DEF EndCheckedResume, WriteStatus, history
  <2>3. \E requeue : Return(requeue)
    BY <1>7 DEF EndCheckedResume
  <2> QED BY <2>1, <2>2, <2>3, ReturnsAfterWrite DEF KeepsLast
<1>8. CASE EndFreeze
  <2> DEFINE s == [st[wp] EXCEPT !.phase = "Frozen", !.last = view.op]
  <2>1. s \in Status /\ s.last = view.op
    BY WorkerTypes DEF WorkerTypes, Status, Phases
  <2>2. st' = [st EXCEPT ![wp] = s] /\ UNCHANGED begun
    BY <1>8 DEF EndFreeze, WriteStatus, history
  <2>3. \E requeue : Return(requeue)
    BY <1>8 DEF EndFreeze
  <2> QED BY <2>1, <2>2, <2>3, ReturnsAfterWrite DEF KeepsLast
<1>9. CASE EndResume
  <2> DEFINE s == [st[wp] EXCEPT !.phase = "Resumed", !.last = view.op]
  <2>1. s \in Status /\ s.last = view.op
    BY WorkerTypes DEF WorkerTypes, Status, Phases
  <2>2. st' = [st EXCEPT ![wp] = s] /\ UNCHANGED begun
    BY <1>9 DEF EndResume, WriteStatus, history
  <2>3. \E requeue : Return(requeue)
    BY <1>9 DEF EndResume
  <2> QED BY <2>1, <2>2, <2>3, ReturnsAfterWrite DEF KeepsLast
<1>10. CASE StopWaiting
  <2> DEFINE s == [st[wp] EXCEPT !.checking = FALSE]
  <2>1. s \in Status /\ s.last = st[wp].last
    BY WorkerTypes DEF WorkerTypes, Status, Phases
  <2>2. st' = [st EXCEPT ![wp] = s] /\ UNCHANGED begun
    BY <1>10 DEF StopWaiting, WriteStatus, history
  <2>3. \E requeue : Return(requeue)
    BY <1>10 DEF StopWaiting
  <2> QED BY <2>1, <2>2, <2>3, ReturnsAfterWrite DEF KeepsLast
<1>11. CASE ConditionsFail
  <2> DEFINE s == [st[wp] EXCEPT !.phase = "Failed", !.last = view.op,
                     !.checking = IF wpc = "waiting" THEN FALSE ELSE @]
  <2>1. s \in Status /\ s.last = view.op
    BY WorkerTypes DEF WorkerTypes, Status, Phases
  <2>2. st' = [st EXCEPT ![wp] = s] /\ UNCHANGED begun
    BY <1>11 DEF ConditionsFail, WriteStatus, history
  <2>3. \E requeue : Return(requeue)
    BY <1>11 DEF ConditionsFail
  <2> QED BY <2>1, <2>2, <2>3, ReturnsAfterWrite DEF KeepsLast
<1> QED BY <1>2, <1>3, <1>4, <1>5, <1>6, <1>7, <1>8, <1>9, <1>10, <1>11

\* Stages that read the policy again.
LEMMA Rereads ==
  ASSUME WorkerTypes, UNCHANGED <<op, action>>,
         CancelPendingFreeze \/ CancelPendingResume \/ ForgetFailedNode
  PROVE  RereadStep
<1>1. CASE CancelPendingFreeze
  <2> DEFINE s == [st[wp] EXCEPT !.pf = FALSE]
  <2>1. s \in Status /\ s.last = st[wp].last
    BY WorkerTypes DEF WorkerTypes, Status
  <2>2. st' = [st EXCEPT ![wp] = s] /\ view' = [ViewOf(wp) EXCEPT !.st = s]
    BY <1>1 DEF CancelPendingFreeze, WriteStatus, Continue
  <2>3. wpc' \in Reading /\ wp' = wp /\ UNCHANGED begun
    BY <1>1 DEF CancelPendingFreeze, Continue, Reading, history
  <2> QED BY <2>1, <2>2, <2>3 DEF RereadStep, Writes, WorkerTypes
<1>2. CASE CancelPendingResume
  <2> DEFINE s == [st[wp] EXCEPT !.pr = FALSE]
  <2>1. s \in Status /\ s.last = st[wp].last
    BY WorkerTypes DEF WorkerTypes, Status
  <2>2. st' = [st EXCEPT ![wp] = s] /\ view' = [ViewOf(wp) EXCEPT !.st = s]
    BY <1>2 DEF CancelPendingResume, WriteStatus, Continue
  <2>3. wpc' \in Reading /\ wp' = wp /\ UNCHANGED begun
    BY <1>2 DEF CancelPendingResume, Continue, Reading, history
  <2> QED BY <2>1, <2>2, <2>3 DEF RereadStep, Writes, WorkerTypes
<1>3. CASE ForgetFailedNode
  <2> DEFINE s == [st[wp] EXCEPT !.node = FALSE]
  <2>1. s \in Status /\ s.last = st[wp].last
    BY WorkerTypes DEF WorkerTypes, Status
  <2>2. st' = [st EXCEPT ![wp] = s] /\ view' = [ViewOf(wp) EXCEPT !.st = s]
    BY <1>3 DEF ForgetFailedNode, WriteStatus, Continue
  <2>3. wpc' \in Reading /\ wp' = wp /\ UNCHANGED begun
    BY <1>3 DEF ForgetFailedNode, Continue, Reading, history
  <2> QED BY <2>1, <2>2, <2>3 DEF RereadStep, Writes, WorkerTypes
<1> QED BY <1>1, <1>2, <1>3

\* Stages and iterations that go on without a write.
LEMMA QuietWork ==
  ASSUME WorkerTypes, UNCHANGED <<op, action>>,
         \/ StartPendingFreeze \/ StartPendingResume \/ StartNodeFailure \/ StartCheckedResume
         \/ ResumeWithoutConditions \/ \E w \in Workloads : ScaleWorkload(w)
  PROVE  WorkStep
<1>1. CASE StartPendingFreeze
  BY <1>1 DEF StartPendingFreeze, Loop, NoStatusWrite, history, WorkStep, WorkerWrote, WorkerTypes, Reading
<1>2. CASE StartPendingResume
  BY <1>2 DEF StartPendingResume, Loop, NoStatusWrite, history, WorkStep, WorkerWrote, WorkerTypes, Reading
<1>3. CASE StartNodeFailure
  BY <1>3 DEF StartNodeFailure, Loop, NoStatusWrite, history, WorkStep, WorkerWrote, WorkerTypes, Reading
<1>4. CASE StartCheckedResume
  BY <1>4 DEF StartCheckedResume, Loop, NoStatusWrite, history, WorkStep, WorkerWrote, WorkerTypes, Reading
<1>5. CASE ResumeWithoutConditions
  BY <1>5 DEF ResumeWithoutConditions, Continue, NoStatusWrite, history, WorkStep, WorkerWrote, WorkerTypes, Reading
<1>6. CASE \E w \in Workloads : ScaleWorkload(w)
  BY <1>6 DEF ScaleWorkload, NoStatusWrite, history, WorkStep, WorkerWrote, WorkerTypes
<1> QED BY <1>1, <1>2, <1>3, <1>4, <1>5, <1>6

\* Stages that go on after a write.
LEMMA WritingWork ==
  ASSUME WorkerTypes, UNCHANGED <<op, action>>, StartWaiting \/ ConditionsPass
  PROVE  WorkStep
<1>1. CASE StartWaiting
  <2> DEFINE s == [st[wp] EXCEPT !.phase = "Resuming", !.last = view.op, !.checking = TRUE]
  <2>1. s \in Status /\ s.last = view.op
    BY WorkerTypes DEF WorkerTypes, Status, Phases
  <2>2. st' = [st EXCEPT ![wp] = s] /\ wpc' = "waiting" /\ UNCHANGED <<wp, view, begun>>
    BY <1>1 DEF StartWaiting, WriteStatus, Continue, history
  <2> QED BY <2>1, <2>2 DEF WorkStep, WorkerWrote, Writes, WorkerTypes, Reading
<1>2. CASE ConditionsPass
  <2> DEFINE s == [st[wp] EXCEPT !.checking = FALSE]
  <2>1. s \in Status /\ s.last = st[wp].last
    BY WorkerTypes DEF WorkerTypes, Status
  <2>2. st' = [st EXCEPT ![wp] = s] /\ wpc' = "resume" /\ UNCHANGED <<wp, view, begun>>
    BY <1>2 DEF ConditionsPass, WriteStatus, Continue, history
  <2> QED BY <2>1, <2>2 DEF WorkStep, WorkerWrote, Writes, KeepsLast, WorkerTypes, Reading
<1> QED BY <1>1, <1>2

\* The check of non-blocking pre-conditions goes on or returns.
LEMMA CheckOnceClassified ==
  ASSUME WorkerTypes, UNCHANGED <<op, action>>, CheckOnce
  PROVE  WorkStep \/ EndStep
<1> DEFINE s == [st[wp] EXCEPT !.phase = "Resuming", !.last = view.op, !.checking = ~PreConditionsPass(wp)]
<1>1. PreConditionsPass(wp) \in BOOLEAN
  BY DEF PreConditionsPass
<1>2. s \in Status /\ s.last = view.op
  BY <1>1, WorkerTypes DEF WorkerTypes, Status, Phases
<1>3. st' = [st EXCEPT ![wp] = s] /\ UNCHANGED begun
  BY DEF CheckOnce, WriteStatus, history
<1>4. CASE PreConditionsPass(wp)
  <2>1. wpc' = "resume" /\ UNCHANGED <<wp, view>>
    BY <1>4 DEF CheckOnce, Continue
  <2> QED BY <1>2, <1>3, <2>1 DEF WorkStep, WorkerWrote, Writes, WorkerTypes, Reading
<1>5. CASE ~PreConditionsPass(wp)
  <2>1. Return(TRUE)
    BY <1>5 DEF CheckOnce
  <2> QED BY <1>2, <1>3, <2>1, ReturnsAfterWrite
<1> QED BY <1>4, <1>5

\* A failing call ends a manual command and is skipped everywhere else.
LEMMA ScaleFailsClassified ==
  ASSUME WorkerTypes, UNCHANGED <<op, action>>, NEW w \in Workloads, ScaleFails(w)
  PROVE  WorkStep \/ EndStep
<1>1. CASE wpc \in StrictLoops
  <2> DEFINE s == [st[wp] EXCEPT !.phase = "Failed", !.last = view.op]
  <2>1. s \in Status /\ s.last = view.op
    BY WorkerTypes DEF WorkerTypes, Status, Phases
  <2>2. st' = [st EXCEPT ![wp] = s] /\ Return(TRUE) /\ UNCHANGED begun
    BY <1>1 DEF ScaleFails, WriteStatus, history
  <2> QED BY <2>1, <2>2, ReturnsAfterWrite
<1>2. CASE wpc \notin StrictLoops
  BY <1>2 DEF ScaleFails, NoStatusWrite, Loop, history, WorkStep, WorkerWrote, WorkerTypes
<1> QED BY <1>1, <1>2

\* Every step of the worker belongs to a class.
LEMMA ReconcileClassified == CommandTypes /\ Reconcile => ClassifiedStep
<1> SUFFICES ASSUME CommandTypes, Reconcile PROVE ClassifiedStep
  OBVIOUS
<1>1. WorkerTypes /\ up /\ UNCHANGED <<op, action>>
  BY WorkerTyped DEF Reconcile, WorkerFrame
<1>2. CASE StartCommand
  <2>1. wpc \in Reading
    BY <1>2, StageReads DEF StartCommand
  <2> QED BY <1>1, <1>2, <2>1 DEF StartStep, ClassifiedStep
<1>3. CASE Stage /\ ~StartCommand
  BY <1>1, <1>3, QuietReturns, WritingReturns, Rereads, QuietWork, WritingWork, CheckOnceClassified
  DEF Stage, ClassifiedStep
<1>4. CASE \E w \in Workloads : ScaleWorkload(w) \/ ScaleFails(w)
  BY <1>1, <1>4, QuietWork, ScaleFailsClassified DEF ClassifiedStep
<1> QED BY <1>2, <1>3, <1>4 DEF Reconcile

\* Taking a request from the workqueue is a ReadStep.
LEMMA BeginClassified == ASSUME NEW p \in Policies, Begin(p) PROVE ReadStep
BY DEF Begin, ReadStep, WorkerFrame, history

\* Startup steps that write no status.
LEMMA QuietStartup ==
  ASSUME StartupFrame,
         \/ StartupList \/ StartupScan \/ EndScan \/ MarkStartupComplete
         \/ \E p \in Policies : \/ StartupWait(p) \/ SkipScanned(p) \/ StartScanned(p)
                               \/ \E w \in Workloads : StartupScale(p, w)
  PROVE  OutsideStep
<1>1. UNCHANGED st
  BY DEF StartupList, StartupScan, EndScan, MarkStartupComplete, StartupWait, SkipScanned,
         StartScanned, StartupScale, NoStatusWrite
<1> QED BY <1>1 DEF OutsideStep, StatusKept, StartupFrame, workerVars, history

\* A write outside the worker.
LEMMA OutsideWrite ==
  ASSUME NEW p \in Policies, NEW s \in Status, st' = [st EXCEPT ![p] = s], KeepsLast(p, s),
         UNCHANGED <<op, action, begun, wpc, wp, view>>
  PROVE  OutsideStep
BY DEF OutsideStep, StatusKept, Writes

\* Startup steps that may write the status.
LEMMA WritingStartup ==
  ASSUME CommandTypes, StartupFrame, NEW p \in Policies,
         StartupFreeze(p) \/ StartupFrozen(p) \/ EndScanned(p) \/ StartupResume(p)
  PROVE  OutsideStep
<1>1. st[p] \in Status /\ op[p] \in OpIds
  BY DEF CommandTypes
<1>2. Acked(p) \in OpIds /\ (Acked(p) = st[p].last \/ (op[p] # 0 /\ Acked(p) = op[p]))
  BY <1>1 DEF Acked, Status
<1>3. UNCHANGED <<op, action, begun, wpc, wp, view>>
  BY DEF StartupFrame, workerVars, history
<1>4. CASE UNCHANGED st
  BY <1>3, <1>4 DEF OutsideStep, StatusKept
<1>5. CASE StartupFreeze(p) /\ ~UNCHANGED st
  <2> DEFINE s == [st[p] EXCEPT !.pf = TRUE, !.phase = "Idle"]
  <2>1. s \in Status /\ s.last = st[p].last
    BY <1>1 DEF Status, Phases
  <2>2. st' = [st EXCEPT ![p] = s]
    BY <1>5 DEF StartupFreeze, WriteStatus, NoStatusWrite
  <2> QED BY <1>3, <2>1, <2>2, OutsideWrite DEF KeepsLast
<1>6. CASE StartupFrozen(p)
  <2> DEFINE s == [st[p] EXCEPT !.phase = "Frozen"]
  <2>1. s \in Status /\ s.last = st[p].last
    BY <1>1 DEF Status, Phases
  <2>2. st' = [st EXCEPT ![p] = s]
    BY <1>6 DEF StartupFrozen, WriteStatus
  <2> QED BY <1>3, <2>1, <2>2, OutsideWrite DEF KeepsLast
<1>7. CASE EndScanned(p) /\ ~UNCHANGED st
  <2> DEFINE s == [st[p] EXCEPT !.node = TRUE, !.nf = "handled", !.last = Acked(p), !.pr = TRUE]
  <2>1. s \in Status /\ s.last = Acked(p)
    BY <1>1, <1>2 DEF Status
  <2>2. st' = [st EXCEPT ![p] = s]
    BY <1>7 DEF EndScanned, WriteStatus, NoStatusWrite
  <2> QED BY <1>2, <1>3, <2>1, <2>2, OutsideWrite DEF KeepsLast
<1>8. CASE StartupResume(p) /\ ~UNCHANGED st
  <2> DEFINE s == [st[p] EXCEPT !.last = Acked(p), !.pr = TRUE, !.phase = "Idle"]
  <2>1. s \in Status /\ s.last = Acked(p)
    BY <1>1, <1>2 DEF Status, Phases
  <2>2. st' = [st EXCEPT ![p] = s]
    BY <1>8 DEF StartupResume, WriteStatus, NoStatusWrite
  <2> QED BY <1>2, <1>3, <2>1, <2>2, OutsideWrite DEF KeepsLast
<1> QED BY <1>4, <1>5, <1>6, <1>7, <1>8

\* The startup goroutine never touches the worker or an operation.
LEMMA StartupClassified == CommandTypes /\ Startup => OutsideStep
BY QuietStartup, WritingStartup DEF Startup, StartupOf

\* Every step of users, cluster and process start belongs to a class.
LEMMA OutsideClassified == CommandTypes /\ (Outside \/ Start) => ClassifiedStep
<1> SUFFICES ASSUME CommandTypes, Outside \/ Start PROVE ClassifiedStep
  OBVIOUS
<1>1. CASE Crash \/ Start
  BY <1>1 DEF Crash, Start, NoProcess, apiVars, history, ResetStep, ClassifiedStep
<1>2. CASE NodeFails \/ NodeRecovers
  BY <1>2 DEF NodeFails, NodeRecovers, OutsideFrame, apiVars, workerVars, history, OutsideStep,
              StatusKept, ClassifiedStep
<1>3. ASSUME NEW p \in Policies, DelayOver(p) \/ PodsReady(p) \/ TimerFires(p) \/ CreateNamespace(p)
      PROVE  ClassifiedStep
  BY <1>3 DEF DelayOver, PodsReady, TimerFires, CreateNamespace, OutsideFrame, apiVars, workerVars,
              history, OutsideStep, StatusKept, ClassifiedStep
<1>4. ASSUME NEW p \in Policies, MapNode(p)
      PROVE  ClassifiedStep
  <2> DEFINE s == [st[p] EXCEPT !.node = TRUE, !.nf = "detected"]
  <2>1. s \in Status /\ s.last = st[p].last
    BY DEF CommandTypes, Status
  <2>2. UNCHANGED <<op, action, begun, wpc, wp, view>>
    BY <1>4 DEF MapNode, OutsideFrame, workerVars, history
  <2>3. CASE p \in mapFresh
    <3>1. st' = [st EXCEPT ![p] = s]
      BY <1>4, <2>3 DEF MapNode, WriteStatus
    <3> QED BY <2>1, <2>2, <3>1, OutsideWrite DEF KeepsLast, ClassifiedStep
  <2>4. CASE p \notin mapFresh
    BY <1>4, <2>2, <2>4 DEF MapNode, NoStatusWrite, OutsideStep, StatusKept, ClassifiedStep
  <2> QED BY <2>3, <2>4
<1>5. ASSUME NEW p \in Policies, NEW a \in Actions, Command(p, a)
      PROVE  ClassifiedStep
  BY <1>5 DEF Command, OutsideFrame, workerVars, history, CommandStep, ClassifiedStep
<1> QED BY <1>1, <1>2, <1>3, <1>4, <1>5 DEF Outside

\* Every step of the specification belongs to a class or stutters.
LEMMA NextClassified == CommandTypes /\ [Next]_vars => ClassifiedStep \/ UNCHANGED vars
BY ReconcileClassified, BeginClassified, StartupClassified, OutsideClassified DEF Next, ClassifiedStep

\* Every step preserves the invariant.
LEMMA CommandInvStep == CommandInv /\ [Next]_vars => CommandInv'
<1> SUFFICES ASSUME CommandInv, [Next]_vars PROVE CommandInv'
  OBVIOUS
<1>1. CASE UNCHANGED vars
  BY <1>1 DEF vars, apiVars, workerVars, history, CommandInv, CommandTypes, BegunWasGiven,
              StartedIsRecorded, NewerNotStarted, StartedIsSeen
<1>2. CASE ClassifiedStep
  BY <1>2, OutsidePreserves, CommandPreserves, ResetPreserves, ReadPreserves, RereadPreserves,
     WorkPreserves, EndPreserves, StartPreserves DEF ClassifiedStep
<1> QED BY <1>1, <1>2, NextClassified DEF CommandInv

\* A step from a state with the invariant starts no operation a second time.
LEMMA StepStartsOnlyNew == CommandInv /\ [Next]_vars => [StartsOnlyNew]_vars
<1> SUFFICES ASSUME CommandInv, ClassifiedStep PROVE StartsOnlyNew
  BY NextClassified DEF CommandInv
<1> SUFFICES ASSUME wpc' \in {"freeze", "listed"}, wpc # wpc', view'.op \in OpIds \ {0}
             PROVE  view'.op \notin begun[wp']
  BY DEF StartsOnlyNew
<1>1. StartStep
  BY DEF ClassifiedStep, OutsideStep, CommandStep, ResetStep, ReadStep, RereadStep, WorkStep,
         EndStep, Reading
<1>2. ~ShouldSkip(view) /\ ~view.st.checking /\ wpc \in Reading /\ UNCHANGED <<wp, view>>
  BY <1>1 DEF StartStep, StartCommand, Loop
<1> QED BY <1>2, StartedIsSkipped

\* The invariant holds in every reachable state.
THEOREM CommandsAreRecorded == Spec => []CommandInv
<1>1. Init => CommandInv
  BY CommandInit
<1>2. CommandInv /\ [Next]_vars => CommandInv'
  BY CommandInvStep
<1> QED BY <1>1, <1>2, PTL DEF Spec

\* For every set of policies and workloads, every configuration, any number of
\* commands, crashes and node failures and all failures of calls: the worker
\* starts the action of an operationId at most once.
THEOREM CommandsStartAtMostOnce == Spec => AtMostOnce
<1>1. CommandInv /\ [Next]_vars => [StartsOnlyNew]_vars
  BY StepStartsOnlyNew
<1> QED BY <1>1, CommandsAreRecorded, PTL DEF Spec, AtMostOnce
=============================================================================
