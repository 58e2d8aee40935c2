---------------------------- MODULE PodBalancing ----------------------------
(***************************************************************************)
(* Rolling restarts after a node became Ready: mapNodeReadyToPolicy writes *)
(* the event into the status of every policy that balances, the reconcile  *)
(* worker judges it and marks it as handled, users give commands beside    *)
(* both.  All of them read policies from the informer cache, which trails  *)
(* the API server, and both writes are Updates that fail with a conflict   *)
(* when the copy is not the latest version.  Times have whole seconds, as  *)
(* they are serialised.                                                    *)
(***************************************************************************)
EXTENDS Integers, Sequences

CONSTANTS
  Policies,    \* the policies, each with a namespace of its own
  NoPolicy,    \* not a policy
  Balances,    \* the policies with spec.balancePods
  Window,      \* balanceWindowSeconds, its default applied
  MaxTime,     \* bound on the clock
  MaxEvents,   \* bound on the transitions of a node to Ready
  MaxOps,      \* bound on the operationIds given to one policy
  MaxLag       \* bound on the versions the cache may be behind when a reconcile starts

ASSUME BalancingAssumption ==
  /\ NoPolicy \notin Policies /\ Balances \subseteq Policies
  /\ Window \in Nat \ {0} /\ MaxTime \in Nat \ {0} /\ MaxEvents \in Nat /\ MaxOps \in Nat \ {0}
  /\ MaxLag \in Nat

Actions == {"Freeze", "Resume"}
Phases  == {"Resumed", "Frozen", "Failed"}
Times   == 0..MaxTime

\* A version of a policy: rv is its resourceVersion, then spec.operationId and
\* spec.action, then the status: lastHandledOperationId, phase,
\* nodeReadyEventDetectedAt, nodeReadyEventHandledAt and lastResumeAt (0: nil).
Version == [rv : Nat, op : 1..MaxOps, action : Actions, last : 1..MaxOps, phase : Phases,
            det : Times, han : Times, res : Times]
NoVersion == [rv |-> 0, op |-> 1, action |-> "Resume", last |-> 1, phase |-> "Resumed",
              det |-> 0, han |-> 0, res |-> 1]

VARIABLES
  api,       \* api[p]: the latest version
  cached,    \* cached[p]: the version in the informer cache
  pend,      \* pend[p]: the versions the cache has not received yet
  now,       \* the clock
  events,    \* how often a node became Ready
  queue,     \* the workqueue
  wpc, wp, view,             \* the reconcile worker and the version it read
  mapTodo, mapCopy, mapDone, \* the node event being mapped, the listed copies, the requests
  judged,    \* history: the event times a reconcile has judged, per policy
  steady     \* history: the policy has been settled since its event was recorded

apiVars    == <<api, pend>>
workerVars == <<wpc, wp, view>>
mapVars    == <<mapTodo, mapCopy, mapDone>>
vars == <<apiVars, cached, now, events, queue, workerVars, mapVars, judged, steady>>

WorkerPcs == {"idle", "read", "restart", "mark"}
-----------------------------------------------------------------------------
\* Resumed, and no command to run.
Settled(v) == v.phase = "Resumed" /\ v.op = v.last

\* A write that the API server accepts; the cache hears of it later.
Write(p, v) ==
  LET new == [v EXCEPT !.rv = api[p].rv + 1] IN
    /\ api' = [api EXCEPT ![p] = new]
    /\ pend' = [pend EXCEPT ![p] = Append(@, new)]
    /\ steady' = [steady EXCEPT ![p] = (@ \/ new.det # api[p].det) /\ Settled(new)]

\* Mutant: node-ready events do not pass the predicate.
TriggersOnSpecOnly(old, new) == old.op # new.op

\* UpdateFunc: a generation change, or a newer node-ready event.
Triggers(old, new) == old.op # new.op \/ new.det > old.det

\* The cache receives the next version.
Deliver(p) ==
  /\ pend[p] # <<>>
  /\ cached' = [cached EXCEPT ![p] = Head(pend[p])]
  /\ pend' = [pend EXCEPT ![p] = Tail(@)]
  /\ queue' = IF Triggers(cached[p], Head(pend[p])) THEN queue \cup {p} ELSE queue
  /\ UNCHANGED <<api, now, events, workerVars, mapVars, judged, steady>>
-----------------------------------------------------------------------------
(***************************************************************************)
(* mapNodeReadyToPolicy for a node that became Ready.                      *)
(***************************************************************************)
NodeReady ==
  /\ mapTodo = {} /\ mapDone = {} /\ events < MaxEvents
  /\ events' = events + 1
  /\ mapTodo' = {p \in Balances : cached[p].res # 0}
  /\ mapCopy' = cached
  /\ UNCHANGED <<apiVars, cached, now, queue, workerVars, mapDone, judged, steady>>

\* Mutant: the time of the event is rounded up to the next second.
MapUpdateRounded(p) ==
  /\ p \in mapTodo /\ mapTodo' = mapTodo \ {p}
  /\ mapCopy[p].rv = api[p].rv
  /\ Write(p, [mapCopy[p] EXCEPT !.det = now + 1])
  /\ mapDone' = mapDone \cup {p}
  /\ UNCHANGED <<cached, now, events, queue, workerVars, mapCopy, judged>>

\* Status().Update of one listed copy; after a conflict the event is dropped.
MapUpdate(p) ==
  /\ p \in mapTodo /\ mapTodo' = mapTodo \ {p}
  /\ \/ /\ mapCopy[p].rv = api[p].rv
        /\ Write(p, [mapCopy[p] EXCEPT !.det = now])
        /\ mapDone' = mapDone \cup {p}
     \/ /\ mapCopy[p].rv # api[p].rv
        /\ UNCHANGED <<apiVars, steady, mapDone>>
  /\ UNCHANGED <<cached, now, events, queue, workerVars, mapCopy, judged>>

MapReturn ==
  /\ mapTodo = {} /\ mapDone # {}
  /\ queue' = queue \cup mapDone /\ mapDone' = {}
  /\ UNCHANGED <<apiVars, cached, now, events, workerVars, mapTodo, mapCopy, judged, steady>>
-----------------------------------------------------------------------------
(***************************************************************************)
(* The reconcile worker.                                                   *)
(***************************************************************************)
Begin(p) ==
  /\ wpc = "idle" /\ p \in queue /\ Len(pend[p]) <= MaxLag
  /\ queue' = queue \ {p}
  /\ wpc' = "read" /\ wp' = p /\ view' = cached[p]
  /\ UNCHANGED <<apiVars, cached, now, events, mapVars, judged, steady>>

Return(requeue) ==
  /\ wpc' = "idle" /\ wp' = NoPolicy /\ view' = NoVersion
  /\ queue' = IF requeue THEN queue \cup {wp} ELSE queue

HasNodeEvent == view.det > view.han
Handled      == view.op = view.last

\* A command, written over the latest version field by field.  A resume that
\* finds nothing to resume does not touch lastResumeAt; a command that fails is
\* requeued.
RunCommand ==
  /\ wpc = "read" /\ ~Handled
  /\ \/ /\ view.action = "Freeze" /\ Return(FALSE)
        /\ Write(wp, [api[wp] EXCEPT !.phase = "Frozen", !.last = view.op])
     \/ /\ view.action = "Resume" /\ Return(FALSE)
        /\ \E res \in {now, api[wp].res} :
             Write(wp, [api[wp] EXCEPT !.phase = "Resumed", !.last = view.op, !.res = res])
     \/ /\ Return(TRUE)
        /\ Write(wp, [api[wp] EXCEPT !.phase = "Failed", !.last = view.op])
  /\ UNCHANGED <<cached, now, events, mapVars, judged>>

\* No event, or one deferred because the policy is not Resumed: neither is
\* marked or requeued.
Skip ==
  /\ wpc = "read" /\ Handled /\ (~HasNodeEvent \/ view.phase # "Resumed")
  /\ Return(FALSE)
  /\ UNCHANGED <<apiVars, cached, now, events, mapVars, judged, steady>>

\* Balance if the node came after the last resume and within the window of it.
ShouldBalance ==
  wp \in Balances /\ view.res # 0 /\ view.det > view.res /\ now - view.res < Window

Judge ==
  /\ wpc = "read" /\ Handled /\ HasNodeEvent /\ view.phase = "Resumed"
  /\ wpc' = IF ShouldBalance THEN "restart" ELSE "mark"
  /\ judged' = [judged EXCEPT ![wp] = @ \cup {view.det}]
  /\ UNCHANGED <<apiVars, cached, now, events, queue, wp, view, mapVars, steady>>

\* performBalancing: patches that no later decision reads, errors are logged.
Restart ==
  /\ wpc = "restart" /\ wpc' = "mark"
  /\ UNCHANGED <<apiVars, cached, now, events, queue, wp, view, mapVars, judged, steady>>

\* Mutant: the mark is patched into whatever version is there.
MarkHandledBlindly ==
  /\ wpc = "mark"
  /\ Write(wp, [api[wp] EXCEPT !.han = now]) /\ Return(FALSE)
  /\ UNCHANGED <<cached, now, events, mapVars, judged>>

\* Status().Update of the copy that was read; a conflict is an error, which is
\* requeued.
MarkHandled ==
  /\ wpc = "mark"
  /\ \/ view.rv = api[wp].rv /\ Write(wp, [view EXCEPT !.han = now]) /\ Return(FALSE)
     \/ view.rv # api[wp].rv /\ Return(TRUE) /\ UNCHANGED <<apiVars, steady>>
  /\ UNCHANGED <<cached, now, events, mapVars, judged>>

Reconcile == RunCommand \/ Skip \/ Judge \/ Restart \/ MarkHandled
-----------------------------------------------------------------------------
Command(p, a) ==
  /\ api[p].op < MaxOps
  /\ Write(p, [api[p] EXCEPT !.op = @ + 1, !.action = a])
  /\ UNCHANGED <<cached, now, events, queue, workerVars, mapVars, judged>>

Tick ==
  /\ now < MaxTime /\ now' = now + 1
  /\ UNCHANGED <<apiVars, cached, events, queue, workerVars, mapVars, judged, steady>>

\* Every policy was resumed a moment ago by its first operation.
Init ==
  /\ api = [p \in Policies |-> NoVersion] /\ cached = api
  /\ pend = [p \in Policies |-> <<>>]
  /\ now = 1 /\ events = 0 /\ queue = {}
  /\ wpc = "idle" /\ wp = NoPolicy /\ view = NoVersion
  /\ mapTodo = {} /\ mapCopy = api /\ mapDone = {}
  /\ judged = [p \in Policies |-> {}] /\ steady = [p \in Policies |-> TRUE]

Next ==
  \/ \E p \in Policies : \/ Deliver(p) \/ MapUpdate(p) \/ Begin(p)
                         \/ \E a \in Actions : Command(p, a)
  \/ NodeReady \/ MapReturn \/ Reconcile \/ Tick

Spec == Init /\ [][Next]_vars

\* The watch delivers, the handler and the worker run, the workqueue serves every
\* request.  Users and nodes owe nothing.
Fairness ==
  /\ WF_vars(Reconcile) /\ WF_vars(MapReturn)
  /\ \A p \in Policies : WF_vars(Deliver(p)) /\ WF_vars(MapUpdate(p)) /\ SF_vars(Begin(p))

FairSpec == Spec /\ Fairness
-----------------------------------------------------------------------------
(***************************************************************************)
(* Properties.                                                             *)
(***************************************************************************)
\* The shape of the state; resourceVersions grow from the cache over what is
\* under way to the API server.
TypeOK ==
  /\ api \in [Policies -> Version] /\ cached \in [Policies -> Version]
  /\ \A p \in Policies :
       /\ \A i \in DOMAIN pend[p] : pend[p][i] \in Version /\ pend[p][i].rv = cached[p].rv + i
       /\ api[p].rv = cached[p].rv + Len(pend[p])
  /\ now \in Times /\ events \in 0..MaxEvents /\ queue \subseteq Policies
  /\ wpc \in WorkerPcs /\ wp \in Policies \cup {NoPolicy} /\ view \in Version
  /\ mapTodo \subseteq Balances /\ mapCopy \in [Policies -> Version] /\ mapDone \subseteq Balances
  /\ judged \in [Policies -> SUBSET Times] /\ steady \in [Policies -> BOOLEAN]

\* A node event counts as handled only if some reconcile judged it, or if it was
\* recorded in the very second of the mark: the mark of one event never covers
\* another that came between the read and the write.
NoEventSwallowed ==
  \A p \in Policies : (api[p].det # 0 /\ api[p].det <= api[p].han)
                        => (api[p].det \in judged[p] \/ api[p].det = api[p].han)

\* An event recorded for a policy that is Resumed, and that no command disturbs,
\* is judged and marked, however the requests, the conflicts and the updates of
\* the cache overtake each other.
BalancingDecided ==
  \A p \in Policies :
    (steady[p] /\ api[p].det > api[p].han) ~> (~steady[p] \/ api[p].det <= api[p].han)
=============================================================================
