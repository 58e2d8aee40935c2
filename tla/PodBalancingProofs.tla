------------------------- MODULE PodBalancingProofs -------------------------
(***************************************************************************)
(* No node-ready event is marked as handled by mistake, for every set of   *)
(* policies, any lag of the cache and any number of events and commands.   *)
(***************************************************************************)
EXTENDS PodBalancing, TLAPS

\* The versions that can exist at time t: none was marked later.
Marked(t) == {v \in Version : v.han <= t}

\* Every copy of a policy, in the API server or on its way to a reader.
CopiesOK ==
  /\ now \in Times
  /\ api \in [Policies -> Marked(now)] /\ cached \in [Policies -> Marked(now)]
  /\ mapCopy \in [Policies -> Marked(now)] /\ view \in Marked(now)
  /\ pend \in [Policies -> Seq(Version)]
  /\ \A p \in Policies : \A i \in 1..Len(pend[p]) : pend[p][i] \in Marked(now)

\* What the worker and the node watch hold; past the judgement, the event in the
\* worker's copy is one that was judged.
ActorsOK ==
  /\ mapTodo \subseteq Policies /\ judged \in [Policies -> SUBSET Times]
  /\ wpc # "idle" => wp \in Policies
  /\ wpc \in {"restart", "mark"} => view.det \in judged[wp]

\* The inductive invariant.
EventInv == CopiesOK /\ ActorsOK /\ NoEventSwallowed
-----------------------------------------------------------------------------
\* The effect of a write on the copies: the latest version has the times it was
\* given, all other copies stay.
LEMMA WriteKeepsCopies ==
  ASSUME CopiesOK, NEW p \in Policies, NEW v \in Marked(now), Write(p, v), now' = now
  PROVE  /\ api' \in [Policies -> Marked(now)]
         /\ api'[p].det = v.det /\ api'[p].han = v.han
         /\ \A q \in Policies \ {p} : api'[q] = api[q]
         /\ pend' \in [Policies -> Seq(Version)]
         /\ \A q \in Policies : \A i \in 1..Len(pend'[q]) : pend'[q][i] \in Marked(now)
<1> DEFINE new == [v EXCEPT !.rv = api[p].rv + 1]
<1>1. api[p] \in Version /\ v \in Version /\ v.han <= now
  BY DEF CopiesOK, Marked
<1>2. new \in Version /\ new.det = v.det /\ new.han = v.han
  BY <1>1 DEF Version
<1>3. new \in Marked(now)
  BY <1>1, <1>2 DEF Marked
<1>4. api' = [api EXCEPT ![p] = new] /\ pend' = [pend EXCEPT ![p] = Append(@, new)]
  BY DEF Write
<1> HIDE DEF new
<1>5. api' \in [Policies -> Marked(now)] /\ api'[p] = new
      /\ \A q \in Policies \ {p} : api'[q] = api[q]
  BY <1>3, <1>4 DEF CopiesOK
<1>6. pend' \in [Policies -> Seq(Version)]
  BY <1>2, <1>4 DEF CopiesOK
<1>7. ASSUME NEW q \in Policies, NEW i \in 1..Len(pend'[q]) PROVE pend'[q][i] \in Marked(now)
  <2>1. CASE q # p
    BY <1>4, <1>7, <2>1 DEF CopiesOK
  <2>2. CASE q = p
    <3>1. pend[p] \in Seq(Version) /\ pend'[p] = Append(pend[p], new)
      BY <1>4 DEF CopiesOK
    <3>2. (i \in 1..Len(pend[p]) /\ pend'[p][i] = pend[p][i]) \/ pend'[p][i] = new
      BY <1>2, <1>7, <2>2, <3>1
    <3> QED BY <1>3, <2>2, <3>2 DEF CopiesOK
  <2> QED BY <2>1, <2>2
<1> QED BY <1>2, <1>5, <1>6, <1>7

\* A write that keeps the event and the mark as they are.
LEMMA NeutralWrite ==
  ASSUME EventInv, NEW p \in Policies, NEW v \in Version, Write(p, v),
         v.det = api[p].det, v.han = api[p].han,
         UNCHANGED <<now, cached, mapCopy, judged>>
  PROVE  NoEventSwallowed' /\ (view' \in Marked(now) => CopiesOK')
<1>1. v \in Marked(now)
  BY DEF EventInv, CopiesOK, Marked
<1>2. CopiesOK
  BY DEF EventInv
<1>3. /\ api' \in [Policies -> Marked(now)]
      /\ api'[p].det = v.det /\ api'[p].han = v.han
      /\ \A q \in Policies \ {p} : api'[q] = api[q]
      /\ pend' \in [Policies -> Seq(Version)]
      /\ \A q \in Policies : \A i \in 1..Len(pend'[q]) : pend'[q][i] \in Marked(now)
  BY <1>1, <1>2, WriteKeepsCopies
<1>4. NoEventSwallowed'
  BY <1>3 DEF EventInv, NoEventSwallowed
<1>5. view' \in Marked(now) => CopiesOK'
  BY <1>2, <1>3 DEF CopiesOK
<1> QED BY <1>4, <1>5

\* The worker between two reconciles holds nothing.
LEMMA ReturnKeepsCopies ==
  ASSUME CopiesOK, NEW b \in BOOLEAN, Return(b)
  PROVE  view' \in Marked(now) /\ wpc' = "idle"
<1>1. NoVersion \in Version /\ NoVersion.han = 0
  BY BalancingAssumption DEF BalancingAssumption, NoVersion, Version, Actions, Phases, Times
<1> QED BY <1>1 DEF Return, CopiesOK, Marked, Times
\* What a command writes leaves the event and the mark as they are.
LEMMA CommandWrites ==
  ASSUME EventInv, RunCommand
  PROVE  /\ wp \in Policies
         /\ \E v \in Version, b \in BOOLEAN :
              Write(wp, v) /\ Return(b) /\ v.det = api[wp].det /\ v.han = api[wp].han
<1>1. wp \in Policies /\ api[wp] \in Version /\ view \in Version /\ now \in Times
  BY DEF RunCommand, EventInv, ActorsOK, CopiesOK, Marked
<1>2. \E v \in Version, b \in BOOLEAN :
         Write(wp, v) /\ Return(b) /\ v.det = api[wp].det /\ v.han = api[wp].han
  <2>1. view.op \in 1..MaxOps /\ api[wp].res \in Times
    BY <1>1 DEF Version
  <2>2. ASSUME NEW ph \in Phases, NEW b \in BOOLEAN, Return(b),
               Write(wp, [api[wp] EXCEPT !.phase = ph, !.last = view.op])
        PROVE  \E v \in Version, c \in BOOLEAN :
                  Write(wp, v) /\ Return(c) /\ v.det = api[wp].det /\ v.han = api[wp].han
    <3> DEFINE v == [api[wp] EXCEPT !.phase = ph, !.last = view.op]
    <3>1. v \in Version /\ v.det = api[wp].det /\ v.han = api[wp].han
      BY <1>1, <2>1 DEF Version
    <3>2. Write(wp, v)
      BY <2>2
    <3> HIDE DEF v
    <3> QED BY <2>2, <3>1, <3>2
  <2>3. ASSUME NEW r \in Times, Return(FALSE),
               Write(wp, [api[wp] EXCEPT !.phase = "Resumed", !.last = view.op, !.res = r])
        PROVE  \E v \in Version, c \in BOOLEAN :
                  Write(wp, v) /\ Return(c) /\ v.det = api[wp].det /\ v.han = api[wp].han
    <3> DEFINE v == [api[wp] EXCEPT !.phase = "Resumed", !.last = view.op, !.res = r]
    <3>1. v \in Version /\ v.det = api[wp].det /\ v.han = api[wp].han
      BY <1>1, <2>1 DEF Version, Phases
    <3>2. Write(wp, v)
      BY <2>3
    <3> HIDE DEF v
    <3> QED BY <2>3, <3>1, <3>2
  <2>4. CASE Return(FALSE) /\ Write(wp, [api[wp] EXCEPT !.phase = "Frozen", !.last = view.op])
    BY <2>2, <2>4, "Frozen" \in Phases DEF Phases
  <2>5. CASE Return(TRUE) /\ Write(wp, [api[wp] EXCEPT !.phase = "Failed", !.last = view.op])
    BY <2>2, <2>5, "Failed" \in Phases DEF Phases
  <2>6. ASSUME NEW r \in {now, api[wp].res}, Return(FALSE),
               Write(wp, [api[wp] EXCEPT !.phase = "Resumed", !.last = view.op, !.res = r])
        PROVE  \E v \in Version, c \in BOOLEAN :
                  Write(wp, v) /\ Return(c) /\ v.det = api[wp].det /\ v.han = api[wp].han
    BY <1>1, <2>1, <2>3, <2>6
  <2> QED BY <2>4, <2>5, <2>6 DEF RunCommand
<1> QED BY <1>1, <1>2
-----------------------------------------------------------------------------
\* The invariant holds at first, when there are no events.
LEMMA EventInvInit == Init => EventInv
<1> SUFFICES ASSUME Init PROVE EventInv
  OBVIOUS
<1>1. NoVersion \in Version /\ NoVersion.han = 0 /\ NoVersion.det = 0 /\ 1 \in Times
  BY BalancingAssumption DEF BalancingAssumption, NoVersion, Version, Actions, Phases, Times
<1>2. NoVersion \in Marked(now)
  BY <1>1 DEF Init, Marked
<1>3. CopiesOK
  BY <1>1, <1>2 DEF Init, CopiesOK
<1>4. ActorsOK /\ NoEventSwallowed
  BY <1>1 DEF Init, ActorsOK, NoEventSwallowed
<1> QED BY <1>3, <1>4 DEF EventInv

\* Every action keeps it.  The one at risk is the mark: an accepted update wrote
\* the copy that was read, so the event it covers is the one that was judged.
LEMMA EventInvKept == EventInv /\ [Next]_vars => EventInv'
<1> SUFFICES ASSUME EventInv, [Next]_vars PROVE EventInv'
  OBVIOUS
<1>0. CopiesOK /\ ActorsOK /\ NoEventSwallowed
  BY DEF EventInv
<1>1. ASSUME NEW p \in Policies, Deliver(p) PROVE EventInv'
  <2>1. pend[p] \in Seq(Version) /\ pend[p] # <<>>
    BY <1>0, <1>1 DEF Deliver, CopiesOK
  <2>2. Head(pend[p]) = pend[p][1] /\ 1 \in 1..Len(pend[p])
    BY <2>1
  <2>3. /\ Tail(pend[p]) \in Seq(Version)
        /\ \A i \in 1..Len(Tail(pend[p])) : /\ Tail(pend[p])[i] = pend[p][i + 1]
                                            /\ i + 1 \in 1..Len(pend[p])
    BY <2>1
  <2>4. cached' \in [Policies -> Marked(now)] /\ pend' \in [Policies -> Seq(Version)]
    BY <1>0, <1>1, <2>2, <2>3 DEF Deliver, CopiesOK
  <2>5. \A q \in Policies : \A i \in 1..Len(pend'[q]) : pend'[q][i] \in Marked(now)
    BY <1>0, <1>1, <2>3 DEF Deliver, CopiesOK
  <2>6. CopiesOK'
    BY <1>0, <1>1, <2>4, <2>5 DEF Deliver, CopiesOK, mapVars, workerVars
  <2>7. ActorsOK' /\ NoEventSwallowed'
    BY <1>0, <1>1 DEF Deliver, ActorsOK, NoEventSwallowed, mapVars, workerVars
  <2> QED BY <2>6, <2>7 DEF EventInv
<1>2. CASE NodeReady
  <2>1. CopiesOK'
    BY <1>0, <1>2 DEF NodeReady, CopiesOK, apiVars, workerVars
  <2>2. ActorsOK' /\ NoEventSwallowed'
    BY <1>0, <1>2, BalancingAssumption
       DEF NodeReady, ActorsOK, NoEventSwallowed, apiVars, workerVars, BalancingAssumption
  <2> QED BY <2>1, <2>2 DEF EventInv
<1>3. ASSUME NEW p \in Policies, MapUpdate(p) PROVE EventInv'
  <2>1. ActorsOK' /\ UNCHANGED <<now, cached, mapCopy, judged, view>>
    BY <1>0, <1>3 DEF MapUpdate, ActorsOK, workerVars
  <2>2. CASE UNCHANGED apiVars
    BY <1>0, <2>1, <2>2 DEF EventInv, CopiesOK, NoEventSwallowed, apiVars
  <2>3. CASE Write(p, [mapCopy[p] EXCEPT !.det = now])
    <3> DEFINE v == [mapCopy[p] EXCEPT !.det = now]
    <3>1. mapCopy[p] \in Version /\ mapCopy[p].han <= now /\ now \in Times
      BY <1>0 DEF CopiesOK, Marked
    <3>2. v \in Version /\ v.det = now /\ v.han = mapCopy[p].han /\ v.han \in Times
      BY <3>1 DEF Version
    <3>3. v \in Marked(now)
      BY <3>1, <3>2 DEF Marked
    <3>4. Write(p, v)
      BY <2>3
    <3> HIDE DEF v
    <3>5. /\ api' \in [Policies -> Marked(now)]
          /\ api'[p].det = v.det /\ api'[p].han = v.han
          /\ \A q \in Policies \ {p} : api'[q] = api[q]
          /\ pend' \in [Policies -> Seq(Version)]
          /\ \A q \in Policies : \A i \in 1..Len(pend'[q]) : pend'[q][i] \in Marked(now)
      BY <1>0, <2>1, <3>3, <3>4, WriteKeepsCopies
    <3>6. CopiesOK'
      BY <1>0, <2>1, <3>5 DEF CopiesOK
    <3>7. api'[p].det <= api'[p].han => api'[p].det = api'[p].han
      BY <3>1, <3>2, <3>5 DEF Times
    <3>8. NoEventSwallowed'
      BY <1>0, <2>1, <3>5, <3>7 DEF NoEventSwallowed
    <3> QED BY <2>1, <3>6, <3>8 DEF EventInv
  <2> QED BY <1>3, <2>2, <2>3 DEF MapUpdate
<1>4. CASE MapReturn
  BY <1>0, <1>4 DEF MapReturn, EventInv, CopiesOK, ActorsOK, NoEventSwallowed, apiVars, workerVars
<1>5. ASSUME NEW p \in Policies, Begin(p) PROVE EventInv'
  BY <1>0, <1>5 DEF Begin, EventInv, CopiesOK, ActorsOK, NoEventSwallowed, apiVars, mapVars
<1>6. CASE RunCommand
  <2>1. wp \in Policies
    BY <1>6, CommandWrites
  <2>2. \E v \in Version, b \in BOOLEAN :
           Write(wp, v) /\ Return(b) /\ v.det = api[wp].det /\ v.han = api[wp].han
    BY <1>6, CommandWrites
  <2>3. UNCHANGED <<now, cached, mapCopy, judged, mapTodo>>
    BY <1>6 DEF RunCommand, mapVars
  <2>4. view' \in Marked(now) /\ wpc' = "idle"
    BY <1>0, <2>2, ReturnKeepsCopies
  <2>5. NoEventSwallowed' /\ CopiesOK'
    BY <2>1, <2>2, <2>3, <2>4, NeutralWrite
  <2> QED BY <1>0, <2>3, <2>4, <2>5 DEF EventInv, ActorsOK
<1>7. CASE Skip
  <2>1. view' \in Marked(now) /\ wpc' = "idle"
    BY <1>0, <1>7, ReturnKeepsCopies DEF Skip
  <2> QED BY <1>0, <1>7, <2>1
          DEF Skip, EventInv, CopiesOK, ActorsOK, NoEventSwallowed, apiVars, mapVars
<1>8. CASE Judge
  <2>1. wp \in Policies /\ view.det \in Times /\ wpc' \in {"restart", "mark"}
    BY <1>0, <1>8 DEF Judge, ActorsOK, CopiesOK, Marked, Version
  <2>2. judged' = [judged EXCEPT ![wp] = @ \cup {view.det}]
    BY <1>8 DEF Judge
  <2>3. /\ judged' \in [Policies -> SUBSET Times] /\ view.det \in judged'[wp]
        /\ \A q \in Policies : judged[q] \subseteq judged'[q]
    BY <1>0, <2>1, <2>2 DEF ActorsOK
  <2>4. UNCHANGED <<now, api, pend, cached, mapCopy, mapTodo, view, wp>>
    BY <1>8 DEF Judge, apiVars, mapVars
  <2>5. CopiesOK'
    BY <1>0, <2>4 DEF CopiesOK
  <2>6. ActorsOK'
    BY <1>0, <2>1, <2>3, <2>4 DEF ActorsOK
  <2>7. NoEventSwallowed'
    BY <1>0, <2>3, <2>4 DEF NoEventSwallowed
  <2> QED BY <2>5, <2>6, <2>7 DEF EventInv
<1>9. CASE Restart
  BY <1>0, <1>9 DEF Restart, EventInv, CopiesOK, ActorsOK, NoEventSwallowed, apiVars, mapVars
<1>10. CASE MarkHandled
  <2>1. /\ wp \in Policies /\ view.det \in judged[wp]
        /\ UNCHANGED <<now, cached, mapCopy, judged, mapTodo>>
    BY <1>0, <1>10 DEF MarkHandled, ActorsOK, mapVars
  <2>2. view' \in Marked(now) /\ wpc' = "idle"
    BY <1>0, <1>10, ReturnKeepsCopies DEF MarkHandled
  <2>3. ActorsOK'
    BY <1>0, <2>1, <2>2 DEF ActorsOK
  <2>4. CASE UNCHANGED apiVars
    BY <1>0, <2>1, <2>2, <2>3, <2>4 DEF EventInv, CopiesOK, NoEventSwallowed, apiVars
  <2>5. CASE Write(wp, [view EXCEPT !.han = now])
    <3> DEFINE v == [view EXCEPT !.han = now]
    <3>1. view \in Version /\ now \in Times
      BY <1>0 DEF CopiesOK, Marked
    <3>2. v \in Version /\ v.det = view.det /\ v.han = now
      BY <3>1 DEF Version
    <3>3. Write(wp, v)
      BY <2>5
    <3> HIDE DEF v
    <3>4. v \in Marked(now)
      BY <3>1, <3>2 DEF Marked, Times
    <3>5. /\ api' \in [Policies -> Marked(now)]
          /\ api'[wp].det = v.det
          /\ \A q \in Policies \ {wp} : api'[q] = api[q]
          /\ pend' \in [Policies -> Seq(Version)]
          /\ \A q \in Policies : \A i \in 1..Len(pend'[q]) : pend'[q][i] \in Marked(now)
      BY <1>0, <2>1, <3>3, <3>4, WriteKeepsCopies
    <3>6. CopiesOK'
      BY <1>0, <2>1, <2>2, <3>5 DEF CopiesOK
    <3>7. NoEventSwallowed'
      BY <1>0, <2>1, <3>2, <3>5 DEF NoEventSwallowed
    <3> QED BY <2>3, <3>6, <3>7 DEF EventInv
  <2> QED BY <1>10, <2>4, <2>5 DEF MarkHandled
<1>11. ASSUME NEW p \in Policies, NEW a \in Actions, Command(p, a) PROVE EventInv'
  <2> DEFINE v == [api[p] EXCEPT !.op = @ + 1, !.action = a]
  <2>1. api[p] \in Version /\ api[p].op < MaxOps
    BY <1>0, <1>11 DEF Command, CopiesOK, Marked
  <2>2. api[p].op + 1 \in 1..MaxOps
    BY <2>1, BalancingAssumption DEF Version, BalancingAssumption
  <2>3. v \in Version /\ v.det = api[p].det /\ v.han = api[p].han
    BY <2>1, <2>2 DEF Version
  <2>4. Write(p, v) /\ UNCHANGED <<now, cached, mapCopy, judged, view, wp, wpc, mapTodo>>
    BY <1>11 DEF Command, workerVars, mapVars
  <2> HIDE DEF v
  <2>5. view' \in Marked(now)
    BY <1>0, <2>4 DEF CopiesOK
  <2>6. NoEventSwallowed' /\ CopiesOK'
    BY <2>3, <2>4, <2>5, NeutralWrite
  <2> QED BY <1>0, <2>4, <2>6 DEF EventInv, ActorsOK
<1>12. CASE Tick
  <2>1. now' \in Times /\ now \in Times /\ now' = now + 1
    BY <1>0, <1>12, BalancingAssumption DEF Tick, CopiesOK, Times, BalancingAssumption
  <2>2. ASSUME NEW v \in Marked(now) PROVE v \in Marked(now')
    BY <2>1, <2>2 DEF Marked, Version, Times
  <2>3. UNCHANGED <<api, pend, cached, wpc, wp, view, mapTodo, mapCopy, judged>>
    BY <1>12 DEF Tick, apiVars, workerVars, mapVars
  <2>4. CopiesOK'
    BY <1>0, <2>1, <2>2, <2>3 DEF CopiesOK
  <2> QED BY <1>0, <2>3, <2>4 DEF EventInv, ActorsOK, NoEventSwallowed
<1>13. CASE UNCHANGED vars
  BY <1>0, <1>13 DEF vars, apiVars, workerVars, mapVars, EventInv, CopiesOK, ActorsOK, NoEventSwallowed
<1> QED BY <1>1, <1>2, <1>3, <1>4, <1>5, <1>6, <1>7, <1>8, <1>9, <1>10, <1>11, <1>12, <1>13
        DEF Next, Reconcile

\* Whatever overtakes what between the API server, the cache, the node watch and
\* the worker, the mark of one event never counts another as handled, except
\* within its own second (the conflict check of the update that marks the event).
THEOREM EventsAreJudged == Spec => []NoEventSwallowed
<1>1. EventInv => NoEventSwallowed
  BY DEF EventInv
<1> QED BY EventInvInit, EventInvKept, <1>1, PTL DEF Spec
-----------------------------------------------------------------------------
(***************************************************************************)
(* TypeOK.                                                                 *)
(***************************************************************************)
\* The versions of a policy form a chain from the cache to the API server: what a
\* conflict check compares are the positions in it.
ChainOK ==
  \A p \in Policies :
    /\ \A i \in 1..Len(pend[p]) : pend[p][i].rv = cached[p].rv + i
    /\ api[p].rv = cached[p].rv + Len(pend[p])

\* The rest of the state.
RestOK ==
  /\ events \in 0..MaxEvents /\ queue \subseteq Policies
  /\ wpc \in WorkerPcs /\ wp \in Policies \cup {NoPolicy}
  /\ mapTodo \subseteq Balances /\ mapDone \subseteq Balances

SteadyOK == steady \in [Policies -> BOOLEAN]

\* The inductive invariant behind TypeOK.
BalancingInv == EventInv /\ ChainOK /\ RestOK /\ SteadyOK

\* The parts are the whole.
LEMMA BalancingParts == BalancingInv => TypeOK
<1> SUFFICES ASSUME BalancingInv PROVE TypeOK
  OBVIOUS
<1>0. CopiesOK /\ ActorsOK /\ ChainOK /\ RestOK /\ SteadyOK
  BY DEF BalancingInv, EventInv
<1>1. /\ api \in [Policies -> Version] /\ cached \in [Policies -> Version]
      /\ mapCopy \in [Policies -> Version] /\ view \in Version
  BY <1>0 DEF CopiesOK, Marked
<1>2. ASSUME NEW p \in Policies
      PROVE  /\ \A i \in DOMAIN pend[p] : pend[p][i] \in Version /\ pend[p][i].rv = cached[p].rv + i
             /\ api[p].rv = cached[p].rv + Len(pend[p])
  <2>1. pend[p] \in Seq(Version)
    BY <1>0 DEF CopiesOK
  <2>2. DOMAIN pend[p] = 1..Len(pend[p]) /\ \A i \in 1..Len(pend[p]) : pend[p][i] \in Version
    BY <2>1
  <2> QED BY <1>0, <2>2 DEF ChainOK
<1> QED BY <1>0, <1>1, <1>2 DEF TypeOK, CopiesOK, ActorsOK, RestOK, SteadyOK

\* A step writes one version, delivers one, or leaves all of them.
LEMMA NextVersionStep ==
  ASSUME EventInv, [Next]_vars
  PROVE  \/ \E p \in Policies, v \in Version : Write(p, v) /\ UNCHANGED cached
         \/ \E p \in Policies : Deliver(p)
         \/ UNCHANGED <<api, pend, cached, steady>>
<1> DEFINE Writes == \E p \in Policies, v \in Version : Write(p, v) /\ UNCHANGED cached
           Leaves == UNCHANGED <<api, pend, cached, steady>>
<1>0. CopiesOK /\ ActorsOK
  BY DEF EventInv
<1>1. ASSUME NEW p \in Policies, MapUpdate(p) PROVE Writes \/ Leaves
  <2>1. mapCopy[p] \in Version /\ now \in Times
    BY <1>0 DEF CopiesOK, Marked
  <2>2. [mapCopy[p] EXCEPT !.det = now] \in Version
    BY <2>1 DEF Version
  <2>3. \/ Write(p, [mapCopy[p] EXCEPT !.det = now]) /\ UNCHANGED cached
        \/ UNCHANGED <<apiVars, cached, steady>>
    BY <1>1 DEF MapUpdate
  <2> QED BY <2>2, <2>3 DEF apiVars
<1>2. ASSUME RunCommand PROVE Writes
  BY <1>2, CommandWrites DEF RunCommand
<1>3. ASSUME MarkHandled PROVE Writes \/ Leaves
  <2>1. view \in Version /\ now \in Times /\ wp \in Policies
    BY <1>0, <1>3 DEF MarkHandled, CopiesOK, ActorsOK, Marked
  <2>2. [view EXCEPT !.han = now] \in Version
    BY <2>1 DEF Version
  <2>3. \/ Write(wp, [view EXCEPT !.han = now]) /\ UNCHANGED cached
        \/ UNCHANGED <<apiVars, cached, steady>>
    BY <1>3 DEF MarkHandled
  <2> QED BY <2>1, <2>2, <2>3 DEF apiVars
<1>4. ASSUME NEW p \in Policies, NEW a \in Actions, Command(p, a) PROVE Writes
  <2>1. api[p] \in Version /\ api[p].op < MaxOps
    BY <1>0, <1>4 DEF Command, CopiesOK, Marked
  <2>2. api[p].op + 1 \in 1..MaxOps
    BY <2>1, BalancingAssumption DEF Version
  <2>3. [api[p] EXCEPT !.op = @ + 1, !.action = a] \in Version
    BY <2>1, <2>2 DEF Version
  <2>4. Write(p, [api[p] EXCEPT !.op = @ + 1, !.action = a]) /\ UNCHANGED cached
    BY <1>4 DEF Command
  <2> QED BY <2>3, <2>4
<1>5. ASSUME NodeReady \/ MapReturn \/ Skip \/ Judge \/ Restart \/ Tick \/ UNCHANGED vars PROVE Leaves
  BY <1>5 DEF NodeReady, MapReturn, Skip, Judge, Restart, Tick, vars, apiVars
<1>6. ASSUME NEW p \in Policies, Begin(p) PROVE Leaves
  BY <1>6 DEF Begin, apiVars
<1> QED BY <1>1, <1>2, <1>3, <1>4, <1>5, <1>6 DEF Next, Reconcile

\* A write lengthens the chain by one.
LEMMA WriteKeepsChain ==
  ASSUME BalancingInv, NEW p \in Policies, NEW v \in Version, Write(p, v), UNCHANGED cached
  PROVE  ChainOK' /\ SteadyOK'
<1> DEFINE new == [v EXCEPT !.rv = api[p].rv + 1]
<1>0. CopiesOK /\ ChainOK /\ SteadyOK
  BY DEF BalancingInv, EventInv
<1>1. /\ api \in [Policies -> Version] /\ api[p].rv \in Nat /\ cached[p].rv \in Nat
      /\ pend \in [Policies -> Seq(Version)]
  BY <1>0 DEF CopiesOK, Marked, Version
<1>2. new \in Version /\ new.rv = api[p].rv + 1
  <2>1. ASSUME NEW n \in Nat PROVE [v EXCEPT !.rv = n] \in Version /\ [v EXCEPT !.rv = n].rv = n
    BY DEF Version
  <2>2. api[p].rv + 1 \in Nat
    BY <1>1
  <2> QED BY <2>1, <2>2
<1>3. api' = [api EXCEPT ![p] = new] /\ pend' = [pend EXCEPT ![p] = Append(@, new)]
  BY DEF Write
<1>4. SteadyOK'
  <2>1. steady' = [steady EXCEPT ![p] = (@ \/ new.det # api[p].det) /\ Settled(new)]
    BY DEF Write
  <2> HIDE DEF new
  <2>2. ((steady[p] \/ new.det # api[p].det) /\ Settled(new)) \in BOOLEAN
    BY Zenon
  <2>3. PICK b \in BOOLEAN : steady' = [steady EXCEPT ![p] = b]
    BY <2>1, <2>2
  <2> QED BY <1>0, <2>3 DEF SteadyOK
<1> HIDE DEF new
<1>5. ASSUME NEW q \in Policies, q # p
      PROVE  /\ \A i \in 1..Len(pend'[q]) : pend'[q][i].rv = cached'[q].rv + i
             /\ api'[q].rv = cached'[q].rv + Len(pend'[q])
  BY <1>0, <1>1, <1>3, <1>5 DEF ChainOK
<1>6. /\ \A i \in 1..Len(pend'[p]) : pend'[p][i].rv = cached'[p].rv + i
      /\ api'[p].rv = cached'[p].rv + Len(pend'[p])
  <2>1. pend'[p] = Append(pend[p], new) /\ api'[p] = new /\ pend[p] \in Seq(Version)
    BY <1>1, <1>3
  <2>2. Len(pend'[p]) = Len(pend[p]) + 1 /\ Len(pend[p]) \in Nat
    BY <1>2, <2>1
  <2>3. new.rv = cached[p].rv + (Len(pend[p]) + 1)
    <3>1. api[p].rv = cached[p].rv + Len(pend[p])
      BY <1>0 DEF ChainOK
    <3>2. ASSUME NEW a, NEW c \in Nat, NEW n \in Nat, a = c + n PROVE a + 1 = c + (n + 1)
      BY <3>2
    <3>3. cached[p].rv \in Nat /\ Len(pend[p]) \in Nat
      BY <1>1, <2>2
    <3>4. api[p].rv + 1 = cached[p].rv + (Len(pend[p]) + 1)
      BY <3>1, <3>2, <3>3
    <3> QED BY <1>2, <3>4
  <2>4. ASSUME NEW i \in 1..Len(pend'[p]) PROVE pend'[p][i].rv = cached[p].rv + i
    <3>1. CASE i \in 1..Len(pend[p])
      BY <1>0, <1>2, <2>1, <3>1 DEF ChainOK
    <3>2. CASE i = Len(pend[p]) + 1
      BY <1>2, <2>1, <2>3, <3>2
    <3> QED BY <2>2, <2>4, <3>1, <3>2
  <2> QED BY <2>1, <2>2, <2>3, <2>4
<1>7. ChainOK'
  BY <1>5, <1>6 DEF ChainOK
<1> QED BY <1>4, <1>7

\* A delivery moves the cache one version along the chain.
LEMMA DeliverKeepsChain ==
  ASSUME BalancingInv, NEW p \in Policies, Deliver(p)
  PROVE  ChainOK' /\ SteadyOK'
<1>0. CopiesOK /\ ChainOK /\ SteadyOK
  BY DEF BalancingInv, EventInv
<1>1. /\ pend \in [Policies -> Seq(Version)] /\ cached \in [Policies -> Version]
      /\ \A q \in Policies : cached[q].rv \in Nat
  BY <1>0 DEF CopiesOK, Marked, Version
<1>2. /\ pend[p] # <<>> /\ cached' = [cached EXCEPT ![p] = Head(pend[p])]
      /\ pend' = [pend EXCEPT ![p] = Tail(@)] /\ UNCHANGED <<api, steady>>
  BY DEF Deliver
<1>3. SteadyOK'
  BY <1>0, <1>2 DEF SteadyOK
<1>4. ASSUME NEW q \in Policies, q # p
      PROVE  /\ \A i \in 1..Len(pend'[q]) : pend'[q][i].rv = cached'[q].rv + i
             /\ api'[q].rv = cached'[q].rv + Len(pend'[q])
  BY <1>0, <1>1, <1>2, <1>4 DEF ChainOK
<1>5. /\ \A i \in 1..Len(pend'[p]) : pend'[p][i].rv = cached'[p].rv + i
      /\ api'[p].rv = cached'[p].rv + Len(pend'[p])
  <2>1. pend'[p] = Tail(pend[p]) /\ cached'[p] = pend[p][1] /\ pend[p] \in Seq(Version) /\ pend[p] # <<>>
    BY <1>1, <1>2
  <2>2. /\ Len(pend'[p]) = Len(pend[p]) - 1 /\ Len(pend[p]) \in Nat \ {0}
        /\ \A i \in 1..Len(pend'[p]) : pend'[p][i] = pend[p][i + 1] /\ i + 1 \in 1..Len(pend[p])
    BY <2>1
  <2>3. cached'[p].rv = cached[p].rv + 1
    BY <1>0, <2>1, <2>2 DEF ChainOK
  <2>4. ASSUME NEW i \in 1..Len(pend'[p]) PROVE pend'[p][i].rv = cached'[p].rv + i
    <3>1. pend'[p][i].rv = cached[p].rv + (i + 1)
      BY <1>0, <2>2, <2>4 DEF ChainOK
    <3> QED BY <1>1, <2>3, <2>4, <3>1
  <2>5. api'[p].rv = cached[p].rv + Len(pend[p])
    BY <1>0, <1>2 DEF ChainOK
  <2> QED BY <1>1, <2>2, <2>3, <2>4, <2>5
<1>6. ChainOK'
  BY <1>4, <1>5 DEF ChainOK
<1> QED BY <1>3, <1>6

\* The workqueue, the worker and the node watch.
LEMMA RestKept ==
  ASSUME BalancingInv, [Next]_vars
  PROVE  RestOK'
<1>0. RestOK /\ ActorsOK
  BY DEF BalancingInv, EventInv
<1> USE DEF RestOK
<1>1. ASSUME NEW p \in Policies, Deliver(p) \/ MapUpdate(p) \/ Begin(p) PROVE RestOK'
  BY <1>0, <1>1 DEF Deliver, MapUpdate, Begin, mapVars, workerVars, WorkerPcs
<1>2. CASE NodeReady
  <2>1. events' \in 0..MaxEvents
    BY <1>0, <1>2, BalancingAssumption DEF NodeReady
  <2> QED BY <1>0, <1>2, <2>1 DEF NodeReady, workerVars
<1>3. CASE MapReturn
  BY <1>0, <1>3, BalancingAssumption DEF MapReturn, workerVars
<1>4. ASSUME NEW b, Return(b), wp \in Policies, UNCHANGED <<events, mapVars>> PROVE RestOK'
  BY <1>0, <1>4 DEF Return, mapVars, WorkerPcs
<1>5. CASE RunCommand \/ Skip \/ MarkHandled
  <2>1. wp \in Policies /\ UNCHANGED <<events, mapVars>>
    BY <1>0, <1>5 DEF RunCommand, Skip, MarkHandled, ActorsOK
  <2>2. Return(TRUE) \/ Return(FALSE)
    BY <1>5 DEF RunCommand, Skip, MarkHandled
  <2> QED BY <1>4, <2>1, <2>2
<1>6. CASE Judge \/ Restart
  BY <1>0, <1>6 DEF Judge, Restart, mapVars, WorkerPcs
<1>7. ASSUME NEW p \in Policies, NEW a \in Actions, Command(p, a) PROVE RestOK'
  BY <1>0, <1>7 DEF Command, mapVars, workerVars
<1>8. CASE Tick \/ UNCHANGED vars
  BY <1>0, <1>8 DEF Tick, vars, mapVars, workerVars
<1> QED BY <1>1, <1>2, <1>3, <1>5, <1>6, <1>7, <1>8 DEF Next, Reconcile

\* Every step keeps the invariant.
LEMMA BalancingInvKept == BalancingInv /\ [Next]_vars => BalancingInv'
<1> SUFFICES ASSUME BalancingInv, [Next]_vars PROVE BalancingInv'
  OBVIOUS
<1>1. EventInv' /\ RestOK'
  BY EventInvKept, RestKept DEF BalancingInv
<1>2. ChainOK' /\ SteadyOK'
  <2>1. CASE UNCHANGED <<api, pend, cached, steady>>
    BY <2>1 DEF BalancingInv, ChainOK, SteadyOK
  <2> QED BY <2>1, NextVersionStep, WriteKeepsChain, DeliverKeepsChain DEF BalancingInv
<1> QED BY <1>1, <1>2 DEF BalancingInv

\* Every reachable state has its type, and the versions of a policy that the cache
\* has not received yet lie in a row between the cached one and the one of the API
\* server.
THEOREM BalancingTypeCorrect == Spec => []TypeOK
<1>1. Init => BalancingInv
  <2> SUFFICES ASSUME Init PROVE BalancingInv
    OBVIOUS
  <2>1. ChainOK
    <3>1. ASSUME NEW p \in Policies PROVE pend[p] = <<>> /\ api[p].rv = 0 /\ cached[p].rv = 0
      BY DEF Init, NoVersion
    <3>2. Len(<<>>) = 0
      OBVIOUS
    <3>3. \A i \in 1..0 : FALSE
      OBVIOUS
    <3>4. ASSUME NEW p \in Policies
          PROVE  /\ \A i \in 1..Len(pend[p]) : pend[p][i].rv = cached[p].rv + i
                 /\ api[p].rv = cached[p].rv + Len(pend[p])
      BY <3>1, <3>2, <3>3
    <3> QED BY <3>4 DEF ChainOK
  <2>2. RestOK
    BY BalancingAssumption DEF Init, RestOK, WorkerPcs
  <2>3. SteadyOK
    BY Zenon DEF Init, SteadyOK
  <2> QED BY <2>1, <2>2, <2>3, EventInvInit DEF BalancingInv
<1> QED BY <1>1, BalancingInvKept, BalancingParts, PTL DEF Spec
=============================================================================
