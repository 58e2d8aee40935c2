------------------------ MODULE WorkloadScalingProofs ------------------------
(***************************************************************************)
(* Proofs that freezing and resuming keep the counts of the workloads, for *)
(* every set of workloads, every replica bound and every lag of the cache. *)
(***************************************************************************)
EXTENDS WorkloadScaling, TLAPS

\* What a write does to the versions in flight: the new version is the stored
\* one, and every other version in the stream was already there.
LEMMA PublishLemma ==
  ASSUME stream \in [Workloads -> Seq(Version) \ {<<>>}],
         NEW w \in Workloads, NEW v \in Version, Publish(w, v)
  PROVE  /\ stream' \in [Workloads -> Seq(Version) \ {<<>>}]
         /\ Stored(w)' = v
         /\ \A u \in Workloads \ {w} : stream'[u] = stream[u]
         /\ \A i \in 1..Len(stream'[w]) :
              \/ stream'[w][i] = v
              \/ \E k \in 1..Len(stream[w]) : stream'[w][i] = stream[w][k]
<1> DEFINE s == stream[w]
           r == IF Len(s) > Lag THEN Tail(s) ELSE s
<1>0. s \in Seq(Version) /\ s # <<>> /\ Len(s) \in Nat /\ Len(s) > 0
  OBVIOUS
<1>1. CASE v = Stored(w)
  BY <1>0, <1>1 DEF Publish, Stored
<1>2. CASE v # Stored(w)
  <2>1. stream' = [stream EXCEPT ![w] = Append(r, v)]
    BY <1>2 DEF Publish
  <2>2. r \in Seq(Version) /\ Len(r) \in Nat
    BY <1>0
  <2>3. \A i \in 1..Len(r) : \E k \in 1..Len(s) : r[i] = s[k]
    <3>1. CASE Len(s) > Lag
      <4> SUFFICES ASSUME NEW i \in 1..Len(r) PROVE r[i] = s[i + 1] /\ i + 1 \in 1..Len(s)
        OBVIOUS
      <4> QED BY <1>0, <3>1
    <3>2. CASE ~(Len(s) > Lag)
      BY <3>2
    <3> QED BY <3>1, <3>2
  <2>4. /\ Append(r, v) \in Seq(Version)
        /\ Len(Append(r, v)) = Len(r) + 1
        /\ Append(r, v)[Len(r) + 1] = v
        /\ \A i \in 1..Len(r) : Append(r, v)[i] = r[i]
    BY <2>2
  <2>5. Append(r, v) # <<>>
    BY <2>2, <2>4
  <2> HIDE DEF r
  <2>6. stream'[w] = Append(r, v)
    BY <2>1
  <2>7. stream' \in [Workloads -> Seq(Version) \ {<<>>}]
    BY <2>1, <2>4, <2>5
  <2>8. Stored(w)' = v
    BY <2>4, <2>6 DEF Stored
  <2>9. \A i \in 1..Len(stream'[w]) :
           \/ stream'[w][i] = v
           \/ \E k \in 1..Len(s) : stream'[w][i] = s[k]
    <3> SUFFICES ASSUME NEW i \in 1..Len(stream'[w]), i # Len(r) + 1
                 PROVE  \E k \in 1..Len(s) : stream'[w][i] = s[k]
      BY <2>4, <2>6
    <3>1. i \in 1..Len(r)
      BY <2>2, <2>4, <2>6
    <3> QED BY <3>1, <2>3, <2>4, <2>6
  <2> QED BY <2>1, <2>7, <2>8, <2>9
<1> QED BY <1>1, <1>2

\* Dropping the head of a stream of two or more versions.
LEMMA TailLemma ==
  ASSUME NEW s \in Seq(Version), Len(s) > 1
  PROVE  /\ Tail(s) \in Seq(Version) \ {<<>>}
         /\ Len(Tail(s)) = Len(s) - 1
         /\ \A i \in 1..Len(Tail(s)) : Tail(s)[i] = s[i + 1]
<1>1. Tail(s) \in Seq(Version) /\ Len(Tail(s)) = Len(s) - 1
  OBVIOUS
<1>2. Tail(s) # <<>>
  <2>1. Len(<<>>) = 0
    OBVIOUS
  <2>2. Len(Tail(s)) # 0
    BY <1>1
  <2> QED BY <2>1, <2>2
<1>3. \A i \in 1..Len(Tail(s)) : Tail(s)[i] = s[i + 1]
  OBVIOUS
<1> QED BY <1>1, <1>2, <1>3

\* What every loop in progress knows: an idle thread holds no workload, and a
\* resuming thread only holds workloads that were listed with an annotation.
ControlOK ==
  \A t \in Threads :
    /\ job[t] = "none" => todo[t] = {} /\ cur[t] = {}
    /\ job[t] \in ResumeJobs =>
         \A w \in todo[t] \cup cur[t] : listed[t][w].orig # NoAnnotation

\* The object a patch leaves behind is again an object.
LEMMA VersionLemma ==
  ASSUME TypeOK, ControlOK, NEW t \in Threads, NEW w \in Workloads, w \in cur[t]
  PROVE  MergePatch(base[t], Wanted(t, w), Stored(w)) \in Version
<1>1. base[t] \in Version /\ Stored(w) \in Version /\ listed[t][w] \in Version
  BY DEF TypeOK, Stored
<1>2. job[t] \in FreezeJobs \/ (job[t] \in ResumeJobs /\ listed[t][w].orig \in Nat)
  <2>1. job[t] \in Jobs /\ job[t] # "none"
    BY DEF TypeOK, ControlOK
  <2>2. job[t] \in ResumeJobs => listed[t][w].orig # NoAnnotation
    BY DEF ControlOK
  <2>3. job[t] \in FreezeJobs \/ job[t] \in ResumeJobs
    BY <2>1 DEF Jobs, FreezeJobs, ResumeJobs
  <2>4. listed[t][w].orig \in Nat \cup {NoAnnotation}
    BY <1>1 DEF Version
  <2> QED BY <2>2, <2>3, <2>4
<1>3. Override[w] \in Nat \cup {Unset}
  BY ConstantsAssumption
<1>4. Wanted(t, w) \in Version
  <2>1. CASE job[t] \in FreezeJobs
    <3>1. Wanted(t, w) = Frozen(w, base[t], Overrides(t, w))
      BY <2>1 DEF Wanted
    <3> QED BY <3>1, <1>1, <1>3 DEF Frozen, Version, EncodeGrace, NilText, Unset, NoAnnotation
  <2>2. CASE job[t] \in ResumeJobs /\ listed[t][w].orig \in Nat
    <3>1. Wanted(t, w) = Resumed(base[t], listed[t][w].orig)
      BY <2>2 DEF Wanted, FreezeJobs, ResumeJobs
    <3> QED BY <3>1, <2>2, <1>1 DEF Resumed, Version, DecodeGrace, NilText, Unset, NoAnnotation
  <2> QED BY <1>2, <2>1, <2>2
<1> QED BY <1>1, <1>4 DEF MergePatch, Version

\* Every version of a workload in flight is a version.
LEMMA CachedStoredType ==
  ASSUME TypeOK, NEW w \in Workloads
  PROVE  Cached(w) \in Version /\ Stored(w) \in Version
BY DEF TypeOK, Cached, Stored

\* Every step preserves the types and the control invariant.
LEMMA TypeStep == TypeOK /\ ControlOK /\ [Next]_vars => TypeOK' /\ ControlOK'
<1> SUFFICES ASSUME TypeOK, ControlOK, [Next]_vars PROVE TypeOK' /\ ControlOK'
  OBVIOUS
<1>b. Blank \in Version
  BY DEF Blank, Version, NoAnnotation, Unset
<1>1. ASSUME NEW t \in Threads, NEW j \in Jobs \ {"none"}, NEW S \in SUBSET Workloads,
             List(t, j, S)
      PROVE  TypeOK' /\ ControlOK'
  <2>1. PhaseDuring(t, j) \in Phases
    BY DEF PhaseDuring, Phases, TypeOK
  <2>2. Selected(j, S) \in SUBSET Workloads
    BY DEF Selected
  <2>3. [w \in Workloads |-> Cached(w)] \in [Workloads -> Version]
    BY CachedStoredType
  <2>4. TypeOK'
    <3>1. listed' \in [Threads -> [Workloads -> Version]]
      BY <1>1, <2>3 DEF TypeOK, List
    <3>2. todo' \in [Threads -> SUBSET Workloads]
      BY <1>1, <2>2 DEF TypeOK, List
    <3> QED BY <1>1, <2>1, <3>1, <3>2 DEF TypeOK, List
  <2>5. cur[t] = {} /\ (j \in ResumeJobs => \A w \in Selected(j, S) : Cached(w).orig # NoAnnotation)
    BY <1>1 DEF ControlOK, List, Selected, NotFrozen
  <2>6. ControlOK'
    BY <1>1, <2>2, <2>5 DEF ControlOK, List, TypeOK
  <2> QED BY <2>4, <2>6
<1>2. ASSUME NEW t \in Threads, NEW w \in Workloads, Fetch(t, w)
      PROVE  TypeOK' /\ ControlOK'
  <2>1. TypeOK'
    <3>1. base' \in [Threads -> Version]
      BY <1>2, CachedStoredType DEF Fetch, TypeOK
    <3>2. cur' \in [Threads -> SUBSET Workloads]
      <4>1. {w} \in SUBSET Workloads
        OBVIOUS
      <4>2. cur' = cur \/ cur' = [cur EXCEPT ![t] = {w}]
        BY <1>2 DEF Fetch
      <4> QED BY <4>1, <4>2 DEF TypeOK
    <3>3. todo' \in [Threads -> SUBSET Workloads]
      BY <1>2 DEF Fetch, TypeOK
    <3> QED BY <1>2, <3>1, <3>2, <3>3 DEF Fetch, TypeOK
  <2>2. ControlOK'
    BY <1>2 DEF Fetch, TypeOK, ControlOK
  <2> QED BY <2>1, <2>2
<1>3. ASSUME NEW t \in Threads, NEW w \in Workloads, Patch(t, w)
      PROVE  TypeOK' /\ ControlOK'
  <2>1. stream' \in [Workloads -> Seq(Version) \ {<<>>}]
    BY <1>3, VersionLemma, PublishLemma DEF Patch, TypeOK
  <2>2. TypeOK'
    BY <1>3, <1>b, <2>1 DEF Patch, TypeOK
  <2>3. ControlOK'
    BY <1>3 DEF Patch, TypeOK, ControlOK
  <2> QED BY <2>2, <2>3
<1>4. ASSUME NEW t \in Threads, EndJob(t), phase' \in Phases
      PROVE  TypeOK' /\ ControlOK'
  <2>1. TypeOK'
    BY <1>4, <1>b DEF EndJob, TypeOK, Jobs
  <2>2. ControlOK'
    BY <1>4 DEF EndJob, TypeOK, ControlOK
  <2> QED BY <2>1, <2>2
<1>5. ASSUME NEW t \in Threads, LenientError(t)
      PROVE  TypeOK' /\ ControlOK'
  BY <1>5, <1>b DEF LenientError, TypeOK, ControlOK
<1>6. ASSUME NEW w \in Workloads, Deliver(w)
      PROVE  TypeOK' /\ ControlOK'
  <2>1. stream[w] \in Seq(Version) /\ Len(stream[w]) > 1
    BY <1>6 DEF Deliver, TypeOK
  <2>2. Tail(stream[w]) \in Seq(Version) \ {<<>>}
    BY <2>1, TailLemma
  <2> QED BY <1>6, <2>2 DEF Deliver, TypeOK, ControlOK
<1>7. ASSUME Crash PROVE TypeOK' /\ ControlOK'
  <2>1. \A w \in Workloads : <<Stored(w)>> \in Seq(Version) \ {<<>>}
    BY CachedStoredType
  <2> QED BY <1>7, <1>b, <2>1 DEF Crash, TypeOK, ControlOK, Jobs
<1>8. ASSUME NEW w \in Workloads, NEW n \in 0..MaxReplicas
      PROVE  [Stored(w) EXCEPT !.replicas = n] \in Version /\ n \in Nat
  BY CachedStoredType, ConstantsAssumption DEF Version
<1>9. ASSUME NEW w \in Workloads, NEW n \in 0..MaxReplicas, Scale(w, n)
      PROVE  TypeOK' /\ ControlOK'
  <2>1. <<[Stored(w) EXCEPT !.replicas = n]>> \in Seq(Version) \ {<<>>}
    BY <1>8
  <2> QED BY <1>8, <1>9, <2>1 DEF Scale, TypeOK, ControlOK
<1>10. ASSUME NEW w \in Workloads, NEW n \in 0..MaxReplicas, RacyScale(w, n)
       PROVE  TypeOK' /\ ControlOK'
  <2>1. stream' \in [Workloads -> Seq(Version) \ {<<>>}]
    BY <1>8, <1>10, PublishLemma DEF RacyScale, TypeOK
  <2> QED BY <1>8, <1>10, <2>1 DEF RacyScale, TypeOK, ControlOK
<1>11. ASSUME NEW t \in Threads, Finish(t) \/ StrictError(t)
       PROVE  EndJob(t) /\ phase' \in Phases
  BY <1>11 DEF Finish, StrictError, PhaseAfter, Phases, TypeOK
<1>12. CASE UNCHANGED vars
  BY <1>12 DEF vars, TypeOK, ControlOK
<1>13. "NodeFailure" \in Jobs \ {"none"}
  BY DEF Jobs
<1> QED
  BY <1>1, <1>2, <1>3, <1>4, <1>5, <1>6, <1>7, <1>9, <1>10, <1>11, <1>12, <1>13
  DEF Next, Thread, Owner

\* The types hold in the initial states.
LEMMA TypeInit == Init => TypeOK /\ ControlOK
<1> SUFFICES ASSUME Init PROVE TypeOK /\ ControlOK
  OBVIOUS
<1>1. Blank \in Version
  BY DEF Blank, Version, NoAnnotation, Unset
<1>2. want \in [Workloads -> Nat]
  BY ConstantsAssumption DEF Init
<1>3. \A w \in Workloads : Created(w, want[w]) \in Version
  BY <1>2, ConstantsAssumption DEF Created, Version, NoAnnotation, Unset
<1>4. \A w \in Workloads : <<Created(w, want[w])>> \in Seq(Version) \ {<<>>}
  <2> SUFFICES ASSUME NEW w \in Workloads, NEW v \in Version
               PROVE  <<v>> \in Seq(Version) \ {<<>>}
    BY <1>3
  <2> QED OBVIOUS
<1>5. TypeOK
  BY <1>1, <1>2, <1>4 DEF Init, TypeOK, Jobs, Phases
<1>6. ControlOK
  BY DEF Init, ControlOK, ResumeJobs
<1> QED BY <1>5, <1>6

\* Every reachable state has its type, whatever the lag, the races and the
\* failures.
THEOREM TypeCorrect == Spec => []TypeOK
<1>1. Init => TypeOK /\ ControlOK
  BY TypeInit
<1>2. TypeOK /\ ControlOK /\ [Next]_vars => (TypeOK /\ ControlOK)'
  BY TypeStep
<1> QED BY <1>1, <1>2, PTL DEF Spec
(***************************************************************************)
(* The counts.  OriginalCountKept speaks of the stored version only, and   *)
(* is not inductive: a thread may hold an old version, or the cache may    *)
(* serve one, and write what it derives from it.  Every version in flight  *)
(* must therefore be one from which the count can be restored.             *)
(***************************************************************************)
CountInv ==
  /\ \A w \in Workloads : \A i \in 1..Len(stream[w]) : CountOK(w, stream[w][i])
  /\ \A t \in Threads : job[t] \in ResumeJobs =>
       \A w \in todo[t] \cup cur[t] : listed[t][w].orig = want[w]
  /\ \A t \in Threads : \A w \in cur[t] :
       /\ CountOK(w, base[t])
       /\ IF job[t] \in FreezeJobs THEN base[t].replicas # 0
                                   ELSE base[t].orig # NoAnnotation

\* The cached and the stored version record the right count.
LEMMA CountCached ==
  ASSUME TypeOK, CountInv, NEW w \in Workloads
  PROVE  CountOK(w, Cached(w)) /\ CountOK(w, Stored(w))
<1>1. stream[w] \in Seq(Version) /\ stream[w] # <<>> /\ Len(stream[w]) \in Nat /\ Len(stream[w]) > 0
  BY DEF TypeOK
<1>2. Cached(w) = stream[w][1] /\ Stored(w) = stream[w][Len(stream[w])]
  BY <1>1 DEF Cached, Stored
<1> QED BY <1>1, <1>2 DEF CountInv

\* A patch derived from a version with the right count, fresh or stale, leaves
\* a version with the right count: it always writes both count and annotation.
LEMMA PatchKeepsCount ==
  ASSUME TypeOK, ControlOK, CountInv, NEW t \in Threads, NEW w \in Workloads, w \in cur[t]
  PROVE  CountOK(w, MergePatch(base[t], Wanted(t, w), Stored(w)))
<1>1. /\ base[t] \in Version /\ CountOK(w, base[t]) /\ want[w] \in Nat
      /\ job[t] \in Jobs /\ job[t] # "none"
  BY DEF TypeOK, CountInv, ControlOK
<1>2. CASE job[t] \in FreezeJobs
  <2>1. base[t].replicas # 0 /\ base[t].replicas = want[w] /\ base[t].orig = NoAnnotation
    BY <1>1, <1>2 DEF CountInv, CountOK
  <2>2. Wanted(t, w).replicas = 0 /\ Wanted(t, w).orig = want[w]
    BY <1>2, <2>1 DEF Wanted, Frozen
  <2> QED BY <1>1, <2>1, <2>2 DEF MergePatch, CountOK, NoAnnotation
<1>3. CASE job[t] \in ResumeJobs
  <2>1. job[t] \notin FreezeJobs
    BY <1>3 DEF FreezeJobs, ResumeJobs
  <2>2. base[t].replicas = 0 /\ base[t].orig = want[w] /\ want[w] # 0
    BY <1>1, <2>1 DEF CountInv, CountOK
  <2>3. Wanted(t, w).replicas = want[w] /\ Wanted(t, w).orig = NoAnnotation
    BY <1>3, <2>1 DEF Wanted, Resumed, CountInv
  <2> QED BY <1>1, <2>2, <2>3 DEF MergePatch, CountOK, NoAnnotation
<1> QED BY <1>1, <1>2, <1>3 DEF Jobs, FreezeJobs, ResumeJobs

\* Every step preserves CountInv when owners do not scale during operations.
LEMMA CountStep ==
  ASSUME "racyScale" \notin Features, TypeOK, ControlOK, CountInv, [Next]_vars
  PROVE  CountInv'
<1> DEFINE StreamInv == \A w \in Workloads : \A i \in 1..Len(stream[w]) : CountOK(w, stream[w][i])
           ListInv   == \A t \in Threads : job[t] \in ResumeJobs =>
                          \A w \in todo[t] \cup cur[t] : listed[t][w].orig = want[w]
           BaseInv   == \A t \in Threads : \A w \in cur[t] :
                          /\ CountOK(w, base[t])
                          /\ IF job[t] \in FreezeJobs THEN base[t].replicas # 0
                                                      ELSE base[t].orig # NoAnnotation
<1>0. CountInv <=> StreamInv /\ ListInv /\ BaseInv
  BY DEF CountInv
<1>1. ASSUME NEW t \in Threads, NEW j \in Jobs, NEW S \in SUBSET Workloads, List(t, j, S)
      PROVE  CountInv'
  <2>1. StreamInv'
    BY <1>0, <1>1 DEF List, CountOK
  <2>2. cur[t] = {}
    BY <1>1 DEF List, ControlOK
  <2>3. ListInv'
    <3> SUFFICES ASSUME NEW u \in Threads, job'[u] \in ResumeJobs, NEW w \in todo'[u] \cup cur'[u]
                 PROVE  listed'[u][w].orig = want[w]
      BY <1>1 DEF List
    <3>1. CASE u = t
      <4>1. j \in ResumeJobs /\ w \in Workloads /\ Cached(w).orig # NoAnnotation
        BY <1>1, <2>2, <3>1 DEF List, TypeOK, Selected, NotFrozen
      <4>2. listed'[u][w] = Cached(w)
        BY <1>1, <3>1, <4>1 DEF List, TypeOK
      <4> QED BY <4>1, <4>2, CountCached DEF CountOK
    <3>2. CASE u # t
      BY <1>0, <1>1, <3>2 DEF List, TypeOK
    <3> QED BY <3>1, <3>2
  <2>4. BaseInv'
    BY <1>0, <1>1, <2>2 DEF List, TypeOK, CountOK
  <2> QED BY <1>0, <2>1, <2>3, <2>4 DEF CountInv
<1>2. ASSUME NEW t \in Threads, NEW w \in Workloads, Fetch(t, w)
      PROVE  CountInv'
  <2>1. StreamInv'
    BY <1>0, <1>2 DEF Fetch, CountOK
  <2>2. ListInv'
    BY <1>0, <1>2 DEF Fetch, TypeOK
  <2>3. BaseInv'
    <3>1. CASE Skips(t, w)
      BY <1>0, <1>2, <3>1 DEF Fetch, TypeOK, CountOK
    <3>2. CASE ~Skips(t, w)
      <4>1. IF job[t] \in FreezeJobs THEN Cached(w).replicas # 0 ELSE Cached(w).orig # NoAnnotation
        BY <3>2 DEF Skips, AlreadyFrozen, NotFrozen
      <4>2. CountOK(w, Cached(w))
        BY CountCached
      <4>3. /\ cur' = [cur EXCEPT ![t] = {w}] /\ base' = [base EXCEPT ![t] = Cached(w)]
            /\ job' = job /\ want' = want
        BY <1>2, <3>2 DEF Fetch
      <4>4. cur'[t] = {w} /\ base'[t] = Cached(w)
        BY <4>3 DEF TypeOK
      <4>5. \A u \in Threads \ {t} : cur'[u] = cur[u] /\ base'[u] = base[u]
        BY <4>3 DEF TypeOK
      <4> QED BY <1>0, <4>1, <4>2, <4>3, <4>4, <4>5 DEF CountOK
    <3> QED BY <3>1, <3>2
  <2> QED BY <1>0, <2>1, <2>2, <2>3 DEF CountInv
<1>3. ASSUME NEW t \in Threads, NEW w \in Workloads, Patch(t, w)
      PROVE  CountInv'
  <2> DEFINE v == MergePatch(base[t], Wanted(t, w), Stored(w))
  <2>1. v \in Version /\ CountOK(w, v)
    BY <1>3, VersionLemma, PatchKeepsCount DEF Patch
  <2> HIDE DEF v
  <2>2. /\ Publish(w, v) /\ want' = want
        /\ stream \in [Workloads -> Seq(Version) \ {<<>>}]
    BY <1>3 DEF Patch, TypeOK, v
  <2>3. /\ \A u \in Workloads \ {w} : stream'[u] = stream[u]
        /\ \A i \in 1..Len(stream'[w]) :
              \/ stream'[w][i] = v
              \/ \E k \in 1..Len(stream[w]) : stream'[w][i] = stream[w][k]
    BY <2>1, <2>2, PublishLemma
  <2>4. StreamInv'
    BY <1>0, <2>1, <2>2, <2>3 DEF CountOK
  <2>5. ListInv' /\ BaseInv'
    BY <1>0, <1>3 DEF Patch, TypeOK, CountOK
  <2> QED BY <1>0, <2>4, <2>5 DEF CountInv
<1>4. ASSUME NEW t \in Threads, EndJob(t) PROVE CountInv'
  BY <1>0, <1>4 DEF EndJob, TypeOK, CountOK, CountInv, ResumeJobs
<1>5. ASSUME NEW t \in Threads, LenientError(t) PROVE CountInv'
  BY <1>0, <1>5 DEF LenientError, TypeOK, CountOK, CountInv
<1>6. ASSUME NEW w \in Workloads, Deliver(w) PROVE CountInv'
  <2>1. stream[w] \in Seq(Version) /\ Len(stream[w]) > 1 /\ Len(stream[w]) \in Nat
    BY <1>6 DEF Deliver, TypeOK
  <2>2. stream'[w] = Tail(stream[w]) /\ \A u \in Workloads \ {w} : stream'[u] = stream[u]
    BY <1>6 DEF Deliver, TypeOK
  <2>3. \A i \in 1..Len(stream'[w]) : i + 1 \in 1..Len(stream[w]) /\ stream'[w][i] = stream[w][i + 1]
    BY <2>1, <2>2, TailLemma
  <2>4. StreamInv'
    BY <1>0, <1>6, <2>2, <2>3 DEF Deliver, CountOK
  <2>5. ListInv' /\ BaseInv'
    BY <1>0, <1>6 DEF Deliver, CountOK
  <2> QED BY <1>0, <2>4, <2>5 DEF CountInv
<1>7. ASSUME Crash PROVE CountInv'
  <2>1. \A w \in Workloads : stream'[w] = <<Stored(w)>> /\ CountOK(w, Stored(w))
    BY <1>7, CountCached DEF Crash
  <2>2. StreamInv'
    BY <1>7, <2>1 DEF Crash, CountOK
  <2>3. ListInv' /\ BaseInv'
    BY <1>7 DEF Crash
  <2> QED BY <1>0, <2>2, <2>3 DEF CountInv
<1>8. ASSUME NEW w \in Workloads, NEW n \in 0..MaxReplicas, Scale(w, n)
      PROVE  CountInv'
  <2>1. n \in Nat /\ Stored(w) \in Version /\ Stored(w).orig = NoAnnotation
    BY <1>8, ConstantsAssumption, CachedStoredType DEF Scale, NotFrozen
  <2>2. /\ stream'[w] = <<[Stored(w) EXCEPT !.replicas = n]>>
        /\ want'[w] = n
        /\ \A u \in Workloads \ {w} : stream'[u] = stream[u] /\ want'[u] = want[u]
    BY <1>8 DEF Scale, TypeOK
  <2>3. StreamInv'
    BY <1>0, <2>1, <2>2 DEF CountOK, Version
  <2>4. \A t \in Threads : todo[t] = {} /\ cur[t] = {}
    BY <1>8 DEF Scale, ControlOK
  <2>5. ListInv' /\ BaseInv'
    BY <1>8, <2>4 DEF Scale
  <2> QED BY <1>0, <2>3, <2>5 DEF CountInv
<1>9. CASE UNCHANGED vars
  BY <1>9 DEF vars, CountInv, CountOK
<1>10. "NodeFailure" \in Jobs
  BY DEF Jobs
<1> QED
  BY <1>1, <1>2, <1>3, <1>4, <1>5, <1>6, <1>7, <1>8, <1>9, <1>10
  DEF Next, Thread, Owner, RacyScale, Finish, StrictError

\* CountInv holds in the initial states.
LEMMA CountInit == Init => CountInv
<1> SUFFICES ASSUME Init PROVE CountInv
  OBVIOUS
<1>1. \A w \in Workloads : CountOK(w, Created(w, want[w]))
  BY DEF Created, CountOK
<1>2. \A w \in Workloads : Len(stream[w]) = 1 /\ stream[w][1] = Created(w, want[w])
  BY DEF Init
<1> QED BY <1>1, <1>2 DEF Init, CountInv, ResumeJobs

\* For every number of workloads, every replica bound and every lag of the
\* cache, with both threads at work, crashes, API errors and node failures, the
\* count a workload's owner asked for is never lost, provided the owner does
\* not scale a workload while an operation on its namespace is under way.
THEOREM CountsAreKept ==
  ASSUME "racyScale" \notin Features
  PROVE  Spec => []OriginalCountKept
<1> DEFINE Inv == TypeOK /\ ControlOK /\ CountInv
<1>1. Init => Inv
  BY TypeInit, CountInit
<1>2. Inv /\ [Next]_vars => Inv'
  BY TypeStep, CountStep
<1>3. Inv => OriginalCountKept
  BY CountCached DEF OriginalCountKept
<1> QED BY <1>1, <1>2, <1>3, PTL DEF Spec
=============================================================================
