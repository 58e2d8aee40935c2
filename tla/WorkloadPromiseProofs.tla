----------------------- MODULE WorkloadPromiseProofs -----------------------
(***************************************************************************)
(* Proofs that freezing and resuming strand no workload, keep the grace    *)
(* periods and implement WorkloadPromise.  They share one description of a *)
(* step: what it may add to the versions from which the operator acts.     *)
(***************************************************************************)
EXTENDS WorkloadScalingProofs

(***************************************************************************)
(* What a step does to the versions from which the operator may still act. *)
(***************************************************************************)
InStream(w) == {stream[w][i] : i \in 1..Len(stream[w])}

\* A new stored version: a patch by some thread, or a count of the owner's.
Patched(w, v) ==
  /\ want' = want
  /\ \E t \in Threads : w \in cur[t] /\ v = MergePatch(base[t], Wanted(t, w), Stored(w))
Scaled(w, v) ==
  \E n \in 0..MaxReplicas :
    /\ NotFrozen(Stored(w)) /\ v = [Stored(w) EXCEPT !.replicas = n]
    /\ want' = [want EXCEPT ![w] = n]

\* Every version in a stream is an old one or the one just written.
StreamStep ==
  \/ /\ want' = want
     /\ \A u \in Workloads : Stored(u)' = Stored(u) /\ InStream(u)' \subseteq InStream(u)
  \/ \E w \in Workloads, v \in Version :
       /\ Patched(w, v) \/ Scaled(w, v)
       /\ Stored(w)' = v /\ InStream(w)' \subseteq InStream(w) \cup {v}
       /\ \A u \in Workloads \ {w} : stream'[u] = stream[u]

\* What a thread has fetched or listed comes from the cache.
ThreadStep ==
  \A t \in Threads :
    /\ \A w \in cur'[t] :
         \/ w \in cur[t] /\ base'[t] = base[t] /\ job'[t] = job[t]
         \/ w \in Workloads /\ base'[t] = Cached(w) /\ ~Skips(t, w) /\ job'[t] = job[t]
    /\ job'[t] \in ResumeJobs => \A w \in todo'[t] \cup cur'[t] :
         \/ w \in todo[t] \cup cur[t] /\ listed'[t][w] = listed[t][w] /\ job'[t] = job[t]
         \/ w \in Workloads /\ listed'[t][w] = Cached(w) /\ ~NotFrozen(Cached(w))

\* The versions in a stream before and after a write.
LEMMA PublishFlight ==
  ASSUME TypeOK, NEW w \in Workloads, NEW v \in Version, Publish(w, v)
  PROVE  /\ Stored(w)' = v /\ InStream(w)' \subseteq InStream(w) \cup {v}
         /\ \A u \in Workloads \ {w} : stream'[u] = stream[u]
<1>1. /\ Stored(w)' = v
      /\ \A u \in Workloads \ {w} : stream'[u] = stream[u]
      /\ \A i \in 1..Len(stream'[w]) :
           \/ stream'[w][i] = v
           \/ \E k \in 1..Len(stream[w]) : stream'[w][i] = stream[w][k]
  BY PublishLemma DEF TypeOK
<1> QED BY <1>1 DEF InStream

\* A step that leaves the streams alone.
LEMMA QuietStream == ASSUME UNCHANGED <<stream, want>> PROVE StreamStep
BY DEF StreamStep, InStream, Stored

\* Every step is one that StreamStep describes.
LEMMA NextStream == TypeOK /\ ControlOK /\ [Next]_vars => StreamStep
<1> SUFFICES ASSUME TypeOK, ControlOK, [Next]_vars PROVE StreamStep
  OBVIOUS
<1>1. ASSUME NEW t \in Threads, NEW j, NEW S, List(t, j, S) PROVE StreamStep
  BY <1>1, QuietStream DEF List
<1>2. ASSUME NEW t \in Threads, NEW w \in Workloads, Fetch(t, w) PROVE StreamStep
  BY <1>2, QuietStream DEF Fetch
<1>3. ASSUME NEW t \in Threads, NEW w \in Workloads, Patch(t, w) PROVE StreamStep
  <2> DEFINE v == MergePatch(base[t], Wanted(t, w), Stored(w))
  <2>1. v \in Version /\ Publish(w, v) /\ Patched(w, v)
    BY <1>3, VersionLemma DEF Patch, Patched
  <2> HIDE DEF v
  <2> QED BY <2>1, PublishFlight DEF StreamStep
<1>4. ASSUME NEW t \in Threads, Finish(t) \/ StrictError(t) \/ LenientError(t) PROVE StreamStep
  BY <1>4, QuietStream DEF Finish, StrictError, LenientError, EndJob
<1>5. ASSUME NEW w \in Workloads, Deliver(w) PROVE StreamStep
  <2>1. stream[w] \in Seq(Version) /\ Len(stream[w]) > 1 /\ Len(stream[w]) \in Nat
    BY <1>5 DEF Deliver, TypeOK
  <2>2. stream'[w] = Tail(stream[w]) /\ \A u \in Workloads \ {w} : stream'[u] = stream[u]
    BY <1>5 DEF Deliver, TypeOK
  <2>3. /\ Len(stream'[w]) = Len(stream[w]) - 1
        /\ \A i \in 1..Len(stream'[w]) : i + 1 \in 1..Len(stream[w]) /\ stream'[w][i] = stream[w][i + 1]
    BY <2>1, <2>2, TailLemma
  <2>4. Stored(w)' = Stored(w)
    BY <2>1, <2>3 DEF Stored
  <2>5. InStream(w)' \subseteq InStream(w)
    BY <2>3 DEF InStream
  <2> QED BY <1>5, <2>2, <2>4, <2>5 DEF Deliver, StreamStep, Stored, InStream
<1>6. CASE Crash
  <2>1. ASSUME NEW w \in Workloads
        PROVE  Stored(w)' = Stored(w) /\ InStream(w)' \subseteq InStream(w)
    <3>1. stream'[w] = <<Stored(w)>>
      BY <1>6 DEF Crash
    <3>2. Len(stream[w]) \in 1..Len(stream[w])
      BY DEF TypeOK
    <3>3. Len(stream'[w]) = 1 /\ stream'[w][1] = Stored(w)
      BY <3>1
    <3> QED BY <3>2, <3>3 DEF Stored, InStream
  <2> QED BY <1>6, <2>1 DEF Crash, StreamStep
<1>7. ASSUME NEW w \in Workloads, NEW n \in 0..MaxReplicas
      PROVE  [Stored(w) EXCEPT !.replicas = n] \in Version
  BY CachedStoredType, ConstantsAssumption DEF Version
<1>8. ASSUME NEW w \in Workloads, NEW n \in 0..MaxReplicas, Scale(w, n) PROVE StreamStep
  <2> DEFINE v == [Stored(w) EXCEPT !.replicas = n]
  <2>1. v \in Version /\ Scaled(w, v)
    BY <1>7, <1>8 DEF Scale, Scaled
  <2>2. stream'[w] = <<v>> /\ \A u \in Workloads \ {w} : stream'[u] = stream[u]
    BY <1>8 DEF Scale, TypeOK
  <2> HIDE DEF v
  <2>3. Stored(w)' = v /\ InStream(w)' \subseteq InStream(w) \cup {v}
    BY <2>2 DEF Stored, InStream
  <2> QED BY <2>1, <2>2, <2>3 DEF StreamStep
<1>9. ASSUME NEW w \in Workloads, NEW n \in 0..MaxReplicas, RacyScale(w, n) PROVE StreamStep
  <2> DEFINE v == [Stored(w) EXCEPT !.replicas = n]
  <2>1. v \in Version /\ Publish(w, v) /\ Scaled(w, v)
    BY <1>7, <1>9 DEF RacyScale, Scaled
  <2> HIDE DEF v
  <2> QED BY <2>1, PublishFlight DEF StreamStep
<1>10. CASE UNCHANGED vars
  BY <1>10, QuietStream DEF vars
<1> QED BY <1>1, <1>2, <1>3, <1>4, <1>5, <1>6, <1>8, <1>9, <1>10 DEF Next, Thread, Owner

\* Every step is one that ThreadStep describes.
LEMMA NextThread == TypeOK /\ ControlOK /\ [Next]_vars => ThreadStep
<1> SUFFICES ASSUME TypeOK, ControlOK, [Next]_vars PROVE ThreadStep
  OBVIOUS
<1>1. ASSUME NEW t \in Threads, NEW j, NEW S, List(t, j, S) PROVE ThreadStep
  <2>1. cur[t] = {}
    BY <1>1 DEF List, ControlOK
  <2>2. j \in ResumeJobs => \A w \in Selected(j, S) : w \in Workloads /\ ~NotFrozen(Cached(w))
    BY DEF Selected
  <2> QED BY <1>1, <2>1, <2>2 DEF List, ThreadStep, TypeOK
<1>2. ASSUME NEW t \in Threads, NEW w \in Workloads, Fetch(t, w) PROVE ThreadStep
  BY <1>2 DEF Fetch, ThreadStep, TypeOK
<1>3. ASSUME NEW t \in Threads, NEW w \in Workloads, Patch(t, w) PROVE ThreadStep
  BY <1>3 DEF Patch, ThreadStep, TypeOK
<1>4. ASSUME NEW t \in Threads, EndJob(t) PROVE ThreadStep
  BY <1>4 DEF EndJob, ThreadStep, TypeOK, ResumeJobs
<1>5. ASSUME NEW t \in Threads, LenientError(t) PROVE ThreadStep
  BY <1>5 DEF LenientError, ThreadStep, TypeOK
<1>6. CASE Crash
  BY <1>6 DEF Crash, ThreadStep, ResumeJobs
<1>7. CASE UNCHANGED <<job, todo, listed, cur, base>>
  BY <1>7 DEF ThreadStep
<1> QED BY <1>1, <1>2, <1>3, <1>4, <1>5, <1>6, <1>7
        DEF Next, Thread, Owner, Finish, StrictError, Deliver, Scale, RacyScale, vars

(***************************************************************************)
(* NeverStranded.  A version with an annotation is at zero and records a   *)
(* count other than zero, whatever races: a resume that reads it brings    *)
(* the workload up.                                                        *)
(***************************************************************************)
AnnotatedOK(v) == v.orig # NoAnnotation => v.replicas = 0 /\ v.orig # 0

AnnotationInv ==
  /\ \A w \in Workloads : \A v \in InStream(w) : AnnotatedOK(v)
  /\ \A t \in Threads : \A w \in cur[t] :
       /\ AnnotatedOK(base[t])
       /\ IF job[t] \in FreezeJobs THEN base[t].replicas # 0 ELSE base[t].orig # NoAnnotation
  /\ \A t \in Threads : job[t] \in ResumeJobs =>
       \A w \in todo[t] \cup cur[t] : listed[t][w].orig \notin {NoAnnotation, 0}
  /\ NeverStranded

\* The cached and the stored version are in the stream.
LEMMA EndsInStream ==
  ASSUME TypeOK, NEW w \in Workloads
  PROVE  Cached(w) \in InStream(w) /\ Stored(w) \in InStream(w)
<1>1. stream[w] \in Seq(Version) /\ Len(stream[w]) \in Nat /\ Len(stream[w]) > 0
  BY DEF TypeOK
<1>2. Cached(w) = stream[w][1] /\ Stored(w) = stream[w][Len(stream[w])]
  BY <1>1 DEF Cached, Stored
<1> QED BY <1>1, <1>2 DEF InStream

\* What a thread patches: a freeze writes zero and the annotation, a resume the
\* count it listed and no annotation, whatever the stored version was.
LEMMA PatchWritesBoth ==
  ASSUME TypeOK, ControlOK, AnnotationInv, NEW t \in Threads, NEW w \in Workloads, w \in cur[t]
  PROVE  LET v == MergePatch(base[t], Wanted(t, w), Stored(w)) IN
           \/ job[t] \in FreezeJobs /\ v.replicas = 0 /\ v.orig \in Nat \ {0}
           \/ job[t] \in ResumeJobs /\ v.replicas # 0 /\ v.orig = NoAnnotation
<1>1. /\ base[t] \in Version /\ AnnotatedOK(base[t])
      /\ job[t] \in Jobs /\ job[t] # "none"
      /\ IF job[t] \in FreezeJobs THEN base[t].replicas # 0 ELSE base[t].orig # NoAnnotation
      /\ job[t] \in ResumeJobs => listed[t][w].orig \notin {NoAnnotation, 0}
  BY DEF TypeOK, AnnotationInv, ControlOK
<1>2. CASE job[t] \in FreezeJobs
  <2>1. base[t].replicas \in Nat \ {0} /\ base[t].orig = NoAnnotation
    BY <1>1, <1>2 DEF AnnotatedOK, Version
  <2>2. Wanted(t, w).replicas = 0 /\ Wanted(t, w).orig = base[t].replicas
    BY <1>2 DEF Wanted, Frozen
  <2> QED BY <1>2, <2>1, <2>2 DEF MergePatch, NoAnnotation
<1>3. CASE job[t] \in ResumeJobs
  <2>1. job[t] \notin FreezeJobs
    BY <1>3 DEF FreezeJobs, ResumeJobs
  <2>2. base[t].replicas = 0 /\ base[t].orig # NoAnnotation
    BY <1>1, <2>1 DEF AnnotatedOK
  <2>3. Wanted(t, w).replicas = listed[t][w].orig /\ Wanted(t, w).orig = NoAnnotation
    BY <2>1 DEF Wanted, Resumed
  <2> QED BY <1>1, <1>3, <2>2, <2>3 DEF MergePatch
<1> QED BY <1>1, <1>2, <1>3 DEF Jobs, FreezeJobs, ResumeJobs

\* The invariant holds at first: there are no annotations.
LEMMA AnnotationInit == Init => AnnotationInv
<1> SUFFICES ASSUME Init PROVE AnnotationInv
  OBVIOUS
<1>1. \A w \in Workloads : Len(stream[w]) = 1 /\ stream[w][1] = Created(w, want[w])
  BY DEF Init
<1>2. \A w \in Workloads : \A v \in InStream(w) : v = Created(w, want[w])
  BY <1>1 DEF InStream
<1>3. NeverStranded
  <2>1. \A w \in Workloads : Stored(w) = Created(w, want[w])
    BY <1>1 DEF Stored
  <2>2. ASSUME NEW w \in Workloads PROVE Stored(w).replicas = want[w]
    <3>1. Created(w, want[w]).replicas = want[w]
      BY DEF Created
    <3> QED BY <2>1, <3>1
  <2> QED BY <2>2 DEF NeverStranded
<1> QED BY <1>2, <1>3 DEF Init, AnnotationInv, AnnotatedOK, Created, ResumeJobs

\* Every step keeps it.
LEMMA AnnotationStep ==
  ASSUME TypeOK, ControlOK, AnnotationInv, [Next]_vars
  PROVE  AnnotationInv'
<1>1. StreamStep /\ ThreadStep
  BY NextStream, NextThread
<1>2. ASSUME NEW w \in Workloads, NEW v \in Version, Patched(w, v)
      PROVE  AnnotatedOK(v) /\ (v.replicas = 0 /\ want'[w] # 0 => ~NotFrozen(v)) /\ want' = want
  BY <1>2, PatchWritesBoth DEF Patched, AnnotatedOK, NotFrozen, NoAnnotation
<1>3. ASSUME NEW w \in Workloads, NEW v \in Version, Scaled(w, v)
      PROVE  /\ AnnotatedOK(v) /\ (v.replicas = 0 /\ want'[w] # 0 => ~NotFrozen(v))
             /\ \A u \in Workloads \ {w} : want'[u] = want[u]
  <2>1. PICK n \in 0..MaxReplicas :
          NotFrozen(Stored(w)) /\ v = [Stored(w) EXCEPT !.replicas = n] /\ want' = [want EXCEPT ![w] = n]
    BY <1>3 DEF Scaled
  <2>2. v.orig = NoAnnotation /\ v.replicas = n /\ want'[w] = n
    BY <2>1, CachedStoredType DEF NotFrozen, Version, TypeOK
  <2> QED BY <2>1, <2>2 DEF AnnotatedOK, TypeOK
<1>4. \A w \in Workloads : \A v \in InStream(w)' : AnnotatedOK(v)
  BY <1>1, <1>2, <1>3 DEF StreamStep, AnnotationInv, InStream
<1>5. NeverStranded'
  <2>1. CASE want' = want /\ \A u \in Workloads : Stored(u)' = Stored(u)
    BY <2>1 DEF AnnotationInv, NeverStranded, NotFrozen
  <2>2. ASSUME NEW w \in Workloads, NEW v \in Version, Patched(w, v) \/ Scaled(w, v),
               Stored(w)' = v, \A u \in Workloads \ {w} : stream'[u] = stream[u]
        PROVE  NeverStranded'
    <3>1. \A u \in Workloads \ {w} : Stored(u)' = Stored(u) /\ want'[u] = want[u]
      BY <1>2, <1>3, <2>2 DEF Stored
    <3> QED BY <1>2, <1>3, <2>2, <3>1 DEF AnnotationInv, NeverStranded, NotFrozen
  <2> QED BY <1>1, <2>1, <2>2 DEF StreamStep
<1>6. ASSUME NEW t \in Threads, NEW w \in cur'[t]
      PROVE  /\ AnnotatedOK(base'[t])
             /\ IF job'[t] \in FreezeJobs THEN base'[t].replicas # 0 ELSE base'[t].orig # NoAnnotation
  <2>1. CASE w \in cur[t] /\ base'[t] = base[t] /\ job'[t] = job[t]
    BY <2>1 DEF AnnotationInv
  <2>2. CASE w \in Workloads /\ base'[t] = Cached(w) /\ ~Skips(t, w) /\ job'[t] = job[t]
    BY <2>2, EndsInStream DEF AnnotationInv, Skips, AlreadyFrozen, NotFrozen
  <2> QED BY <1>1, <1>6, <2>1, <2>2 DEF ThreadStep
<1>7. ASSUME NEW t \in Threads, job'[t] \in ResumeJobs, NEW w \in todo'[t] \cup cur'[t]
      PROVE  listed'[t][w].orig \notin {NoAnnotation, 0}
  <2>1. CASE w \in todo[t] \cup cur[t] /\ listed'[t][w] = listed[t][w] /\ job'[t] = job[t]
    BY <1>7, <2>1 DEF AnnotationInv
  <2>2. CASE w \in Workloads /\ listed'[t][w] = Cached(w) /\ ~NotFrozen(Cached(w))
    BY <2>2, EndsInStream DEF AnnotationInv, AnnotatedOK, NotFrozen
  <2> QED BY <1>1, <1>7, <2>1, <2>2 DEF ThreadStep
<1> QED BY <1>4, <1>5, <1>6, <1>7 DEF AnnotationInv, AnnotatedOK

\* Whatever races with it, the owner's own scaling included, the operator strands
\* no workload at zero: the annotation that the next resume looks for is there
\* (freezeDeployment and freezeStatefulSet write both in one patch).
THEOREM NoneIsStranded == Spec => []NeverStranded
<1> DEFINE Inv == TypeOK /\ ControlOK /\ AnnotationInv
<1>1. Init => Inv
  BY TypeInit, AnnotationInit
<1>2. Inv /\ [Next]_vars => Inv'
  BY TypeStep, AnnotationStep
<1>3. Inv => NeverStranded
  BY DEF AnnotationInv
<1> QED BY <1>1, <1>2, <1>3, PTL DEF Spec

(***************************************************************************)
(* OriginalGraceKept.  Where a kind has an override, a version carries the *)
(* grace annotation exactly when it carries the count annotation: all      *)
(* freezes but the one after a node failure write both.                    *)
(***************************************************************************)
GraceShape(w, v) ==
  IF v.orig = NoAnnotation \/ Override[w] = Unset
    THEN v.graceOrig = NoAnnotation /\ v.grace = Grace[w]
    ELSE v.graceOrig = EncodeGrace(Grace[w]) /\ v.grace = Override[w]

GraceInv ==
  /\ \A w \in Workloads : \A v \in InStream(w) : GraceShape(w, v)
  /\ \A t \in Threads : \A w \in cur[t] : GraceShape(w, base[t])

\* No loop ignores the override of a kind that has one.
OverridesUsed == \A t \in Threads, w \in Workloads : job[t] = "NodeFailure" => Override[w] = Unset

\* A patch derived from a version of the right shape, fresh or stale, leaves a
\* version of the right shape.
LEMMA PatchKeepsGrace ==
  ASSUME TypeOK, ControlOK, AnnotationInv, GraceInv, OverridesUsed,
         NEW t \in Threads, NEW w \in Workloads, w \in cur[t]
  PROVE  GraceShape(w, MergePatch(base[t], Wanted(t, w), Stored(w)))
<1> DEFINE v == MergePatch(base[t], Wanted(t, w), Stored(w))
<1> SUFFICES GraceShape(w, v)
  OBVIOUS
<1>1. /\ base[t] \in Version /\ Stored(w) \in Version
      /\ GraceShape(w, base[t]) /\ GraceShape(w, Stored(w)) /\ AnnotatedOK(base[t])
      /\ IF job[t] \in FreezeJobs THEN base[t].replicas # 0 ELSE base[t].orig # NoAnnotation
  BY EndsInStream, CachedStoredType DEF TypeOK, AnnotationInv, GraceInv
<1>2. /\ Grace[w] \in Nat \cup {Unset} /\ Override[w] \in Nat \cup {Unset}
      /\ EncodeGrace(Grace[w]) # NoAnnotation /\ DecodeGrace(EncodeGrace(Grace[w])) = Grace[w]
  BY ConstantsAssumption DEF EncodeGrace, DecodeGrace, Unset, NilText, NoAnnotation
<1>3. /\ v.grace = IF Wanted(t, w).grace = base[t].grace THEN Stored(w).grace ELSE Wanted(t, w).grace
      /\ v.graceOrig = IF Wanted(t, w).graceOrig = base[t].graceOrig
                         THEN Stored(w).graceOrig ELSE Wanted(t, w).graceOrig
  BY DEF MergePatch
<1>4. \/ job[t] \in FreezeJobs /\ v.orig # NoAnnotation
      \/ job[t] \notin FreezeJobs /\ v.orig = NoAnnotation
  BY PatchWritesBoth DEF NoAnnotation, FreezeJobs, ResumeJobs
<1> HIDE DEF v
<1>5. CASE job[t] \in FreezeJobs
  <2>1. base[t].orig = NoAnnotation
    BY <1>1, <1>5 DEF AnnotatedOK
  <2>2. base[t].graceOrig = NoAnnotation /\ base[t].grace = Grace[w]
    BY <1>1, <2>1 DEF GraceShape
  <2>3. CASE Override[w] = Unset
    <3>1. Wanted(t, w).grace = base[t].grace /\ Wanted(t, w).graceOrig = base[t].graceOrig
      BY <1>5, <2>3 DEF Wanted, Frozen, Overrides
    <3> QED BY <1>1, <1>3, <2>3, <3>1 DEF GraceShape
  <2>4. CASE Override[w] # Unset
    <3>1. Overrides(t, w)
      BY <2>4 DEF Overrides, OverridesUsed
    <3>2. Wanted(t, w).grace = Override[w] /\ Wanted(t, w).graceOrig = EncodeGrace(Grace[w])
      BY <1>5, <2>2, <3>1 DEF Wanted, Frozen
    <3> QED BY <1>1, <1>2, <1>3, <1>4, <1>5, <2>2, <2>4, <3>2 DEF GraceShape
  <2> QED BY <2>3, <2>4
<1>6. CASE job[t] \notin FreezeJobs
  <2>1. base[t].orig # NoAnnotation
    BY <1>1, <1>6
  <2>2. /\ Wanted(t, w).graceOrig = NoAnnotation
        /\ Wanted(t, w).grace = IF base[t].graceOrig = NoAnnotation THEN base[t].grace
                                ELSE DecodeGrace(base[t].graceOrig)
    BY <1>6 DEF Wanted, Resumed
  <2> QED BY <1>1, <1>2, <1>3, <1>4, <1>6, <2>1, <2>2 DEF GraceShape
<1> QED BY <1>5, <1>6

\* The grace periods are the created ones at first.
LEMMA GraceInit == Init => GraceInv
<1> SUFFICES ASSUME Init PROVE GraceInv
  OBVIOUS
<1>1. \A w \in Workloads : Len(stream[w]) = 1 /\ stream[w][1] = Created(w, want[w])
  BY DEF Init
<1>2. \A w \in Workloads : \A v \in InStream(w) : v = Created(w, want[w])
  BY <1>1 DEF InStream
<1> QED BY <1>2 DEF Init, GraceInv, GraceShape, Created

\* Every step keeps the shape while no loop ignores an override.
LEMMA GraceStep ==
  ASSUME TypeOK, ControlOK, AnnotationInv, GraceInv, OverridesUsed, [Next]_vars
  PROVE  GraceInv'
<1>1. StreamStep /\ ThreadStep
  BY NextStream, NextThread
<1>2. ASSUME NEW w \in Workloads, NEW v \in Version, Patched(w, v) PROVE GraceShape(w, v)
  BY <1>2, PatchKeepsGrace DEF Patched
<1>3. ASSUME NEW w \in Workloads, NEW v \in Version, Scaled(w, v) PROVE GraceShape(w, v)
  <2>1. PICK n : v = [Stored(w) EXCEPT !.replicas = n]
    BY <1>3 DEF Scaled
  <2>2. Stored(w) \in Version /\ GraceShape(w, Stored(w))
    BY EndsInStream, CachedStoredType DEF GraceInv
  <2>3. v.orig = Stored(w).orig /\ v.grace = Stored(w).grace /\ v.graceOrig = Stored(w).graceOrig
    BY <2>1, <2>2 DEF Version
  <2> QED BY <2>2, <2>3 DEF GraceShape
<1>4. \A w \in Workloads : \A v \in InStream(w)' : GraceShape(w, v)
  <2>1. CASE \A u \in Workloads : InStream(u)' \subseteq InStream(u)
    BY <2>1 DEF GraceInv
  <2>2. ASSUME NEW w \in Workloads, NEW v \in Version, Patched(w, v) \/ Scaled(w, v),
               InStream(w)' \subseteq InStream(w) \cup {v},
               \A u \in Workloads \ {w} : stream'[u] = stream[u]
        PROVE  \A u \in Workloads : \A x \in InStream(u)' : GraceShape(u, x)
    <3>1. \A u \in Workloads \ {w} : InStream(u)' = InStream(u)
      BY <2>2 DEF InStream
    <3>2. GraceShape(w, v)
      BY <1>2, <1>3, <2>2
    <3> QED BY <2>2, <3>1, <3>2 DEF GraceInv
  <2> QED BY <1>1, <2>1, <2>2 DEF StreamStep
<1>5. \A t \in Threads : \A w \in cur'[t] : GraceShape(w, base'[t])
  BY <1>1, EndsInStream DEF ThreadStep, GraceInv
<1> QED BY <1>4, <1>5 DEF GraceInv, GraceShape

\* A loop that ignores overrides runs only after a node failure.
LEMMA FailureLoops ==
  ASSUME "nodeFailure" \notin Features \/ \A w \in Workloads : Override[w] = Unset,
         TypeOK, OverridesUsed, [Next]_vars
  PROVE  OverridesUsed'
<1>1. CASE \A w \in Workloads : Override[w] = Unset
  BY <1>1 DEF OverridesUsed
<1>2. ASSUME "nodeFailure" \notin Features, NEW t \in Threads, job[t] # "NodeFailure"
      PROVE  job'[t] # "NodeFailure"
  BY <1>2 DEF Next, Thread, Owner, List, MayRun, Fetch, Patch, Finish, StrictError, LenientError,
              EndJob, Deliver, Crash, Scale, RacyScale, TypeOK, vars
<1> QED BY <1>1, <1>2 DEF OverridesUsed

\* The grace period an object was created with is never lost, whatever races,
\* the owner's scaling included, provided that no freeze after a node failure,
\* which ignores the override, gets between those that use it.
THEOREM GraceIsKept ==
  ASSUME "nodeFailure" \notin Features \/ \A w \in Workloads : Override[w] = Unset
  PROVE  Spec => []OriginalGraceKept
<1> DEFINE Inv == TypeOK /\ ControlOK /\ AnnotationInv /\ GraceInv /\ OverridesUsed
<1>1. Init => Inv
  BY TypeInit, AnnotationInit, GraceInit DEF Init, OverridesUsed
<1>2. Inv /\ [Next]_vars => Inv'
  BY TypeStep, AnnotationStep, GraceStep, FailureLoops
<1>3. Inv => OriginalGraceKept
  BY EndsInStream DEF GraceInv, GraceShape, OriginalGraceKept, GraceOK
<1> QED BY <1>1, <1>2, <1>3, PTL DEF Spec

(***************************************************************************)
(* KeepsPromise, step by step.                                             *)
(***************************************************************************)
\* The stored versions record what the owners want.
LEMMA RecordedIsWanted ==
  ASSUME TypeOK, CountInv, NEW w \in Workloads
  PROVE  Recorded(w) = want[w]
BY CountCached DEF CountOK, Recorded, NotFrozen, NoAnnotation, TypeOK

\* An initial state is one of the promise.
LEMMA PromiseInit == Init => Promise!PInit
<1> SUFFICES ASSUME Init PROVE Promise!PInit
  OBVIOUS
<1>1. \A w \in Workloads : Stored(w) = Created(w, want[w])
  BY DEF Init, Stored
<1>2. \A w \in Workloads : Stored(w).replicas = want[w] /\ Recorded(w) = want[w] /\ want[w] \in 0..MaxReplicas
  <2> SUFFICES ASSUME NEW w \in Workloads
               PROVE  Stored(w).replicas = want[w] /\ Recorded(w) = want[w] /\ want[w] \in 0..MaxReplicas
    OBVIOUS
  <2>1. want[w] \in 0..MaxReplicas
    BY DEF Init
  <2>2. Stored(w).replicas = want[w] /\ Stored(w).orig = NoAnnotation
    BY <1>1 DEF Created
  <2> QED BY <2>1, <2>2 DEF Recorded, NotFrozen
<1> QED BY <1>2 DEF Promise!PInit

\* A step of the operator, the owner or the watch is a step of the promise or
\* leaves what it speaks of alone.
LEMMA PromiseStep ==
  ASSUME "racyScale" \notin Features, TypeOK, ControlOK, CountInv, [Next]_vars
  PROVE  [Promise!PNext]_(Promise!pvars)
<1> DEFINE up == [w \in Workloads |-> Stored(w).replicas]
           desired == [w \in Workloads |-> Recorded(w)]
<1>1. StreamStep
  BY NextStream
<1>2. CASE want' = want /\ \A u \in Workloads : Stored(u)' = Stored(u)
  <2>1. up' = up /\ desired' = desired
    BY <1>2 DEF Recorded
  <2> QED BY <2>1 DEF Promise!pvars
<1>3. ASSUME NEW w \in Workloads, NEW v \in Version, Patched(w, v) \/ Scaled(w, v),
             Stored(w)' = v, \A u \in Workloads \ {w} : stream'[u] = stream[u]
      PROVE  [Promise!PNext]_(Promise!pvars)
  <2>1. \A u \in Workloads \ {w} : Stored(u)' = Stored(u) /\ Recorded(u)' = Recorded(u)
    BY <1>3 DEF Stored, Recorded
  <2>2. CountOK(w, Stored(w)) /\ want[w] \in Nat /\ Recorded(w) = want[w]
    BY CountCached, RecordedIsWanted DEF TypeOK
  <2>3. Recorded(w)' = IF NotFrozen(v) THEN v.replicas ELSE v.orig
    BY <1>3 DEF Recorded, NotFrozen
  <2>4. /\ up \in [Workloads -> Nat] /\ up' = [up EXCEPT ![w] = v.replicas]
        /\ desired' = [desired EXCEPT ![w] = Recorded(w)']
    BY <1>3, <2>1, CachedStoredType DEF Version
  <2>5. up[w] = Stored(w).replicas /\ desired[w] = want[w]
    BY <2>2
  <2>6. CASE Patched(w, v)
    <3>1. CountOK(w, v)
      BY <2>6, PatchKeepsCount DEF Patched
    <3>2. Recorded(w)' = want[w]
      BY <2>2, <2>3, <3>1 DEF CountOK, NotFrozen, NoAnnotation
    <3>3. desired' = desired
      BY <2>2, <2>4, <3>2
    <3>4. v.replicas = 0 \/ v.replicas = want[w]
      BY <3>1 DEF CountOK
    <3>5. up[w] = 0 \/ up[w] = want[w]
      BY <2>2, <2>5 DEF CountOK
    <3> HIDE DEF up, desired
    <3>6. \/ up' = up
          \/ up[w] # 0 /\ up' = [up EXCEPT ![w] = 0]
          \/ up[w] = 0 /\ up' = [up EXCEPT ![w] = desired[w]]
      BY <2>4, <2>5, <3>4, <3>5
    <3> QED BY <3>3, <3>6 DEF Promise!PNext, Promise!PFreeze, Promise!PResume, Promise!pvars, up, desired
  <2>7. CASE Scaled(w, v)
    <3>1. PICK n \in 0..MaxReplicas : NotFrozen(Stored(w)) /\ v = [Stored(w) EXCEPT !.replicas = n]
      BY <2>7 DEF Scaled
    <3>2. v.replicas = n /\ NotFrozen(v) /\ Stored(w).replicas = want[w]
      BY <2>2, <3>1, CachedStoredType DEF NotFrozen, Version, CountOK, NoAnnotation
    <3>3. Recorded(w)' = n
      BY <2>3, <3>2
    <3>4. /\ up[w] = desired[w] /\ up' = [up EXCEPT ![w] = n]
          /\ desired' = [desired EXCEPT ![w] = n]
      BY <2>4, <2>5, <3>2, <3>3
    <3> QED BY <3>4 DEF Promise!PNext, Promise!PScale
  <2> QED BY <1>3, <2>6, <2>7
<1> QED BY <1>1, <1>2, <1>3 DEF StreamStep

\* Freezing and resuming through a stale cache with merge patches implements
\* WorkloadPromise: seen in the API server, the operator switches a workload
\* between zero and the count its owner recorded and never changes that count,
\* provided the owner does not scale a workload during an operation.
THEOREM PromiseIsKept ==
  ASSUME "racyScale" \notin Features
  PROVE  Spec => KeepsPromise
<1> DEFINE Inv == TypeOK /\ ControlOK /\ CountInv
<1>1. Init => Inv /\ Promise!PInit
  BY TypeInit, CountInit, PromiseInit
<1>2. Inv /\ [Next]_vars => Inv' /\ [Promise!PNext]_(Promise!pvars)
  BY TypeStep, CountStep, PromiseStep
<1> QED BY <1>1, <1>2, PTL DEF Spec, KeepsPromise, Promise!PSpec
=============================================================================
