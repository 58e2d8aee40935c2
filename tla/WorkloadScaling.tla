--------------------------- MODULE WorkloadScaling ---------------------------
(***************************************************************************)
(* Freezing and resuming the workloads of one namespace.                   *)
(*                                                                         *)
(* A Deployment or StatefulSet lives in the API server.  The operator      *)
(* never reads it there: List and Get are answered by the informer cache,  *)
(* which follows the API server through a watch and may lag behind it.     *)
(* Writes are merge patches without a resource version: the fields that    *)
(* differ between what was read and what is wanted are written over        *)
(* whatever the API server holds, and nothing else is.                     *)
(*                                                                         *)
(* Two threads of the operator freeze and resume: the reconcile worker and *)
(* the goroutine that applies the startup policies.                        *)
(***************************************************************************)
EXTENDS Integers, Sequences

CONSTANTS
  Workloads,     \* Deployments and StatefulSets the policy selects
  MaxReplicas,   \* bound on the replica counts the owner asks for
  Lag,           \* how many watch events the informer cache may be behind
  Grace,         \* Grace[w]: terminationGracePeriodSeconds w was created with
  Override,      \* Override[w]: the policy's grace override for w's kind
  Features       \* what else happens, a subset of AllFeatures

Threads == {"worker", "startup"}

AllFeatures == {"startup",      \* the startup goroutine freezes this namespace
                "nodeFailure",  \* a node fails under it
                "crash",        \* the operator crashes and restarts
                "strictError",  \* an API call fails in a loop that stops on errors
                "lenientError", \* an API call fails in a loop that ignores errors
                "racyScale"}    \* the owner scales during operations

Unset        == -1   \* a nil *int64 / a field the object does not have
NilText      == -2   \* the annotation text "nil"
NoAnnotation == -3   \* the annotation is absent

ASSUME ConstantsAssumption ==
  /\ MaxReplicas \in Nat
  /\ Lag \in Nat
  /\ Grace \in [Workloads -> Nat \cup {Unset}]
  /\ Override \in [Workloads -> Nat \cup {Unset}]
  /\ Features \subseteq AllFeatures

(***************************************************************************)
(* An object: spec.replicas, the original-replicas annotation, the pod     *)
(* template's grace period and the original-grace-period annotation.       *)
(***************************************************************************)
Version == [replicas  : Nat,
            orig      : Nat \cup {NoAnnotation},
            grace     : Nat \cup {Unset},
            graceOrig : Nat \cup {NilText, NoAnnotation}]

\* strconv.FormatInt of a grace period, or the text that stands for nil.
EncodeGrace(g) == IF g = Unset THEN NilText ELSE g
\* Mutant: the text "nil" is not recognised.
DecodeGraceRaw(t) == t
DecodeGrace(t) == IF t = NilText THEN Unset ELSE t

Blank == [replicas |-> 0, orig |-> NoAnnotation,
          grace |-> Unset, graceOrig |-> NoAnnotation]

VARIABLES
  stream,   \* stream[w]: the versions of w from the one cached to the one stored
  job,      \* job[t]: the loop thread t is running
  todo,     \* todo[t]: workloads the loop has not reached
  listed,   \* listed[t][w]: w as List returned it to thread t
  cur,      \* cur[t]: the workloads thread t has fetched and not yet patched
  base,     \* base[t]: that workload as Get returned it
  phase,    \* status.phase of the policy
  want      \* want[w]: replicas the owner of w last asked for (history)

vars == <<stream, job, todo, listed, cur, base, phase, want>>

Jobs == {"none", "ManualFreeze", "StartupFreeze", "NodeFailure",
         "ManualResume", "StartupResume"}
FreezeJobs == {"ManualFreeze", "StartupFreeze", "NodeFailure"}
ResumeJobs == {"ManualResume", "StartupResume"}
Strict     == {"ManualFreeze", "ManualResume"}   \* first error ends the loop

Phases == {"Idle", "Freezing", "Frozen", "Resuming", "Resumed", "Failed"}

Cached(w) == Head(stream[w])
Stored(w) == stream[w][Len(stream[w])]

\* A write reaches the API server; a cache already Lag events behind moves on.
\* A write that changes nothing produces no watch event.
Publish(w, v) ==
  IF v = Stored(w) THEN UNCHANGED stream
  ELSE stream' = [stream EXCEPT ![w] =
                    Append(IF Len(@) > Lag THEN Tail(@) ELSE @, v)]

\* client.MergeFrom: only the fields that the operator changed are sent.
MergePatch(from, to, on) ==
  [replicas  |-> IF to.replicas  = from.replicas  THEN on.replicas  ELSE to.replicas,
   orig      |-> IF to.orig      = from.orig      THEN on.orig      ELSE to.orig,
   grace     |-> IF to.grace     = from.grace     THEN on.grace     ELSE to.grace,
   graceOrig |-> IF to.graceOrig = from.graceOrig THEN on.graceOrig ELSE to.graceOrig]

(***************************************************************************)
(* freezeDeployment and freezeStatefulSet differ only in which grace       *)
(* override they use; so do the two resume functions.                      *)
(***************************************************************************)
\* Mutant: no early return for a workload that is already at zero.
AlreadyFrozenUnchecked(v) == FALSE
AlreadyFrozen(v) == v.replicas = 0

\* Mutant: the original count is not recorded.
FrozenUnrecorded(w, v, overrides) ==
  [v EXCEPT !.replicas = 0, !.grace = IF overrides THEN Override[w] ELSE @]

Frozen(w, v, overrides) ==
  [replicas  |-> 0,
   orig      |-> v.replicas,
   grace     |-> IF overrides THEN Override[w] ELSE v.grace,
   graceOrig |-> IF overrides THEN EncodeGrace(v.grace) ELSE v.graceOrig]

NotFrozen(v) == v.orig = NoAnnotation

\* Mutants: a resume that forgets the grace period, and one to a default count.
ResumedKeepingGrace(v, count) == [v EXCEPT !.replicas = count, !.orig = NoAnnotation]
ResumedToDefault(v, count) ==
  [replicas  |-> 1,
   orig      |-> NoAnnotation,
   grace     |-> IF v.graceOrig = NoAnnotation THEN v.grace ELSE DecodeGrace(v.graceOrig),
   graceOrig |-> NoAnnotation]

\* The count comes from the listed object, the grace period from the fetched one.
Resumed(v, count) ==
  [replicas  |-> count,
   orig      |-> NoAnnotation,
   grace     |-> IF v.graceOrig = NoAnnotation THEN v.grace ELSE DecodeGrace(v.graceOrig),
   graceOrig |-> NoAnnotation]

\* The node-failure handler freezes with policy = nil, hence without override.
Overrides(t, w) == job[t] # "NodeFailure" /\ Override[w] # Unset

Wanted(t, w) ==
  IF job[t] \in FreezeJobs THEN Frozen(w, base[t], Overrides(t, w))
                           ELSE Resumed(base[t], listed[t][w].orig)
-----------------------------------------------------------------------------
Created(w, n) == [replicas |-> n, orig |-> NoAnnotation,
                  grace |-> Grace[w], graceOrig |-> NoAnnotation]

Init ==
  /\ want \in [Workloads -> 0..MaxReplicas]
  /\ stream = [w \in Workloads |-> <<Created(w, want[w])>>]
  /\ job    = [t \in Threads |-> "none"]
  /\ todo   = [t \in Threads |-> {}]
  /\ listed = [t \in Threads |-> [w \in Workloads |-> Blank]]
  /\ cur    = [t \in Threads |-> {}]
  /\ base   = [t \in Threads |-> Blank]
  /\ phase  = "Idle"

\* Which loops a thread runs.
MayRun(t, j) ==
  \/ t = "worker" /\ j \in {"ManualFreeze", "ManualResume", "StartupFreeze", "StartupResume"}
  \/ t = "worker" /\ j = "NodeFailure" /\ "nodeFailure" \in Features /\ phase # "Frozen"
  \/ t = "startup" /\ j = "StartupFreeze" /\ "startup" \in Features

\* The workloads a loop goes over: all listed ones, the ones with an annotation
\* for a resume, those whose pods all ran on the failed node for a node failure.
Selected(j, S) == IF j \in ResumeJobs THEN {w \in Workloads : ~NotFrozen(Cached(w))}
                  ELSE IF j = "NodeFailure" THEN S ELSE Workloads

\* The phase while the loop runs: a manual command announces itself, a startup
\* operation of the worker was recorded with phase Idle, the others say nothing.
PhaseDuring(t, j) ==
  CASE j = "ManualFreeze" -> "Freezing"
    [] j = "ManualResume" -> "Resuming"
    [] j \in {"StartupFreeze", "StartupResume"} /\ t = "worker" -> "Idle"
    [] OTHER -> phase

PhaseAfter(j) ==
  IF j = "NodeFailure" THEN phase ELSE IF j \in FreezeJobs THEN "Frozen" ELSE "Resumed"

\* List: the loop works on what the cache holds now.
List(t, j, S) ==
  /\ job[t] = "none"
  /\ MayRun(t, j)
  /\ job'    = [job EXCEPT ![t] = j]
  /\ todo'   = [todo EXCEPT ![t] = Selected(j, S)]
  /\ listed' = [listed EXCEPT ![t] = [w \in Workloads |-> Cached(w)]]
  /\ phase'  = PhaseDuring(t, j)
  /\ UNCHANGED <<stream, cur, base, want>>

\* Get, and the early returns on what it shows.
Skips(t, w) == IF job[t] \in FreezeJobs THEN AlreadyFrozen(Cached(w)) ELSE NotFrozen(Cached(w))

Fetch(t, w) ==
  /\ cur[t] = {} /\ w \in todo[t]
  /\ todo' = [todo EXCEPT ![t] = @ \ {w}]
  /\ IF Skips(t, w)
       THEN UNCHANGED <<cur, base>>
       ELSE /\ cur'  = [cur EXCEPT ![t] = {w}]
            /\ base' = [base EXCEPT ![t] = Cached(w)]
  /\ UNCHANGED <<stream, job, listed, phase, want>>

\* Patch.
Patch(t, w) ==
  /\ w \in cur[t]
  /\ Publish(w, MergePatch(base[t], Wanted(t, w), Stored(w)))
  /\ cur'  = [cur EXCEPT ![t] = {}]
  /\ base' = [base EXCEPT ![t] = Blank]
  /\ UNCHANGED <<job, todo, listed, phase, want>>

\* The loop ends; thread t forgets what it listed.
EndJob(t) ==
  /\ job'    = [job EXCEPT ![t] = "none"]
  /\ todo'   = [todo EXCEPT ![t] = {}]
  /\ listed' = [listed EXCEPT ![t] = [w \in Workloads |-> Blank]]
  /\ cur'    = [cur EXCEPT ![t] = {}]
  /\ base'   = [base EXCEPT ![t] = Blank]
  /\ UNCHANGED <<stream, want>>

Finish(t) ==
  /\ job[t] # "none" /\ todo[t] = {} /\ cur[t] = {}
  /\ EndJob(t)
  /\ phase' = PhaseAfter(job[t])

\* Get or Patch fails: a manual loop gives up, every other loop goes on.
StrictError(t) ==
  /\ "strictError" \in Features
  /\ job[t] \in Strict
  /\ cur[t] # {}
  /\ EndJob(t)
  /\ phase' = "Failed"

LenientError(t) ==
  /\ "lenientError" \in Features
  /\ job[t] \notin Strict
  /\ cur[t] # {}
  /\ cur'  = [cur EXCEPT ![t] = {}]
  /\ base' = [base EXCEPT ![t] = Blank]
  /\ UNCHANGED <<stream, job, todo, listed, phase, want>>

\* The watch delivers the next event to the cache.
Deliver(w) ==
  /\ Len(stream[w]) > 1
  /\ stream' = [stream EXCEPT ![w] = Tail(@)]
  /\ UNCHANGED <<job, todo, listed, cur, base, phase, want>>

\* The operator dies in the middle of its loops and its successor starts with a
\* synchronised cache.
Crash ==
  /\ "crash" \in Features
  /\ stream' = [w \in Workloads |-> <<Stored(w)>>]
  /\ job'    = [t \in Threads |-> "none"]
  /\ todo'   = [t \in Threads |-> {}]
  /\ listed' = [t \in Threads |-> [w \in Workloads |-> Blank]]
  /\ cur'    = [t \in Threads |-> {}]
  /\ base'   = [t \in Threads |-> Blank]
  /\ UNCHANGED <<phase, want>>

\* The owner scales a workload that carries no annotation, while no operation
\* is under way and early enough for the cache to follow before the next one.
Scale(w, n) ==
  /\ NotFrozen(Stored(w))
  /\ Len(stream[w]) = 1
  /\ phase # "Frozen"
  /\ \A t \in Threads : job[t] = "none"
  /\ stream' = [stream EXCEPT ![w] = <<[Stored(w) EXCEPT !.replicas = n]>>]
  /\ want'   = [want EXCEPT ![w] = n]
  /\ UNCHANGED <<job, todo, listed, cur, base, phase>>

\* The owner scales a workload that carries no annotation at any other time.
RacyScale(w, n) ==
  /\ "racyScale" \in Features
  /\ NotFrozen(Stored(w))
  /\ Publish(w, [Stored(w) EXCEPT !.replicas = n])
  /\ want' = [want EXCEPT ![w] = n]
  /\ UNCHANGED <<job, todo, listed, cur, base, phase>>

Thread(t) ==
  \/ \E j \in Jobs \ {"none", "NodeFailure"} : List(t, j, {})
  \/ \E S \in SUBSET Workloads : List(t, "NodeFailure", S)
  \/ \E w \in Workloads : Fetch(t, w) \/ Patch(t, w)
  \/ Finish(t) \/ StrictError(t) \/ LenientError(t)

Owner(w) == \E n \in 0..MaxReplicas : Scale(w, n) \/ RacyScale(w, n)

Next ==
  \/ \E t \in Threads : Thread(t)
  \/ \E w \in Workloads : Deliver(w) \/ Owner(w)
  \/ Crash

Spec == Init /\ [][Next]_vars
-----------------------------------------------------------------------------
\* The shape of the objects, of the cache and of what the two threads remember.
TypeOK ==
  /\ stream \in [Workloads -> Seq(Version) \ {<<>>}]
  /\ job    \in [Threads -> Jobs]
  /\ todo   \in [Threads -> SUBSET Workloads]
  /\ listed \in [Threads -> [Workloads -> Version]]
  /\ cur    \in [Threads -> SUBSET Workloads]
  /\ base   \in [Threads -> Version]
  /\ phase  \in Phases
  /\ want   \in [Workloads -> Nat]

\* A version from which the count the owner of w asked for can be restored.
CountOK(w, v) ==
  \/ v.orig = NoAnnotation /\ v.replicas = want[w]
  \/ v.orig = want[w] /\ v.replicas = 0 /\ want[w] # 0

\* The replica count a workload had before it was frozen is never lost: the
\* object either runs with the count its owner asked for and carries no
\* annotation, or is at zero and the annotation holds exactly that count
\* (freezeDeployment, resumeDeployment and the StatefulSet twins), however
\* stale the cache and whichever threads work on the namespace.
OriginalCountKept == \A w \in Workloads : CountOK(w, Stored(w))

\* Whatever races with it, a freeze never strands a workload: one that is at
\* zero although its owner wants replicas carries the annotation that makes the
\* next resume pick it up (freeze writes count and annotation in one patch).
NeverStranded ==
  \A w \in Workloads :
    Stored(w).replicas = 0 /\ want[w] # 0 => ~NotFrozen(Stored(w))

\* A version from which the grace period w was created with can be restored.
GraceOK(w, v) ==
  \/ v.graceOrig = NoAnnotation /\ v.grace = Grace[w]
  \/ /\ Override[w] # Unset /\ v.orig # NoAnnotation
     /\ v.grace = Override[w] /\ v.graceOrig = EncodeGrace(Grace[w])

\* The grace period that a freeze overrides is restored by the resume: an
\* object that is not frozen has the grace period it was created with and no
\* grace annotation is left behind on it.
OriginalGraceKept == \A w \in Workloads : GraceOK(w, Stored(w))

\* What the object records as its owner's count, as a resume would read it.
Recorded(w) == IF NotFrozen(Stored(w)) THEN Stored(w).replicas ELSE Stored(w).orig

Promise == INSTANCE WorkloadPromise
             WITH Counts  <- 0..MaxReplicas,
                  up      <- [w \in Workloads |-> Stored(w).replicas],
                  desired <- [w \in Workloads |-> Recorded(w)]

\* Freezing and resuming through a stale cache with merge patches implements
\* the promise made to a workload's owner: seen in the API server, a workload
\* is switched between zero and the recorded count, and the operator never
\* changes the recorded count.
KeepsPromise == Promise!PSpec
=============================================================================
