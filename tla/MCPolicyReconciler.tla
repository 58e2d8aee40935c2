------------------------- MODULE MCPolicyReconciler -------------------------
(***************************************************************************)
(* Small configurations of PolicyReconciler for TLC.  Every policy is one  *)
(* of the presets below with one or two fields changed.                    *)
(***************************************************************************)
EXTENDS PolicyReconciler, TLC

CONSTANTS p1, p2, w1

Plain == [startup |-> "Ignore", prio |-> 100, fprio |-> 0, fdelay |-> FALSE, rdelay |-> FALSE,
          nodeFail |-> FALSE, pre |-> "none", needs |-> {}]
ResumeFirst  == [Plain EXCEPT !.startup = "Resume", !.prio = 1]
ResumeSecond == [Plain EXCEPT !.startup = "Resume", !.prio = 2]
FreezeFirst  == [Plain EXCEPT !.startup = "Freeze", !.fprio = 1]
FreezeSecond == [Plain EXCEPT !.startup = "Freeze", !.fprio = 2]

OnePolicy   == {p1}
TwoPolicies == {p1, p2}
OneWorkload == {w1}

\* One policy, changed by commands and, in the second case, by node failures.
OnePlain   == p1 :> Plain
OneFailing == p1 :> [Plain EXCEPT !.nodeFail = TRUE]

\* A startup resume on a cluster whose node fails, without and with pre-conditions.
ResumeAndFailure  == p1 :> [ResumeFirst EXCEPT !.nodeFail = TRUE]
CheckedAndFailure == (p1 :> [ResumeFirst EXCEPT !.nodeFail = TRUE, !.pre = "block", !.needs = {p2}])
                  @@ (p2 :> Plain)

\* Two policies that startup resumes one after the other.
TwoResumes == (p1 :> [ResumeFirst EXCEPT !.rdelay = TRUE]) @@ (p2 :> ResumeSecond)

\* The same with pre-conditions: a health endpoint, which only an error can fail,
\* and the applications of the policy that is resumed first.
CheckedResumes == (p1 :> [ResumeFirst  EXCEPT !.pre = "nonblock"])
               @@ (p2 :> [ResumeSecond EXCEPT !.pre = "block", !.needs = {p1}])
AsyncChecked   == (p1 :> ResumeFirst) @@ (p2 :> [ResumeSecond EXCEPT !.pre = "nonblock", !.needs = {p1}])

\* Two groups of startup freezes.  The first is delayed, and its manual resumes
\* have a blocking pre-condition, a health endpoint that is read without error.
TwoFreezes == (p1 :> [FreezeFirst EXCEPT !.fdelay = TRUE, !.pre = "block"]) @@ (p2 :> FreezeSecond)
=============================================================================
