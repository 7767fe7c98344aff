--------------------------- MODULE StagePipeline ---------------------------
(***************************************************************************)
(* What the multi-stage build promises (spec.md sections 4.C and 5): the   *)
(* stages of a recipe pass one after the other, the image is produced from *)
(* the last stage only after every stage has passed, a failed or cancelled *)
(* build produces nothing more, and every build ends, built or failed.     *)
(***************************************************************************)
EXTENDS Naturals, FiniteSets

CONSTANT N   \* number of stages

VARIABLES
    passed,   \* the stages that have passed so far
    outcome   \* "running", "built" or "failed"

vars == <<passed, outcome>>

Init == passed = {} /\ outcome = "running"

\* The next stage in order passes.
PassStage ==
    /\ outcome = "running"
    /\ Cardinality(passed) < N
    /\ passed' = passed \cup {Cardinality(passed) + 1}
    /\ UNCHANGED outcome

\* The image is assembled from the last stage.
Build ==
    /\ outcome = "running"
    /\ passed = 1..N
    /\ outcome' = "built"
    /\ UNCHANGED passed

\* The build fails or is cancelled, at any point.
Fail ==
    /\ outcome = "running"
    /\ outcome' = "failed"
    /\ UNCHANGED passed

Next == PassStage \/ Build \/ Fail

Spec == Init /\ [][Next]_vars /\ WF_vars(Next)
====
