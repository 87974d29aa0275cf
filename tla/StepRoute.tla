----------------------------- MODULE StepRoute -----------------------------
(***************************************************************************)
(* The pure functions the step walk, the trace and the resume are built    *)
(* from.  A route is the sequence of node ids of a plan, in execution      *)
(* order (plan.ts, enterpriseStepSequence); ids are unique in a route.     *)
(***************************************************************************)
EXTENDS Naturals, Sequences, FiniteSets

StepSet(steps) == {steps[i] : i \in 1..Len(steps)}

IsRoute(steps, node) ==
  /\ steps \in Seq(node)
  /\ Len(steps) > 0
  /\ \A i, j \in 1..Len(steps) : steps[i] = steps[j] => i = j

(* The number of leading steps of the route that are all in `done'.        *)
IsFinishedPrefix(steps, done, k) ==
  /\ \A i \in 1..k : steps[i] \in done
  /\ k < Len(steps) => steps[k + 1] \notin done

FinishedPrefix(steps, done) ==
  CHOOSE k \in 0..Len(steps) : IsFinishedPrefix(steps, done, k)

(* Position a resume opens on; 0 stands for the code's `undefined', which  *)
(* both "nothing carries over" and "the whole route is finished" return.   *)
firstUnfinishedStep(steps, done) ==
  LET k == FinishedPrefix(steps, done)
  IN  IF k \in 1..(Len(steps) - 1) THEN k + 1 ELSE 0

(* Mutant: only the reopened step is taken back.                           *)
Invalidated_TargetOnly(steps, i) == {steps[i]}

(* Steps a reopen of position i takes back: the target and all after it.   *)
Invalidated(steps, i) == {steps[j] : j \in i..Len(steps)}

EventKinds == {"run.resumed", "node.entered", "node.completed", "node.reopened"}

(* Mutant: collects completions and never takes one back.                  *)
ReplayEvent_OnlyAdds(completed, event) ==
  IF event.kind \in {"run.resumed", "node.completed"} THEN completed \cup event.steps
  ELSE completed

(* One turn of the replay loop: what a durable event does to the set of    *)
(* completed steps.  `steps' is carriedSteps, invalidated, or the one node *)
(* the event is about.                                                     *)
ReplayEvent(completed, event) ==
  IF event.kind \in {"run.resumed", "node.completed"} THEN completed \cup event.steps
  ELSE IF event.kind = "node.reopened" THEN completed \ event.steps
  ELSE completed
=============================================================================
