------------------------------ MODULE StepWalk ------------------------------
(***************************************************************************)
(* One governed execution walking its route (src/enterprise/runtime.ts:    *)
(* completeEnterpriseStep, reopenEnterpriseStep; the opening and the end   *)
(* are run-mediation.ts).  The handlers are synchronous, so each is one    *)
(* step; what is not atomic with them is the trace: every event is written *)
(* by a persistTrace that swallows a failure, so any write may be lost     *)
(* while the walk goes on.  `completed' is what replaying the durable      *)
(* events yields, `finished' (observed, not in the program) is what the    *)
(* walk really did.                                                        *)
(***************************************************************************)
EXTENDS StepRoute

CONSTANTS Node,        \* node ids
          Route,       \* enterpriseStepSequence(run.plan)
          Carryable,   \* sets of steps an armed earlier execution may hand on
          MaxReopens,  \* MAX_STEP_REOPENS_PER_RUN
          LossyKinds   \* event kinds whose write may fail

ASSUME RouteAssumption == IsRoute(Route, Node)
ASSUME CarryAssumption == Carryable \subseteq SUBSET Node
ASSUME ReopenAssumption == MaxReopens \in Nat
ASSUME LossyAssumption == LossyKinds \subseteq EventKinds

VARIABLES phase,          \* "idle", "walking" (registered) or "ended"
          cursor,         \* position of plan.activeNodeId in the route
          routeCompleted,
          reopenCount,
          completed,      \* cumulativeCompletedNodeIds of the durable events
          carried,        \* what the resume handed on, {} for a fresh run
          finished,       \* observed: steps done and not since taken back
          lost            \* observed: kinds of the events whose write failed

vars == <<phase, cursor, routeCompleted, reopenCount, completed, carried, finished, lost>>

N == Len(Route)

-----------------------------------------------------------------------------
Init ==
  /\ phase = "idle" /\ cursor = 1 /\ routeCompleted = FALSE /\ reopenCount = 0
  /\ completed = {} /\ carried = {} /\ finished = {} /\ lost = {}

(* run.sink -> persistTrace(appendEvent): written, or swallowed.           *)
Emit(event) ==
  \/ /\ completed' = ReplayEvent(completed, event)
     /\ lost' = lost
  \/ /\ event.kind \in LossyKinds
     /\ completed' = completed
     /\ lost' = lost \cup {event.kind}

(* A run nobody asked to continue, or whose armed execution carries        *)
(* nothing of this route over: opens on the first step, and traces no      *)
(* run.resumed.                                                            *)
OpenFresh ==
  /\ phase = "idle"
  /\ phase' = "walking"
  /\ cursor' = 1
  /\ UNCHANGED <<routeCompleted, reopenCount, completed, carried, finished, lost>>

(* A run that takes an armed continuation opens on the first unfinished    *)
(* step and records the whole carried set.                                 *)
OpenResumed(c) ==
  LET k == firstUnfinishedStep(Route, c)
  IN  /\ phase = "idle"
      /\ k # 0
      /\ phase' = "walking"
      /\ cursor' = k
      /\ carried' = c
      /\ finished' = c
      /\ Emit([kind |-> "run.resumed", steps |-> c])
      /\ UNCHANGED <<routeCompleted, reopenCount>>

(* Mutant: finishing the route drops the cursor back to its root.          *)
completeLastStep_BackToRoot ==
  /\ cursor = N
  /\ routeCompleted' = TRUE
  /\ cursor' = 1

(* complete_step on the last step: the cursor stays where it is.           *)
completeLastStep ==
  /\ cursor = N
  /\ routeCompleted' = TRUE
  /\ cursor' = cursor

completeAndAdvance ==
  /\ cursor < N
  /\ cursor' = cursor + 1
  /\ routeCompleted' = routeCompleted

(* `expected' is the step the caller believes it is finishing, or "any".   *)
(* A call that names another step, or that comes after the route is        *)
(* complete, is answered and changes nothing.                              *)
completeEnterpriseStep(expected) ==
  /\ phase = "walking"
  /\ expected \in {"any", Route[cursor]}
  /\ ~routeCompleted
  /\ Emit([kind |-> "node.completed", steps |-> {Route[cursor]}])
  /\ finished' = finished \cup {Route[cursor]}
  /\ completeLastStep \/ completeAndAdvance
  /\ UNCHANGED <<phase, reopenCount, carried>>

(* Only backwards, except that a completed route may have any of its steps *)
(* reopened.                                                               *)
reopenable(i) == i < cursor \/ routeCompleted

reopenBudgetLeft == reopenCount < MaxReopens

(* Mutants: a reopen is not charged; the route stays marked complete.      *)
moveCursorBack_Uncharged(i) ==
  /\ cursor' = i /\ routeCompleted' = FALSE /\ UNCHANGED reopenCount
moveCursorBack_StillComplete(i) ==
  /\ cursor' = i /\ reopenCount' = reopenCount + 1 /\ UNCHANGED routeCompleted

moveCursorBack(i) ==
  /\ reopenCount' = reopenCount + 1
  /\ cursor' = i
  /\ routeCompleted' = FALSE

reopenEnterpriseStep(i) ==
  /\ phase = "walking"
  /\ reopenable(i)
  /\ reopenBudgetLeft
  /\ moveCursorBack(i)
  /\ Emit([kind |-> "node.reopened", steps |-> Invalidated(Route, i)])
  /\ finished' = finished \ {Route[j] : j \in i..N}
  /\ UNCHANGED <<phase, carried>>

(* endEnterpriseRun: unregistered; later step calls answer "unmediated".   *)
endEnterpriseRun ==
  /\ phase = "walking"
  /\ phase' = "ended"
  /\ UNCHANGED <<cursor, routeCompleted, reopenCount, completed, carried, finished, lost>>

Next ==
  \/ OpenFresh
  \/ \E c \in Carryable : OpenResumed(c)
  \/ \E e \in Node \cup {"any"} : completeEnterpriseStep(e)
  \/ \E i \in 1..N : reopenEnterpriseStep(i)
  \/ endEnterpriseRun

Spec == Init /\ [][Next]_vars

-----------------------------------------------------------------------------
(* Types of the walk's state: the cursor is always a step of the route and *)
(* the reopen budget is never overdrawn.                                   *)
TypeOK ==
  /\ phase \in {"idle", "walking", "ended"}
  /\ cursor \in 1..N
  /\ routeCompleted \in BOOLEAN
  /\ reopenCount \in 0..MaxReopens
  /\ completed \subseteq Node /\ carried \subseteq Node /\ finished \subseteq Node
  /\ lost \subseteq LossyKinds

(* The cursor never stands past unfinished work: every step behind it has  *)
(* been finished in this chain of executions and not taken back since, and *)
(* a route is only called complete when all of its steps are.              *)
BehindIsFinished ==
  /\ phase # "idle" => \A i \in 1..N : i < cursor => Route[i] \in finished
  /\ routeCompleted => StepSet(Route) \subseteq finished

(* Whatever writes were lost, short of that of a reopen, the position at   *)
(* which a later run would resume has only finished work before it.        *)
ResumeNeverSkips ==
  "node.reopened" \notin lost =>
     \A i \in 1..N : i < firstUnfinishedStep(Route, completed) => Route[i] \in finished

(* With no write lost, and nothing ahead of the cursor inherited from a    *)
(* different route, a resume of the walk opens exactly where it stands.    *)
ResumeOpensAtCursor ==
  (/\ phase # "idle" /\ lost = {} /\ ~routeCompleted /\ cursor > 1
   /\ carried \cap {Route[i] : i \in cursor..N} = {})
     => firstUnfinishedStep(Route, completed) = cursor

(* The strengthening the proofs use: how the durable set, the real one and *)
(* the cursor are related.                                                 *)
AheadIsCarried ==
  phase # "idle" /\ ~routeCompleted =>
     \A i \in 1..N : i >= cursor /\ Route[i] \in finished => Route[i] \in carried

DurableIsReal ==
  /\ "node.reopened" \notin lost => completed \subseteq finished
  /\ lost = {} => completed = finished

IdleIsBlank == phase = "idle" => finished = {} /\ completed = {} /\ ~routeCompleted
                                 /\ cursor = 1 /\ reopenCount = 0 /\ lost = {}

CompleteAtEnd == routeCompleted => cursor = N

(* The inductive invariant: over completions, corrections and lost writes  *)
(* the cursor never stands past unfinished work, and the completed set a   *)
(* replay of the log would give differs from what was really done by the   *)
(* lost events only (completeEnterpriseStep, reopenEnterpriseStep).        *)
IInv == /\ TypeOK /\ BehindIsFinished /\ AheadIsCarried
        /\ DurableIsReal /\ IdleIsBlank /\ CompleteAtEnd

(* A step of a running walk moves the cursor forward by one position at    *)
(* most, only over the step it has just finished, and moves it back only   *)
(* by spending the reopen budget.                                          *)
NoSkipStep ==
  phase = "walking" =>
    /\ cursor' > cursor => cursor' = cursor + 1 /\ Route[cursor] \in finished'
    /\ (cursor' < cursor \/ (routeCompleted /\ ~routeCompleted')) =>
          reopenCount' = reopenCount + 1
NoSkip == [][NoSkipStep]_vars

(* The walk settles: forward moves end at the last step and backward moves *)
(* are budgeted, so no sequence of complete_step and reopen_step calls     *)
(* moves the cursor for ever.                                              *)
WalkSettles == <>[][cursor' = cursor /\ routeCompleted' = routeCompleted]_vars

-----------------------------------------------------------------------------
(* The walk implements the abstract progress of RouteProgress: the steps   *)
(* behind the cursor, all of them once the route is complete.              *)
Progress == INSTANCE RouteProgress WITH
              N <- Len(Route), Budget <- MaxReopens, phase <- phase,
              done <- IF routeCompleted THEN Len(Route) ELSE cursor - 1,
              spent <- reopenCount
ImplementsProgress == Progress!PSpec
=============================================================================
