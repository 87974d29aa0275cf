---------------------------- MODULE RouteProofs ----------------------------
(***************************************************************************)
(* One request's route: who chooses it, and how it is walked.              *)
(*                                                                         *)
(* StepWalk, for every route, every reopen budget and every set of lossy   *)
(* writes: the walk never stands past unfinished work, a resume never      *)
(* skips any, and the walk implements the abstract progress of             *)
(* RouteProgress.                                                          *)
(*                                                                         *)
(* RoutePlanner, for every set of work-maps, every tree, every request and *)
(* every answer of a provider.  First the trees: the recursive walks up a  *)
(* tree are what their least counterexample cannot contradict.  Then the   *)
(* candidates: the places of the sort are taken once each.  Then the       *)
(* selection, and the steps of the request.  The two components share no   *)
(* state; the second half begins at the line "The planner".                *)
(***************************************************************************)
EXTENDS StepWalk, RoutePlanner, FiniteSetTheorems, WellFoundedInduction, TLAPS


(* A set of naturals with an element has a least one.                      *)
LEMMA LeastNatural ==
  ASSUME NEW T, T \subseteq Nat, T # {}
  PROVE  \E x \in T : \A y \in T : x <= y
<1>1. \E x \in T : \A y \in T : ~ (<<y, x>> \in OpToRel(<, Nat))
  BY NatLessThanWellFounded, WFMin
<1>2. ASSUME NEW x \in T, NEW y \in T, ~ (<<y, x>> \in OpToRel(<, Nat))
      PROVE  x <= y
  BY <1>2 DEF OpToRel
<1> QED
  BY <1>1, <1>2

(* firstUnfinishedStep's prefix exists: the loop that computes it stops.   *)
LEMMA FinishedPrefixExists ==
  ASSUME NEW steps, NEW done, Len(steps) \in Nat
  PROVE  /\ FinishedPrefix(steps, done) \in 0..Len(steps)
         /\ IsFinishedPrefix(steps, done, FinishedPrefix(steps, done))
<1> DEFINE Gap == {i \in 1..Len(steps) : steps[i] \notin done}
<1>1. \E k \in 0..Len(steps) : IsFinishedPrefix(steps, done, k)
  <2>1. CASE Gap = {}
    <3>1. IsFinishedPrefix(steps, done, Len(steps))
      BY <2>1 DEF IsFinishedPrefix
    <3> QED BY <3>1
  <2>2. CASE Gap # {}
    <3>0. Gap \subseteq Nat
      OBVIOUS
    <3>1. PICK g \in Gap : \A y \in Gap : g <= y
      <4> HIDE DEF Gap
      <4> QED BY <2>2, <3>0, LeastNatural
    <3>2. IsFinishedPrefix(steps, done, g - 1)
      BY <3>1 DEF IsFinishedPrefix
    <3>3. g - 1 \in 0..Len(steps)
      BY <3>1
    <3> QED BY <3>2, <3>3
  <2> QED BY <2>1, <2>2
<1> QED
  BY <1>1 DEF FinishedPrefix

LEMMA RouteFacts ==
  /\ N \in Nat /\ N > 0
  /\ \A i \in 1..N : Route[i] \in Node
  /\ \A i, j \in 1..N : Route[i] = Route[j] => i = j
BY RouteAssumption DEF IsRoute, N

(* What a resume may rely on: it opens past the first step only over steps *)
(* that are all in the completed set, onto one that is not.                *)
LEMMA FirstUnfinishedFacts ==
  ASSUME NEW done
  PROVE  /\ firstUnfinishedStep(Route, done) \in 0..N
         /\ \A i \in 1..N : i < firstUnfinishedStep(Route, done) => Route[i] \in done
<1>1. N \in Nat /\ N = Len(Route)
  BY RouteFacts DEF N
<1>2. /\ FinishedPrefix(Route, done) \in 0..N
      /\ IsFinishedPrefix(Route, done, FinishedPrefix(Route, done))
  BY <1>1, FinishedPrefixExists
<1> QED
  BY <1>1, <1>2 DEF firstUnfinishedStep, IsFinishedPrefix

(* A completed set that stops exactly at a later step resumes there.       *)
LEMMA FirstUnfinishedIsUnique ==
  ASSUME NEW done, NEW c \in 1..N, c > 1,
         \A i \in 1..N : i < c => Route[i] \in done,
         Route[c] \notin done
  PROVE  firstUnfinishedStep(Route, done) = c
<1>1. N \in Nat /\ N = Len(Route)
  BY RouteFacts DEF N
<1>2. PICK k \in 0..N : k = FinishedPrefix(Route, done) /\ IsFinishedPrefix(Route, done, k)
  BY <1>1, FinishedPrefixExists
<1>3. k = c - 1
  <2>1. ~ (k >= c)
    BY <1>1, <1>2 DEF IsFinishedPrefix
  <2>2. ~ (k < c - 1)
    <3> SUFFICES ASSUME k < c - 1 PROVE FALSE
      OBVIOUS
    <3>1. k + 1 \in 1..N /\ k + 1 < c /\ k < Len(Route)
      BY <1>1, <1>2
    <3>2. Route[k + 1] \notin done
      BY <3>1, <1>2 DEF IsFinishedPrefix
    <3> QED BY <3>1, <3>2
  <2> QED BY <2>1, <2>2, <1>1
<1> QED
  BY <1>1, <1>2, <1>3 DEF firstUnfinishedStep

-----------------------------------------------------------------------------
LEMMA InitIInv == Init => IInv
<1> SUFFICES ASSUME Init PROVE IInv
  OBVIOUS
<1>1. routeCompleted = FALSE
  BY DEF Init
<1>2. TypeOK
  <2>1. routeCompleted \in BOOLEAN
    BY <1>1
  <2> QED
    BY <2>1, RouteFacts, ReopenAssumption DEF Init, TypeOK
<1>3. BehindIsFinished /\ AheadIsCarried /\ DurableIsReal /\ IdleIsBlank /\ CompleteAtEnd
  BY <1>1 DEF Init, BehindIsFinished, AheadIsCarried, DurableIsReal, IdleIsBlank, CompleteAtEnd
<1> QED
  BY <1>2, <1>3 DEF IInv

(* What an emitted event leaves in the trace: its effect, or nothing and a *)
(* record of the loss.                                                     *)
LEMMA EmitEffect ==
  ASSUME NEW kind \in EventKinds, NEW S \in SUBSET Node, TypeOK,
         Emit([kind |-> kind, steps |-> S])
  PROVE  /\ completed' \subseteq Node
         /\ lost' \subseteq LossyKinds /\ lost \subseteq lost'
         /\ \/ lost' = lost /\ completed' = ReplayEvent(completed, [kind |-> kind, steps |-> S])
            \/ kind \in lost' /\ completed' = completed
BY DEF Emit, TypeOK, ReplayEvent, EventKinds

(* The inductive step, action by action.                                   *)
LEMMA StepIInv == IInv /\ [Next]_vars => IInv'
<1> SUFFICES ASSUME IInv, [Next]_vars PROVE IInv'
  OBVIOUS
<1> USE RouteFacts
<1>1. CASE OpenFresh
  BY <1>1 DEF OpenFresh, IInv, TypeOK, BehindIsFinished, AheadIsCarried, DurableIsReal,
              IdleIsBlank, CompleteAtEnd, StepSet
<1>2. ASSUME NEW c \in Carryable, OpenResumed(c) PROVE IInv'
  <2>1. c \in SUBSET Node
    BY CarryAssumption
  <2>2. /\ completed' \subseteq Node
        /\ lost' \subseteq LossyKinds
        /\ \/ lost' = lost /\ completed' = completed \cup c
           \/ "run.resumed" \in lost' /\ completed' = completed
    BY <1>2, <2>1, EmitEffect DEF OpenResumed, EventKinds, ReplayEvent, IInv
  <2>3. /\ cursor' \in 1..N
        /\ \A i \in 1..N : i < cursor' => Route[i] \in c
    BY <1>2, FirstUnfinishedFacts DEF OpenResumed
  <2>4. finished' = c /\ carried' = c /\ ~routeCompleted' /\ completed = {} /\ lost = {}
        /\ phase' = "walking" /\ reopenCount' = reopenCount
    BY <1>2 DEF OpenResumed, IInv, IdleIsBlank
  <2>5. TypeOK'
    BY <2>1, <2>2, <2>3, <2>4, <1>2 DEF IInv, TypeOK, OpenResumed
  <2>6. BehindIsFinished' /\ AheadIsCarried'
    BY <2>3, <2>4, RouteAssumption DEF BehindIsFinished, AheadIsCarried, N
  <2>7. DurableIsReal' /\ IdleIsBlank' /\ CompleteAtEnd'
    BY <2>2, <2>4 DEF DurableIsReal, IdleIsBlank, CompleteAtEnd
  <2> QED
    BY <2>5, <2>6, <2>7 DEF IInv
<1>3. ASSUME NEW e \in Node \cup {"any"}, completeEnterpriseStep(e) PROVE IInv'
  <2> DEFINE s == Route[cursor]
  <2>1. s \in Node /\ cursor \in 1..N /\ ~routeCompleted /\ phase = "walking" /\ phase' = phase
        /\ finished' = finished \cup {s} /\ carried' = carried /\ reopenCount' = reopenCount
    BY <1>3 DEF completeEnterpriseStep, IInv, TypeOK
  <2>2. /\ completed' \subseteq Node
        /\ lost' \subseteq LossyKinds /\ lost \subseteq lost'
        /\ \/ lost' = lost /\ completed' = completed \cup {s}
           \/ "node.completed" \in lost' /\ completed' = completed
    BY <1>3, <2>1, EmitEffect DEF completeEnterpriseStep, EventKinds, ReplayEvent, IInv
  <2>3. \/ cursor = N /\ cursor' = cursor /\ routeCompleted'
        \/ cursor < N /\ cursor' = cursor + 1 /\ ~routeCompleted'
    BY <1>3, <2>1 DEF completeEnterpriseStep, completeLastStep, completeAndAdvance
  <2>4. TypeOK'
    <3>1. routeCompleted' \in BOOLEAN
      BY <1>3 DEF completeEnterpriseStep, completeLastStep, completeAndAdvance, IInv, TypeOK
    <3> QED
      BY <3>1, <2>1, <2>2, <2>3 DEF IInv, TypeOK
  <2>5. BehindIsFinished'
    BY <2>1, <2>3 DEF IInv, BehindIsFinished, StepSet, N
  <2>6. AheadIsCarried' /\ IdleIsBlank' /\ CompleteAtEnd'
    BY <2>1, <2>3 DEF IInv, AheadIsCarried, IdleIsBlank, CompleteAtEnd
  <2>7. DurableIsReal'
    BY <2>1, <2>2 DEF IInv, DurableIsReal
  <2> QED
    BY <2>4, <2>5, <2>6, <2>7 DEF IInv
<1>4. ASSUME NEW i \in 1..N, reopenEnterpriseStep(i) PROVE IInv'
  <2> DEFINE S == Invalidated(Route, i)
  <2>0. S = {Route[j] : j \in i..N} /\ S \in SUBSET Node
    BY DEF Invalidated, N
  <2>1. /\ phase = "walking" /\ phase' = phase /\ carried' = carried
        /\ finished' = finished \ S
        /\ cursor' = i /\ ~routeCompleted' /\ reopenCount' = reopenCount + 1
        /\ reopenCount < MaxReopens /\ (i < cursor \/ routeCompleted)
    BY <1>4, <2>0 DEF reopenEnterpriseStep, moveCursorBack, reopenable, reopenBudgetLeft
  <2>2. /\ completed' \subseteq Node
        /\ lost' \subseteq LossyKinds /\ lost \subseteq lost'
        /\ \/ lost' = lost /\ completed' = completed \ S
           \/ "node.reopened" \in lost' /\ completed' = completed
    BY <1>4, <2>0, EmitEffect DEF reopenEnterpriseStep, EventKinds, ReplayEvent, IInv
  <2>3. TypeOK'
    <3>1. routeCompleted' \in BOOLEAN
      BY <1>4 DEF reopenEnterpriseStep, moveCursorBack
    <3> QED
      BY <3>1, <2>1, <2>2, ReopenAssumption DEF IInv, TypeOK
  <2>4. BehindIsFinished'
    <3>1. \A j \in 1..N : j < i => Route[j] \in finished /\ Route[j] \notin S
      BY <2>0, <2>1 DEF IInv, TypeOK, BehindIsFinished, StepSet, N
    <3> QED BY <3>1, <2>1 DEF BehindIsFinished
  <2>5. AheadIsCarried' /\ IdleIsBlank' /\ CompleteAtEnd'
    BY <2>0, <2>1 DEF IInv, AheadIsCarried, IdleIsBlank, CompleteAtEnd
  <2>6. DurableIsReal'
    BY <2>1, <2>2 DEF IInv, DurableIsReal
  <2> QED
    BY <2>3, <2>4, <2>5, <2>6 DEF IInv
<1>5. CASE endEnterpriseRun
  BY <1>5 DEF endEnterpriseRun, IInv, TypeOK, BehindIsFinished, AheadIsCarried, DurableIsReal,
              IdleIsBlank, CompleteAtEnd, StepSet
<1>6. CASE UNCHANGED vars
  BY <1>6 DEF vars, IInv, TypeOK, BehindIsFinished, AheadIsCarried, DurableIsReal,
              IdleIsBlank, CompleteAtEnd, StepSet
<1> QED
  BY <1>1, <1>2, <1>3, <1>4, <1>5, <1>6 DEF Next

-----------------------------------------------------------------------------
(* The inductive invariant holds of every behaviour of the walk.           *)
THEOREM WalkInvariant == Spec => []IInv
BY InitIInv, StepIInv, PTL DEF Spec

(* Type correctness: the cursor stays on the route (runtime.ts steps and   *)
(* findPlanNode never miss) and the reopen budget is never overdrawn.      *)
THEOREM WalkTypes == Spec => []TypeOK
<1>1. IInv => TypeOK
  BY DEF IInv
<1> QED
  BY <1>1, WalkInvariant, PTL

(* The cursor never stands past unfinished work, for every route, budget   *)
(* and carried set, whichever trace writes fail.                           *)
THEOREM WalkBehindIsFinished == Spec => []BehindIsFinished
<1>1. IInv => BehindIsFinished
  BY DEF IInv
<1> QED
  BY <1>1, WalkInvariant, PTL

(* Losing any trace write but that of a reopen can only make a resumed run *)
(* repeat work, never skip it.                                             *)
THEOREM WalkResumeNeverSkips == Spec => []ResumeNeverSkips
<1>1. IInv => ResumeNeverSkips
  BY FirstUnfinishedFacts DEF IInv, DurableIsReal, ResumeNeverSkips
<1> QED
  BY <1>1, WalkInvariant, PTL

(* With an intact trace a resume opens exactly on the step the interrupted *)
(* walk stood on.                                                          *)
THEOREM WalkResumeOpensAtCursor == Spec => []ResumeOpensAtCursor
<1>1. IInv => ResumeOpensAtCursor
  <2> SUFFICES ASSUME IInv, phase # "idle", lost = {}, ~routeCompleted, cursor > 1,
                      carried \cap {Route[i] : i \in cursor..N} = {}
               PROVE  firstUnfinishedStep(Route, completed) = cursor
    BY DEF ResumeOpensAtCursor
  <2>1. cursor \in 1..N /\ completed = finished
    BY DEF IInv, TypeOK, DurableIsReal
  <2>2. \A i \in 1..N : i < cursor => Route[i] \in completed
    BY <2>1 DEF IInv, BehindIsFinished
  <2>3. Route[cursor] \notin completed
    BY <2>1, RouteFacts DEF IInv, AheadIsCarried
  <2> QED
    BY <2>1, <2>2, <2>3, FirstUnfinishedIsUnique
<1> QED
  BY <1>1, WalkInvariant, PTL

(* complete_step moves forward by exactly the step it closes, and only a   *)
(* charged reopen moves back.                                              *)
THEOREM WalkNoSkip == Spec => NoSkip
<1>1. IInv /\ [Next]_vars => [NoSkipStep]_vars
  <2> SUFFICES ASSUME IInv, Next, phase = "walking" PROVE NoSkipStep
    BY DEF NoSkipStep
  <2> USE DEF IInv, TypeOK, NoSkipStep
  <2>1. CASE OpenFresh \/ \E c \in Carryable : OpenResumed(c)
    BY <2>1 DEF OpenFresh, OpenResumed
  <2>2. ASSUME NEW e \in Node \cup {"any"}, completeEnterpriseStep(e) PROVE NoSkipStep
    BY <2>2, RouteFacts DEF completeEnterpriseStep, completeLastStep, completeAndAdvance
  <2>3. ASSUME NEW i \in 1..N, reopenEnterpriseStep(i) PROVE NoSkipStep
    BY <2>3, RouteFacts
       DEF reopenEnterpriseStep, reopenable, moveCursorBack, CompleteAtEnd
  <2>4. CASE endEnterpriseRun
    BY <2>4 DEF endEnterpriseRun
  <2> QED
    BY <2>1, <2>2, <2>3, <2>4 DEF Next
<1> QED
  BY <1>1, WalkInvariant, PTL DEF Spec, NoSkip

-----------------------------------------------------------------------------
(* The walk implements RouteProgress: every handler is one abstract step   *)
(* or none.                                                                *)
THEOREM WalkImplementsProgress == Spec => ImplementsProgress
<1> USE RouteFacts DEF Progress!pvars, N
<1>1. Init => Progress!PInit
  BY DEF Init, Progress!PInit
<1>2. IInv /\ [Next]_vars => [Progress!PNext]_Progress!pvars
  <2> SUFFICES ASSUME IInv, [Next]_vars PROVE [Progress!PNext]_Progress!pvars
    OBVIOUS
  <2>1. CASE OpenFresh
    <3>1. ~routeCompleted /\ ~routeCompleted' /\ cursor' = 1
      BY <2>1 DEF OpenFresh, IInv, IdleIsBlank
    <3> QED
      BY <3>1, <2>1 DEF OpenFresh, Progress!PNext, Progress!PBegin
  <2>2. ASSUME NEW c \in Carryable, OpenResumed(c)
        PROVE  [Progress!PNext]_Progress!pvars
    <3>1. ~routeCompleted /\ ~routeCompleted' /\ cursor' \in 1..N
      BY <2>2, FirstUnfinishedFacts DEF OpenResumed, IInv, IdleIsBlank
    <3> QED
      BY <3>1, <2>2 DEF OpenResumed, Progress!PNext, Progress!PBegin
  <2>3. ASSUME NEW e \in Node \cup {"any"}, completeEnterpriseStep(e)
        PROVE  [Progress!PNext]_Progress!pvars
    <3>1. ~routeCompleted /\ cursor \in 1..N /\ phase = "walking" /\ phase' = phase
          /\ reopenCount' = reopenCount
      BY <2>3 DEF completeEnterpriseStep, IInv, TypeOK
    <3>2. \/ cursor = N /\ routeCompleted'
          \/ cursor < N /\ cursor' = cursor + 1 /\ ~routeCompleted'
      BY <2>3, <3>1 DEF completeEnterpriseStep, completeLastStep, completeAndAdvance
    <3>3. Progress!PFinishStep
      BY <3>1, <3>2 DEF Progress!PFinishStep
    <3> QED BY <3>3 DEF Progress!PNext
  <2>4. ASSUME NEW i \in 1..N, reopenEnterpriseStep(i)
        PROVE  [Progress!PNext]_Progress!pvars
    <3>1. /\ phase = "walking" /\ phase' = phase
          /\ cursor' = i /\ ~routeCompleted' /\ reopenCount' = reopenCount + 1
          /\ reopenCount < MaxReopens /\ (i < cursor \/ routeCompleted) /\ cursor \in 1..N
      BY <2>4 DEF reopenEnterpriseStep, moveCursorBack, reopenable, reopenBudgetLeft, IInv, TypeOK
    <3>2. i - 1 \in 0..Len(Route) /\ i - 1 < (IF routeCompleted THEN Len(Route) ELSE cursor - 1)
      BY <3>1
    <3>3. Progress!PCorrect
      BY <3>1, <3>2 DEF Progress!PCorrect
    <3> QED BY <3>3 DEF Progress!PNext
  <2>5. CASE endEnterpriseRun
    BY <2>5 DEF endEnterpriseRun, Progress!PNext, Progress!PEnd
  <2>6. CASE UNCHANGED vars
    BY <2>6 DEF vars
  <2> QED
    BY <2>1, <2>2, <2>3, <2>4, <2>5, <2>6 DEF Next
<1> QED
  BY <1>1, <1>2, WalkInvariant, PTL DEF Spec, ImplementsProgress, Progress!PSpec

-----------------------------------------------------------------------------
(***************************************************************************)
(* The planner.                                                            *)
(***************************************************************************)

(* A tree as the planner walks it: its nodes are numbered depth first.     *)
WalkedTree(t) ==
  /\ t.parent \in Seq(Nat) /\ Len(t.parent) >= 1
  /\ t.parent[1] = 0
  /\ \A n \in 2..Len(t.parent) :
       /\ t.parent[n] \in 1..(n - 1)
       /\ \A k \in (t.parent[n] + 1)..n : t.parent[k] >= t.parent[n]

LEMMA Nodes ==
  ASSUME NEW t, WalkedTree(t)
  PROVE  /\ Len(t.parent) \in Nat /\ nodesOf(t) = 1..Len(t.parent)
         /\ 1 \in nodesOf(t)
         /\ \A n \in nodesOf(t) :
              /\ t.parent[n] \in Nat
              /\ t.parent[n] = 0 <=> n = 1
              /\ t.parent[n] # 0 => t.parent[n] \in nodesOf(t) /\ t.parent[n] < n
<1>1. Len(t.parent) \in Nat /\ nodesOf(t) = 1..Len(t.parent)
  BY DEF WalkedTree, nodesOf
<1>2. 1 \in nodesOf(t)
  BY <1>1 DEF WalkedTree
<1>3. ASSUME NEW n \in nodesOf(t)
      PROVE  /\ t.parent[n] \in Nat
             /\ t.parent[n] = 0 <=> n = 1
             /\ t.parent[n] # 0 => t.parent[n] \in nodesOf(t) /\ t.parent[n] < n
  <2>1. CASE n = 1
    BY <2>1 DEF WalkedTree
  <2>2. CASE n # 1
    <3>1. n \in 2..Len(t.parent) /\ n \in Nat
      BY <1>1, <2>2
    <3>2. t.parent[n] \in 1..(n - 1)
      BY <3>1 DEF WalkedTree
    <3> QED BY <1>1, <3>1, <3>2
  <2> QED BY <2>1, <2>2
<1> QED
  BY <1>1, <1>2, <1>3

(* Every node is below itself and below the root.                          *)
LEMMA BelowItself ==
  ASSUME NEW t, WalkedTree(t), NEW n \in nodesOf(t)
  PROVE  n \in below(t, n) /\ n \in below(t, 1)
<1>1. n \in Nat /\ n >= 1
  BY Nodes
<1>2. n \in below(t, n)
  BY <1>1 DEF below
<1>3. ASSUME NEW k \in 2..n
      PROVE  t.parent[k] >= 1
  BY <1>1, <1>3, Nodes
<1> QED
  BY <1>1, <1>2, <1>3 DEF below

(* What is below a node is below its parent.                               *)
LEMMA BelowParent ==
  ASSUME NEW t, WalkedTree(t), NEW n \in nodesOf(t), t.parent[n] # 0,
         NEW m \in below(t, n)
  PROVE  m \in below(t, t.parent[n])
<1> DEFINE p == t.parent[n]
<1>1. p \in Nat /\ p < n /\ n \in Nat /\ m \in Nat /\ m >= n /\ m \in nodesOf(t)
  BY Nodes DEF below
<1>2. ASSUME NEW k \in (p + 1)..m
      PROVE  t.parent[k] >= p
  <2>1. CASE k <= n
    <3>1. n \in 2..Len(t.parent) /\ k \in (p + 1)..n
      BY <1>1, <2>1, Nodes
    <3> QED BY <3>1 DEF WalkedTree
  <2>2. CASE k > n
    <3>1. t.parent[k] >= n
      BY <1>1, <2>2 DEF below
    <3>2. t.parent[k] \in Nat
      BY <1>1, <2>2, Nodes
    <3> QED BY <1>1, <3>1, <3>2
  <2> QED BY <1>1, <2>1, <2>2
<1> QED
  BY <1>1, <1>2 DEF below

(* What is below a node and not the node itself has its parent there.      *)
LEMMA ParentBelow ==
  ASSUME NEW t, WalkedTree(t), NEW a \in nodesOf(t), NEW n \in below(t, a), n # a
  PROVE  t.parent[n] \in below(t, a) /\ t.parent[n] # 0
<1> DEFINE p == t.parent[n]
<1>1. /\ n \in Nat /\ a \in Nat /\ a >= 1 /\ n > a /\ n \in nodesOf(t)
      /\ \A k \in (a + 1)..n : t.parent[k] >= a
  BY Nodes DEF below
<1>2. p >= a /\ p # 0
  BY <1>1, Nodes
<1>3. p \in nodesOf(t) /\ p < n /\ p \in Nat
  BY <1>1, <1>2, Nodes
<1> QED
  BY <1>1, <1>2, <1>3 DEF below

(* ancestorsOf is the walk up: it collects the nodes a node is below.      *)
ancestry(t) == [n \in nodesOf(t) |-> {a \in nodesOf(t) : a # n /\ n \in below(t, a)}]

IsAncestors(t, g) ==
  g = [n \in nodesOf(t) |->
         IF t.parent[n] = 0 THEN {} ELSE {t.parent[n]} \cup g[t.parent[n]]]

LEMMA AncestryWalksUp ==
  ASSUME NEW t, WalkedTree(t)
  PROVE  IsAncestors(t, ancestry(t))
<1> DEFINE f == ancestry(t)
<1>1. ASSUME NEW n \in nodesOf(t), t.parent[n] = 0
      PROVE  f[n] = {}
  <2>1. n = 1
    BY <1>1, Nodes
  <2>2. ASSUME NEW a \in nodesOf(t), a # n, n \in below(t, a)
        PROVE  FALSE
    BY <2>1, <2>2, Nodes DEF below
  <2> QED BY <2>2 DEF ancestry
<1>2. ASSUME NEW n \in nodesOf(t), t.parent[n] # 0
      PROVE  f[n] = {t.parent[n]} \cup f[t.parent[n]]
  <2> DEFINE p == t.parent[n]
  <2>1. p \in nodesOf(t) /\ p # n
    BY <1>2, Nodes
  <2>2. n \in below(t, p)
    BY <1>2, BelowItself, BelowParent
  <2>3. ASSUME NEW a \in nodesOf(t)
        PROVE  (a # n /\ n \in below(t, a)) <=> (a = p \/ (a # p /\ p \in below(t, a)))
    <3>1. ASSUME a # n, n \in below(t, a)
          PROVE  p \in below(t, a)
      BY <3>1, ParentBelow
    <3>2. ASSUME a # p, p \in below(t, a)
          PROVE  a # n /\ n \in below(t, a)
      <4>1. /\ n \in Nat /\ a \in Nat /\ p \in Nat /\ a < p /\ p < n
            /\ \A k \in (a + 1)..p : t.parent[k] >= a
        BY <1>2, <2>1, <3>2, Nodes DEF below
      <4>2. \A k \in (p + 1)..n : t.parent[k] >= p /\ t.parent[k] \in Nat
        BY <2>2, <4>1, Nodes DEF below
      <4>3. \A k \in (a + 1)..n : t.parent[k] >= a
        BY <4>1, <4>2
      <4> QED BY <4>1, <4>3 DEF below
    <3> QED BY <2>1, <2>2, <3>1, <3>2
  <2>4. f[n] = {a \in nodesOf(t) : a # n /\ n \in below(t, a)}
    BY DEF ancestry
  <2>5. f[p] = {a \in nodesOf(t) : a # p /\ p \in below(t, a)}
    BY <2>1 DEF ancestry
  <2> HIDE DEF p, f
  <2>6. f[n] = {p} \cup f[p]
    BY <2>1, <2>3, <2>4, <2>5
  <2> QED BY <2>6 DEF p, f
<1>3. f = [n \in nodesOf(t) |-> f[n]]
  BY DEF ancestry
<1> HIDE DEF f
<1>4. f = [n \in nodesOf(t) |->
            IF t.parent[n] = 0 THEN {} ELSE {t.parent[n]} \cup f[t.parent[n]]]
  BY <1>1, <1>2, <1>3
<1> QED
  BY <1>4 DEF IsAncestors, f

LEMMA OneAncestry ==
  ASSUME NEW t, WalkedTree(t), NEW g, IsAncestors(t, g),
         NEW n \in nodesOf(t)
  PROVE  g[n] = ancestry(t)[n]
<1> DEFINE f == ancestry(t)
           Odd == {m \in nodesOf(t) : g[m] # f[m]}
<1>1. ASSUME Odd # {}
      PROVE  FALSE
  <2>1. Odd \subseteq Nat
    BY Nodes
  <2>2. PICK m \in Odd : \A k \in Odd : m <= k
    BY <1>1, <2>1, LeastNatural
  <2>3. m \in nodesOf(t) /\ g[m] # f[m] /\ m \in Nat
    BY <2>1
  <2>4. /\ g[m] = IF t.parent[m] = 0 THEN {} ELSE {t.parent[m]} \cup g[t.parent[m]]
        /\ f[m] = IF t.parent[m] = 0 THEN {} ELSE {t.parent[m]} \cup f[t.parent[m]]
    <3>1. IsAncestors(t, f)
      BY AncestryWalksUp
    <3> HIDE DEF f
    <3> QED BY <2>3, <3>1 DEF IsAncestors
  <2>5. t.parent[m] # 0 /\ g[t.parent[m]] # f[t.parent[m]]
    BY <2>3, <2>4
  <2>6. t.parent[m] \in nodesOf(t) /\ t.parent[m] < m /\ t.parent[m] \in Nat
    BY <2>3, <2>5, Nodes
  <2>7. t.parent[m] \in Odd
    BY <2>5, <2>6
  <2> QED BY <2>2, <2>3, <2>6, <2>7
<1> QED
  BY <1>1

(* The ancestors of a node are the other nodes it is below.                *)
LEMMA Ancestors ==
  ASSUME NEW t, WalkedTree(t), NEW n \in nodesOf(t)
  PROVE  ancestorsOf(t)[n] = {a \in nodesOf(t) : a # n /\ n \in below(t, a)}
<1>1. IsAncestors(t, ancestry(t))
  BY AncestryWalksUp
<1>2. IsAncestors(t, ancestorsOf(t))
  BY <1>1 DEF ancestorsOf, IsAncestors
<1> QED
  BY <1>2, OneAncestry DEF ancestry

(* A plan keeps what was asked for when every kept node's parent is kept.  *)
IsVisited(t, keep, g) ==
  g = [n \in nodesOf(t) |-> n \in keep /\ (t.parent[n] = 0 \/ g[t.parent[n]])]

LEMMA Flattened ==
  ASSUME NEW t, WalkedTree(t), NEW keep, keep \subseteq nodesOf(t),
         \A n \in keep : t.parent[n] = 0 \/ t.parent[n] \in keep
  PROVE  flattenPlanNodes(t, keep) = keep
<1> DEFINE f == [n \in nodesOf(t) |-> n \in keep]
           h == CHOOSE g : IsVisited(t, keep, g)
<1>1. ASSUME NEW n \in nodesOf(t)
      PROVE  f[n] <=> n \in keep /\ (t.parent[n] = 0 \/ f[t.parent[n]])
  BY <1>1, Nodes
<1>2. IsVisited(t, keep, f)
  <2>1. ASSUME NEW n \in nodesOf(t)
        PROVE  (n \in keep) = (n \in keep /\ (t.parent[n] = 0 \/ f[t.parent[n]]))
    <3>1. (n \in keep) <=> (n \in keep /\ (t.parent[n] = 0 \/ f[t.parent[n]]))
      BY <1>1, <2>1
    <3> HIDE DEF f
    <3> QED BY <3>1
  <2>2. f = [n \in nodesOf(t) |-> n \in keep /\ (t.parent[n] = 0 \/ f[t.parent[n]])]
    BY <2>1, Zenon
  <2> QED BY <2>2, Zenon DEF IsVisited
<1>3. IsVisited(t, keep, h)
  BY <1>2
<1> HIDE DEF h
<1>4. ASSUME NEW n \in nodesOf(t)
      PROVE  h[n] <=> n \in keep /\ (t.parent[n] = 0 \/ h[t.parent[n]])
  BY <1>3, <1>4, Zenon DEF IsVisited
<1> DEFINE Odd == {m \in nodesOf(t) : ~ (h[m] <=> m \in keep)}
<1>5. ASSUME Odd # {}
      PROVE  FALSE
  <2>1. Odd \subseteq Nat
    BY Nodes
  <2>2. PICK m \in Odd : \A k \in Odd : m <= k
    BY <1>5, <2>1, LeastNatural
  <2>3. m \in nodesOf(t) /\ m \in Nat /\ m \in keep /\ ~h[m]
    BY <1>4, <2>1
  <2>4. t.parent[m] # 0 /\ t.parent[m] \in keep /\ ~h[t.parent[m]]
    BY <1>4, <2>3
  <2>5. t.parent[m] \in nodesOf(t) /\ t.parent[m] < m /\ t.parent[m] \in Nat
    BY <2>3, <2>4, Nodes
  <2>6. t.parent[m] \in Odd
    BY <2>4, <2>5
  <2> QED BY <2>2, <2>3, <2>5, <2>6
<1>6. {n \in nodesOf(t) : h[n]} = keep
  BY <1>5
<1>7. flattenPlanNodes(t, keep) = {n \in nodesOf(t) : h[n]}
  BY DEF flattenPlanNodes, h, IsVisited
<1> QED
  BY <1>6, <1>7

(* A route's plan: the endpoints and all that leads to them, root first,   *)
(* and nothing of it is lost.                                              *)
LEMMA RouteIsKept ==
  ASSUME NEW t, WalkedTree(t), NEW routes, validRoute(t, routes)
  PROVE  LET keep == resolveRouteNodeIds(t, routes)
         IN  /\ keep = {n \in nodesOf(t) : below(t, n) \cap routes # {}}
             /\ flattenPlanNodes(t, keep) = keep
             /\ ~planThrows(t, keep)
<1> DEFINE keep == resolveRouteNodeIds(t, routes)
           led == {n \in nodesOf(t) : below(t, n) \cap routes # {}}
<1>1. routes \subseteq nodesOf(t) /\ \E r \in routes : TRUE
  BY DEF validRoute
<1>2. ASSUME NEW r \in routes
      PROVE  {r} \cup ancestorsOf(t)[r] = {n \in nodesOf(t) : r \in below(t, n)}
  <2>1. r \in nodesOf(t) /\ r \in below(t, r)
    BY <1>1, BelowItself
  <2>2. ancestorsOf(t)[r] = {a \in nodesOf(t) : a # r /\ r \in below(t, a)}
    BY <2>1, Ancestors
  <2> QED BY <2>1, <2>2
<1>3. keep = UNION {{n \in nodesOf(t) : r \in below(t, n)} : r \in routes}
  <2>1. routes \cap nodesOf(t) = routes
    BY <1>1
  <2>2. keep = UNION {{r} \cup ancestorsOf(t)[r] : r \in routes}
    BY <2>1 DEF resolveRouteNodeIds
  <2> HIDE DEF keep
  <2>3. \A n : n \in keep <=> \E r \in routes : n \in {m \in nodesOf(t) : r \in below(t, m)}
    BY <1>2, <2>2
  <2> QED BY <2>3
<1> HIDE DEF keep
<1>4. keep = led
  BY <1>3
<1>5. 1 \in keep
  BY <1>1, <1>4, BelowItself, Nodes
<1>6. ASSUME NEW n \in keep, t.parent[n] # 0
      PROVE  t.parent[n] \in keep
  <2>1. n \in nodesOf(t) /\ t.parent[n] \in nodesOf(t)
    BY <1>4, <1>6, Nodes
  <2>2. PICK r \in routes : r \in below(t, n)
    BY <1>4
  <2>3. r \in below(t, t.parent[n])
    BY <1>6, <2>1, <2>2, BelowParent
  <2> QED BY <1>4, <2>1, <2>2, <2>3
<1>7. flattenPlanNodes(t, keep) = keep
  BY <1>4, <1>6, Flattened
<1> QED
  BY <1>4, <1>5, <1>7 DEF planThrows, keep

(* So is the whole tree.                                                   *)
LEMMA WholeIsKept ==
  ASSUME NEW t, WalkedTree(t)
  PROVE  /\ flattenPlanNodes(t, nodesOf(t)) = nodesOf(t)
         /\ ~planThrows(t, nodesOf(t))
<1>1. flattenPlanNodes(t, nodesOf(t)) = nodesOf(t)
  BY Flattened, Nodes
<1> QED
  BY <1>1, Nodes DEF planThrows

-----------------------------------------------------------------------------
(* Every tree a request can meet is one the planner can walk.              *)
LEMMA TreesAreWalked ==
  ASSUME setup \in Setups, NEW i \in Ids
  PROVE  WalkedTree(treeOf(i))
<1>1. CASE i \in DOMAIN setup.trees
  <2>1. Tree(setup.trees[i])
    BY <1>1, SetupsAssumption
  <2> QED BY <1>1, <2>1 DEF treeOf, Tree, WalkedTree
<1>2. CASE i \notin DOMAIN setup.trees
  <2>1. treeOf(i).parent = <<0>>
    BY <1>2 DEF treeOf, builtinTree
  <2> HIDE DEF treeOf
  <2> QED BY <2>1 DEF WalkedTree
<1> QED
  BY <1>1, <1>2

(* The order of the candidates is strict and total.                        *)
LEMMA OrderIsTotal ==
  ASSUME setup \in Setups, NEW i \in matching, NEW j \in matching
  PROVE  /\ ~ sortsBefore(i, i)
         /\ i # j => sortsBefore(i, j) \/ sortsBefore(j, i)
         /\ \A k \in matching : sortsBefore(i, j) /\ sortsBefore(j, k) => sortsBefore(i, k)
<1>1. ASSUME NEW k \in matching
      PROVE  k \in Ids /\ treeOf(k).priority \in Int /\ Rank[k] \in Nat
  <2>1. k \in DOMAIN setup.trees /\ k \in Ids
    BY SetupsAssumption DEF matching
  <2>2. Tree(setup.trees[k])
    BY <2>1, SetupsAssumption
  <2> QED BY <2>1, <2>2, RankAssumption DEF treeOf, Tree
<1>2. \A a, b \in Ids : Rank[a] = Rank[b] => a = b
  BY RankAssumption
<1> QED
  BY <1>1, <1>2 DEF sortsBefore

(* The sort loses none of the matching trees and adds none: the place of a *)
(* tree is the number of those before it, so every place is taken once.    *)
LEMMA Sorted ==
  ASSUME setup \in Setups
  PROVE  /\ IsFiniteSet(matching)
         /\ \A k \in 1..Cardinality(matching) :
              \E i \in matching : Cardinality({j \in matching : sortsBefore(j, i)}) = k - 1
         /\ \A i \in matching :
              Cardinality({j \in matching : sortsBefore(j, i)}) + 1 \in 1..Cardinality(matching)
         /\ \A i, j \in matching :
              Cardinality({k \in matching : sortsBefore(k, i)})
                = Cardinality({k \in matching : sortsBefore(k, j)}) => i = j
<1> DEFINE before(i) == {j \in matching : sortsBefore(j, i)}
           place == [i \in matching |-> Cardinality(before(i))]
<1>1. IsFiniteSet(matching)
  <2>1. matching \subseteq DOMAIN setup.trees /\ IsFiniteSet(DOMAIN setup.trees)
    BY SetupsAssumption DEF matching
  <2> QED BY <2>1, FS_Subset
<1>2. Cardinality(matching) \in Nat
  BY <1>1, FS_CardinalityType
<1> DEFINE M == Cardinality(matching)
           places == 0..(M - 1)
<1>3. ASSUME NEW i \in matching
      PROVE  /\ IsFiniteSet(before(i)) /\ Cardinality(before(i)) \in Nat
             /\ Cardinality(before(i)) < M
  <2>1. before(i) \in SUBSET matching /\ before(i) # matching
    BY OrderIsTotal
  <2> HIDE DEF before
  <2>2. /\ IsFiniteSet(before(i)) /\ Cardinality(before(i)) <= M
        /\ M = Cardinality(before(i)) => matching = before(i)
    BY <1>1, <2>1, FS_Subset
  <2>3. Cardinality(before(i)) \in Nat
    BY <2>2, FS_CardinalityType
  <2> QED BY <1>2, <2>1, <2>2, <2>3
<1>4. ASSUME NEW i \in matching, NEW j \in matching, sortsBefore(i, j)
      PROVE  Cardinality(before(i)) # Cardinality(before(j))
  <2>1. before(i) \in SUBSET before(j) /\ i \in before(j) /\ i \notin before(i)
    BY <1>4, OrderIsTotal
  <2>2. IsFiniteSet(before(j))
    BY <1>3
  <2> HIDE DEF before
  <2>3. Cardinality(before(j)) = Cardinality(before(i)) => before(j) = before(i)
    BY <2>1, <2>2, FS_Subset
  <2> QED BY <2>1, <2>3
<1>5. \A i, j \in matching : place[i] = place[j] => i = j
  BY <1>4, OrderIsTotal
<1>6. place \in [matching -> places]
  BY <1>2, <1>3
<1> HIDE DEF before, place, places
<1>7. place \in Injection(matching, places)
  BY <1>5, <1>6 DEF Injection, IsInjective
<1>8. IsFiniteSet(places) /\ Cardinality(places) = M
  BY <1>2, FS_Interval DEF places
<1>9. place \in Surjection(matching, places)
  BY <1>7, <1>8, FS_Injection
<1>10. \A p \in places : \E i \in matching : place[i] = p
  BY <1>9 DEF Surjection
<1>11. \A i \in matching : place[i] = Cardinality(before(i))
  BY DEF place
<1>12. ASSUME NEW k \in 1..M
       PROVE  \E i \in matching : Cardinality(before(i)) = k - 1
  <2>1. k - 1 \in places
    BY <1>2, <1>12 DEF places
  <2> QED BY <1>10, <1>11, <2>1
<1>13. \A i \in matching : Cardinality(before(i)) + 1 \in 1..M
  BY <1>2, <1>3
<1>14. \A i, j \in matching : Cardinality(before(i)) = Cardinality(before(j)) => i = j
  BY <1>5, <1>11
<1>15. \A k \in 1..M : \E i \in matching : Cardinality(before(i)) = k - 1
  BY <1>12
<1> HIDE DEF M
<1> QED
  BY <1>1, <1>13, <1>14, <1>15, Zenon DEF before, M

(* The candidates are the matching trees and the default.                  *)
LEMMA Candidates ==
  ASSUME setup \in Setups
  PROVE  candidates = matching \cup {defaultId}
<1> DEFINE M == Cardinality(matching)
           rank(i) == Cardinality({j \in matching : sortsBefore(j, i)})
           sorted == [k \in 1..M |-> CHOOSE i \in matching : rank(i) = k - 1]
           list == collectWorkflowTreeCandidates
<1>1. M \in Nat
  BY Sorted, FS_CardinalityType
<1>2. /\ \A k \in 1..M : \E i \in matching : rank(i) = k - 1
      /\ \A i \in matching : rank(i) + 1 \in 1..M
      /\ \A i, j \in matching : rank(i) = rank(j) => i = j
      /\ \A i \in matching : rank(i) \in Nat
  <2>1. \A i \in matching : rank(i) \in Nat
    <3>1. ASSUME NEW i \in matching
          PROVE  IsFiniteSet({j \in matching : sortsBefore(j, i)})
      <4>1. {j \in matching : sortsBefore(j, i)} \in SUBSET matching
        OBVIOUS
      <4> QED BY <4>1, Sorted, FS_Subset
    <3> QED BY <3>1, FS_CardinalityType
  <2> QED BY <2>1, Sorted
<1>3. list = IF defaultId \in matching THEN sorted ELSE Append(sorted, defaultId)
  BY DEF collectWorkflowTreeCandidates
<1> HIDE DEF rank
<1>4. \A k \in 1..M : sorted[k] \in matching /\ rank(sorted[k]) = k - 1
  BY <1>2
<1>5. sorted \in Seq(matching) /\ Len(sorted) = M /\ DOMAIN sorted = 1..M
  BY <1>1, <1>4
<1> HIDE DEF sorted, list, M
<1>6. \A i \in matching : \E k \in 1..M : sorted[k] = i
  <2> SUFFICES ASSUME NEW i \in matching
               PROVE  \E k \in 1..M : sorted[k] = i
    OBVIOUS
  <2>1. rank(i) + 1 \in 1..M /\ rank(i) \in Nat
    BY <1>2
  <2>2. sorted[rank(i) + 1] \in matching /\ rank(sorted[rank(i) + 1]) = rank(i)
    BY <1>4, <2>1
  <2> QED BY <1>2, <2>1, <2>2
<1>7. CASE defaultId \in matching
  <2>1. candidates = {sorted[k] : k \in 1..M}
    BY <1>3, <1>5, <1>7 DEF candidates, list
  <2> QED BY <1>4, <1>6, <1>7, <2>1
<1>8. CASE defaultId \notin matching
  <2>1. list = Append(sorted, defaultId)
    BY <1>3, <1>8
  <2>2. DOMAIN list = 1..(M + 1)
    BY <1>1, <1>5, <2>1
  <2>3. list[M + 1] = defaultId /\ \A k \in 1..M : list[k] = sorted[k]
    BY <1>1, <1>5, <2>1
  <2>4. candidates = {list[k] : k \in 1..(M + 1)}
    BY <2>2 DEF candidates, list
  <2>5. \A x : x \in candidates <=> x = defaultId \/ \E k \in 1..M : sorted[k] = x
    BY <1>1, <2>3, <2>4
  <2> QED BY <1>4, <1>6, <2>5
<1> QED
  BY <1>7, <1>8

(* A candidate serves the request's trigger, or is the default.            *)
LEMMA CandidatesServe ==
  ASSUME setup \in Setups
  PROVE  /\ defaultId \in candidates
         /\ \A i \in candidates :
              /\ i \in Ids /\ i # NoTree /\ WalkedTree(treeOf(i))
              /\ i = defaultId \/ setup.trigger \in treeOf(i).triggers
<1>1. defaultId \in Ids
  BY DEF defaultId, Ids
<1>2. \A i \in matching : i \in Ids /\ setup.trigger \in treeOf(i).triggers
  BY SetupsAssumption DEF matching, treeOf
<1>3. \A i \in candidates : i \in Ids /\ (i = defaultId \/ i \in matching)
  BY <1>1, <1>2, Candidates
<1> QED
  BY <1>2, <1>3, Candidates, TreesAreWalked, RankAssumption

(* What makes a plan of the nodes of tree i what was answered.             *)
answeredAs(i, nodes, d) ==
  \/ /\ d.kind = "decided" /\ d.tree = i
     /\ d.routes # {} /\ d.routes \subseteq nodesOf(treeOf(i))
     /\ nodes = {n \in nodesOf(treeOf(i)) : below(treeOf(i), n) \cap d.routes # {}}
  \/ /\ i = defaultId
     /\ nodes = {1} /\ nodesOf(treeOf(i)) = {1}
     /\ d.kind = "unavailable" \/ (d.kind = "decided" /\ d.tree = NoTree)

Decision(d) == d.kind \in {"unavailable", "failed", "clarification", "decided"}

\* The selection s can be carried out: a plan is built of all it keeps.
Feasible(s) ==
  s.next # "blocked" => /\ s.tree \in candidates
                        /\ s.next \in {"execute", "clarify"}
                        /\ s.next = "execute" =>
                             /\ ~planThrows(treeOf(s.tree), s.keep)
                             /\ flattenPlanNodes(treeOf(s.tree), s.keep) = s.keep

(* Without a model only a default tree of one step executes.               *)
LEMMA SingleStep ==
  ASSUME setup \in Setups
  PROVE  LET s == selectionWithoutModel(defaultId)
         IN  /\ s.next \in {"blocked", "execute"} /\ Feasible(s) /\ s.tree = defaultId
             /\ s.next = "execute" => s.keep = {1} /\ nodesOf(treeOf(defaultId)) = {1}
<1> DEFINE i == defaultId
           t == treeOf(defaultId)
           s == selectionWithoutModel(defaultId)
<1>1. i \in candidates /\ WalkedTree(t)
  BY CandidatesServe
<1>2. /\ s.tree = i /\ s.keep = nodesOf(t)
      /\ s.next = IF Len(t.parent) > 1 THEN "blocked" ELSE "execute"
  BY DEF selectionWithoutModel
<1> HIDE DEF s, t
<1>3. ~planThrows(t, s.keep) /\ flattenPlanNodes(t, s.keep) = s.keep
  BY <1>1, <1>2, WholeIsKept
<1>4. ASSUME s.next = "execute"
      PROVE  s.keep = {1} /\ nodesOf(t) = {1}
  <2>1. Len(t.parent) \in Nat /\ Len(t.parent) >= 1 /\ nodesOf(t) = 1..Len(t.parent)
    BY <1>1, Nodes DEF WalkedTree
  <2>2. ~ (Len(t.parent) > 1)
    BY <1>2, <1>4
  <2>3. \A k \in Nat : k >= 1 /\ ~ (k > 1) => k = 1
    OBVIOUS
  <2>4. Len(t.parent) = 1
    BY <2>1, <2>2, <2>3, Zenon
  <2> QED BY <1>2, <2>1, <2>4
<1> HIDE DEF i
<1>5. Feasible(s)
  BY <1>1, <1>2, <1>3 DEF Feasible, t, i
<1>6. s.next \in {"blocked", "execute"}
  BY <1>2
<1> QED
  BY <1>2, <1>4, <1>5, <1>6 DEF s, i, t

(* selectWorkflowPlan executes only what was decided, and only plans that  *)
(* can be built.                                                           *)
LEMMA Selected ==
  ASSUME setup \in Setups, NEW d, Decision(d)
  PROVE  LET s == selectWorkflowPlan(d)
         IN  /\ Feasible(s)
             /\ s.next = "execute" => answeredAs(s.tree, s.keep, d)
<1> DEFINE s == selectWorkflowPlan(d)
<1> SUFFICES Feasible(s) /\ (s.next = "execute" => answeredAs(s.tree, s.keep, d))
  OBVIOUS
<1>1. CASE s = failClosed
  BY <1>1 DEF failClosed, Feasible
<1>2. CASE /\ s = selectionWithoutModel(defaultId)
           /\ d.kind = "unavailable" \/ (d.kind = "decided" /\ d.tree = NoTree)
  <2>1. /\ Feasible(s) /\ s.tree = defaultId
        /\ s.next = "execute" => s.keep = {1} /\ nodesOf(treeOf(defaultId)) = {1}
    BY <1>2, SingleStep
  <2> HIDE DEF s
  <2> QED BY <1>2, <2>1 DEF answeredAs
<1>3. CASE s = [tree |-> d.tree, keep |-> {}, next |-> "clarify"] /\ d.tree \in candidates
  <2> HIDE DEF s
  <2>1. s.tree = d.tree /\ s.next = "clarify"
    BY <1>3
  <2> QED BY <1>3, <2>1 DEF Feasible
<1>4. CASE /\ s = [tree |-> d.tree, next |-> "execute",
                   keep |-> resolveRouteNodeIds(treeOf(d.tree), d.routes)]
           /\ d.kind = "decided" /\ d.tree \in candidates
           /\ validRoute(treeOf(d.tree), d.routes)
  <2> HIDE DEF s
  <2>1. WalkedTree(treeOf(d.tree))
    BY <1>4, CandidatesServe
  <2>2. /\ s.keep = {n \in nodesOf(treeOf(d.tree)) :
                       below(treeOf(d.tree), n) \cap d.routes # {}}
        /\ flattenPlanNodes(treeOf(d.tree), s.keep) = s.keep
        /\ ~planThrows(treeOf(d.tree), s.keep)
    BY <1>4, <2>1, RouteIsKept
  <2>3. /\ s.tree = d.tree /\ s.next = "execute"
    BY <1>4
  <2>4. Feasible(s)
    BY <1>4, <2>2, <2>3 DEF Feasible
  <2>5. answeredAs(s.tree, s.keep, d)
    BY <1>4, <2>2, <2>3 DEF answeredAs, validRoute
  <2> QED BY <2>4, <2>5
<1>5. \/ s = failClosed
      \/ /\ s = selectionWithoutModel(defaultId)
         /\ d.kind = "unavailable" \/ (d.kind = "decided" /\ d.tree = NoTree)
      \/ s = [tree |-> d.tree, keep |-> {}, next |-> "clarify"] /\ d.tree \in candidates
      \/ /\ s = [tree |-> d.tree, next |-> "execute",
                 keep |-> resolveRouteNodeIds(treeOf(d.tree), d.routes)]
         /\ d.kind = "decided" /\ d.tree \in candidates
         /\ validRoute(treeOf(d.tree), d.routes)
  <2>1. CASE d.kind = "unavailable"
    BY <2>1 DEF selectWorkflowPlan
  <2>2. CASE d.kind = "failed"
    BY <2>2 DEF selectWorkflowPlan
  <2>3. CASE d.kind = "clarification"
    BY <2>3 DEF selectWorkflowPlan
  <2>4. CASE d.kind = "decided"
    <3>1. s = decided(d)
      BY <2>4 DEF selectWorkflowPlan
    <3> HIDE DEF s
    <3> QED BY <2>4, <3>1 DEF decided
  <2> QED BY <2>1, <2>2, <2>3, <2>4 DEF Decision
<1> QED
  BY <1>1, <1>2, <1>3, <1>4, <1>5

(* A request that goes on from a feasible selection is over, or stands     *)
(* before its skills with all of the plan.                                 *)
concluded ==
  /\ pc' = "done"
  /\ outcome'.kind \in {"blocked", "off", "clarification"}

LEMMA Proceeds ==
  ASSUME NEW s, Feasible(s), proceed(s)
  PROVE  \/ concluded
         \/ /\ pc' = "skills" /\ s.next = "execute" /\ s.tree \in candidates
            /\ outcome' = [kind |-> "none", tree |-> s.tree, nodes |-> s.keep]
<1>1. CASE s.next = "blocked"
  BY <1>1 DEF proceed, end, concluded
<1>2. CASE s.next = "clarify"
  BY <1>2 DEF proceed, end, concluded
<1>3. CASE s.next = "execute"
  BY <1>3 DEF proceed, end, concluded, Feasible
<1> QED
  BY <1>1, <1>2, <1>3 DEF Feasible

LEMMA Answers ==
  ASSUME setup \in Setups, NEW d, Decision(d), answer(d)
  PROVE  \/ concluded
         \/ /\ pc' = "skills" /\ outcome'.kind = "none"
            /\ outcome'.tree \in candidates
            /\ answeredAs(outcome'.tree, outcome'.nodes, d)
<1> DEFINE s == selectWorkflowPlan(d)
<1>1. Feasible(s) /\ (s.next = "execute" => answeredAs(s.tree, s.keep, d))
  BY Selected
<1>2. proceed(s)
  BY DEF answer
<1> HIDE DEF s
<1>3. \/ concluded
      \/ /\ pc' = "skills" /\ s.next = "execute" /\ s.tree \in candidates
         /\ outcome' = [kind |-> "none", tree |-> s.tree, nodes |-> s.keep]
  BY <1>1, <1>2, Proceeds
<1> QED
  BY <1>1, <1>3

-----------------------------------------------------------------------------
(* What a run may start under: RunsWhatWasAnswered of a tree, its nodes    *)
(* and what was said.                                                      *)
served(i, nodes, s) ==
  /\ i = defaultId \/ setup.trigger \in treeOf(i).triggers
  /\ \/ /\ s.kind \in {"decided", "steps"} /\ s.tree = i
        /\ s.routes # {} /\ s.routes \subseteq nodesOf(treeOf(i))
        /\ nodes = {n \in nodesOf(treeOf(i)) : below(treeOf(i), n) \cap s.routes # {}}
     \/ /\ i = defaultId
        /\ nodes = {1} /\ nodesOf(treeOf(i)) = {1}
        /\ \/ s.kind \in {"decided", "choice"} /\ s.tree = NoTree
           \/ s.kind \in {"no credential", "no model", "install refusal", "status 401"}
           \/ s = Nobody /\ (setup.planner = "none" \/ domainTrees = {})

withheld ==
  setup.mode = "enforce" /\ (setup.unreadable \/ candidates \cap setup.denied # {})

\* Nothing was asked before the first question, and the classifier's second
\* question is about a candidate.
QuestionsInOrder ==
  /\ pc = "begin" => inner.at = "none" /\ asked = 0 /\ ~callSpent /\ said = Nobody
  /\ pc \in {"preparing", "completing"} => inner.at = "none"
  /\ pc = "preparing" => asked = 0 /\ ~callSpent
  /\ inner.at = "auth" => asked = 0 /\ ~callSpent
  /\ inner.at = "tree" => asked = 1
  /\ inner.at = "steps" => inner.tree \in candidates

PlanServes ==
  pc = "skills" \/ outcome.kind = "mediated" =>
    /\ inner.at \in {"none", "settled"}
    /\ served(outcome.tree, outcome.nodes, said)

WithheldStops ==
  withheld => /\ pc \in {"begin", "done"} /\ inner.at = "none" /\ asked = 0
              /\ outcome.kind \in {"none", "blocked", "off"}

(* The inductive invariant: the stages of the request with what they have  *)
(* asked, the plan before its skills are read, and the withheld planner.   *)
RouteInv == RouteTypeOK /\ QuestionsInOrder /\ PlanServes /\ WithheldStops

(* The install and the request are fixed.                                  *)
LEMMA Fixed ==
  ASSUME setup' = setup
  PROVE  /\ defaultId' = defaultId /\ candidates' = candidates
         /\ withheld' <=> withheld
         /\ \A i, nodes, s : served(i, nodes, s)' <=> served(i, nodes, s)
<1>1. defaultId' = defaultId
  BY DEF defaultId
<1>2. candidates' = candidates
  BY DEF candidates, collectWorkflowTreeCandidates, matching, sortsBefore, treeOf, defaultId
<1>3. domainTrees' = domainTrees
  BY <1>1, <1>2 DEF domainTrees
<1>4. withheld' <=> withheld
  BY <1>2 DEF withheld
<1>5. \A i, nodes, s : served(i, nodes, s)' <=> served(i, nodes, s)
  BY <1>1, <1>3 DEF served, treeOf
<1> QED
  BY <1>1, <1>2, <1>4, <1>5

LEMMA RouteInitial ==
  ASSUME RouteInit
  PROVE  RouteInv
<1>1. inner.at = "none" /\ outcome.kind = "none"
  BY DEF RouteInit, NoOutcome
<1>2. /\ setup \in Setups /\ pc = "begin" /\ budget = "open" /\ asked = 0
      /\ callSpent \in BOOLEAN /\ outcome.kind \in Outcomes \ {"threw"}
  BY <1>1 DEF RouteInit, Outcomes
<1> USE <1>1, <1>2
<1>3. RouteTypeOK
  BY DEF RouteTypeOK, Waiting
<1>4. QuestionsInOrder /\ PlanServes /\ WithheldStops
  BY DEF RouteInit, QuestionsInOrder, PlanServes, WithheldStops
<1> QED
  BY <1>3, <1>4 DEF RouteInv

(* A request under way is not withheld.                                    *)
LEMMA UnderWay ==
  ASSUME RouteInv, pc \in Waiting \cup {"skills"} \/ inner.at # "none"
  PROVE  ~withheld
BY DEF RouteInv, WithheldStops, Waiting

\* What a step leaves of the install, the budget and the questions.
questionsKept ==
  /\ setup' = setup
  /\ budget' \in {"open", "cancelled", "deadline"}
  /\ callSpent' \in BOOLEAN
  /\ asked' \in 0..2
  /\ inner'.at \in {"none", "auth", "tree", "steps", "settled"}
  /\ inner'.at # "none" => setup.planner = "classifier"
  /\ inner'.at = "auth" => asked' = 0 /\ ~callSpent'
  /\ inner'.at = "tree" => asked' = 1
  /\ inner'.at = "steps" => inner'.tree \in candidates

(* A step that ends the request without a plan keeps the invariant.        *)
LEMMA EndKeeps ==
  ASSUME RouteInv, questionsKept, concluded, ~withheld
  PROVE  RouteInv'
<1>1. RouteTypeOK'
  BY DEF RouteInv, RouteTypeOK, questionsKept, concluded, Waiting, Outcomes
<1>2. QuestionsInOrder'
  BY Fixed DEF questionsKept, concluded, QuestionsInOrder
<1>3. PlanServes'
  BY DEF concluded, PlanServes
<1>4. WithheldStops'
  BY Fixed DEF questionsKept, WithheldStops
<1> QED
  BY <1>1, <1>2, <1>3, <1>4 DEF RouteInv

(* So does one that finds a plan which serves what was said.               *)
LEMMA PlanKeeps ==
  ASSUME RouteInv, questionsKept, ~withheld,
         pc' = "skills", outcome'.kind = "none", inner'.at \in {"none", "settled"},
         served(outcome'.tree, outcome'.nodes, said')
  PROVE  RouteInv'
<1>1. RouteTypeOK'
  BY DEF RouteInv, RouteTypeOK, questionsKept, Waiting, Outcomes
<1>2. QuestionsInOrder'
  BY DEF QuestionsInOrder
<1>3. PlanServes'
  BY Fixed DEF questionsKept, PlanServes
<1>4. WithheldStops'
  BY Fixed DEF questionsKept, WithheldStops
<1> QED
  BY <1>1, <1>2, <1>3, <1>4 DEF RouteInv

\* The decision d is what the provider, or the install in its place, said.
saidFor(d) ==
  /\ d.kind = "unavailable" =>
       said'.kind \in {"no credential", "no model", "install refusal", "status 401"}
  /\ d.kind = "decided" /\ d.tree = NoTree =>
       said'.kind \in {"decided", "choice"} /\ said'.tree = NoTree
  /\ d.kind = "decided" /\ d.tree # NoTree =>
       /\ said'.kind \in {"decided", "steps"}
       /\ said'.tree = d.tree /\ said'.routes = d.routes

(* And so does an answer, if it is the provider's.                         *)
LEMMA AnswerKeeps ==
  ASSUME RouteInv, questionsKept, ~withheld, inner'.at \in {"none", "settled"},
         NEW d, Decision(d), saidFor(d), answer(d)
  PROVE  RouteInv'
<1>1. setup \in Setups
  BY DEF RouteInv, RouteTypeOK
<1>2. CASE concluded
  BY <1>2, EndKeeps
<1>3. CASE /\ pc' = "skills" /\ outcome'.kind = "none" /\ outcome'.tree \in candidates
           /\ answeredAs(outcome'.tree, outcome'.nodes, d)
  <2>1. /\ outcome'.tree # NoTree
        /\ outcome'.tree = defaultId \/ setup.trigger \in treeOf(outcome'.tree).triggers
    BY <1>1, <1>3, CandidatesServe
  <2>2. ASSUME d.kind = "decided", d.tree = outcome'.tree
        PROVE  served(outcome'.tree, outcome'.nodes, said')
    BY <1>3, <2>1, <2>2 DEF answeredAs, saidFor, served
  <2>3. ASSUME ~ (d.kind = "decided" /\ d.tree = outcome'.tree)
        PROVE  served(outcome'.tree, outcome'.nodes, said')
    BY <1>3, <2>1, <2>3 DEF answeredAs, saidFor, served
  <2>4. served(outcome'.tree, outcome'.nodes, said')
    BY <2>2, <2>3
  <2> QED BY <1>3, <2>4, PlanKeeps
<1> QED
  BY <1>1, <1>2, <1>3, Answers

LEMMA FailureIsDecision ==
  /\ Decision(Failed) /\ Decision(Unavailable)
  /\ \A a : Decision(classifierError(a))
BY DEF Decision, Failed, Unavailable, classifierError

(* A failure ends the request.                                             *)
LEMMA FailureEnds ==
  ASSUME setup \in Setups, answer(Failed)
  PROVE  concluded
<1>1. Decision(Failed) /\ Failed.kind = "failed"
  BY FailureIsDecision DEF Failed
<1>2. \A i, nodes : ~answeredAs(i, nodes, Failed)
  BY <1>1 DEF answeredAs
<1> QED
  BY <1>1, <1>2, Answers

(* The promise settles: whoever waits gets the answer.                     *)
LEMMA SettleKeeps ==
  ASSUME RouteInv, questionsKept, inner.at \in {"auth", "tree", "steps"},
         NEW d, Decision(d), saidFor(d), settle(d)
  PROVE  RouteInv'
<1>1. ~withheld
  BY UnderWay
<1>0. /\ pc \in {"classifying", "done"}
      /\ outcome.kind # "mediated"
  BY DEF RouteInv, RouteTypeOK, QuestionsInOrder, PlanServes, Waiting
<1>2. inner'.at = "settled"
  BY DEF settle
<1>3. CASE pc = "classifying"
  BY <1>1, <1>2, <1>3, AnswerKeeps DEF settle
<1>4. CASE pc # "classifying"
  <2>1. pc = "done" /\ pc' = pc /\ outcome' = outcome
    BY <1>0, <1>4 DEF settle
  <2>2. RouteTypeOK'
    BY <2>1 DEF RouteInv, RouteTypeOK, questionsKept, Waiting
  <2>3. QuestionsInOrder' /\ PlanServes'
    BY <1>0, <1>2, <2>1 DEF QuestionsInOrder, PlanServes
  <2>4. WithheldStops'
    BY <1>1, Fixed DEF questionsKept, WithheldStops
  <2> QED BY <2>2, <2>3, <2>4 DEF RouteInv
<1> QED
  BY <1>3, <1>4

LEMMA BeginKeeps ==
  ASSUME RouteInv, beginEnterpriseRunInternal
  PROVE  RouteInv'
<1>1. /\ setup \in Setups /\ inner.at = "none" /\ asked = 0 /\ ~callSpent
      /\ callSpent \in BOOLEAN /\ budget \in {"open", "cancelled", "deadline"}
      /\ said = Nobody /\ pc = "begin"
  BY DEF beginEnterpriseRunInternal, RouteInv, RouteTypeOK, QuestionsInOrder
<1>2. UNCHANGED <<setup, budget, callSpent, asked, said>>
  BY DEF beginEnterpriseRunInternal
<1>3. CASE \/ setup.unreadable /\ setup.mode = "enforce"
           \/ plannerWithheldByGovernance
  <2>1. /\ pc' = "done" /\ outcome'.kind \in {"blocked", "off"} /\ inner' = inner
    BY <1>3 DEF beginEnterpriseRunInternal, end
  <2>2. RouteTypeOK'
    BY <1>1, <1>2, <2>1 DEF RouteTypeOK, Waiting, Outcomes
  <2>3. QuestionsInOrder' /\ PlanServes' /\ WithheldStops'
    BY <1>1, <1>2, <2>1 DEF QuestionsInOrder, PlanServes, WithheldStops
  <2> QED BY <2>2, <2>3 DEF RouteInv
<1>4. CASE /\ ~ (setup.unreadable /\ setup.mode = "enforce")
           /\ ~ plannerWithheldByGovernance
  <2>1. ~withheld
    BY <1>4 DEF withheld, plannerWithheldByGovernance
  <2>2. ASSUME inner' = inner
        PROVE  questionsKept
    BY <1>1, <1>2, <2>2 DEF questionsKept
  <2>3. CASE setup.planner = "none" \/ (domainTrees = {} /\ Len(treeOf(defaultId).parent) < 2)
    <3> DEFINE s == selectionWithoutModel(defaultId)
    <3>1. proceed(s) /\ inner' = inner
      BY <1>4, <2>3 DEF beginEnterpriseRunInternal
    <3>2. /\ s.next \in {"blocked", "execute"} /\ Feasible(s) /\ s.tree = defaultId
          /\ s.next = "execute" => s.keep = {1} /\ nodesOf(treeOf(defaultId)) = {1}
      BY <1>1, SingleStep
    <3> HIDE DEF s
    <3>3. \/ concluded
          \/ /\ pc' = "skills" /\ s.next = "execute"
             /\ outcome' = [kind |-> "none", tree |-> s.tree, nodes |-> s.keep]
      BY <3>1, <3>2, Proceeds
    <3>4. CASE concluded
      BY <2>1, <2>2, <3>1, <3>4, EndKeeps
    <3>5. CASE /\ pc' = "skills" /\ s.next = "execute"
               /\ outcome' = [kind |-> "none", tree |-> s.tree, nodes |-> s.keep]
      <4>1. outcome'.kind = "none" /\ outcome'.tree = s.tree /\ outcome'.nodes = s.keep
        BY <3>5
      <4>2. served(outcome'.tree, outcome'.nodes, said')
        BY <1>1, <1>2, <2>3, <3>2, <3>5, <4>1 DEF served
      <4> QED BY <1>1, <2>1, <2>2, <3>1, <3>5, <4>1, <4>2, PlanKeeps
    <3> QED BY <3>3, <3>4, <3>5
  <2>4. CASE /\ ~ (setup.planner = "none"
                     \/ (domainTrees = {} /\ Len(treeOf(defaultId).parent) < 2))
             /\ cancelled
    <3>1. answer(Failed) /\ inner' = inner
      BY <1>4, <2>4 DEF beginEnterpriseRunInternal
    <3> QED BY <1>1, <2>1, <2>2, <3>1, FailureEnds, EndKeeps
  <2>5. CASE /\ ~ (setup.planner = "none"
                     \/ (domainTrees = {} /\ Len(treeOf(defaultId).parent) < 2))
             /\ ~cancelled
    <3>1. /\ outcome' = outcome
          /\ IF setup.planner = "classifier"
             THEN pc' = "classifying" /\ inner' = [at |-> "auth", tree |-> NoTree]
             ELSE pc' = "preparing" /\ inner' = inner
      BY <1>4, <2>5 DEF beginEnterpriseRunInternal
    <3>2. \/ pc' = "classifying" /\ inner'.at = "auth" /\ setup.planner = "classifier"
          \/ pc' = "preparing" /\ inner'.at = "none"
      BY <1>1, <3>1
    <3>3. outcome'.kind = "none"
      BY <1>1, <3>1 DEF RouteInv, RouteTypeOK
    <3>4. RouteTypeOK'
      BY <1>1, <1>2, <3>2, <3>3 DEF RouteTypeOK, Waiting, Outcomes
    <3>5. QuestionsInOrder' /\ PlanServes'
      BY <1>1, <1>2, <3>2, <3>3 DEF QuestionsInOrder, PlanServes
    <3>6. WithheldStops'
      BY <1>2, <2>1, Fixed DEF WithheldStops
    <3> QED BY <3>4, <3>5, <3>6 DEF RouteInv
  <2> QED BY <2>3, <2>4, <2>5
<1> QED
  BY <1>3, <1>4

(* A step of the promise that asks on, and settles nothing.                *)
LEMMA AskingOnKeeps ==
  ASSUME RouteInv, questionsKept, inner.at \in {"auth", "tree"},
         inner'.at \in {"tree", "steps"}, UNCHANGED <<pc, outcome>>
  PROVE  RouteInv'
<1>1. ~withheld
  BY UnderWay
<1>2. pc \in {"classifying", "done"} /\ outcome.kind # "mediated"
  BY DEF RouteInv, RouteTypeOK, QuestionsInOrder, PlanServes, Waiting
<1>3. RouteTypeOK'
  BY <1>2 DEF RouteInv, RouteTypeOK, questionsKept, Waiting
<1>4. QuestionsInOrder'
  BY <1>2, Fixed DEF QuestionsInOrder, questionsKept
<1>5. PlanServes' /\ WithheldStops'
  BY <1>1, <1>2, Fixed DEF PlanServes, WithheldStops, questionsKept
<1> QED
  BY <1>3, <1>4, <1>5 DEF RouteInv

LEMMA TryKeeps ==
  ASSUME RouteInv, tryClassificationWorkflowPlan
  PROVE  RouteInv'
<1>1. /\ inner.at = "auth" /\ UNCHANGED <<setup, budget, callSpent>>
      /\ asked = 0 /\ ~callSpent /\ callSpent \in BOOLEAN /\ setup.planner = "classifier"
      /\ budget \in {"open", "cancelled", "deadline"}
  BY DEF tryClassificationWorkflowPlan, RouteInv, RouteTypeOK, QuestionsInOrder
<1>2. ASSUME NEW d, settle(d), asked' = asked
      PROVE  questionsKept
  <2>1. inner'.at = "settled"
    BY <1>2 DEF settle
  <2> QED BY <1>1, <1>2, <2>1 DEF questionsKept
<1>3. CASE /\ said' = [kind |-> "no credential"]
           /\ settle(Unavailable) /\ asked' = asked
  <2>1. Decision(Unavailable) /\ saidFor(Unavailable)
    BY <1>3, FailureIsDecision DEF saidFor, Unavailable
  <2> QED BY <1>1, <1>2, <1>3, <2>1, SettleKeeps
<1>4. CASE settle(Failed) /\ asked' = asked
  <2>1. Decision(Failed) /\ saidFor(Failed)
    BY FailureIsDecision DEF saidFor, Failed
  <2> QED BY <1>1, <1>2, <1>4, <2>1, SettleKeeps
<1>5. CASE /\ inner' = [at |-> "tree", tree |-> NoTree]
           /\ asked' = asked + 1 /\ UNCHANGED <<pc, outcome>>
  <2>1. inner'.at = "tree" /\ asked' = 1
    BY <1>1, <1>5
  <2>2. questionsKept
    BY <1>1, <2>1 DEF questionsKept
  <2> QED BY <1>1, <1>5, <2>1, <2>2, AskingOnKeeps
<1> QED
  BY <1>3, <1>4, <1>5 DEF tryClassificationWorkflowPlan

LEMMA ErrorSaid ==
  ASSUME NEW a, said' = a
  PROVE  Decision(classifierError(a)) /\ saidFor(classifierError(a))
<1>1. CASE a.kind = "status 401"
  BY <1>1 DEF classifierError, Decision, saidFor, Unavailable
<1>2. CASE a.kind # "status 401"
  BY <1>2 DEF classifierError, Decision, saidFor, Failed
<1> QED
  BY <1>1, <1>2

LEMMA TreeKeeps ==
  ASSUME RouteInv, classifyTree
  PROVE  RouteInv'
<1>1. /\ inner.at = "tree" /\ UNCHANGED <<setup, budget, callSpent>>
      /\ asked = 1 /\ callSpent \in BOOLEAN /\ setup.planner = "classifier"
      /\ budget \in {"open", "cancelled", "deadline"}
  BY DEF classifyTree, RouteInv, RouteTypeOK, QuestionsInOrder
<1>2. ASSUME NEW d, settle(d), asked' = asked
      PROVE  questionsKept
  <2>1. inner'.at = "settled"
    BY <1>2 DEF settle
  <2> QED BY <1>1, <1>2, <2>1 DEF questionsKept
<1>3. PICK a \in TreeAnswers :
        /\ said' = a
        /\ IF a.kind = "choice" /\ a.tree \in candidates /\ stillWanted
           THEN /\ inner' = [at |-> "steps", tree |-> a.tree]
                /\ asked' = asked + 1
                /\ UNCHANGED <<pc, outcome>>
           ELSE /\ UNCHANGED asked
                /\ settle(IF a.kind = "choice" /\ a.tree = NoTree /\ stillWanted
                          THEN [kind |-> "decided", tree |-> NoTree, routes |-> {}]
                          ELSE classifierError(a))
  BY DEF classifyTree
<1>4. CASE a.kind = "choice" /\ a.tree \in candidates /\ stillWanted
  <2>1. inner'.at = "steps" /\ inner'.tree = a.tree /\ asked' = 2
    BY <1>1, <1>3, <1>4
  <2>2. questionsKept
    BY <1>1, <1>4, <2>1 DEF questionsKept
  <2> QED BY <1>1, <1>3, <1>4, <2>1, <2>2, AskingOnKeeps
<1>5. CASE ~ (a.kind = "choice" /\ a.tree \in candidates /\ stillWanted)
  <2> DEFINE none == [kind |-> "decided", tree |-> NoTree, routes |-> {}]
  <2>1. CASE a.kind = "choice" /\ a.tree = NoTree /\ stillWanted
    <3>1. none.kind = "decided" /\ none.tree = NoTree
      OBVIOUS
    <3>2. settle(none) /\ asked' = asked
      BY <1>3, <1>5, <2>1
    <3> HIDE DEF none
    <3>3. Decision(none) /\ saidFor(none)
      BY <1>3, <2>1, <3>1 DEF Decision, saidFor
    <3> QED BY <1>1, <1>2, <3>2, <3>3, SettleKeeps
  <2>2. CASE ~ (a.kind = "choice" /\ a.tree = NoTree /\ stillWanted)
    <3>1. settle(classifierError(a)) /\ asked' = asked
      BY <1>3, <1>5, <2>2
    <3>2. Decision(classifierError(a)) /\ saidFor(classifierError(a))
      BY <1>3, ErrorSaid
    <3> QED BY <1>1, <1>2, <3>1, <3>2, SettleKeeps
  <2> QED BY <2>1, <2>2
<1> QED
  BY <1>4, <1>5

LEMMA OneField == \A k : [kind |-> k].kind = k
OBVIOUS

LEMMA StepsKeep ==
  ASSUME RouteInv, classifySteps
  PROVE  RouteInv'
<1>1. /\ inner.at = "steps" /\ UNCHANGED <<setup, budget, callSpent, asked>>
      /\ setup \in Setups
      /\ asked \in 0..2 /\ callSpent \in BOOLEAN /\ setup.planner = "classifier"
      /\ budget \in {"open", "cancelled", "deadline"} /\ inner.tree \in candidates
  BY DEF classifySteps, RouteInv, RouteTypeOK, QuestionsInOrder
<1>2. ASSUME NEW d, settle(d)
      PROVE  questionsKept
  <2>1. inner'.at = "settled"
    BY <1>2 DEF settle
  <2> QED BY <1>1, <2>1 DEF questionsKept
<1>3. PICK a \in StepAnswers(inner.tree) :
        /\ said' = a
        /\ settle(IF a.kind = "steps" /\ ~stillWanted THEN Failed ELSE readSteps(a))
  BY DEF classifySteps
<1>4. ASSUME a.kind = "steps"
      PROVE  a.tree = inner.tree
  <2>1. CASE a \in {[kind |-> "malformed"], [kind |-> "status 401"],
                    [kind |-> "transient error"]}
    <3>1. a.kind \in {"malformed", "status 401", "transient error"}
      BY <2>1, OneField
    <3> QED BY <1>4, <3>1
  <2>2. CASE a \in [kind : {"steps"}, clarify : BOOLEAN, tree : {inner.tree},
                    routes : SUBSET nodesOf(treeOf(inner.tree))]
    BY <2>2
  <2> QED BY <2>1, <2>2 DEF StepAnswers
<1>5. inner.tree # NoTree
  BY <1>1, CandidatesServe
<1>6. CASE settle(Failed)
  <2>1. Decision(Failed) /\ saidFor(Failed)
    BY FailureIsDecision DEF saidFor, Failed
  <2> QED BY <1>1, <1>2, <1>6, <2>1, SettleKeeps
<1>7. CASE settle(readSteps(a))
  <2>1. Decision(readSteps(a)) /\ saidFor(readSteps(a))
    <3>1. CASE a.kind # "steps"
      BY <1>3, <3>1, ErrorSaid DEF readSteps
    <3>2. CASE a.kind = "steps" /\ (a.clarify \/ a.routes = {})
      <4>1. readSteps(a) = [kind |-> "clarification", tree |-> a.tree]
        BY <3>2 DEF readSteps
      <4>2. readSteps(a).kind = "clarification"
        BY <4>1
      <4> QED BY <4>2 DEF Decision, saidFor
    <3>3. CASE a.kind = "steps" /\ ~ (a.clarify \/ a.routes = {})
      <4>1. readSteps(a) = [kind |-> "decided", tree |-> a.tree, routes |-> a.routes]
        BY <3>3 DEF readSteps
      <4>2. /\ readSteps(a).kind = "decided" /\ readSteps(a).tree = a.tree
            /\ readSteps(a).routes = a.routes
        BY <4>1
      <4> QED BY <1>3, <1>4, <1>5, <3>3, <4>2 DEF Decision, saidFor
    <3> QED BY <3>1, <3>2, <3>3
  <2> QED BY <1>1, <1>2, <1>7, <2>1, SettleKeeps
<1> QED
  BY <1>3, <1>6, <1>7

LEMMA PrepareKeeps ==
  ASSUME RouteInv, prepareModel
  PROVE  RouteInv'
<1>1. /\ pc = "preparing" /\ UNCHANGED <<setup, inner, budget, callSpent>>
      /\ inner.at = "none" /\ asked = 0 /\ ~callSpent /\ callSpent \in BOOLEAN
      /\ budget \in {"open", "cancelled", "deadline"} /\ outcome.kind = "none"
  BY DEF prepareModel, RouteInv, RouteTypeOK, QuestionsInOrder
<1>2. ~withheld
  BY <1>1, UnderWay DEF Waiting
<1>3. ASSUME asked' = asked
      PROVE  questionsKept
  BY <1>1, <1>3 DEF questionsKept
<1>4. CASE said' = [kind |-> "no model"] /\ answer(Unavailable) /\ asked' = asked
  <2>1. Decision(Unavailable) /\ saidFor(Unavailable)
    BY <1>4, FailureIsDecision DEF saidFor, Unavailable
  <2> QED BY <1>1, <1>2, <1>3, <1>4, <2>1, AnswerKeeps
<1>5. CASE answer(Failed) /\ asked' = asked
  <2>1. Decision(Failed) /\ saidFor(Failed)
    BY FailureIsDecision DEF saidFor, Failed
  <2> QED BY <1>1, <1>2, <1>3, <1>5, <2>1, AnswerKeeps
<1>6. CASE pc' = "completing" /\ asked' = asked + 1 /\ UNCHANGED outcome
  <2>1. RouteTypeOK'
    BY <1>1, <1>6 DEF RouteInv, RouteTypeOK, Waiting
  <2>2. QuestionsInOrder' /\ PlanServes'
    BY <1>1, <1>6 DEF QuestionsInOrder, PlanServes
  <2>3. WithheldStops'
    BY <1>1, <1>2, Fixed DEF WithheldStops
  <2> QED BY <2>1, <2>2, <2>3 DEF RouteInv
<1> QED
  BY <1>4, <1>5, <1>6 DEF prepareModel

LEMMA CompleteKeeps ==
  ASSUME RouteInv, complete
  PROVE  RouteInv'
<1>1. /\ pc = "completing" /\ UNCHANGED <<setup, inner, budget, callSpent, asked>>
      /\ inner.at = "none" /\ asked \in 0..2 /\ callSpent \in BOOLEAN
      /\ budget \in {"open", "cancelled", "deadline"}
  BY DEF complete, RouteInv, RouteTypeOK, QuestionsInOrder
<1>2. ~withheld
  BY <1>1, UnderWay DEF Waiting
<1>3. questionsKept
  BY <1>1 DEF questionsKept
<1>4. PICK r \in TextReplies : said' = r /\ answer(readReply(r))
  BY DEF complete
<1>5. Decision(readReply(r)) /\ saidFor(readReply(r))
  <2>1. CASE r.kind = "install refusal"
    BY <1>4, <2>1, FailureIsDecision DEF readReply, saidFor, Unavailable
  <2>2. CASE r.kind \in {"prose", "transient error"}
    BY <1>4, <2>2, FailureIsDecision DEF readReply, saidFor, Failed
  <2>3. CASE r.kind \in {"decided", "clarification"}
    BY <1>4, <2>3 DEF readReply, saidFor, Decision
  <2>4. r.kind \in {"install refusal", "prose", "transient error", "decided", "clarification"}
    <3>1. CASE r \in [kind : {"decided"}, tree : Ids \cup {Unknown, NoTree}, routes : Routes]
      BY <3>1
    <3>2. CASE r \in [kind : {"clarification"}, tree : Ids \cup {Unknown}]
      BY <3>2
    <3>3. CASE r \in {[kind |-> "prose"], [kind |-> "transient error"],
                      [kind |-> "install refusal"]}
      BY <3>3, OneField
    <3> QED BY <3>1, <3>2, <3>3 DEF TextReplies
  <2> QED BY <2>1, <2>2, <2>3, <2>4
<1> QED
  BY <1>1, <1>2, <1>3, <1>4, <1>5, AnswerKeeps

LEMMA RaceKeeps ==
  ASSUME RouteInv, raceBudget
  PROVE  RouteInv'
<1>1. /\ pc \in Waiting /\ answer(Failed)
      /\ UNCHANGED <<setup, inner, budget, callSpent, asked>>
  BY DEF raceBudget
<1>2. questionsKept
  BY <1>1 DEF RouteInv, RouteTypeOK, QuestionsInOrder, questionsKept
<1>3. ~withheld
  BY <1>1, UnderWay
<1>4. concluded
  BY <1>1, FailureEnds DEF RouteInv, RouteTypeOK
<1> QED
  BY <1>2, <1>3, <1>4, EndKeeps

\* Time passes or the turn is cancelled: the request stays where it is.
timePasses ==
  /\ UNCHANGED <<setup, pc, inner, asked, said, outcome>>
  /\ budget' \in {"open", "cancelled", "deadline"} /\ callSpent' \in BOOLEAN
  /\ pc \in {"begin", "preparing"} \/ inner.at = "auth" => callSpent' = callSpent

LEMMA TimeKeeps ==
  ASSUME RouteInv, timePasses
  PROVE  RouteInv'
<1>1. RouteTypeOK'
  BY DEF RouteInv, RouteTypeOK, timePasses, Waiting
<1>2. QuestionsInOrder'
  BY Fixed DEF RouteInv, QuestionsInOrder, timePasses
<1>3. PlanServes' /\ WithheldStops'
  BY Fixed DEF RouteInv, PlanServes, WithheldStops, timePasses
<1> QED
  BY <1>1, <1>2, <1>3 DEF RouteInv

LEMMA SkillsKeep ==
  ASSUME RouteInv, resolveEnterpriseSkillInstructions
  PROVE  RouteInv'
<1>1. /\ pc = "skills" /\ UNCHANGED <<setup, inner, budget, callSpent, asked, said>>
      /\ inner.at \in {"none", "settled"}
      /\ served(outcome.tree, outcome.nodes, said)
  BY DEF resolveEnterpriseSkillInstructions, RouteInv, PlanServes
<1>2. ~withheld
  BY <1>1, UnderWay
<1>3. questionsKept
  BY <1>1 DEF RouteInv, RouteTypeOK, questionsKept
<1>4. CASE cancelled
  <2>1. concluded
    BY <1>4 DEF resolveEnterpriseSkillInstructions, end, concluded
  <2> QED BY <1>2, <1>3, <2>1, EndKeeps
<1>5. CASE ~cancelled
  <2>1. /\ pc' = "done"
        /\ outcome' = [kind |-> "mediated", tree |-> outcome.tree, nodes |-> outcome.nodes]
    BY <1>5 DEF resolveEnterpriseSkillInstructions, end
  <2>2. /\ outcome'.kind = "mediated" /\ outcome'.tree = outcome.tree
        /\ outcome'.nodes = outcome.nodes
    BY <2>1
  <2>3. RouteTypeOK'
    BY <1>1, <2>1, <2>2 DEF RouteInv, RouteTypeOK, Waiting, Outcomes
  <2>4. QuestionsInOrder'
    BY <1>1, <2>1 DEF QuestionsInOrder
  <2>5. served(outcome'.tree, outcome'.nodes, said)
    BY <1>1, <2>2
  <2>6. PlanServes'
    BY <1>1, <2>5, Fixed DEF PlanServes
  <2>7. WithheldStops'
    BY <1>1, <1>2, Fixed DEF WithheldStops
  <2> QED BY <2>3, <2>4, <2>6, <2>7 DEF RouteInv
<1> QED
  BY <1>4, <1>5

LEMMA RouteStep ==
  ASSUME RouteInv, [RouteNext]_routeVars
  PROVE  RouteInv'
<1>1. CASE callDeadline
  <2>1. timePasses
    BY <1>1 DEF callDeadline, timePasses, RouteInv, RouteTypeOK, QuestionsInOrder
  <2> QED BY <2>1, TimeKeeps
<1>2. CASE totalDeadline
  <2>1. timePasses
    BY <1>2 DEF totalDeadline, timePasses, RouteInv, RouteTypeOK
  <2> QED BY <2>1, TimeKeeps
<1>3. CASE cancel
  <2>1. timePasses
    BY <1>3 DEF cancel, timePasses, RouteInv, RouteTypeOK
  <2> QED BY <2>1, TimeKeeps
<1>4. CASE UNCHANGED routeVars
  <2>1. timePasses
    BY <1>4 DEF routeVars, timePasses, RouteInv, RouteTypeOK
  <2> QED BY <2>1, TimeKeeps
<1> QED
  BY <1>1, <1>2, <1>3, <1>4, BeginKeeps, TryKeeps, TreeKeeps, StepsKeep, PrepareKeeps,
     CompleteKeeps, RaceKeeps, SkillsKeep DEF RouteNext

LEMMA RouteInvImplies ==
  ASSUME RouteInv
  PROVE  SelectionSound
<1>1. RouteTypeOK
  BY DEF RouteInv
<1>2. RunsWhatWasAnswered
  BY DEF RouteInv, PlanServes, served, RunsWhatWasAnswered
<1>3. DeniedNeverAsked
  BY DEF RouteInv, WithheldStops, withheld, DeniedNeverAsked
<1> QED
  BY <1>1, <1>2, <1>3 DEF SelectionSound

LEMMA RouteInvAlways == RouteSpec => []RouteInv
<1>1. RouteInit => RouteInv
  BY RouteInitial
<1>2. RouteInv /\ [RouteNext]_routeVars => RouteInv'
  BY RouteStep
<1> QED
  BY <1>1, <1>2, PTL DEF RouteSpec

(* For every set of work-maps, every tree and every answer of a provider:  *)
(* a run starts only with the steps that lead to the endpoints which were  *)
(* named, or with the default's single step; a plan that was selected is   *)
(* always built; and a denied candidate keeps the request from everyone.   *)
THEOREM RoutingIsSound == RouteSpec => []SelectionSound
<1>1. RouteInv => SelectionSound
  BY RouteInvImplies
<1> QED
  BY <1>1, RouteInvAlways, PTL

(* Nothing more is asked after a cancellation or a deadline, not even by   *)
(* the classifier's promise, which runs on after its request is over.      *)
THEOREM NothingIsAskedTooLate == RouteSpec => NothingAskedTooLate
<1>1. RouteInv /\ [RouteNext]_routeVars => [aborted \/ callSpent => asked' = asked]_routeVars
  <2> SUFFICES ASSUME RouteInv, RouteNext, aborted \/ callSpent
               PROVE  asked' = asked
    BY DEF routeVars
  <2>1. CASE tryClassificationWorkflowPlan
    BY <2>1 DEF tryClassificationWorkflowPlan, RouteInv, QuestionsInOrder
  <2>2. CASE classifyTree
    BY <2>2 DEF classifyTree, stillWanted
  <2>3. CASE prepareModel
    BY <2>3 DEF prepareModel, RouteInv, QuestionsInOrder
  <2> QED
    BY <2>1, <2>2, <2>3
    DEF RouteNext, beginEnterpriseRunInternal, classifySteps, complete, raceBudget,
        callDeadline, totalDeadline, cancel, resolveEnterpriseSkillInstructions
<1> QED
  BY <1>1, RouteInvAlways, PTL DEF RouteSpec, NothingAskedTooLate
=============================================================================
