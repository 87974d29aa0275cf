--------------------------- MODULE RunTraceProofs ---------------------------
(***************************************************************************)
(* For any number of executions, processes and agents, any set of writes   *)
(* that may fail, and crashes between any two writes: an execution's trace *)
(* has one verdict and its row agrees with it, recovery spares what is     *)
(* still running, a lane has one pending continuation and a click is       *)
(* consumed once.                                                          *)
(*                                                                         *)
(* The invariant is a statement about each execution by itself (ExecOK)    *)
(* and two small facts that relate executions; nearly every action touches *)
(* one execution only, and OneExecStep does the rest of its proof.         *)
(***************************************************************************)
EXTENDS RunTrace, SequenceTheorems, WellFoundedInduction, TLAPS

(* A set of naturals with an element has a least one.                      *)
LEMMA LeastNatural ==
  ASSUME NEW T, T \subseteq Nat, T # {}
  PROVE  \E x \in T : \A y \in T : x <= y
<1>1. \E x \in T : \A y \in T : ~ (<<y, x>> \in OpToRel(<, Nat))
  BY NatLessThanWellFounded, WFMin
<1>2. ASSUME NEW x \in T, NEW y \in T, ~ (<<y, x>> \in OpToRel(<, Nat))
      PROVE  x <= y
  BY <1>2 DEF OpToRel
<1> QED
  BY <1>1, <1>2

(* firstUnfinishedStep's prefix exists: the loop that computes it stops.   *)
LEMMA FinishedPrefixExists ==
  ASSUME NEW steps, NEW done, Len(steps) \in Nat
  PROVE  /\ FinishedPrefix(steps, done) \in 0..Len(steps)
         /\ IsFinishedPrefix(steps, done, FinishedPrefix(steps, done))
<1> DEFINE Gap == {i \in 1..Len(steps) : steps[i] \notin done}
<1>1. \E k \in 0..Len(steps) : IsFinishedPrefix(steps, done, k)
  <2>1. CASE Gap = {}
    <3>1. IsFinishedPrefix(steps, done, Len(steps))
      BY <2>1 DEF IsFinishedPrefix
    <3> QED BY <3>1
  <2>2. CASE Gap # {}
    <3>0. Gap \subseteq Nat
      OBVIOUS
    <3>1. PICK g \in Gap : \A y \in Gap : g <= y
      <4> HIDE DEF Gap
      <4> QED BY <2>2, <3>0, LeastNatural
    <3>2. IsFinishedPrefix(steps, done, g - 1)
      BY <3>1 DEF IsFinishedPrefix
    <3>3. g - 1 \in 0..Len(steps)
      BY <3>1
    <3> QED BY <3>2, <3>3
  <2> QED BY <2>1, <2>2
<1> QED
  BY <1>1 DEF FinishedPrefix

(* The position a resume opens on is a position of the route, and not the  *)
(* first.                                                                  *)
LEMMA FirstUnfinishedRange ==
  ASSUME NEW steps, NEW done, Len(steps) \in Nat
  PROVE  firstUnfinishedStep(steps, done) \in {0} \cup 2..Len(steps)
<1>1. FinishedPrefix(steps, done) \in 0..Len(steps)
  BY FinishedPrefixExists
<1> QED BY <1>1 DEF firstUnfinishedStep

(* A resume that opens on a later step has everything before it behind.    *)
LEMMA FirstUnfinishedBehind ==
  ASSUME NEW steps, NEW done, Len(steps) \in Nat, firstUnfinishedStep(steps, done) # 0
  PROVE  /\ firstUnfinishedStep(steps, done) \in 2..Len(steps)
         /\ \A i \in 1..(firstUnfinishedStep(steps, done) - 1) : steps[i] \in done
<1>1. /\ FinishedPrefix(steps, done) \in 0..Len(steps)
      /\ IsFinishedPrefix(steps, done, FinishedPrefix(steps, done))
  BY FinishedPrefixExists
<1> QED BY <1>1 DEF firstUnfinishedStep, IsFinishedPrefix

(* One that opens on none has nothing behind it or nothing before it.      *)
LEMMA FirstUnfinishedNone ==
  ASSUME NEW steps, NEW done, Len(steps) \in Nat \ {0}, firstUnfinishedStep(steps, done) = 0
  PROVE  steps[1] \notin done \/ StepSet(steps) \subseteq done
<1>1. /\ FinishedPrefix(steps, done) \in 0..Len(steps)
      /\ IsFinishedPrefix(steps, done, FinishedPrefix(steps, done))
  BY FinishedPrefixExists
<1>2. FinishedPrefix(steps, done) \in {0, Len(steps)}
  BY <1>1 DEF firstUnfinishedStep
<1> QED BY <1>1, <1>2 DEF IsFinishedPrefix, StepSet

(* IInv's conjuncts about one execution: its turn t, its row r, the takes  *)
(* c since it was armed, and the processes.                                *)
ExecOK(t, r, c, procs) ==
  /\ Len(r.ended) <= 1
  /\ r.status \in Final /\ r.ended # << >> => r.status = r.ended[1]
  /\ c <= 1 /\ (r.marker # 0 => c = 0)
  /\ r.marker # 0 => r.status \in Final
  /\ t.stage \in {"none", "planning"} => r.status = "none" /\ r.ended = << >>
  /\ t.stage \in Tracing => r.status \notin Final /\ r.ended = << >>
  /\ t.stage = "closing" => /\ r.status \notin Final /\ t.verdict \in Final
                            /\ r.ended \in {<< >>, <<t.verdict>>}
  /\ t.stage \in {"taken", "walking"} => t.route \in Route /\ t.cursor >= 1
  /\ t.stage = "inserted" => t.route \in Route
  /\ t.stage \in InFlight => t.session \in Transcript
  /\ r.status # "none" => r.agent \in Agent
  /\ t.stage \in InFlight =>
       /\ procs[t.proc] = [alive |-> TRUE, start |-> t.start]
       /\ r.status = "running" => r.proc = t.proc /\ r.start = t.start

AskOK == ask.exec # NoExec => row[ask.exec].status # "none" /\ ask.armedAt # 0

(* IInv is ExecOK of every execution, and what relates executions.         *)
LEMMA IInvByExec ==
  IInv <=> /\ TypeOK /\ OneMarkerPerLane /\ AskOK
           /\ \A e \in Exec : ExecOK(turn[e], row[e], claims[e], proc)
BY DEF IInv, VerdictStands, ContinuedOnce, ArmedIsOver, StageBoundsRow, OwnerIsAlive,
       PendingIsUnclaimed, AskOK, ExecOK

(* The same of the next state.                                             *)
LEMMA IInvByExecNext ==
  IInv' <=> /\ TypeOK' /\ OneMarkerPerLane' /\ AskOK'
            /\ \A e \in Exec : ExecOK(turn'[e], row'[e], claims'[e], proc')
BY DEF IInv, VerdictStands, ContinuedOnce, ArmedIsOver, StageBoundsRow, OwnerIsAlive,
       PendingIsUnclaimed, AskOK, ExecOK

(* What an execution that has not started, or is gone, looks like.         *)
LEMMA BlankTypes ==
  /\ "none" \notin Final /\ "running" \notin Final
  /\ NoTurn \in TurnType /\ Gone \in TurnType /\ NoRow \in RowType
BY ExecAssumption, BoundAssumption DEF NoTurn, Gone, NoRow, TurnType, RowType, InFlight, Tracing, Final, NoRoute

(* Before the first turn.                                                  *)
LEMMA InitIInv == Init => IInv
<1> SUFFICES ASSUME Init PROVE IInv
  OBVIOUS
<1>1. TypeOK
  <2>1. \A a \in Agent : <<a, 1>> \in Transcript
    BY BoundAssumption DEF Transcript
  <2>2. session \in [Agent -> Transcript] /\ \A a \in Agent : session[a][1] = a
    BY <2>1 DEF Init
  <2>3. proc \in [Proc -> [alive : BOOLEAN, start : Nat]]
    <3>1. \A p \in Proc : (p = Gateway) \in BOOLEAN
      OBVIOUS
    <3> QED BY <3>1 DEF Init
  <2> QED BY <2>2, <2>3, BlankTypes DEF Init, TypeOK, NoAsk
<1>2. OneMarkerPerLane /\ AskOK
  BY DEF Init, OneMarkerPerLane, AskOK, NoRow, NoAsk
<1>3. ASSUME NEW e \in Exec PROVE ExecOK(turn[e], row[e], claims[e], proc)
  BY DEF Init, ExecOK, NoRow, NoTurn, InFlight, Tracing, Final
<1> QED BY <1>1, <1>2, <1>3, IInvByExec

(* A step of one execution, e.                                             *)
LEMMA OneExecStep ==
  ASSUME IInv, NEW e \in Exec, NEW t \in TurnType, NEW r \in RowType,
         turn' = [turn EXCEPT ![e] = t], row' = [row EXCEPT ![e] = r],
         ask' = ask, proc' = proc, claims' = claims, clock' = clock,
         session' \in [Agent -> Transcript], \A a \in Agent : session'[a][1] = a,
         r.marker # 0 => r.marker = row[e].marker /\ r.agent = row[e].agent,
         row[e].status # "none" => r.status # "none",
         ExecOK(t, r, claims[e], proc)
  PROVE  IInv'
<1>1. TypeOK /\ OneMarkerPerLane /\ AskOK
      /\ \A f \in Exec : ExecOK(turn[f], row[f], claims[f], proc)
  BY IInvByExec
<1>2. TypeOK'
  BY <1>1 DEF TypeOK
<1>3. \A f \in Exec : /\ row'[f] = IF f = e THEN r ELSE row[f]
                      /\ turn'[f] = IF f = e THEN t ELSE turn[f]
  BY <1>1 DEF TypeOK
<1>4. OneMarkerPerLane'
  BY <1>1, <1>3 DEF OneMarkerPerLane
<1>5. AskOK'
  BY <1>1, <1>3 DEF AskOK, TypeOK
<1>6. \A f \in Exec : ExecOK(turn'[f], row'[f], claims'[f], proc')
  BY <1>1, <1>3
<1> QED BY <1>2, <1>4, <1>5, <1>6, IInvByExecNext

(* A write under persistTrace leaves the row written, or as it was.        *)
LEMMA PersistEffect ==
  ASSUME TypeOK, NEW kind, NEW e \in Exec, NEW written, Persist(kind, e, written)
  PROVE  \E r \in {written, row[e]} : row' = [row EXCEPT ![e] = r]
BY DEF Persist, TypeOK

(* Logging an event of the walk changes the completed steps only.          *)
LEMMA LoggedRow ==
  ASSUME TypeOK, NEW e \in Exec, NEW event, event.steps \subseteq Node
  PROVE  LET r == Logged(e, event)
         IN  /\ r \in RowType
             /\ r.status = row[e].status /\ r.marker = row[e].marker /\ r.ended = row[e].ended
             /\ r.agent = row[e].agent /\ r.proc = row[e].proc /\ r.start = row[e].start
<1> DEFINE c == ReplayEvent(row[e].completed, event)
<1>1. row[e] \in RowType
  BY DEF TypeOK
<1>2. row[e].completed \subseteq Node
  BY <1>1 DEF RowType
<1>3. c \in SUBSET Node
  BY <1>2 DEF ReplayEvent
<1>4. Logged(e, event) = [row[e] EXCEPT !.completed = c]
  BY DEF Logged
<1> HIDE DEF c
<1> QED BY <1>1, <1>3, <1>4 DEF RowType

(* Opening the walk changes the stage and the cursor of a turn, and what   *)
(* only the begin knew.                                                    *)
LEMMA OpenedTurn ==
  ASSUME NEW t \in TurnType, NEW k \in Nat
  PROVE  LET x == Opened(t, k)
         IN  /\ x \in TurnType /\ x.stage = "walking" /\ x.cursor = k
             /\ x.proc = t.proc /\ x.start = t.start /\ x.session = t.session /\ x.route = t.route
BY DEF TurnType, Opened, InFlight, Tracing

(* Steps of a turn that change no row but its own, and no claim.           *)
LEMMA TurnStep ==
  ASSUME IInv, NEW e \in Exec,
         \/ \E p \in Proc, a \in Agent : turnArrives(e, p, a)
         \/ \E rt \in Route, at \in 1..clock : persistEnterpriseRunStart(e, rt, at)
         \/ \E i \in 1..Len(turn[e].route) : reopenEnterpriseStep(e, i)
         \/ \E st \in Outcome \cup {"blocked"} : appendRunEnded(e, st)
         \/ turnDropped(e) \/ opensFresh(e) \/ runResumedTraced(e)
         \/ completeEnterpriseStep(e) \/ finalizeEnterpriseRun(e)
  PROVE  IInv'
<1>1. TypeOK /\ ExecOK(turn[e], row[e], claims[e], proc)
  BY IInvByExec
<1>2. turn[e] \in TurnType /\ row[e] \in RowType /\ row = [row EXCEPT ![e] = row[e]]
  BY <1>1 DEF TypeOK
<1>3. session \in [Agent -> Transcript] /\ \A b \in Agent : session[b][1] = b
  BY <1>1 DEF TypeOK
<1>4. ASSUME NEW p \in Proc, NEW a \in Agent, turnArrives(e, p, a) PROVE IInv'
  <2> DEFINE t == [NoTurn EXCEPT !.stage = "planning", !.proc = p, !.start = proc[p].start,
                     !.session = session[a], !.startedAt = clock, !.clicked = ArmedOrAsked]
  <2>1. /\ turn' = [turn EXCEPT ![e] = t] /\ turn[e].stage = "none" /\ proc[p].alive
        /\ UNCHANGED <<clock, proc, session, row, ask, claims>>
    BY <1>4 DEF turnArrives, observed
  <2>2. /\ proc[p].start \in Nat /\ session[a] \in Transcript /\ clock \in Nat
        /\ ArmedOrAsked \in SUBSET Exec
    BY <1>1 DEF TypeOK, ArmedOrAsked
  <2>3. /\ t \in TurnType /\ t.stage = "planning" /\ t.proc = p /\ t.start = proc[p].start
        /\ t.session = session[a]
    BY <2>2, BlankTypes DEF TurnType, InFlight, NoTurn
  <2>4. proc[p] = [alive |-> TRUE, start |-> proc[p].start]
    BY <1>1, <2>1 DEF TypeOK
  <2> HIDE DEF t
  <2>6. ExecOK(t, row[e], claims[e], proc)
    BY <1>1, <2>1, <2>2, <2>3, <2>4 DEF ExecOK, Tracing
  <2> QED BY <1>2, <1>3, <2>1, <2>3, <2>6, OneExecStep
<1>5. CASE turnDropped(e)
  <2>1. /\ turn' = [turn EXCEPT ![e] = NoTurn] /\ turn[e].stage = "planning"
        /\ UNCHANGED <<clock, proc, session, row, ask, claims>>
    BY <1>5 DEF turnDropped, observed
  <2>2. ExecOK(NoTurn, row[e], claims[e], proc)
    BY <1>1, <2>1 DEF ExecOK, NoTurn, Tracing, InFlight
  <2> QED BY <1>2, <1>3, <2>1, <2>2, BlankTypes, OneExecStep
<1>6. ASSUME NEW rt \in Route, NEW at \in 1..clock, persistEnterpriseRunStart(e, rt, at)
      PROVE  IInv'
  <2> DEFINE t == [turn[e] EXCEPT !.stage = "inserted", !.route = rt]
             w == [row[e] EXCEPT !.status = "running", !.agent = AgentOf(e), !.session = turn[e].session,
                      !.proc = turn[e].proc, !.start = turn[e].start, !.route = rt,
                      !.createdAt = at]
  <2>1. /\ turn' = [turn EXCEPT ![e] = t] /\ turn[e].stage = "planning"
        /\ Persist("start", e, w) /\ UNCHANGED <<clock, proc, session, ask, claims>>
    BY <1>6 DEF persistEnterpriseRunStart
  <2>2. /\ t \in TurnType /\ t.stage = "inserted" /\ t.route = rt
        /\ t.proc = turn[e].proc /\ t.start = turn[e].start /\ t.session = turn[e].session
    BY <1>2 DEF TurnType, InFlight, Tracing
  <2>3. /\ turn[e].session \in Transcript /\ turn[e].proc \in Proc /\ turn[e].start \in Nat
        /\ at \in Nat
    BY <1>1, <1>2, <2>1 DEF TypeOK, TurnType, ExecOK, InFlight
  <2>4. AgentOf(e) \in Agent
    BY <2>3 DEF AgentOf, Transcript
  <2>5. /\ w \in RowType /\ w.status = "running" /\ w.agent = AgentOf(e)
        /\ w.proc = turn[e].proc /\ w.start = turn[e].start
        /\ w.marker = row[e].marker /\ w.ended = row[e].ended
    BY <1>2, <2>3, <2>4 DEF RowType
  <2> HIDE DEF t, w
  <2>6. PICK r \in {w, row[e]} : row' = [row EXCEPT ![e] = r]
    BY <1>1, <2>1, PersistEffect
  <2>7. row[e].marker = 0 /\ row[e].status = "none" /\ row[e].ended = << >>
    BY <1>1, <2>1, BlankTypes DEF ExecOK
  <2>8. ExecOK(t, r, claims[e], proc)
    BY <1>1, <2>1, <2>2, <2>3, <2>4, <2>5, <2>7, BlankTypes DEF ExecOK, Tracing, InFlight
  <2>9. /\ r \in RowType /\ (r.marker # 0 => r.marker = row[e].marker /\ r.agent = row[e].agent)
        /\ (row[e].status # "none" => r.status # "none")
    BY <1>2, <2>5, <2>7
  <2> QED BY <1>3, <2>1, <2>2, <2>6, <2>8, <2>9, OneExecStep
<1>7. CASE opensFresh(e)
  <2> DEFINE t == Opened(turn[e], 1)
  <2>1. /\ turn' = [turn EXCEPT ![e] = t] /\ turn[e].stage = "inserted"
        /\ UNCHANGED <<clock, proc, session, row, ask, claims>>
    BY <1>7 DEF opensFresh, observed
  <2>2. /\ t \in TurnType /\ t.stage = "walking" /\ t.cursor = 1 /\ t.route = turn[e].route
        /\ t.proc = turn[e].proc /\ t.start = turn[e].start /\ t.session = turn[e].session
    BY <1>2, OpenedTurn
  <2> HIDE DEF t
  <2>3. ExecOK(t, row[e], claims[e], proc)
    BY <1>1, <2>1, <2>2 DEF ExecOK, Tracing, InFlight
  <2> QED BY <1>2, <1>3, <2>1, <2>2, <2>3, OneExecStep
<1>8. CASE runResumedTraced(e)
  <2> DEFINE t == Opened(turn[e], turn[e].cursor)
             ev == [kind |-> "run.resumed", steps |-> turn[e].carried]
  <2>1. /\ turn' = [turn EXCEPT ![e] = t] /\ turn[e].stage = "taken"
        /\ Persist("resumed", e, Logged(e, ev))
        /\ UNCHANGED <<clock, proc, session, ask, claims>>
    BY <1>8 DEF runResumedTraced, observed
  <2>2. turn[e].cursor \in Nat /\ ev.steps \subseteq Node
    BY <1>2 DEF TurnType
  <2>3. /\ t \in TurnType /\ t.stage = "walking" /\ t.cursor = turn[e].cursor /\ t.route = turn[e].route
        /\ t.proc = turn[e].proc /\ t.start = turn[e].start /\ t.session = turn[e].session
    BY <1>2, <2>2, OpenedTurn
  <2> HIDE DEF t, ev
  <2>4. PICK r \in {Logged(e, ev), row[e]} : row' = [row EXCEPT ![e] = r]
    BY <1>1, <2>1, PersistEffect
  <2>5. /\ r \in RowType
        /\ r.status = row[e].status /\ r.marker = row[e].marker /\ r.ended = row[e].ended
        /\ r.agent = row[e].agent /\ r.proc = row[e].proc /\ r.start = row[e].start
    BY <1>1, <1>2, <2>2, LoggedRow
  <2>6. ExecOK(t, r, claims[e], proc)
    BY <1>1, <2>1, <2>3, <2>5 DEF ExecOK, Tracing, InFlight
  <2> QED BY <1>3, <2>1, <2>3, <2>4, <2>5, <2>6, OneExecStep
<1>9. CASE completeEnterpriseStep(e)
  <2> DEFINE t == [turn[e] EXCEPT !.cursor = turn[e].cursor + 1]
             ev == [kind |-> "node.completed", steps |-> {turn[e].route[turn[e].cursor]}]
  <2>1. /\ turn' = [turn EXCEPT ![e] = t] /\ Persist("completed", e, Logged(e, ev))
        /\ turn[e].stage = "walking" /\ turn[e].cursor <= Len(turn[e].route)
        /\ UNCHANGED <<clock, proc, session, ask, claims>>
    BY <1>9 DEF completeEnterpriseStep
  <2>2. turn[e].cursor \in Nat /\ turn[e].cursor >= 1 /\ turn[e].route \in Route
    BY <1>1, <1>2, <2>1 DEF ExecOK, TurnType
  <2>3. turn[e].route[turn[e].cursor] \in Node
    BY <2>1, <2>2, RouteAssumption DEF IsRoute
  <2>4. /\ t \in TurnType /\ t.stage = turn[e].stage /\ t.cursor = turn[e].cursor + 1
        /\ t.route = turn[e].route
        /\ t.proc = turn[e].proc /\ t.start = turn[e].start /\ t.session = turn[e].session
    <3>1. turn[e].cursor + 1 \in Nat
      BY <2>2
    <3> QED BY <1>2, <3>1 DEF TurnType
  <2>5. ev.steps \subseteq Node
    BY <2>3
  <2> HIDE DEF t, ev
  <2>6. PICK r \in {Logged(e, ev), row[e]} : row' = [row EXCEPT ![e] = r]
    BY <1>1, <2>1, PersistEffect
  <2>7. /\ r \in RowType
        /\ r.status = row[e].status /\ r.marker = row[e].marker /\ r.ended = row[e].ended
        /\ r.agent = row[e].agent /\ r.proc = row[e].proc /\ r.start = row[e].start
    BY <1>1, <1>2, <2>5, LoggedRow
  <2>8. ExecOK(t, r, claims[e], proc)
    BY <1>1, <2>1, <2>2, <2>4, <2>7 DEF ExecOK, Tracing, InFlight
  <2> QED BY <1>3, <2>1, <2>4, <2>6, <2>7, <2>8, OneExecStep
<1>10. ASSUME NEW i \in 1..Len(turn[e].route), reopenEnterpriseStep(e, i) PROVE IInv'
  <2> DEFINE t == [turn[e] EXCEPT !.cursor = i, !.reopens = turn[e].reopens + 1]
             ev == [kind |-> "node.reopened", steps |-> Invalidated(turn[e].route, i)]
  <2>1. /\ turn' = [turn EXCEPT ![e] = t] /\ turn[e].stage = "walking"
        /\ row' = [row EXCEPT ![e] = Logged(e, ev)] \/ row' = row
        /\ UNCHANGED <<clock, proc, session, ask, claims>>
    BY <1>10 DEF reopenEnterpriseStep
  <2>2. turn[e].route \in Route /\ turn[e].reopens \in Nat
    BY <1>1, <1>2, <2>1 DEF ExecOK, TurnType
  <2>3. i \in Nat /\ i >= 1 /\ Invalidated(turn[e].route, i) \subseteq Node
    BY <2>2, RouteAssumption DEF IsRoute, Invalidated
  <2>4. /\ t \in TurnType /\ t.stage = turn[e].stage /\ t.cursor = i
        /\ t.route = turn[e].route
        /\ t.proc = turn[e].proc /\ t.start = turn[e].start /\ t.session = turn[e].session
    <3>1. turn[e].reopens + 1 \in Nat
      BY <2>2
    <3> QED BY <1>2, <2>3, <3>1 DEF TurnType
  <2>5. ev.steps \subseteq Node
    BY <2>3
  <2> HIDE DEF t, ev
  <2>6. PICK r \in {Logged(e, ev), row[e]} : row' = [row EXCEPT ![e] = r]
    BY <1>2, <2>1
  <2>7. /\ r \in RowType
        /\ r.status = row[e].status /\ r.marker = row[e].marker /\ r.ended = row[e].ended
        /\ r.agent = row[e].agent /\ r.proc = row[e].proc /\ r.start = row[e].start
    BY <1>1, <1>2, <2>5, LoggedRow
  <2>8. ExecOK(t, r, claims[e], proc)
    BY <1>1, <2>1, <2>2, <2>3, <2>4, <2>7 DEF ExecOK, Tracing, InFlight
  <2> QED BY <1>3, <2>1, <2>4, <2>6, <2>7, <2>8, OneExecStep
(* The two writes of an end: the log gets its first terminal event, then   *)
(* the row takes the same verdict.                                         *)
<1>11. ASSUME NEW st \in Outcome \cup {"blocked"}, appendRunEnded(e, st) PROVE IInv'
  <2> DEFINE t == [turn[e] EXCEPT !.stage = "closing", !.verdict = st]
             w == [row[e] EXCEPT !.ended = Append(@, st)]
  <2>1. /\ turn' = [turn EXCEPT ![e] = t] /\ Persist("ended", e, w)
        /\ turn[e].stage \in Tracing
        /\ UNCHANGED <<clock, proc, session, ask, claims>>
    BY <1>11 DEF appendRunEnded, observed, Tracing
  <2>2. st \in Final /\ row[e].ended = << >>
    BY <1>1, <2>1 DEF ExecOK, Final
  <2>3. Append(row[e].ended, st) = <<st>> /\ <<st>> \in Seq(Final)
    BY <2>2
  <2>4. /\ t \in TurnType /\ t.stage = "closing" /\ t.verdict = st
        /\ t.proc = turn[e].proc /\ t.start = turn[e].start /\ t.session = turn[e].session
    BY <1>2, <2>2 DEF TurnType, InFlight
  <2>5. /\ w \in RowType /\ w.ended = <<st>>
        /\ w.status = row[e].status /\ w.marker = row[e].marker
        /\ w.agent = row[e].agent /\ w.proc = row[e].proc /\ w.start = row[e].start
    BY <1>2, <2>3 DEF RowType
  <2> HIDE DEF t, w
  <2>6. PICK r \in {w, row[e]} : row' = [row EXCEPT ![e] = r]
    BY <1>1, <2>1, PersistEffect
  <2>7. /\ r \in RowType /\ r.ended \in {<< >>, <<st>>}
        /\ r.status = row[e].status /\ r.marker = row[e].marker
        /\ r.agent = row[e].agent /\ r.proc = row[e].proc /\ r.start = row[e].start
    BY <1>2, <2>2, <2>5, <2>6
  <2>8. Len(r.ended) <= 1 /\ row[e].status \notin Final /\ row[e].marker = 0
    <3>1. CASE r.ended = << >>
      BY <1>1, <2>1, <3>1 DEF ExecOK
    <3>2. CASE r.ended = <<st>>
      BY <1>1, <2>1, <3>2 DEF ExecOK
    <3> QED BY <2>7, <3>1, <3>2
  <2>9. turn[e].stage \in InFlight
    BY <2>1 DEF InFlight
  <2>10. t.stage \notin Tracing /\ t.stage \in InFlight
    BY <2>4 DEF Tracing, InFlight
  <2>11. ExecOK(t, r, claims[e], proc)
    BY <1>1, <2>2, <2>4, <2>7, <2>8, <2>9, <2>10 DEF ExecOK
  <2> QED BY <1>3, <2>1, <2>4, <2>6, <2>7, <2>11, OneExecStep
<1>12. CASE finalizeEnterpriseRun(e)
  <2> DEFINE v == turn[e].verdict
             s == [row[e] EXCEPT !.status = v]
             w == IF row[e].status = "none" THEN row[e] ELSE s
  <2>1. /\ turn' = [turn EXCEPT ![e] = Gone] /\ Persist("finalize", e, w)
        /\ turn[e].stage = "closing"
        /\ UNCHANGED <<clock, proc, session, ask, claims>>
    BY <1>12 DEF finalizeEnterpriseRun, observed
  <2>2. /\ v \in Final /\ v # "none" /\ row[e].ended \in {<< >>, <<v>>} /\ row[e].status \notin Final
    BY <1>1, <2>1, BlankTypes DEF ExecOK
  <2>3. /\ s \in RowType /\ s.status = v /\ s.ended = row[e].ended
        /\ s.marker = row[e].marker /\ s.agent = row[e].agent
    BY <1>2, <2>2 DEF RowType
  <2>4. Gone.stage = "gone" /\ Gone \in TurnType
    BY BlankTypes DEF Gone, NoTurn
  <2> HIDE DEF s, v, w
  <2>5. PICK r \in {w, row[e]} : row' = [row EXCEPT ![e] = r]
    BY <1>1, <2>1, PersistEffect
  <2>6. r = row[e] \/ (r = s /\ row[e].status # "none")
    BY <2>5 DEF w
  <2>7. ExecOK(Gone, r, claims[e], proc)
    <3>1. /\ claims[e] <= 1 /\ row[e].marker = 0 /\ Len(row[e].ended) <= 1
          /\ (row[e].status # "none" => row[e].agent \in Agent)
      BY <1>1, <2>2 DEF ExecOK
    <3>2. /\ r.ended = row[e].ended /\ r.marker = 0 /\ r.status \in {v, row[e].status}
          /\ (r.status = v /\ r.ended # << >> => r.status = r.ended[1])
          /\ (r.status # "none" => r.agent \in Agent)
      <4>1. CASE r = row[e]
        BY <2>2, <3>1, <4>1
      <4>2. CASE r = s /\ row[e].status # "none"
        BY <2>2, <2>3, <3>1, <4>2
      <4> QED BY <2>6, <4>1, <4>2
    <3>3. Gone.stage \notin InFlight /\ Gone.stage \notin Tracing
      BY <2>4 DEF InFlight, Tracing
    <3> QED BY <2>2, <2>4, <3>1, <3>2, <3>3 DEF ExecOK
  <2>8. /\ r \in RowType /\ (r.marker # 0 => r.marker = row[e].marker /\ r.agent = row[e].agent)
        /\ (row[e].status # "none" => r.status # "none")
    BY <1>2, <2>2, <2>3, <2>6
  <2> QED BY <1>3, <2>1, <2>4, <2>5, <2>7, <2>8, OneExecStep
<1> QED
  BY <1>4, <1>5, <1>6, <1>7, <1>8, <1>9, <1>10, <1>11, <1>12

(* A compaction moves the conversation, the turn and its row together.     *)
LEMMA CompactStep ==
  ASSUME IInv, NEW e \in Exec, compact(e)
  PROVE  IInv'
<1> DEFINE a == AgentOf(e)
           s == Rotated(a)
           t == [turn[e] EXCEPT !.session = s]
           x == [row[e] EXCEPT !.session = s]
<1>1. TypeOK /\ ExecOK(turn[e], row[e], claims[e], proc)
  BY IInvByExec
<1>2. turn[e] \in TurnType /\ row[e] \in RowType
  BY <1>1 DEF TypeOK
<1>3. /\ turn[e].stage = "walking" /\ session[a] = turn[e].session /\ session[a][2] < MaxSession
      /\ session' = [session EXCEPT ![a] = s] /\ turn' = [turn EXCEPT ![e] = t]
      /\ Persist("adopt", e, IF row[e].status = "none" THEN row[e] ELSE x)
      /\ UNCHANGED <<clock, proc, ask, claims>>
  BY DEF compact
<1>4. turn[e].session \in Transcript
  BY <1>1, <1>3 DEF ExecOK, InFlight, Tracing
<1>5. a \in Agent /\ session[a][2] \in 1..MaxSession
  BY <1>3, <1>4 DEF AgentOf, Transcript
<1>6. s \in Transcript /\ s[1] = a
  BY <1>3, <1>5, BoundAssumption DEF Rotated, Transcript
<1> HIDE DEF a, s
<1>7. session' \in [Agent -> Transcript] /\ \A b \in Agent : session'[b][1] = b
  BY <1>1, <1>3, <1>5, <1>6 DEF TypeOK
<1>8. /\ t \in TurnType /\ t.stage = turn[e].stage /\ t.cursor = turn[e].cursor
      /\ t.route = turn[e].route /\ t.proc = turn[e].proc /\ t.start = turn[e].start
      /\ t.session = s
  BY <1>2, <1>6 DEF TurnType
<1>9. /\ x \in RowType
      /\ x.status = row[e].status /\ x.marker = row[e].marker /\ x.ended = row[e].ended
      /\ x.agent = row[e].agent /\ x.proc = row[e].proc /\ x.start = row[e].start
  BY <1>2, <1>6 DEF RowType
<1> HIDE DEF t, x
<1>10. PICK r \in {x, row[e]} : row' = [row EXCEPT ![e] = r]
  BY <1>1, <1>3, PersistEffect
<1>11. /\ r \in RowType
       /\ r.status = row[e].status /\ r.marker = row[e].marker /\ r.ended = row[e].ended
       /\ r.agent = row[e].agent /\ r.proc = row[e].proc /\ r.start = row[e].start
  BY <1>2, <1>9, <1>10
<1>12. ExecOK(t, r, claims[e], proc)
  BY <1>1, <1>3, <1>6, <1>8, <1>11 DEF ExecOK, Tracing, InFlight
<1> QED BY <1>3, <1>7, <1>8, <1>10, <1>11, <1>12, OneExecStep

(* Writing a marker changes nothing else of a row.                         *)
LEMMA MarkedRow ==
  ASSUME NEW r \in RowType, NEW m \in Nat
  PROVE  LET w == [r EXCEPT !.marker = m]
         IN  /\ w \in RowType /\ w.marker = m
             /\ w.status = r.status /\ w.ended = r.ended
             /\ w.agent = r.agent /\ w.proc = r.proc /\ w.start = r.start
BY DEF RowType

(* The take: the marker it consumes is of another execution, one that is   *)
(* over, and had not been claimed.                                         *)
LEMMA TakeStep ==
  ASSUME IInv, NEW e \in Exec, NEW o \in Exec, takeEnterpriseRunResume(e, o)
  PROVE  IInv'
<1> DEFINE k == firstUnfinishedStep(turn[e].route, row[o].completed)
           c == row[o].completed
           w == consumed(row[o])
           fresh == Opened(turn[e], 1)
           carry == [turn[e] EXCEPT !.stage = "taken", !.cursor = k, !.from = o, !.carried = c]
<1>1. /\ TypeOK /\ OneMarkerPerLane /\ AskOK
      /\ \A f \in Exec : ExecOK(turn[f], row[f], claims[f], proc)
  BY IInvByExec
<1>2. /\ turn[e].stage = "inserted" /\ row[o].marker # 0
      /\ row' = [row EXCEPT ![o] = w] /\ claims' = [claims EXCEPT ![o] = claims[o] + 1]
      /\ \/ turn' = [turn EXCEPT ![e] = fresh]
         \/ k # 0 /\ turn' = [turn EXCEPT ![e] = carry]
      /\ UNCHANGED <<clock, proc, session, ask>>
  BY DEF takeEnterpriseRunResume, newestTakeable, takeable
<1>3. turn[e] \in TurnType /\ row[o] \in RowType /\ claims[o] = 0 /\ row[o].status \in Final
  BY <1>1, <1>2 DEF TypeOK, ExecOK
<1>4. o # e
  BY <1>1, <1>2, <1>3 DEF ExecOK, Tracing
<1>5. turn[e].route \in Route
  BY <1>1, <1>2 DEF ExecOK
<1>6. k \in Nat
  <2>1. Len(turn[e].route) \in Nat
    BY <1>5, RouteAssumption DEF IsRoute
  <2>2. k \in {0} \cup 2..Len(turn[e].route)
    BY <2>1, FirstUnfinishedRange
  <2> QED BY <2>1, <2>2
<1>7. c \in SUBSET Node
  BY <1>3 DEF RowType
<1>8. /\ w \in RowType /\ w.marker = 0
      /\ w.status = row[o].status /\ w.ended = row[o].ended
      /\ w.agent = row[o].agent /\ w.proc = row[o].proc /\ w.start = row[o].start
  BY <1>3, MarkedRow DEF consumed
<1>9. /\ fresh \in TurnType /\ fresh.stage = "walking" /\ fresh.cursor = 1
      /\ fresh.route = turn[e].route /\ fresh.proc = turn[e].proc
      /\ fresh.start = turn[e].start /\ fresh.session = turn[e].session
  BY <1>3, OpenedTurn
<1>10. /\ carry \in TurnType /\ carry.stage = "taken" /\ carry.cursor = k
       /\ carry.route = turn[e].route /\ carry.proc = turn[e].proc
       /\ carry.start = turn[e].start /\ carry.session = turn[e].session
  <2> HIDE DEF k, c
  <2> QED BY <1>3, <1>6, <1>7 DEF TurnType, InFlight, Tracing
<1> HIDE DEF k, c, w, fresh, carry
<1>11. PICK t \in TurnType :
         /\ turn' = [turn EXCEPT ![e] = t]
         /\ t.stage \in {"walking", "taken"} /\ t.cursor \in Nat /\ t.cursor >= 1
         /\ t.route = turn[e].route /\ t.proc = turn[e].proc
         /\ t.start = turn[e].start /\ t.session = turn[e].session
  BY <1>2, <1>6, <1>9, <1>10
<1>12. \A f \in Exec : /\ turn'[f] = IF f = e THEN t ELSE turn[f]
                       /\ row'[f] = IF f = o THEN w ELSE row[f]
                       /\ claims'[f] = IF f = o THEN 1 ELSE claims[f]
  BY <1>1, <1>2, <1>3, <1>11 DEF TypeOK
<1>13. TypeOK'
  <2>1. claims' \in [Exec -> Nat]
    BY <1>1, <1>2, <1>3 DEF TypeOK
  <2> QED BY <1>1, <1>2, <1>8, <1>11, <2>1 DEF TypeOK
<1>14. OneMarkerPerLane'
  BY <1>1, <1>8, <1>12 DEF OneMarkerPerLane
<1>15. AskOK'
  BY <1>1, <1>2, <1>8, <1>12 DEF AskOK, TypeOK
<1>16. ExecOK(t, row[e], claims[e], proc)
  BY <1>1, <1>2, <1>5, <1>11 DEF ExecOK, Tracing, InFlight
<1>17. ExecOK(turn[o], w, 1, proc)
  <2>1. ExecOK(turn[o], row[o], claims[o], proc)
    BY <1>1
  <2> QED BY <1>8, <2>1 DEF ExecOK
<1>18. \A f \in Exec : ExecOK(turn'[f], row'[f], claims'[f], proc')
  BY <1>1, <1>2, <1>4, <1>12, <1>16, <1>17
<1> QED BY <1>13, <1>14, <1>15, <1>18, IInvByExecNext

(* A process dies or starts.  An execution in flight is in memory of a     *)
(* live process, the one its row names: a crash takes it along, and a      *)
(* start is of another process.                                            *)
LEMMA ProcessStep ==
  ASSUME IInv, NEW p \in Proc, crash(p) \/ localStarts(p)
  PROVE  IInv'
<1>1. /\ TypeOK /\ OneMarkerPerLane /\ AskOK
      /\ \A f \in Exec : ExecOK(turn[f], row[f], claims[f], proc)
  BY IInvByExec
<1>2. CASE crash(p)
  <2>1. /\ proc' = [proc EXCEPT ![p].alive = FALSE]
        /\ turn' = [e \in Exec |-> IF turn[e].proc = p /\ turn[e].stage \in InFlight
                                   THEN IF turn[e].stage = "planning" THEN NoTurn ELSE Gone
                                   ELSE turn[e]]
        /\ ask' = (IF p = Gateway THEN NoAsk ELSE ask)
        /\ UNCHANGED <<clock, session, row, claims>>
    BY <1>2 DEF crash, observed
  <2>2. proc' \in [Proc -> [alive : BOOLEAN, start : Nat]] /\ turn' \in [Exec -> TurnType]
    BY <1>1, <2>1, BlankTypes DEF TypeOK
  <2>3. ask' \in [exec : Exec \cup {NoExec}, active : Transcript \cup {<< >>}, armedAt : Nat]
    BY <1>1, <2>1 DEF TypeOK, NoAsk
  <2>4. TypeOK' /\ OneMarkerPerLane'
    BY <1>1, <2>1, <2>2, <2>3 DEF TypeOK, OneMarkerPerLane
  <2>5. AskOK'
    BY <1>1, <2>1 DEF AskOK, NoAsk
  <2>6. ASSUME NEW e \in Exec PROVE ExecOK(turn'[e], row'[e], claims'[e], proc')
    <3>0. ExecOK(turn[e], row[e], claims[e], proc) /\ turn[e] \in TurnType
      BY <1>1 DEF TypeOK
    <3>1. CASE turn[e].proc = p /\ turn[e].stage = "planning"
      <4>1. turn'[e] = NoTurn
        BY <2>1, <3>1 DEF InFlight
      <4> QED BY <2>1, <3>0, <3>1, <4>1 DEF ExecOK, NoTurn, InFlight, Tracing
    <3>2. CASE turn[e].proc = p /\ turn[e].stage \in InFlight /\ turn[e].stage # "planning"
      <4>1. turn'[e] = Gone /\ Gone.stage = "gone"
        BY <2>1, <3>2 DEF Gone, NoTurn
      <4> QED BY <2>1, <3>0, <4>1 DEF ExecOK, InFlight, Tracing
    <3>3. CASE turn[e].stage \notin InFlight
      BY <2>1, <3>0, <3>3 DEF ExecOK
    <3>4. CASE turn[e].proc # p
      <4>1. turn'[e] = turn[e] /\ (turn[e].proc \in Proc => proc'[turn[e].proc] = proc[turn[e].proc])
        BY <1>1, <2>1, <3>4 DEF TypeOK
      <4>2. turn[e].proc \in Proc
        BY <3>0 DEF TurnType
      <4> QED BY <2>1, <3>0, <4>1, <4>2 DEF ExecOK
    <3> QED BY <3>1, <3>2, <3>3, <3>4
  <2> QED BY <2>4, <2>5, <2>6, IInvByExecNext
<1>3. CASE localStarts(p)
  <2>1. /\ proc' = [proc EXCEPT ![p] = [alive |-> TRUE, start |-> proc[p].start + 1]]
        /\ ~proc[p].alive
        /\ UNCHANGED <<clock, session, turn, row, ask, claims>>
    BY <1>3 DEF localStarts, Started, observed
  <2>2. proc[p].start + 1 \in Nat
    BY <1>1 DEF TypeOK
  <2>3. proc' \in [Proc -> [alive : BOOLEAN, start : Nat]]
    BY <1>1, <2>1, <2>2 DEF TypeOK
  <2>4. TypeOK' /\ OneMarkerPerLane' /\ AskOK'
    BY <1>1, <2>1, <2>3 DEF TypeOK, OneMarkerPerLane, AskOK
  <2>5. ASSUME NEW e \in Exec PROVE ExecOK(turn'[e], row'[e], claims'[e], proc')
    <3>1. ExecOK(turn[e], row[e], claims[e], proc) /\ turn[e] \in TurnType
      BY <1>1 DEF TypeOK
    <3>2. turn[e].stage \in InFlight => turn[e].proc # p
      BY <2>1, <3>1 DEF ExecOK
    <3>3. turn[e].proc # p => proc'[turn[e].proc] = proc[turn[e].proc]
      BY <1>1, <2>1, <3>1 DEF TypeOK, TurnType
    <3> QED BY <2>1, <3>1, <3>2, <3>3 DEF ExecOK
  <2> QED BY <2>4, <2>5, IInvByExecNext
<1> QED BY <1>2, <1>3

(* What recovery writes: the verdict the log already holds, else "aborted" *)
(* in both places.                                                         *)
LEMMA RecoveredRow ==
  ASSUME NEW r \in RowType, Len(r.ended) <= 1
  PROVE  LET w == recovered(r)
         IN  /\ w \in RowType /\ w.status \in Final
             /\ Len(w.ended) = 1 /\ w.status = w.ended[1]
             /\ w.marker = r.marker /\ w.agent = r.agent
<1>0. r.ended \in Seq(Final) /\ "aborted" \in Final
  BY DEF RowType, Final
<1>1. CASE r.ended = << >>
  <2> DEFINE w == [r EXCEPT !.status = "aborted", !.ended = <<"aborted">>]
  <2>1. recovered(r) = w
    BY <1>1 DEF recovered
  <2>2. <<"aborted">> \in Seq(Final)
    BY <1>0
  <2>3. /\ w \in RowType /\ w.status = "aborted" /\ w.ended = <<"aborted">>
        /\ w.marker = r.marker /\ w.agent = r.agent
    BY <1>0, <2>2 DEF RowType
  <2> HIDE DEF w
  <2>4. Len(w.ended) = 1 /\ w.ended[1] = "aborted"
    BY <2>3
  <2> QED BY <1>0, <2>1, <2>3, <2>4
<1>2. CASE r.ended # << >>
  <2> DEFINE v == r.ended[Len(r.ended)]
             w == [r EXCEPT !.status = v]
  <2>1. Len(r.ended) = 1 /\ r.ended[1] \in Final
    <3>1. Len(r.ended) \in Nat /\ Len(r.ended) # 0
      BY <1>0, <1>2, EmptySeq
    <3>2. \A n \in Nat : n # 0 /\ n <= 1 => n = 1
      OBVIOUS
    <3>3. Len(r.ended) = 1
      BY <3>1, <3>2, Zenon
    <3> QED BY <1>0, <3>3
  <2>2. recovered(r) = w
    BY <1>2 DEF recovered
  <2>3. v = r.ended[1] /\ v \in Final
    BY <2>1
  <2> HIDE DEF v
  <2>4. /\ w \in RowType /\ w.status = v /\ w.ended = r.ended
        /\ w.marker = r.marker /\ w.agent = r.agent
    BY <2>3 DEF RowType
  <2> HIDE DEF w
  <2> QED BY <2>1, <2>2, <2>3, <2>4
<1> QED BY <1>1, <1>2

(* The gateway's start and its sweep.                                      *)
LEMMA SweepStep ==
  ASSUME IInv, gatewayStarts
  PROVE  IInv'
<1> DEFINE P == Started(Gateway)
           swept == abortOrphanedEnterpriseRuns(P)
<1>1. /\ TypeOK /\ OneMarkerPerLane /\ AskOK
      /\ \A f \in Exec : ExecOK(turn[f], row[f], claims[f], proc)
  BY IInvByExec
<1>2. /\ proc' = P /\ ~proc[Gateway].alive /\ row' \in {swept, row}
      /\ UNCHANGED <<clock, session, turn, ask, claims>>
  BY DEF gatewayStarts, observed
<1>3. P = [proc EXCEPT ![Gateway] = [alive |-> TRUE, start |-> proc[Gateway].start + 1]]
  BY DEF Started
<1>4. P \in [Proc -> [alive : BOOLEAN, start : Nat]]
  <2>1. proc[Gateway].start + 1 \in Nat
    BY <1>1, ExecAssumption DEF TypeOK
  <2> QED BY <1>1, <1>3, <2>1, ExecAssumption DEF TypeOK
<1>5. ASSUME NEW e \in Exec, turn[e].stage \in InFlight
      PROVE  /\ P[turn[e].proc] = [alive |-> TRUE, start |-> turn[e].start]
             /\ row[e].status = "running" => ~isOwnerTokenGone(row[e], P)
  <2>1. ExecOK(turn[e], row[e], claims[e], proc) /\ turn[e] \in TurnType
    BY <1>1 DEF TypeOK
  <2>2. turn[e].proc # Gateway
    BY <1>2, <1>5, <2>1 DEF ExecOK
  <2>3. P[turn[e].proc] = proc[turn[e].proc]
    BY <1>1, <1>3, <2>1, <2>2 DEF TypeOK, TurnType
  <2>4. P[turn[e].proc] = [alive |-> TRUE, start |-> turn[e].start]
    BY <1>5, <2>1, <2>3 DEF ExecOK
  <2>5. row[e].status = "running" => row[e].proc = turn[e].proc /\ row[e].start = turn[e].start
    BY <1>5, <2>1 DEF ExecOK
  <2> QED BY <2>4, <2>5 DEF isOwnerTokenGone
<1> HIDE DEF P
<1>6. ASSUME NEW e \in Exec
      PROVE  \/ row'[e] = row[e]
             \/ /\ row'[e] = recovered(row[e]) /\ row[e].status = "running"
                /\ turn[e].stage \notin InFlight
  BY <1>2, <1>5 DEF abortOrphanedEnterpriseRuns
<1>7. ASSUME NEW e \in Exec
      PROVE  /\ row'[e] \in RowType
             /\ row'[e].marker = row[e].marker /\ row'[e].agent = row[e].agent
             /\ row[e].status # "none" => row'[e].status # "none"
             /\ ExecOK(turn[e], row'[e], claims[e], P)
  <2>0. ExecOK(turn[e], row[e], claims[e], proc) /\ row[e] \in RowType
    BY <1>1 DEF TypeOK
  <2>1. CASE row'[e] = row[e]
    <3>1. turn[e].stage \in InFlight => P[turn[e].proc] = proc[turn[e].proc]
      BY <1>5, <2>0 DEF ExecOK
    <3> QED BY <2>0, <2>1, <3>1 DEF ExecOK
  <2>2. CASE /\ row'[e] = recovered(row[e]) /\ row[e].status = "running"
             /\ turn[e].stage \notin InFlight
    <3>1. Len(row[e].ended) <= 1
      BY <2>0 DEF ExecOK
    <3>2. /\ row'[e] \in RowType /\ row'[e].status \in Final
          /\ Len(row'[e].ended) = 1 /\ row'[e].status = row'[e].ended[1]
          /\ row'[e].marker = row[e].marker /\ row'[e].agent = row[e].agent
      BY <2>0, <2>2, <3>1, RecoveredRow
    <3>3. turn[e].stage \notin {"none", "planning", "closing", "inserted", "taken", "walking"}
      BY <2>0, <2>2 DEF ExecOK, InFlight, Tracing
    <3> QED BY <2>0, <2>2, <3>2, <3>3, BlankTypes DEF ExecOK, Tracing
  <2> QED BY <1>6, <2>1, <2>2
<1>8. row' \in [Exec -> RowType]
  <2>1. row' = [e \in Exec |-> row'[e]]
    BY <1>1, <1>2 DEF TypeOK, abortOrphanedEnterpriseRuns
  <2> QED BY <1>7, <2>1
<1>9. TypeOK'
  BY <1>1, <1>2, <1>4, <1>8 DEF TypeOK
<1>10. OneMarkerPerLane' /\ AskOK'
  BY <1>1, <1>2, <1>7 DEF OneMarkerPerLane, AskOK, TypeOK
<1>11. \A e \in Exec : ExecOK(turn'[e], row'[e], claims'[e], proc')
  BY <1>2, <1>7
<1> QED BY <1>9, <1>10, <1>11, IInvByExecNext

(* The resume handler and the steps that touch no execution.               *)
LEMMA AskStep ==
  ASSUME IInv, \/ \E o \in Exec : continueClicked(o)
               \/ requestEnterpriseRunResume \/ tick
               \/ \E a \in Agent : resetTranscript(a)
  PROVE  IInv'
<1>1. /\ TypeOK /\ OneMarkerPerLane /\ AskOK
      /\ \A f \in Exec : ExecOK(turn[f], row[f], claims[f], proc)
  BY IInvByExec
<1>2. ASSUME NEW o \in Exec, continueClicked(o) PROVE IInv'
  <2>1. /\ row[o].status # "none"
        /\ ask' = [exec |-> o, active |-> session[row[o].agent], armedAt |-> clock]
        /\ UNCHANGED <<clock, proc, session, turn, row, claims>>
    BY <1>2 DEF continueClicked, observed
  <2>2. row[o].agent \in Agent
    BY <1>1, <2>1 DEF ExecOK
  <2>3. session[row[o].agent] \in Transcript /\ clock \in Nat /\ clock # 0
    BY <1>1, <2>2 DEF TypeOK
  <2>4. TypeOK' /\ OneMarkerPerLane' /\ AskOK'
    BY <1>1, <2>1, <2>3 DEF TypeOK, OneMarkerPerLane, AskOK
  <2> QED BY <1>1, <2>1, <2>4, IInvByExecNext
<1>3. CASE tick
  <2>1. clock' = clock + 1 /\ UNCHANGED <<proc, session, turn, row, ask, claims>>
    BY <1>3 DEF tick, observed
  <2>2. clock' \in Nat \ {0}
    BY <1>1, <2>1 DEF TypeOK
  <2>3. TypeOK' /\ OneMarkerPerLane' /\ AskOK'
    BY <1>1, <2>1, <2>2 DEF TypeOK, OneMarkerPerLane, AskOK
  <2> QED BY <1>1, <2>1, <2>3, IInvByExecNext
<1>4. ASSUME NEW a \in Agent, resetTranscript(a) PROVE IInv'
  <2>1. /\ session[a][2] < MaxSession /\ session' = [session EXCEPT ![a] = Rotated(a)]
        /\ UNCHANGED <<clock, proc, turn, row, ask, claims>>
    BY <1>4 DEF resetTranscript, observed
  <2>2. session[a] \in Transcript
    BY <1>1 DEF TypeOK
  <2>3. Rotated(a) \in Transcript /\ Rotated(a)[1] = a
    BY <2>1, <2>2, BoundAssumption DEF Rotated, Transcript
  <2>4. session' \in [Agent -> Transcript] /\ \A b \in Agent : session'[b][1] = b
    BY <1>1, <2>1, <2>3 DEF TypeOK
  <2>5. TypeOK' /\ OneMarkerPerLane' /\ AskOK'
    BY <1>1, <2>1, <2>4 DEF TypeOK, OneMarkerPerLane, AskOK
  <2> QED BY <1>1, <2>1, <2>5, IInvByExecNext
<1>5. CASE requestEnterpriseRunResume
  <2> DEFINE o == ask.exec
             at == ask.armedAt
  <2>1. /\ o # NoExec /\ ask' = NoAsk
        /\ UNCHANGED <<clock, proc, session, turn>>
        /\ \/ /\ resumeAccepted(o, ask.active) /\ row' = armed(o, at)
              /\ claims' = [claims EXCEPT ![o] = 0]
           \/ UNCHANGED <<row, claims>>
    BY <1>5 DEF requestEnterpriseRunResume
  <2>2. /\ o \in Exec /\ at \in Nat /\ at # 0 /\ row[o].status # "none" /\ row \in [Exec -> RowType]
    BY <1>1, <2>1 DEF TypeOK, AskOK
  <2>3. NoAsk \in [exec : Exec \cup {NoExec}, active : Transcript \cup {<< >>}, armedAt : Nat]
        /\ NoAsk.exec = NoExec
    BY DEF NoAsk
  <2>4. AskOK'
    BY <2>1, <2>3 DEF AskOK
  <2>5. CASE UNCHANGED <<row, claims>>
    <3>1. TypeOK' /\ OneMarkerPerLane'
      BY <1>1, <2>1, <2>3, <2>5 DEF TypeOK, OneMarkerPerLane
    <3> QED BY <1>1, <2>1, <2>4, <2>5, <3>1, IInvByExecNext
  <2>6. CASE /\ resumeAccepted(o, ask.active) /\ row' = armed(o, at)
             /\ claims' = [claims EXCEPT ![o] = 0]
    <3>1. row[o].status # "running"
      <4>1. enterpriseRunResumeRefusal(row[o]) = "none"
        BY <2>6 DEF resumeAccepted
      <4> QED BY <4>1 DEF enterpriseRunResumeRefusal
    <3>2. row[o].status \in Final
      <4>1. row[o] \in RowType
        BY <2>2
      <4>2. row[o].status \in {"none", "running"} \cup Final
        BY <4>1 DEF RowType
      <4> QED BY <2>2, <3>1, <4>2
    <3> HIDE DEF o, at
    <3>3. ASSUME NEW e \in Exec
          PROVE  /\ row'[e] \in RowType
                 /\ row'[e].status = row[e].status /\ row'[e].ended = row[e].ended
                 /\ row'[e].agent = row[e].agent /\ row'[e].proc = row[e].proc
                 /\ row'[e].start = row[e].start
                 /\ e = o => row'[e].marker = at
                 /\ e # o => /\ row'[e].marker # 0 => /\ row'[e].marker = row[e].marker
                                                      /\ row[e].agent # row[o].agent
      <4>0. row[e] \in RowType
        BY <2>2
      <4>1. row'[e] = IF e = o THEN [row[e] EXCEPT !.marker = at]
                      ELSE IF row[e].marker # 0 /\ row[e].agent = row[o].agent
                      THEN [row[e] EXCEPT !.marker = 0] ELSE row[e]
        BY <2>6 DEF armed
      <4>2. CASE e = o
        <5>1. row'[e] = [row[e] EXCEPT !.marker = at]
          BY <4>1, <4>2
        <5> QED BY <2>2, <4>0, <4>2, <5>1, MarkedRow
      <4>3. CASE e # o /\ row[e].marker # 0 /\ row[e].agent = row[o].agent
        <5>1. row'[e] = [row[e] EXCEPT !.marker = 0]
          BY <4>1, <4>3
        <5> QED BY <4>0, <4>3, <5>1, MarkedRow
      <4>4. CASE e # o /\ ~(row[e].marker # 0 /\ row[e].agent = row[o].agent)
        BY <4>0, <4>1, <4>4
      <4> QED BY <4>2, <4>3, <4>4
    <3>4. \A e \in Exec : claims'[e] = IF e = o THEN 0 ELSE claims[e]
      BY <1>1, <2>6 DEF TypeOK
    <3>5. row' \in [Exec -> RowType] /\ claims' \in [Exec -> Nat]
      <4>1. row' = [e \in Exec |-> row'[e]]
        BY <2>6 DEF armed
      <4>2. claims' \in [Exec -> Nat]
        BY <1>1, <2>6 DEF TypeOK
      <4> QED BY <3>3, <4>1, <4>2
    <3>6. TypeOK'
      BY <1>1, <2>1, <2>3, <3>5 DEF TypeOK
    <3>7. OneMarkerPerLane'
      BY <1>1, <3>3 DEF OneMarkerPerLane
    <3>8. ASSUME NEW e \in Exec PROVE ExecOK(turn'[e], row'[e], claims'[e], proc')
      <4>1. ExecOK(turn[e], row[e], claims[e], proc)
        BY <1>1
      <4>2. claims'[e] <= 1 /\ (row'[e].marker # 0 => claims'[e] = 0)
        BY <3>3, <3>4, <4>1 DEF ExecOK
      <4>3. row'[e].marker # 0 => row'[e].status \in Final
        BY <3>2, <3>3, <4>1 DEF ExecOK
      <4>4. turn'[e] = turn[e] /\ proc' = proc
        BY <2>1
      <4> QED BY <3>3, <4>1, <4>2, <4>3, <4>4 DEF ExecOK
    <3> QED BY <2>4, <3>6, <3>7, <3>8, IInvByExecNext
  <2> QED BY <2>1, <2>5, <2>6
<1> QED BY <1>2, <1>3, <1>4, <1>5

(* Every step of every process preserves the invariant.                    *)
LEMMA StepIInv ==
  ASSUME IInv, [Next]_vars
  PROVE  IInv'
<1>1. CASE UNCHANGED vars
  BY <1>1 DEF vars, IInv, TypeOK, OneMarkerPerLane, VerdictStands, ContinuedOnce, ArmedIsOver,
     StageBoundsRow, OwnerIsAlive, PendingIsUnclaimed
<1>2. ASSUME NEW e \in Exec, \E o \in Exec : takeEnterpriseRunResume(e, o) PROVE IInv'
  BY <1>2, TakeStep
<1> QED
  BY <1>1, <1>2, TurnStep, CompactStep, ProcessStep, SweepStep, AskStep DEF Next

(* The strengthened invariant of the trace store holds of every behaviour  *)
(* of the gateway and the local processes, whatever crashes and fails.     *)
THEOREM TraceInvariant == Spec => []IInv
<1> QED BY InitIInv, StepIInv, PTL DEF Spec

(* endEnterpriseRun's two writes, abortOrphanedEnterpriseRuns and the      *)
(* crashes between them leave one terminal event at most, and a row that   *)
(* agrees with it.                                                         *)
THEOREM TraceVerdictStands == Spec => []VerdictStands
<1>1. IInv => VerdictStands
  BY DEF IInv
<1> QED BY <1>1, TraceInvariant, PTL

(* abortOrphanedEnterpriseRuns never closes the row of an execution that a *)
(* live process is running.                                                *)
THEOREM TraceLiveRowIsOpen == Spec => []LiveRowIsOpen
<1>1. IInv => LiveRowIsOpen
  BY DEF IInv, StageBoundsRow, LiveRowIsOpen
<1> QED BY <1>1, TraceInvariant, PTL

(* requestEnterpriseRunResume and takeEnterpriseRunResume keep at most one *)
(* pending continuation in an agent's lane.                                *)
THEOREM TraceOneMarkerPerLane == Spec => []OneMarkerPerLane
<1>1. IInv => OneMarkerPerLane
  BY DEF IInv
<1> QED BY <1>1, TraceInvariant, PTL

(* takeEnterpriseRunResume consumes a click once, whichever processes      *)
(* start turns.                                                            *)
THEOREM TraceContinuedOnce == Spec => []ContinuedOnce
<1>1. IInv => ContinuedOnce
  BY DEF IInv
<1> QED BY <1>1, TraceInvariant, PTL

-----------------------------------------------------------------------------
(* What each action does to the fields the continuation is about.  A step  *)
(* of e leaves the other executions alone.                                 *)
Others(e) == \A f \in Exec : f # e => turn'[f] = turn[f] /\ row'[f] = row[f]

(* The fields of a row that logging, closing and recovering it leave.      *)
SameLane(r, q) ==
  /\ r.agent = q.agent /\ r.session = q.session /\ r.route = q.route
  /\ (r.status = "none" <=> q.status = "none")

LEMMA ArrivesFrame ==
  ASSUME TypeOK, NEW e \in Exec, NEW p \in Proc, NEW a \in Agent, turnArrives(e, p, a)
  PROVE  /\ Others(e) /\ row' = row /\ UNCHANGED <<clock, session, ask, seen, chain>>
         /\ turn[e].stage = "none" /\ turn'[e].stage = "planning"
         /\ turn'[e].session = session[a] /\ turn'[e].startedAt = clock
         /\ turn'[e].clicked = ArmedOrAsked /\ turn'[e].from = NoExec /\ turn'[e].cursor = 0
<1> DEFINE t == [NoTurn EXCEPT !.stage = "planning", !.proc = p, !.start = proc[p].start,
                   !.session = session[a], !.startedAt = clock, !.clicked = ArmedOrAsked]
<1>1. turn' = [turn EXCEPT ![e] = t] /\ turn[e].stage = "none" /\ row' = row
      /\ UNCHANGED <<clock, session, ask, seen, chain>>
  BY DEF turnArrives, observed
<1>2. /\ t.stage = "planning" /\ t.session = session[a] /\ t.startedAt = clock
      /\ t.clicked = ArmedOrAsked /\ t.from = NoExec /\ t.cursor = 0
  BY DEF NoTurn
<1> HIDE DEF t
<1>3. turn'[e] = t /\ \A f \in Exec : f # e => turn'[f] = turn[f]
  BY <1>1 DEF TypeOK
<1> QED BY <1>1, <1>2, <1>3 DEF Others

LEMMA DroppedFrame ==
  ASSUME TypeOK, NEW e \in Exec, turnDropped(e)
  PROVE  /\ Others(e) /\ row' = row /\ UNCHANGED <<clock, session, ask, seen, chain>>
         /\ turn[e].stage = "planning" /\ turn'[e].stage = "none"
         /\ turn'[e].from = NoExec /\ turn'[e].cursor = 0
BY DEF turnDropped, observed, TypeOK, Others, NoTurn

LEMMA StartFrame ==
  ASSUME TypeOK, NEW e \in Exec, NEW rt \in Route, NEW at \in 1..clock,
         persistEnterpriseRunStart(e, rt, at)
  PROVE  /\ Others(e) /\ UNCHANGED <<clock, session, ask, seen>>
         /\ chain' = [chain EXCEPT ![e] = NewChain({rt})]
         /\ turn[e].stage = "planning" /\ turn'[e].stage = "inserted" /\ turn'[e].route = rt
         /\ turn'[e].session = turn[e].session /\ turn'[e].startedAt = turn[e].startedAt
         /\ turn'[e].clicked = turn[e].clicked /\ turn'[e].from = turn[e].from
         /\ turn'[e].cursor = turn[e].cursor
         /\ row'[e].marker = row[e].marker /\ row'[e].completed = row[e].completed
         /\ \/ row'[e] = row[e]
            \/ /\ row'[e].status = "running" /\ row'[e].agent = AgentOf(e)
               /\ row'[e].session = turn[e].session /\ row'[e].route = rt
<1> DEFINE t == [turn[e] EXCEPT !.stage = "inserted", !.route = rt]
           w == [row[e] EXCEPT !.status = "running", !.agent = AgentOf(e), !.session = turn[e].session,
                    !.proc = turn[e].proc, !.start = turn[e].start, !.route = rt,
                    !.createdAt = at]
<1>1. /\ turn' = [turn EXCEPT ![e] = t] /\ turn[e].stage = "planning"
      /\ Persist("start", e, w) /\ UNCHANGED <<clock, session, ask, seen>>
      /\ chain' = [chain EXCEPT ![e] = NewChain({rt})]
  BY DEF persistEnterpriseRunStart
<1>2. PICK r \in {w, row[e]} : row' = [row EXCEPT ![e] = r]
  BY <1>1, PersistEffect
<1>3. turn[e] \in TurnType /\ row[e] \in RowType
  BY DEF TypeOK
<1>4. /\ t.stage = "inserted" /\ t.route = rt
      /\ t.session = turn[e].session /\ t.startedAt = turn[e].startedAt
      /\ t.clicked = turn[e].clicked /\ t.from = turn[e].from /\ t.cursor = turn[e].cursor
  BY <1>3 DEF TurnType
<1>5. /\ w.marker = row[e].marker /\ w.completed = row[e].completed
      /\ w.status = "running" /\ w.agent = AgentOf(e)
      /\ w.session = turn[e].session /\ w.route = rt
  BY <1>3 DEF RowType
<1> HIDE DEF t, w
<1>6. turn'[e] = t /\ row'[e] = r /\ Others(e)
  BY <1>1, <1>2 DEF TypeOK, Others
<1> QED BY <1>1, <1>2, <1>4, <1>5, <1>6

LEMMA TakeFrame ==
  ASSUME TypeOK, NEW e \in Exec, NEW o \in Exec, takeEnterpriseRunResume(e, o)
  PROVE  LET c == row[o].completed
             k == firstUnfinishedStep(turn[e].route, c)
         IN  /\ takeable(e, o) /\ turn[e].stage = "inserted"
             /\ UNCHANGED <<clock, session, ask>>
             /\ \A f \in Exec : f # e => turn'[f] = turn[f]
             /\ \A f \in Exec : /\ SameLane(row'[f], row[f])
                                /\ row'[f].completed = row[f].completed
                                /\ row'[f].status = row[f].status
                                /\ row'[f].marker \in {row[f].marker, 0}
             /\ turn'[e].route = turn[e].route /\ turn'[e].session = turn[e].session
             /\ k = 0 => /\ turn'[e].stage = "walking" /\ turn'[e].cursor = 1
                         /\ turn'[e].from = turn[e].from /\ UNCHANGED <<seen, chain>>
             /\ k # 0 => /\ turn'[e].stage = "taken" /\ turn'[e].cursor = k
                         /\ turn'[e].from = o /\ turn'[e].carried = c
                         /\ turn'[e].clicked = turn[e].clicked
                         /\ chain' = [chain EXCEPT ![e] = Continued(chain[o], turn[e].route)]
                         /\ seen' = [s \in Transcript |->
                              IF s = turn[e].session /\ o \in seen[s] THEN seen[s] \cup {e}
                              ELSE seen[s]]
<1> DEFINE c == row[o].completed
           k == firstUnfinishedStep(turn[e].route, c)
           t0 == Opened(turn[e], 1)
           t1 == [turn[e] EXCEPT !.stage = "taken", !.cursor = k, !.from = o, !.carried = c]
           r == consumed(row[o])
<1>1. turn[e] \in TurnType /\ row[o] \in RowType
  BY DEF TypeOK
<1>2. /\ turn[e].stage = "inserted" /\ takeable(e, o)
      /\ UNCHANGED <<clock, session, ask>> /\ row' = [row EXCEPT ![o] = r]
      /\ k = 0 => turn' = [turn EXCEPT ![e] = t0] /\ UNCHANGED <<seen, chain>>
      /\ k # 0 => /\ turn' = [turn EXCEPT ![e] = t1]
                  /\ chain' = [chain EXCEPT ![e] = Continued(chain[o], turn[e].route)]
                  /\ seen' = [s \in Transcript |->
                       IF s = turn[e].session /\ o \in seen[s] THEN seen[s] \cup {e}
                       ELSE seen[s]]
  BY DEF takeEnterpriseRunResume, newestTakeable
<1>3. /\ t0.stage = "walking" /\ t0.cursor = 1 /\ t0.route = turn[e].route
      /\ t0.session = turn[e].session /\ t0.from = turn[e].from
  BY <1>1 DEF Opened, TurnType
<1>4. /\ t1.stage = "taken" /\ t1.cursor = k /\ t1.from = o /\ t1.carried = c
      /\ t1.route = turn[e].route /\ t1.session = turn[e].session
      /\ t1.clicked = turn[e].clicked
  BY <1>1 DEF TurnType
<1>5. /\ SameLane(r, row[o]) /\ r.completed = row[o].completed
      /\ r.status = row[o].status /\ r.marker = 0
  BY <1>1 DEF consumed, RowType, SameLane
<1>6. \A f \in Exec : /\ SameLane(row'[f], row[f]) /\ row'[f].completed = row[f].completed
                      /\ row'[f].status = row[f].status /\ row'[f].marker \in {row[f].marker, 0}
  <2> HIDE DEF r
  <2>1. \A f \in Exec : row'[f] = IF f = o THEN r ELSE row[f]
    BY <1>2 DEF TypeOK
  <2> QED BY <1>5, <2>1 DEF SameLane
<1> HIDE DEF t0, t1, r, k
<1>7. CASE k = 0
  <2>1. turn'[e] = t0 /\ \A f \in Exec : f # e => turn'[f] = turn[f]
    BY <1>2, <1>7 DEF TypeOK
  <2> QED BY <1>2, <1>3, <1>6, <1>7, <2>1 DEF k
<1>8. CASE k # 0
  <2>1. turn'[e] = t1 /\ \A f \in Exec : f # e => turn'[f] = turn[f]
    BY <1>2, <1>8 DEF TypeOK
  <2> QED BY <1>2, <1>4, <1>6, <1>8, <2>1 DEF k
<1> QED BY <1>7, <1>8

(* The walk opens, fresh or after the take; only the latter logs.          *)
LEMMA OpenFrame ==
  ASSUME TypeOK, NEW e \in Exec, opensFresh(e) \/ runResumedTraced(e)
  PROVE  /\ Others(e) /\ UNCHANGED <<clock, session, ask, seen, chain>>
         /\ turn'[e].stage = "walking" /\ turn'[e].route = turn[e].route
         /\ turn'[e].session = turn[e].session /\ turn'[e].from = turn[e].from
         /\ SameLane(row'[e], row[e]) /\ row'[e].marker = row[e].marker
         /\ row'[e].status = row[e].status
         /\ \/ turn[e].stage = "inserted" /\ turn'[e].cursor = 1 /\ row'[e] = row[e]
            \/ /\ turn[e].stage = "taken" /\ turn'[e].cursor = turn[e].cursor
               /\ \/ row'[e].completed = row[e].completed \cup turn[e].carried
                  \/ "resumed" \in Lossy /\ row'[e] = row[e]
<1>1. turn[e] \in TurnType /\ row[e] \in RowType
  BY DEF TypeOK
<1>2. CASE opensFresh(e)
  <2> DEFINE t == Opened(turn[e], 1)
  <2>1. /\ turn' = [turn EXCEPT ![e] = t] /\ turn[e].stage = "inserted"
        /\ row' = row /\ UNCHANGED <<clock, session, ask, seen, chain>>
    BY <1>2 DEF opensFresh, observed
  <2>2. /\ t.stage = "walking" /\ t.cursor = 1 /\ t.route = turn[e].route
        /\ t.session = turn[e].session /\ t.from = turn[e].from
    BY <1>1 DEF Opened, TurnType
  <2> HIDE DEF t
  <2>3. turn'[e] = t /\ Others(e)
    BY <2>1 DEF TypeOK, Others
  <2> QED BY <2>1, <2>2, <2>3 DEF SameLane
<1>3. CASE runResumedTraced(e)
  <2> DEFINE t == Opened(turn[e], turn[e].cursor)
             ev == [kind |-> "run.resumed", steps |-> turn[e].carried]
             w == Logged(e, ev)
  <2>1. /\ turn' = [turn EXCEPT ![e] = t] /\ turn[e].stage = "taken"
        /\ Persist("resumed", e, w)
        /\ UNCHANGED <<clock, session, ask, seen, chain>>
    BY <1>3 DEF runResumedTraced, observed
  <2>2. /\ t.stage = "walking" /\ t.cursor = turn[e].cursor /\ t.route = turn[e].route
        /\ t.session = turn[e].session /\ t.from = turn[e].from
    BY <1>1 DEF Opened, TurnType
  <2>3. ReplayEvent(row[e].completed, ev) = row[e].completed \cup turn[e].carried
    BY DEF ReplayEvent
  <2>4. w = [row[e] EXCEPT !.completed = row[e].completed \cup turn[e].carried]
    BY <2>3 DEF Logged
  <2>5. /\ w.completed = row[e].completed \cup turn[e].carried /\ w.status = row[e].status
        /\ SameLane(w, row[e]) /\ w.marker = row[e].marker
    BY <1>1, <2>4 DEF RowType, SameLane
  <2> HIDE DEF t, w
  <2>6. turn'[e] = t /\ Others(e) /\ row'[e] \in {w, row[e]}
        /\ (row'[e] = w \/ "resumed" \in Lossy)
    BY <2>1 DEF TypeOK, Others, Persist
  <2> QED BY <2>1, <2>2, <2>5, <2>6 DEF SameLane
<1> QED BY <1>2, <1>3

LEMMA CompleteFrame ==
  ASSUME TypeOK, NEW e \in Exec, completeEnterpriseStep(e)
  PROVE  LET done == {turn[e].route[turn[e].cursor]}
         IN  /\ Others(e) /\ UNCHANGED <<clock, session, ask>>
             /\ turn[e].stage = "walking" /\ turn'[e].stage = "walking"
             /\ turn[e].cursor <= Len(turn[e].route) /\ turn'[e].cursor = turn[e].cursor + 1
             /\ turn'[e].route = turn[e].route /\ turn'[e].from = turn[e].from
             /\ turn'[e].session = turn[e].session
             /\ SameLane(row'[e], row[e]) /\ row'[e].marker = row[e].marker
             /\ row'[e].status = row[e].status
             /\ row'[e].completed \in {row[e].completed \cup done, row[e].completed}
             /\ chain' = [chain EXCEPT ![e] = Done(chain[e], done)]
             /\ seen' = [seen EXCEPT ![turn[e].session] = seen[turn[e].session] \cup {e}]
<1> DEFINE done == {turn[e].route[turn[e].cursor]}
           t == [turn[e] EXCEPT !.cursor = turn[e].cursor + 1]
           ev == [kind |-> "node.completed", steps |-> done]
           w == Logged(e, ev)
<1>1. turn[e] \in TurnType /\ row[e] \in RowType
  BY DEF TypeOK
<1>2. /\ turn' = [turn EXCEPT ![e] = t] /\ Persist("completed", e, w)
      /\ turn[e].stage = "walking" /\ turn[e].cursor <= Len(turn[e].route)
      /\ chain' = [chain EXCEPT ![e] = Done(chain[e], done)]
      /\ seen' = [seen EXCEPT ![turn[e].session] = seen[turn[e].session] \cup {e}]
      /\ UNCHANGED <<clock, session, ask>>
  BY DEF completeEnterpriseStep
<1>3. /\ t.stage = turn[e].stage /\ t.cursor = turn[e].cursor + 1 /\ t.route = turn[e].route
      /\ t.session = turn[e].session /\ t.from = turn[e].from
  BY <1>1 DEF TurnType
<1> HIDE DEF done
<1>4. ReplayEvent(row[e].completed, ev) = row[e].completed \cup done
  BY DEF ReplayEvent
<1>5. w = [row[e] EXCEPT !.completed = row[e].completed \cup done]
  BY <1>4 DEF Logged
<1>6. /\ w.completed = row[e].completed \cup done /\ w.status = row[e].status
      /\ SameLane(w, row[e]) /\ w.marker = row[e].marker
  BY <1>1, <1>5 DEF RowType, SameLane
<1> HIDE DEF t, w
<1>7. turn'[e] = t /\ row'[e] \in {w, row[e]} /\ Others(e)
  BY <1>2 DEF TypeOK, Others, Persist
<1> QED BY <1>2, <1>3, <1>6, <1>7 DEF done, SameLane

LEMMA ReopenFrame ==
  ASSUME TypeOK, NEW e \in Exec, NEW i \in 1..Len(turn[e].route), reopenEnterpriseStep(e, i)
  PROVE  /\ Others(e) /\ UNCHANGED <<clock, session, ask, seen>>
         /\ turn[e].stage = "walking" /\ turn'[e].stage = "walking"
         /\ i < turn[e].cursor /\ turn'[e].cursor = i
         /\ turn'[e].route = turn[e].route /\ turn'[e].from = turn[e].from
         /\ turn'[e].session = turn[e].session
         /\ SameLane(row'[e], row[e]) /\ row'[e].marker = row[e].marker
         /\ row'[e].status = row[e].status
         /\ \E written \in BOOLEAN :
              /\ row'[e].completed = IF written
                   THEN row[e].completed \ Invalidated(turn[e].route, i) ELSE row[e].completed
              /\ chain' = [chain EXCEPT ![e] =
                   Corrected(chain[e], turn[e].route, turn[e].route[i], written)]
<1> DEFINE taken == Invalidated(turn[e].route, i)
           t == [turn[e] EXCEPT !.cursor = i, !.reopens = turn[e].reopens + 1]
           ev == [kind |-> "node.reopened", steps |-> taken]
           w == Logged(e, ev)
<1>1. turn[e] \in TurnType /\ row[e] \in RowType
  BY DEF TypeOK
<1>2. /\ turn' = [turn EXCEPT ![e] = t]
      /\ turn[e].stage = "walking" /\ i < turn[e].cursor
      /\ UNCHANGED <<clock, session, ask, seen>>
  BY DEF reopenEnterpriseStep
<1>3. PICK written \in BOOLEAN :
        /\ row' = IF written THEN [row EXCEPT ![e] = w] ELSE row
        /\ chain' = [chain EXCEPT ![e] =
             Corrected(chain[e], turn[e].route, turn[e].route[i], written)]
  BY DEF reopenEnterpriseStep, Written
<1>4. /\ t.stage = turn[e].stage /\ t.cursor = i /\ t.route = turn[e].route
      /\ t.session = turn[e].session /\ t.from = turn[e].from
  BY <1>1 DEF TurnType
<1> HIDE DEF taken
<1>5. ReplayEvent(row[e].completed, ev) = row[e].completed \ taken
  BY DEF ReplayEvent
<1>6. w = [row[e] EXCEPT !.completed = row[e].completed \ taken]
  BY <1>5 DEF Logged
<1>7. /\ w.completed = row[e].completed \ taken /\ w.status = row[e].status
      /\ SameLane(w, row[e]) /\ w.marker = row[e].marker
  BY <1>1, <1>6 DEF RowType, SameLane
<1> HIDE DEF t, w
<1>8. turn'[e] = t /\ row'[e] = (IF written THEN w ELSE row[e]) /\ Others(e)
  BY <1>2, <1>3 DEF TypeOK, Others
<1>9. /\ SameLane(row'[e], row[e]) /\ row'[e].marker = row[e].marker
      /\ row'[e].status = row[e].status
      /\ row'[e].completed = IF written THEN row[e].completed \ taken ELSE row[e].completed
  BY <1>7, <1>8 DEF SameLane
<1> QED BY <1>2, <1>3, <1>4, <1>8, <1>9 DEF taken

LEMMA CompactFrame ==
  ASSUME TypeOK, NEW e \in Exec, compact(e)
  PROVE  LET a == AgentOf(e)
         IN  /\ Others(e) /\ UNCHANGED <<clock, ask, chain>>
             /\ turn[e].stage = "walking" /\ session[a] = turn[e].session
             /\ session[a][2] < MaxSession /\ session' = [session EXCEPT ![a] = Rotated(a)]
             /\ turn'[e].stage = "walking" /\ turn'[e].cursor = turn[e].cursor
             /\ turn'[e].route = turn[e].route /\ turn'[e].from = turn[e].from
             /\ turn'[e].session = Rotated(a)
             /\ row'[e].status = row[e].status /\ row'[e].completed = row[e].completed
             /\ row'[e].marker = row[e].marker /\ row'[e].agent = row[e].agent
             /\ row'[e].route = row[e].route
             /\ \/ row'[e].session = Rotated(a)
                \/ row[e].status = "none" /\ row'[e] = row[e]
                \/ "adopt" \in Lossy /\ row'[e] = row[e]
             /\ seen' = [seen EXCEPT ![Rotated(a)] = seen[session[a]]]
<1> DEFINE a == AgentOf(e)
           t == [turn[e] EXCEPT !.session = Rotated(a)]
           w == [row[e] EXCEPT !.session = Rotated(a)]
<1>1. turn[e] \in TurnType /\ row[e] \in RowType
  BY DEF TypeOK
<1>2. /\ turn' = [turn EXCEPT ![e] = t] /\ turn[e].stage = "walking"
      /\ session[a] = turn[e].session /\ session[a][2] < MaxSession
      /\ session' = [session EXCEPT ![a] = Rotated(a)]
      /\ seen' = [seen EXCEPT ![Rotated(a)] = seen[session[a]]]
      /\ Persist("adopt", e, IF row[e].status = "none" THEN row[e] ELSE w)
      /\ UNCHANGED <<clock, ask, chain>>
  BY DEF compact
<1>3. /\ t.stage = turn[e].stage /\ t.cursor = turn[e].cursor /\ t.route = turn[e].route
      /\ t.session = Rotated(a) /\ t.from = turn[e].from
  BY <1>1 DEF TurnType
<1>4. /\ w.status = row[e].status /\ w.completed = row[e].completed
      /\ w.marker = row[e].marker /\ w.agent = row[e].agent
      /\ w.route = row[e].route /\ w.session = Rotated(a)
  BY <1>1 DEF RowType
<1> HIDE DEF t, w, a
<1>5. turn'[e] = t /\ Others(e)
      /\ (\/ row'[e] = w
          \/ row[e].status = "none" /\ row'[e] = row[e]
          \/ "adopt" \in Lossy /\ row'[e] = row[e])
  BY <1>2 DEF TypeOK, Others, Persist
<1> QED BY <1>2, <1>3, <1>4, <1>5 DEF a

(* The two transactions of an end.                                         *)
LEMMA CloseFrame ==
  ASSUME IInv, NEW e \in Exec,
         (\E st \in Outcome \cup {"blocked"} : appendRunEnded(e, st)) \/ finalizeEnterpriseRun(e)
  PROVE  /\ Others(e) /\ UNCHANGED <<clock, session, ask, seen, chain>>
         /\ \/ turn'[e].stage = "closing" /\ turn[e].stage \in {"inserted", "walking"}
            \/ turn'[e].stage = "gone" /\ turn[e].stage = "closing" /\ turn'[e].from = NoExec
         /\ turn'[e].from \in {turn[e].from, NoExec}
         /\ turn'[e].stage = "closing" => turn'[e].session = turn[e].session
         /\ SameLane(row'[e], row[e]) /\ row'[e].marker = row[e].marker
         /\ row'[e].completed = row[e].completed
<1>1. TypeOK /\ turn[e] \in TurnType /\ row[e] \in RowType /\ StageBoundsRow
  BY DEF IInv, TypeOK
<1>2. ASSUME NEW st \in Outcome \cup {"blocked"}, appendRunEnded(e, st)
      PROVE  /\ Others(e) /\ UNCHANGED <<clock, session, ask, seen, chain>>
             /\ turn'[e].stage = "closing" /\ turn[e].stage \in {"inserted", "walking"}
             /\ turn'[e].from = turn[e].from /\ turn'[e].session = turn[e].session
             /\ SameLane(row'[e], row[e]) /\ row'[e].marker = row[e].marker
             /\ row'[e].completed = row[e].completed
  <2> DEFINE t == [turn[e] EXCEPT !.stage = "closing", !.verdict = st]
             v == Append(row[e].ended, st)
             w == [row[e] EXCEPT !.ended = v]
  <2>1. /\ turn' = [turn EXCEPT ![e] = t] /\ turn[e].stage \in {"inserted", "walking"}
        /\ Persist("ended", e, w) /\ UNCHANGED <<clock, session, ask, seen, chain>>
    BY <1>2 DEF appendRunEnded, observed
  <2>2. t.stage = "closing" /\ t.from = turn[e].from /\ t.session = turn[e].session
    BY <1>1 DEF TurnType
  <2> HIDE DEF v
  <2>3. /\ SameLane(w, row[e]) /\ w.marker = row[e].marker /\ w.completed = row[e].completed
    BY <1>1 DEF RowType, SameLane
  <2> HIDE DEF t, w
  <2>4. turn'[e] = t /\ Others(e) /\ row'[e] \in {w, row[e]}
    BY <1>1, <2>1 DEF TypeOK, Others, Persist
  <2> QED BY <2>1, <2>2, <2>3, <2>4 DEF SameLane
<1>3. CASE finalizeEnterpriseRun(e)
  <2> DEFINE v == turn[e].verdict
             w == [row[e] EXCEPT !.status = v]
  <2>1. /\ turn' = [turn EXCEPT ![e] = Gone] /\ turn[e].stage = "closing"
        /\ Persist("finalize", e, IF row[e].status = "none" THEN row[e] ELSE w)
        /\ UNCHANGED <<clock, session, ask, seen, chain>>
    BY <1>3 DEF finalizeEnterpriseRun, observed
  <2>2. v \in Final /\ v # "none"
    BY <1>1, <2>1, BlankTypes DEF StageBoundsRow
  <2> HIDE DEF v
  <2>3. /\ w.status = v /\ w.marker = row[e].marker /\ w.completed = row[e].completed
        /\ w.agent = row[e].agent /\ w.session = row[e].session /\ w.route = row[e].route
    BY <1>1 DEF RowType
  <2> HIDE DEF w
  <2>4. /\ turn'[e] = Gone /\ Others(e)
        /\ row'[e] = row[e] \/ (row'[e] = w /\ row[e].status # "none")
    BY <1>1, <2>1 DEF TypeOK, Others, Persist
  <2>5. Gone.stage = "gone" /\ Gone.from = NoExec
    BY DEF Gone, NoTurn
  <2>6. SameLane(row'[e], row[e]) /\ row'[e].marker = row[e].marker
        /\ row'[e].completed = row[e].completed
    BY <2>2, <2>3, <2>4 DEF SameLane
  <2> QED BY <2>1, <2>4, <2>5, <2>6
<1> QED BY <1>2, <1>3

(* A crash forgets turns and at most the handler's question.               *)
LEMMA CrashFrame ==
  ASSUME TypeOK, NEW p \in Proc, crash(p)
  PROVE  /\ row' = row /\ UNCHANGED <<clock, session, seen, chain>> /\ ask' \in {ask, NoAsk}
         /\ \A e \in Exec : \/ turn'[e] = turn[e]
                            \/ turn'[e] = NoTurn /\ turn[e].stage = "planning"
                            \/ turn'[e] = Gone
<1>1. /\ turn' = [e \in Exec |-> IF turn[e].proc = p /\ turn[e].stage \in InFlight
                                 THEN IF turn[e].stage = "planning" THEN NoTurn ELSE Gone
                                 ELSE turn[e]]
      /\ row' = row /\ UNCHANGED <<clock, session, seen, chain>>
      /\ ask' = IF p = Gateway THEN NoAsk ELSE ask
  BY DEF crash, observed
<1> QED BY <1>1

(* Recovery closes rows; it moves none and forgets no completed step.      *)
LEMMA SweepFrame ==
  ASSUME IInv, gatewayStarts
  PROVE  /\ turn' = turn /\ UNCHANGED <<clock, session, ask, seen, chain>>
         /\ \A e \in Exec : /\ SameLane(row'[e], row[e]) /\ row'[e].marker = row[e].marker
                            /\ row'[e].completed = row[e].completed
<1>1. /\ turn' = turn /\ UNCHANGED <<clock, session, ask, seen, chain>>
      /\ row' \in {abortOrphanedEnterpriseRuns(Started(Gateway)), row}
  BY DEF gatewayStarts, observed
<1>2. ASSUME NEW e \in Exec
      PROVE  /\ SameLane(row'[e], row[e]) /\ row'[e].marker = row[e].marker
             /\ row'[e].completed = row[e].completed
  <2>1. row[e] \in RowType /\ Len(row[e].ended) <= 1
    BY DEF IInv, TypeOK, VerdictStands
  <2>2. \/ row'[e] = row[e]
        \/ row'[e] = recovered(row[e]) /\ row[e].status = "running"
    BY <1>1 DEF abortOrphanedEnterpriseRuns
  <2>3. CASE row'[e] = recovered(row[e]) /\ row[e].status = "running"
    <3>1. row'[e].status \in Final /\ row'[e].marker = row[e].marker
          /\ row'[e].agent = row[e].agent
      BY <2>1, <2>3, RecoveredRow
    <3>2. row'[e].session = row[e].session /\ row'[e].route = row[e].route
          /\ row'[e].completed = row[e].completed
      <4> DEFINE r == row[e]
                 v == r.ended[Len(r.ended)]
      <4>1. CASE r.ended = << >>
        BY <2>1, <2>3, <4>1 DEF recovered, RowType
      <4>2. CASE r.ended # << >>
        <5>1. row'[e] = [r EXCEPT !.status = v]
          BY <2>3, <4>2 DEF recovered
        <5> HIDE DEF v
        <5> QED BY <2>1, <5>1 DEF RowType
      <4> QED BY <4>1, <4>2
    <3> QED BY <2>3, <3>1, <3>2, BlankTypes DEF SameLane
  <2> QED BY <2>2, <2>3 DEF SameLane
<1> QED BY <1>1, <1>2

(* Arming marks the row asked about with the time of the click, and no     *)
(* other row; it only does so to a row that enterpriseRunResumeRefusal     *)
(* lets through.                                                           *)
LEMMA ArmFrame ==
  ASSUME IInv, requestEnterpriseRunResume
  PROVE  /\ turn' = turn /\ UNCHANGED <<clock, session, seen, chain>> /\ ask' = NoAsk
         /\ ask.exec \in Exec
         /\ \A e \in Exec : /\ SameLane(row'[e], row[e]) /\ row'[e].status = row[e].status
                            /\ row'[e].completed = row[e].completed
                            /\ \/ row'[e].marker \in {row[e].marker, 0}
                               \/ e = ask.exec /\ row'[e].marker = ask.armedAt
<1> DEFINE o == ask.exec
           at == ask.armedAt
<1>1. /\ o # NoExec /\ ask' = NoAsk /\ turn' = turn /\ UNCHANGED <<clock, session, seen, chain>>
      /\ row' = armed(o, at) \/ row' = row
  BY DEF requestEnterpriseRunResume
<1>2. TypeOK /\ o \in Exec
  BY <1>1 DEF IInv, TypeOK
<1> HIDE DEF o, at
<1>3. ASSUME NEW e \in Exec
      PROVE  /\ SameLane(row'[e], row[e]) /\ row'[e].status = row[e].status
             /\ row'[e].completed = row[e].completed
             /\ row'[e].marker \in {row[e].marker, 0} \/ (e = o /\ row'[e].marker = at)
  <2>1. row[e] \in RowType
    BY <1>2 DEF TypeOK
  <2>2. \/ row'[e] = row[e]
        \/ e = o /\ row'[e] = [row[e] EXCEPT !.marker = at]
        \/ row'[e] = [row[e] EXCEPT !.marker = 0]
    BY <1>1 DEF armed
  <2> QED BY <2>1, <2>2 DEF RowType, SameLane
<1> QED BY <1>1, <1>2, <1>3 DEF o, at

(* The operator's click, the clock, a reset and a local process starting.  *)
LEMMA QuietFrame ==
  ASSUME TypeOK,
         \/ \E o \in Exec : continueClicked(o)
         \/ \E a \in Agent : resetTranscript(a)
         \/ \E p \in Proc : localStarts(p)
         \/ tick \/ UNCHANGED vars
  PROVE  /\ turn' = turn /\ row' = row /\ UNCHANGED <<seen, chain>>
         /\ clock' >= clock
         /\ \/ session' = session
            \/ \E a \in Agent : session' = [session EXCEPT ![a] = Rotated(a)]
         /\ \/ ask' = ask
            \/ \E o \in Exec : ask' = [exec |-> o, active |-> session[row[o].agent],
                                       armedAt |-> clock]
BY DEF TypeOK, continueClicked, resetTranscript, localStarts, tick, vars, observed

-----------------------------------------------------------------------------
(* A begin goes on as it was, or ends.                                     *)
KeepsBegin(e) ==
  /\ turn'[e].stage \in {"planning", "inserted"} =>
       /\ turn[e].stage \in {"planning", "inserted"}
       /\ turn'[e].startedAt = turn[e].startedAt /\ turn'[e].clicked = turn[e].clicked
  /\ turn'[e].stage = "taken" =>
       /\ turn[e].stage = "taken"
       /\ turn'[e].from = turn[e].from /\ turn'[e].clicked = turn[e].clicked

LEMMA ClickKept ==
  ASSUME TypeOK, TypeOK', NextRequestOnly, clock' >= clock, ask' \in {ask, NoAsk},
         \A e \in Exec : KeepsBegin(e),
         \A o \in Exec : row'[o].marker \in {row[o].marker, 0}
  PROVE  NextRequestOnly'
<1>1. NoExec \notin Exec /\ NoAsk.exec = NoExec
  BY ExecAssumption DEF NoAsk
<1>2. \A e \in Exec : turn'[e].stage = "taken" => turn'[e].from \in turn'[e].clicked
  BY DEF NextRequestOnly, KeepsBegin
<1>3. ASSUME NEW e \in Exec, turn'[e].stage \in {"planning", "inserted"}
      PROVE  /\ turn'[e].startedAt <= clock'
             /\ \A o \in Exec :
                  \/ row'[o].marker # 0 /\ row'[o].marker < turn'[e].startedAt
                  \/ ask'.exec = o /\ ask'.armedAt < turn'[e].startedAt
                  => o \in turn'[e].clicked
  <2>1. /\ turn[e].stage \in {"planning", "inserted"}
        /\ turn'[e].startedAt = turn[e].startedAt /\ turn'[e].clicked = turn[e].clicked
    BY <1>3 DEF KeepsBegin
  <2>2. turn[e].startedAt \in Nat /\ clock \in Nat /\ clock' \in Nat
    BY DEF TypeOK, TurnType
  <2>3. turn'[e].startedAt <= clock'
    BY <2>1, <2>2 DEF NextRequestOnly, OlderClickIsKnown
  <2> QED BY <1>1, <2>1, <2>3 DEF NextRequestOnly, OlderClickIsKnown
<1> QED BY <1>2, <1>3 DEF NextRequestOnly, OlderClickIsKnown

LEMMA NextRequestStep ==
  ASSUME IInv, IInv', NextRequestOnly, [Next]_vars
  PROVE  NextRequestOnly'
<1>0. TypeOK /\ TypeOK' /\ clock \in Nat
  BY DEF IInv, TypeOK
<1>1. ASSUME NEW e \in Exec, Others(e), KeepsBegin(e), clock' = clock, ask' = ask,
             row'[e].marker = row[e].marker
      PROVE  NextRequestOnly'
  <2>1. \A f \in Exec : KeepsBegin(f) /\ row'[f].marker \in {row[f].marker, 0}
    BY <1>1 DEF Others, KeepsBegin
  <2> QED BY <1>0, <1>1, <2>1, ClickKept
(* A turn that arrives knows every click so far.                           *)
<1>2. ASSUME NEW e \in Exec, NEW p \in Proc, NEW a \in Agent, turnArrives(e, p, a)
      PROVE  NextRequestOnly'
  <2>1. /\ Others(e) /\ row' = row /\ clock' = clock /\ ask' = ask
        /\ turn'[e].stage = "planning" /\ turn'[e].startedAt = clock
        /\ turn'[e].clicked = ArmedOrAsked
    BY <1>0, <1>2, ArrivesFrame
  <2> QED BY <1>0, <2>1 DEF NextRequestOnly, OlderClickIsKnown, Others, ArmedOrAsked
<1>3. ASSUME NEW e \in Exec, NEW o \in Exec, takeEnterpriseRunResume(e, o)
      PROVE  NextRequestOnly'
  <2>1. /\ takeable(e, o) /\ turn[e].stage = "inserted" /\ clock' = clock /\ ask' = ask
        /\ \A f \in Exec : f # e => turn'[f] = turn[f]
        /\ \A f \in Exec : row'[f].marker \in {row[f].marker, 0}
        /\ \/ turn'[e].stage = "walking"
           \/ turn'[e].stage = "taken" /\ turn'[e].from = o /\ turn'[e].clicked = turn[e].clicked
    BY <1>0, <1>3, TakeFrame
  <2>2. o \in turn[e].clicked
    BY <2>1 DEF takeable, NextRequestOnly, OlderClickIsKnown
  <2> QED BY <2>1, <2>2 DEF NextRequestOnly, OlderClickIsKnown
(* A click is dated now, not before any begin under way.                   *)
<1>4. ASSUME \/ \E o \in Exec : continueClicked(o)
             \/ \E a \in Agent : resetTranscript(a)
             \/ \E p \in Proc : localStarts(p)
             \/ tick \/ UNCHANGED vars
      PROVE  NextRequestOnly'
  <2>1. /\ turn' = turn /\ row' = row /\ clock' >= clock
        /\ \/ ask' = ask
           \/ \E o \in Exec : ask' = [exec |-> o, active |-> session[row[o].agent],
                                      armedAt |-> clock]
    BY <1>0, <1>4, QuietFrame
  <2>2. CASE ask' = ask
    <3>1. \A f \in Exec : KeepsBegin(f) /\ row'[f].marker \in {row[f].marker, 0}
      BY <2>1 DEF KeepsBegin
    <3> QED BY <1>0, <2>1, <2>2, <3>1, ClickKept
  <2>3. CASE ask'.armedAt = clock
    <3>1. \A e \in Exec : turn[e].startedAt \in Nat
      BY <1>0 DEF TypeOK, TurnType
    <3>2. clock' \in Nat
      BY <1>0 DEF TypeOK
    <3> QED BY <1>0, <2>1, <2>3, <3>1, <3>2 DEF NextRequestOnly, OlderClickIsKnown
  <2> QED BY <2>1, <2>2, <2>3
<1>5. CASE requestEnterpriseRunResume
  <2>1. /\ turn' = turn /\ clock' = clock /\ ask' = NoAsk
        /\ \A e \in Exec : \/ row'[e].marker \in {row[e].marker, 0}
                           \/ e = ask.exec /\ row'[e].marker = ask.armedAt
    BY <1>5, ArmFrame
  <2>2. ask'.exec \notin Exec
    BY <2>1, ExecAssumption DEF NoAsk
  <2> QED BY <2>1, <2>2 DEF NextRequestOnly, OlderClickIsKnown
<1>6. ASSUME NEW p \in Proc, crash(p) PROVE NextRequestOnly'
  <2>1. /\ row' = row /\ clock' = clock /\ ask' \in {ask, NoAsk}
        /\ \A e \in Exec : \/ turn'[e] = turn[e]
                           \/ turn'[e] = NoTurn /\ turn[e].stage = "planning"
                           \/ turn'[e] = Gone
    BY <1>0, <1>6, CrashFrame
  <2>2. NoTurn.stage = "none" /\ Gone.stage = "gone"
    BY DEF NoTurn, Gone
  <2>3. \A f \in Exec : KeepsBegin(f) /\ row'[f].marker \in {row[f].marker, 0}
    BY <2>1, <2>2 DEF KeepsBegin
  <2> QED BY <1>0, <2>1, <2>3, ClickKept
<1>7. CASE gatewayStarts
  <2>1. \A f \in Exec : KeepsBegin(f) /\ row'[f].marker \in {row[f].marker, 0}
    BY <1>7, SweepFrame DEF KeepsBegin
  <2> QED BY <1>0, <1>7, <2>1, SweepFrame, ClickKept
<1>8. ASSUME NEW e \in Exec, turnDropped(e) PROVE NextRequestOnly'
  BY <1>0, <1>1, <1>8, DroppedFrame DEF KeepsBegin
<1>9. ASSUME NEW e \in Exec, NEW rt \in Route, NEW at \in 1..clock,
             persistEnterpriseRunStart(e, rt, at)
      PROVE  NextRequestOnly'
  BY <1>0, <1>1, <1>9, StartFrame DEF KeepsBegin
<1>10. ASSUME NEW e \in Exec, opensFresh(e) \/ runResumedTraced(e) PROVE NextRequestOnly'
  BY <1>0, <1>1, <1>10, OpenFrame DEF KeepsBegin
<1>11. ASSUME NEW e \in Exec, completeEnterpriseStep(e) PROVE NextRequestOnly'
  BY <1>0, <1>1, <1>11, CompleteFrame DEF KeepsBegin
<1>12. ASSUME NEW e \in Exec, NEW i \in 1..Len(turn[e].route), reopenEnterpriseStep(e, i)
       PROVE  NextRequestOnly'
  BY <1>0, <1>1, <1>12, ReopenFrame DEF KeepsBegin
<1>13. ASSUME NEW e \in Exec, compact(e) PROVE NextRequestOnly'
  BY <1>0, <1>1, <1>13, CompactFrame DEF KeepsBegin
<1>14. ASSUME NEW e \in Exec, (\E st \in Outcome \cup {"blocked"} : appendRunEnded(e, st))
                              \/ finalizeEnterpriseRun(e)
       PROVE  NextRequestOnly'
  BY <1>0, <1>1, <1>14, CloseFrame DEF KeepsBegin
<1> QED
  BY <1>2, <1>3, <1>4, <1>5, <1>6, <1>7, <1>8, <1>9, <1>10, <1>11, <1>12, <1>13, <1>14 DEF Next

(* takeEnterpriseRunResume hands a continuation only to a turn that        *)
(* arrived after the click, whatever the planning of the others took and   *)
(* whichever process dates them.                                           *)
THEOREM TraceNextRequestOnly == Spec => []NextRequestOnly
<1>1. Init => NextRequestOnly
  BY DEF Init, NextRequestOnly, OlderClickIsKnown, NoTurn
<1>2. IInv /\ IInv' /\ NextRequestOnly /\ [Next]_vars => NextRequestOnly'
  BY NextRequestStep
<1> QED BY <1>1, <1>2, TraceInvariant, PTL DEF Spec

-----------------------------------------------------------------------------
(* The parts of the chain's invariant that are about one execution: its    *)
(* turn t, its row r and what its chain c did.                             *)
BlankOK(t, r) ==
  /\ t.stage \in {"none", "planning", "inserted", "taken"} => r.completed = {}
  /\ t.stage \in {"none", "planning", "inserted"} => t.cursor = 0
  /\ t.stage \notin {"taken", "walking", "closing"} => t.from = NoExec

ChainOK(t, r, c) ==
  /\ r.completed \subseteq DoneBy(c)
  /\ t.stage = "taken" => t.carried \subseteq DoneBy(c) /\ t.cursor >= 2
  /\ t.stage \in Tracing => /\ t.route \in c.routes
                            /\ \A i \in 1..(t.cursor - 1) : t.route[i] \in DoneBy(c)
                            /\ r.status # "none" => r.route = t.route
  /\ Steady(c) => c.stale = {}
  /\ r.status # "none" =>
        /\ r.route \in Route
        /\ r.completed # {} /\ r.completed \subseteq StepSet(r.route) => r.route[1] \in DoneBy(c)

ChainInv ==
  /\ chain \in [Exec -> ChainType]
  /\ \A e \in Exec : ChainOK(turn[e], row[e], chain[e])

LEMMA BlankByExec == BeginIsBlank <=> \A e \in Exec : BlankOK(turn[e], row[e])
BY DEF BeginIsBlank, BlankOK

LEMMA BlankByExecNext == BeginIsBlank' <=> \A e \in Exec : BlankOK(turn'[e], row'[e])
BY DEF BeginIsBlank, BlankOK

(* Under every step the log of a begin that has not opened is empty.       *)
LEMMA BlankStep ==
  ASSUME IInv, BeginIsBlank, [Next]_vars
  PROVE  BeginIsBlank'
<1>0. TypeOK /\ \A f \in Exec : BlankOK(turn[f], row[f])
  BY BlankByExec DEF IInv
<1> SUFFICES \A f \in Exec : BlankOK(turn'[f], row'[f])
  BY BlankByExecNext
<1>1. ASSUME NEW e \in Exec, Others(e), BlankOK(turn'[e], row'[e])
      PROVE  \A f \in Exec : BlankOK(turn'[f], row'[f])
  BY <1>0, <1>1 DEF Others
<1>2. ASSUME NEW e \in Exec, NEW p \in Proc, NEW a \in Agent, turnArrives(e, p, a)
      PROVE  \A f \in Exec : BlankOK(turn'[f], row'[f])
  BY <1>0, <1>1, <1>2, ArrivesFrame DEF BlankOK
<1>3. ASSUME NEW e \in Exec, NEW o \in Exec, takeEnterpriseRunResume(e, o)
      PROVE  \A f \in Exec : BlankOK(turn'[f], row'[f])
  <2>1. /\ turn[e].stage = "inserted" /\ turn'[e].stage \in {"taken", "walking"}
        /\ \A f \in Exec : f # e => turn'[f] = turn[f]
        /\ \A f \in Exec : row'[f].completed = row[f].completed
    BY <1>0, <1>3, TakeFrame
  <2> QED BY <1>0, <2>1 DEF BlankOK
<1>4. ASSUME \/ \E o \in Exec : continueClicked(o)
             \/ \E a \in Agent : resetTranscript(a)
             \/ \E p \in Proc : localStarts(p)
             \/ tick \/ UNCHANGED vars
      PROVE  \A f \in Exec : BlankOK(turn'[f], row'[f])
  BY <1>0, <1>4, QuietFrame
<1>5. CASE requestEnterpriseRunResume
  BY <1>0, <1>5, ArmFrame DEF BlankOK
<1>6. ASSUME NEW p \in Proc, crash(p) PROVE \A f \in Exec : BlankOK(turn'[f], row'[f])
  BY <1>0, <1>6, CrashFrame DEF BlankOK, NoTurn, Gone
<1>7. CASE gatewayStarts
  BY <1>0, <1>7, SweepFrame DEF BlankOK
<1>8. ASSUME NEW e \in Exec, turnDropped(e) PROVE \A f \in Exec : BlankOK(turn'[f], row'[f])
  BY <1>0, <1>1, <1>8, DroppedFrame DEF BlankOK
<1>9. ASSUME NEW e \in Exec, NEW rt \in Route, NEW at \in 1..clock,
             persistEnterpriseRunStart(e, rt, at)
      PROVE  \A f \in Exec : BlankOK(turn'[f], row'[f])
  <2>1. /\ Others(e) /\ turn[e].stage = "planning" /\ turn'[e].stage = "inserted"
        /\ turn'[e].cursor = turn[e].cursor /\ turn'[e].from = turn[e].from
        /\ row'[e].completed = row[e].completed
    BY <1>0, <1>9, StartFrame
  <2>2. BlankOK(turn'[e], row'[e])
    BY <1>0, <2>1 DEF BlankOK
  <2> QED BY <1>1, <2>1, <2>2
<1>10. ASSUME NEW e \in Exec, opensFresh(e) \/ runResumedTraced(e)
       PROVE  \A f \in Exec : BlankOK(turn'[f], row'[f])
  BY <1>0, <1>1, <1>10, OpenFrame DEF BlankOK
<1>11. ASSUME NEW e \in Exec, completeEnterpriseStep(e)
       PROVE  \A f \in Exec : BlankOK(turn'[f], row'[f])
  BY <1>0, <1>1, <1>11, CompleteFrame DEF BlankOK
<1>12. ASSUME NEW e \in Exec, NEW i \in 1..Len(turn[e].route), reopenEnterpriseStep(e, i)
       PROVE  \A f \in Exec : BlankOK(turn'[f], row'[f])
  BY <1>0, <1>1, <1>12, ReopenFrame DEF BlankOK
<1>13. ASSUME NEW e \in Exec, compact(e) PROVE \A f \in Exec : BlankOK(turn'[f], row'[f])
  BY <1>0, <1>1, <1>13, CompactFrame DEF BlankOK
<1>14. ASSUME NEW e \in Exec, (\E st \in Outcome \cup {"blocked"} : appendRunEnded(e, st))
                              \/ finalizeEnterpriseRun(e)
       PROVE  \A f \in Exec : BlankOK(turn'[f], row'[f])
  BY <1>0, <1>1, <1>14, CloseFrame DEF BlankOK
<1> QED
  BY <1>2, <1>3, <1>4, <1>5, <1>6, <1>7, <1>8, <1>9, <1>10, <1>11, <1>12, <1>13, <1>14 DEF Next

(* What a route builds on one of its steps is what a reopen of that step   *)
(* invalidates.                                                            *)
LEMMA BuiltOnOwnRoute ==
  ASSUME NEW r \in Route, NEW i \in 1..Len(r)
  PROVE  BuiltOn({r}, r[i]) = Invalidated(r, i)
<1>0. /\ r \in Seq(Node) /\ Len(r) \in Nat
      /\ \A j, k \in 1..Len(r) : r[j] = r[k] => j = k
  BY RouteAssumption DEF IsRoute
<1>1. ASSUME NEW n \in BuiltOn({r}, r[i]) PROVE n \in Invalidated(r, i)
  <2>1. CASE n = r[i]
    BY <1>0, <2>1 DEF Invalidated
  <2>2. CASE n # r[i]
    <3>1. PICK j \in 1..Len(r), k \in 1..Len(r) : j < k /\ r[j] = r[i] /\ r[k] = n
      BY <1>1, <2>2 DEF BuiltOn
    <3>2. j = i /\ k \in i..Len(r)
      BY <1>0, <3>1
    <3> QED BY <3>1, <3>2 DEF Invalidated
  <2> QED BY <2>1, <2>2
<1>2. ASSUME NEW n \in Invalidated(r, i) PROVE n \in BuiltOn({r}, r[i])
  <2>1. PICK j \in i..Len(r) : n = r[j]
    BY <1>2 DEF Invalidated
  <2>2. n \in Node /\ j \in 1..Len(r)
    BY <1>0, <2>1
  <2>3. CASE j = i
    BY <2>1, <2>3 DEF BuiltOn
  <2>4. CASE j # i
    <3>1. i < j
      BY <1>0, <2>1, <2>2, <2>4
    <3> QED BY <2>1, <2>2, <3>1 DEF BuiltOn
  <2> QED BY <2>3, <2>4
<1> QED BY <1>1, <1>2

LEMMA BuiltOnNodes ==
  ASSUME NEW routes, NEW m \in Node
  PROVE  BuiltOn(routes, m) \subseteq Node
BY DEF BuiltOn

(* What the steps of a run do to its chain: a take adds a route, a         *)
(* completion adds a step, and a correction leaves what its event, if      *)
(* written, does not take back; none of them makes a steady chain stale.   *)
LEMMA ContinuedChain ==
  ASSUME NEW c \in ChainType, NEW r \in Route, Steady(c) => c.stale = {}
  PROVE  LET x == Continued(c, r)
         IN  /\ x \in ChainType /\ DoneBy(x) = DoneBy(c) /\ r \in x.routes
             /\ Steady(x) => x.stale = {}
BY DEF Continued, ChainType, DoneBy, Steady

LEMMA DoneChain ==
  ASSUME NEW c \in ChainType, NEW steps \in SUBSET Node, Steady(c) => c.stale = {}
  PROVE  LET x == Done(c, steps)
         IN  /\ x \in ChainType /\ DoneBy(x) = DoneBy(c) \cup steps /\ x.routes = c.routes
             /\ Steady(x) => x.stale = {}
<1> DEFINE x == Done(c, steps)
<1>1. /\ x.routes = c.routes /\ x.sound = c.sound \cup steps
      /\ x.stale = c.stale \ steps /\ x.forgot = c.forgot /\ x \in ChainType
  BY DEF Done, ChainType
<1> HIDE DEF x
<1>2. DoneBy(x) = DoneBy(c) \cup steps
  BY <1>1 DEF DoneBy
<1>3. Steady(x) => x.stale = {}
  BY <1>1 DEF Steady
<1> QED BY <1>1, <1>2, <1>3 DEF x

(* What a correction of step m of route r takes back in the log.           *)
TakenBack(r, m, written) == IF written THEN BuiltOn({r}, m) ELSE {}

(* A chain whose correction took back what it should.                      *)
Keeps(c, x, takenBack) ==
  /\ x \in ChainType /\ x.routes = c.routes
  /\ DoneBy(c) \ takenBack \subseteq DoneBy(x)
  /\ Steady(x) => x.stale = {}

LEMMA CorrectedChain ==
  ASSUME NEW c \in ChainType, NEW r \in c.routes, NEW m \in Node, NEW written \in BOOLEAN,
         Steady(c) => c.stale = {}
  PROVE  Keeps(c, Corrected(c, r, m, written), TakenBack(r, m, written))
<1> DEFINE x == Corrected(c, r, m, written)
           takenBack == TakenBack(r, m, written)
           undone == BuiltOn(c.routes, m)
<1>1. undone \subseteq Node /\ takenBack \subseteq Node
  BY BuiltOnNodes DEF TakenBack
<1>2. /\ x.routes = c.routes /\ x.sound = c.sound \ undone
      /\ x.stale = (c.stale \cup (c.sound \cap undone)) \ takenBack
      /\ x.forgot = (c.forgot \/ ~written) /\ x \in ChainType
  <2> HIDE DEF undone
  <2>1. x = [c EXCEPT !.sound = c.sound \ undone,
                      !.stale = (c.stale \cup (c.sound \cap undone)) \ takenBack,
                      !.forgot = c.forgot \/ ~written]
    BY DEF Corrected, TakenBack, undone
  <2>2. (c.forgot \/ ~written) \in BOOLEAN
    OBVIOUS
  <2> HIDE DEF x, takenBack
  <2> QED BY <1>1, <2>1, <2>2 DEF ChainType
<1>3. Steady(x) => x.stale = {}
  <2> SUFFICES ASSUME Steady(x) PROVE x.stale = {}
    OBVIOUS
  <2>1. written /\ c.stale = {} /\ \A q \in c.routes : q = r
    BY <1>2 DEF Steady
  <2>2. c.routes = {r}
    BY <2>1
  <2>3. takenBack = undone
    BY <2>1, <2>2 DEF TakenBack
  <2> HIDE DEF x, takenBack, undone
  <2> QED BY <1>2, <2>1, <2>3
<1> HIDE DEF x, takenBack, undone
<1>4. DoneBy(c) \ takenBack \subseteq DoneBy(x)
  BY <1>2 DEF DoneBy
<1> QED BY <1>2, <1>3, <1>4 DEF Keeps, x, takenBack

LEMMA FreshChain ==
  ASSUME NEW r \in Route
  PROVE  /\ NewChain({r}) \in ChainType /\ NewChain({r}).routes = {r}
         /\ NewChain({r}).stale = {}
BY DEF NewChain, ChainType

(* A row that keeps its lane and its completed steps, and a turn that      *)
(* keeps its walk or has none, are as the chain says if they were.         *)
LEMMA ChainKept ==
  ASSUME NEW t, NEW r, NEW u, NEW q, NEW c, ChainOK(t, r, c),
         SameLane(q, r), q.completed = r.completed,
         \/ u.stage \notin Tracing
         \/ /\ t.stage \in Tracing /\ u.stage \in Tracing /\ u.stage # "taken"
            /\ u.route = t.route /\ u.cursor = t.cursor
  PROVE  ChainOK(u, q, c)
<1>1. "taken" \in Tracing
  BY DEF Tracing
<1> QED BY <1>1 DEF ChainOK, SameLane

(* The steps of every execution's walk keep its log and its chain in step. *)
LEMMA ChainStep ==
  ASSUME IInv, BeginIsBlank, ChainInv, [Next]_vars
  PROVE  ChainInv'
<1>0. /\ TypeOK /\ StageBoundsRow /\ chain \in [Exec -> ChainType]
      /\ \A f \in Exec : ChainOK(turn[f], row[f], chain[f]) /\ BlankOK(turn[f], row[f])
  BY BlankByExec DEF IInv, ChainInv
<1> DEFINE Goal == /\ chain' \in [Exec -> ChainType]
                   /\ \A f \in Exec : ChainOK(turn'[f], row'[f], chain'[f])
<1> SUFFICES Goal
  BY DEF ChainInv
<1>1. ASSUME NEW e \in Exec, Others(e), NEW c \in ChainType, chain' = [chain EXCEPT ![e] = c],
             ChainOK(turn'[e], row'[e], c)
      PROVE  Goal
  <2>1. chain' \in [Exec -> ChainType] /\ \A f \in Exec : chain'[f] = IF f = e THEN c ELSE chain[f]
    BY <1>0, <1>1
  <2> QED BY <1>0, <1>1, <2>1 DEF Others
<1>2. ASSUME NEW e \in Exec, Others(e), chain' = chain, ChainOK(turn'[e], row'[e], chain[e])
      PROVE  Goal
  BY <1>0, <1>2 DEF Others
<1>3. ASSUME chain' = chain, turn' = turn,
             \A f \in Exec : /\ row'[f].completed = row[f].completed
                             /\ SameLane(row'[f], row[f])
      PROVE  Goal
  BY <1>0, <1>3 DEF ChainOK, SameLane
<1>4. ASSUME NEW e \in Exec, turn[e].stage = "walking"
      PROVE  /\ turn[e].route \in Route /\ turn[e].cursor \in Nat /\ turn[e].cursor >= 1
             /\ Len(turn[e].route) \in Nat
             /\ \A j \in 1..Len(turn[e].route) : turn[e].route[j] \in Node
             /\ \A j, k \in 1..Len(turn[e].route) : turn[e].route[j] = turn[e].route[k] => j = k
  <2>1. turn[e].route \in Route /\ turn[e].cursor \in Nat /\ turn[e].cursor >= 1
    BY <1>0, <1>4 DEF StageBoundsRow, TypeOK, TurnType
  <2> QED BY <2>1, RouteAssumption DEF IsRoute
<1>5. ASSUME NEW e \in Exec, NEW p \in Proc, NEW a \in Agent, turnArrives(e, p, a) PROVE Goal
  <2>1. Others(e) /\ row' = row /\ chain' = chain /\ turn'[e].stage = "planning"
    BY <1>0, <1>5, ArrivesFrame
  <2>2. ChainOK(turn'[e], row'[e], chain[e])
    BY <1>0, <2>1, ChainKept DEF Tracing, SameLane
  <2> QED BY <1>2, <2>1, <2>2
<1>6. ASSUME NEW e \in Exec, turnDropped(e) PROVE Goal
  <2>1. Others(e) /\ row' = row /\ chain' = chain /\ turn'[e].stage = "none"
    BY <1>0, <1>6, DroppedFrame
  <2>2. ChainOK(turn'[e], row'[e], chain[e])
    BY <1>0, <2>1, ChainKept DEF Tracing, SameLane
  <2> QED BY <1>2, <2>1, <2>2
(* A start begins a chain of its own.                                      *)
<1>7. ASSUME NEW e \in Exec, NEW rt \in Route, NEW at \in 1..clock,
             persistEnterpriseRunStart(e, rt, at)
      PROVE  Goal
  <2>1. /\ Others(e) /\ chain' = [chain EXCEPT ![e] = NewChain({rt})]
        /\ turn[e].stage = "planning" /\ turn'[e].stage = "inserted" /\ turn'[e].route = rt
        /\ turn'[e].cursor = turn[e].cursor /\ row'[e].completed = row[e].completed
        /\ row'[e] = row[e] \/ row'[e].route = rt
    BY <1>0, <1>7, StartFrame
  <2>2. turn'[e].cursor = 0 /\ row'[e].completed = {} /\ row[e].status = "none"
    BY <1>0, <2>1 DEF BlankOK, StageBoundsRow
  <2>3. ChainOK(turn'[e], row'[e], NewChain({rt}))
    BY <2>1, <2>2, FreshChain DEF ChainOK
  <2> QED BY <1>1, <2>1, <2>3, FreshChain
(* A take inherits the chain of the row it continues.                      *)
<1>8. ASSUME NEW e \in Exec, NEW o \in Exec, takeEnterpriseRunResume(e, o) PROVE Goal
  <2> DEFINE c == row[o].completed
             k == firstUnfinishedStep(turn[e].route, c)
             x == Continued(chain[o], turn[e].route)
  <2>1. /\ turn[e].stage = "inserted" /\ turn'[e].route = turn[e].route
        /\ \A f \in Exec : f # e => turn'[f] = turn[f]
        /\ \A f \in Exec : row'[f].completed = row[f].completed /\ SameLane(row'[f], row[f])
        /\ k = 0 => turn'[e].stage = "walking" /\ turn'[e].cursor = 1 /\ chain' = chain
        /\ k # 0 => /\ turn'[e].stage = "taken" /\ turn'[e].cursor = k /\ turn'[e].carried = c
                    /\ chain' = [chain EXCEPT ![e] = x]
    BY <1>0, <1>8, TakeFrame
  <2>2. turn[e].route \in Route /\ Len(turn[e].route) \in Nat /\ row[e].completed = {}
    BY <1>0, <2>1, RouteAssumption DEF StageBoundsRow, BlankOK, IsRoute
  <2>3. ASSUME NEW f \in Exec, f # e PROVE ChainOK(turn'[f], row'[f], chain[f])
    BY <1>0, <2>1, <2>3 DEF ChainOK, SameLane
  <2>4. CASE k = 0
    <3>1. ChainOK(turn'[e], row'[e], chain[e])
      BY <1>0, <2>1, <2>2, <2>4 DEF ChainOK, SameLane, Tracing
    <3> QED BY <1>0, <2>1, <2>3, <2>4, <3>1
  <2>5. CASE k # 0
    <3>1. k \in 2..Len(turn[e].route) /\ \A i \in 1..(k - 1) : turn[e].route[i] \in c
      BY <2>2, <2>5, FirstUnfinishedBehind
    <3>2. c \subseteq DoneBy(chain[o]) /\ chain[o] \in ChainType
          /\ (Steady(chain[o]) => chain[o].stale = {})
      BY <1>0 DEF ChainOK
    <3>3. /\ x \in ChainType /\ DoneBy(x) = DoneBy(chain[o]) /\ turn[e].route \in x.routes
          /\ Steady(x) => x.stale = {}
      BY <2>2, <3>2, ContinuedChain
    <3> HIDE DEF k, c, x
    <3>4. row[e].status # "none" => row[e].route = turn[e].route
      BY <1>0, <2>1 DEF ChainOK, Tracing
    <3>5. ChainOK(turn'[e], row'[e], x)
      BY <2>1, <2>2, <2>5, <3>1, <3>2, <3>3, <3>4 DEF ChainOK, SameLane
    <3>6. chain' \in [Exec -> ChainType]
          /\ \A f \in Exec : chain'[f] = IF f = e THEN x ELSE chain[f]
      BY <1>0, <2>1, <2>5, <3>3
    <3> QED BY <2>3, <3>5, <3>6
  <2> QED BY <2>4, <2>5
<1>9. ASSUME NEW e \in Exec, opensFresh(e) PROVE Goal
  <2>1. /\ Others(e) /\ chain' = chain /\ turn[e].stage = "inserted"
        /\ turn'[e].stage = "walking" /\ turn'[e].cursor = 1 /\ turn'[e].route = turn[e].route
        /\ row'[e] = row[e]
    BY <1>0, <1>9, OpenFrame DEF opensFresh
  <2>2. ChainOK(turn'[e], row'[e], chain[e])
    BY <1>0, <2>1 DEF ChainOK, Tracing
  <2> QED BY <1>2, <2>1, <2>2
(* What is carried over was done, the first step included.                 *)
<1>10. ASSUME NEW e \in Exec, runResumedTraced(e) PROVE Goal
  <2>1. /\ Others(e) /\ chain' = chain /\ turn[e].stage = "taken"
        /\ turn'[e].stage = "walking" /\ turn'[e].cursor = turn[e].cursor
        /\ turn'[e].route = turn[e].route /\ SameLane(row'[e], row[e])
        /\ row'[e].completed = row[e].completed \cup turn[e].carried \/ row'[e] = row[e]
    BY <1>0, <1>10, OpenFrame DEF runResumedTraced
  <2>2. turn[e].route[1] \in DoneBy(chain[e])
    <3>1. turn[e].cursor \in Nat /\ turn[e].cursor >= 2
      BY <1>0, <2>1 DEF ChainOK, TypeOK, TurnType
    <3>2. 1 \in 1..(turn[e].cursor - 1)
      BY <3>1
    <3> QED BY <1>0, <2>1, <3>2 DEF ChainOK, Tracing
  <2>3. row'[e].status # "none" => row'[e].route = turn[e].route /\ row'[e].route \in Route
    BY <1>0, <2>1 DEF ChainOK, Tracing, SameLane
  <2>4. row'[e].completed \subseteq DoneBy(chain[e])
    BY <1>0, <2>1 DEF ChainOK
  <2>5. ChainOK(turn'[e], row'[e], chain[e])
    BY <1>0, <2>1, <2>2, <2>3, <2>4 DEF ChainOK, Tracing
  <2> QED BY <1>2, <2>1, <2>5
<1>11. ASSUME NEW e \in Exec, completeEnterpriseStep(e) PROVE Goal
  <2> DEFINE n == turn[e].route[turn[e].cursor]
             x == Done(chain[e], {n})
  <2>1. /\ Others(e) /\ turn[e].stage = "walking" /\ turn'[e].stage = "walking"
        /\ turn[e].cursor <= Len(turn[e].route) /\ turn'[e].cursor = turn[e].cursor + 1
        /\ turn'[e].route = turn[e].route /\ SameLane(row'[e], row[e])
        /\ row'[e].completed \in {row[e].completed \cup {n}, row[e].completed}
        /\ chain' = [chain EXCEPT ![e] = x]
    BY <1>0, <1>11, CompleteFrame
  <2>2. n \in Node /\ turn[e].cursor \in Nat /\ turn[e].cursor >= 1
    BY <1>4, <2>1
  <2>3. \A i \in 1..(turn'[e].cursor - 1) : i \in 1..(turn[e].cursor - 1) \/ i = turn[e].cursor
    BY <2>1, <2>2
  <2>4. /\ x \in ChainType /\ DoneBy(x) = DoneBy(chain[e]) \cup {n}
        /\ x.routes = chain[e].routes /\ (Steady(x) => x.stale = {})
    <3>1. chain[e] \in ChainType /\ (Steady(chain[e]) => chain[e].stale = {})
      BY <1>0 DEF ChainOK
    <3>2. {n} \in SUBSET Node
      BY <2>2
    <3> HIDE DEF n
    <3> QED BY <3>1, <3>2, DoneChain
  <2> HIDE DEF x
  <2>5. \A i \in 1..(turn'[e].cursor - 1) : turn'[e].route[i] \in DoneBy(x)
    BY <1>0, <2>1, <2>3, <2>4 DEF ChainOK, Tracing
  <2>6. turn[e].route[1] \in DoneBy(x)
    <3>1. 1 \in 1..(turn'[e].cursor - 1)
      BY <2>1, <2>2
    <3> QED BY <2>1, <2>5, <3>1
  <2>7. /\ row'[e].status # "none" => row'[e].route = turn[e].route /\ row'[e].route \in Route
        /\ turn[e].route \in x.routes
    BY <1>0, <2>1, <2>4 DEF ChainOK, Tracing, SameLane
  <2>8. row'[e].completed \subseteq DoneBy(x)
    BY <1>0, <2>1, <2>4 DEF ChainOK
  <2> HIDE DEF n
  <2>9. ChainOK(turn'[e], row'[e], x)
    BY <2>1, <2>4, <2>5, <2>6, <2>7, <2>8 DEF ChainOK, Tracing
  <2> QED BY <1>1, <2>1, <2>4, <2>9
(* The steps before the reopened one differ from all its event takes back; *)
(* a log that loses its first step to the event tells of no other step of  *)
(* its route.                                                              *)
<1>12. ASSUME NEW e \in Exec, NEW i \in 1..Len(turn[e].route), reopenEnterpriseStep(e, i)
       PROVE  Goal
  <2> DEFINE r == turn[e].route
             m == r[i]
  <2>1. /\ Others(e) /\ turn[e].stage = "walking" /\ turn'[e].stage = "walking"
        /\ i < turn[e].cursor /\ turn'[e].cursor = i /\ turn'[e].route = r
        /\ SameLane(row'[e], row[e])
    BY <1>0, <1>12, ReopenFrame
  <2>2. PICK written \in BOOLEAN :
          /\ row'[e].completed = IF written THEN row[e].completed \ Invalidated(r, i)
                                 ELSE row[e].completed
          /\ chain' = [chain EXCEPT ![e] = Corrected(chain[e], r, m, written)]
    BY <1>0, <1>12, ReopenFrame
  <2> DEFINE x == Corrected(chain[e], r, m, written)
             takenBack == IF written THEN Invalidated(r, i) ELSE {}
  <2>3. /\ r \in Route /\ m \in Node /\ turn[e].cursor \in Nat /\ i \in Nat
        /\ Len(r) \in Nat /\ \A j, k \in 1..Len(r) : r[j] = r[k] => j = k
    BY <1>4, <2>1
  <2>4. r \in chain[e].routes /\ \A j \in 1..(turn[e].cursor - 1) : r[j] \in DoneBy(chain[e])
    BY <1>0, <2>1 DEF ChainOK, Tracing
  <2>5. /\ x \in ChainType /\ x.routes = chain[e].routes
        /\ DoneBy(chain[e]) \ takenBack \subseteq DoneBy(x)
        /\ Steady(x) => x.stale = {}
    <3>1. chain[e] \in ChainType /\ (Steady(chain[e]) => chain[e].stale = {})
      BY <1>0 DEF ChainOK
    <3>2. takenBack = TakenBack(r, m, written)
      BY <2>3, BuiltOnOwnRoute DEF TakenBack
    <3> DEFINE c == chain[e]
    <3> HIDE DEF r, m, c
    <3>3. c \in ChainType /\ (Steady(c) => c.stale = {}) /\ r \in c.routes /\ m \in Node
      BY <2>3, <2>4, <3>1 DEF c
    <3>4. Keeps(c, Corrected(c, r, m, written), TakenBack(r, m, written))
      BY <2>2, <3>3, CorrectedChain
    <3> HIDE DEF takenBack
    <3> QED BY <3>2, <3>4 DEF Keeps, c
  <2>6. \A j \in 1..(i - 1) : r[j] \notin takenBack /\ r[j] \in DoneBy(chain[e])
    <3> HIDE DEF r, x
    <3>1. i \in 1..Len(r)
      BY <1>12 DEF r
    <3> HIDE DEF m
    <3> SUFFICES ASSUME NEW j \in 1..(i - 1)
                 PROVE  r[j] \notin takenBack /\ r[j] \in DoneBy(chain[e])
      OBVIOUS
    <3>2. j \in 1..(turn[e].cursor - 1) /\ j \in 1..Len(r) /\ j < i
      BY <2>1, <2>3, <3>1
    <3>3. r[j] \in DoneBy(chain[e])
      BY <2>4, <3>2
    <3>4. ASSUME NEW k \in i..Len(r) PROVE r[j] # r[k]
      BY <2>3, <3>1, <3>2
    <3>5. r[j] \notin Invalidated(r, i)
      BY <3>4 DEF Invalidated
    <3>6. takenBack \subseteq Invalidated(r, i)
      OBVIOUS
    <3> QED BY <3>3, <3>5, <3>6
  <2>7. row'[e].completed = row[e].completed \ takenBack
    BY <2>2
  <2>8. i = 1 /\ written => StepSet(r) \subseteq takenBack
    BY <2>3 DEF StepSet, Invalidated
  <2>9. i # 1 \/ ~written => r[1] \in DoneBy(x)
    <3>1. CASE i # 1
      <4>1. 1 \in 1..(i - 1)
        BY <2>3, <3>1
      <4> QED BY <2>5, <2>6, <4>1
    <3>2. CASE ~written
      <4>1. 1 \in 1..(turn[e].cursor - 1)
        BY <2>1, <2>3
      <4>2. r[1] \in DoneBy(chain[e]) \ takenBack
        BY <2>4, <3>2, <4>1
      <4> QED BY <2>5, <4>2
    <3> QED BY <3>1, <3>2
  <2>10. row'[e].status # "none" => row'[e].route = r /\ row'[e].route \in Route
    BY <1>0, <2>1 DEF ChainOK, Tracing, SameLane
  <2> HIDE DEF x, takenBack, r
  <2>11. row[e].completed \subseteq DoneBy(chain[e])
    BY <1>0 DEF ChainOK
  <2>12. row'[e].completed \subseteq DoneBy(x)
    BY <2>5, <2>7, <2>11
  <2>13. row'[e].completed # {} /\ row'[e].completed \subseteq StepSet(r) => r[1] \in DoneBy(x)
    BY <2>7, <2>8, <2>9
  <2>14. \A j \in 1..(i - 1) : r[j] \in DoneBy(x)
    BY <2>5, <2>6
  <2>15. ChainOK(turn'[e], row'[e], x)
    BY <2>1, <2>4, <2>5, <2>10, <2>12, <2>13, <2>14 DEF ChainOK
  <2> QED BY <1>1, <2>1, <2>2, <2>5, <2>15 DEF x
<1>13. ASSUME NEW e \in Exec, compact(e) PROVE Goal
  <2>1. /\ Others(e) /\ chain' = chain /\ turn[e].stage = "walking"
        /\ turn'[e].stage = "walking" /\ turn'[e].cursor = turn[e].cursor
        /\ turn'[e].route = turn[e].route
        /\ row'[e].status = row[e].status /\ row'[e].completed = row[e].completed
        /\ row'[e].route = row[e].route
    BY <1>0, <1>13, CompactFrame
  <2>2. ChainOK(turn'[e], row'[e], chain[e])
    BY <1>0, <2>1 DEF ChainOK, Tracing
  <2> QED BY <1>2, <2>1, <2>2
<1>14. ASSUME NEW e \in Exec, (\E st \in Outcome \cup {"blocked"} : appendRunEnded(e, st))
                              \/ finalizeEnterpriseRun(e)
       PROVE  Goal
  <2>1. /\ Others(e) /\ chain' = chain /\ turn'[e].stage \in {"closing", "gone"}
        /\ SameLane(row'[e], row[e]) /\ row'[e].completed = row[e].completed
    BY <1>14, CloseFrame
  <2>2. ChainOK(turn'[e], row'[e], chain[e])
    BY <1>0, <2>1, ChainKept DEF Tracing
  <2> QED BY <1>2, <2>1, <2>2
<1>15. ASSUME NEW p \in Proc, crash(p) PROVE Goal
  <2>1. /\ row' = row /\ chain' = chain
        /\ \A e \in Exec : turn'[e] = turn[e] \/ turn'[e] \in {NoTurn, Gone}
    BY <1>0, <1>15, CrashFrame
  <2>2. NoTurn.stage \notin Tracing /\ Gone.stage \notin Tracing
    BY DEF NoTurn, Gone, Tracing
  <2>3. \A e \in Exec : SameLane(row[e], row[e])
    BY DEF SameLane
  <2>4. ASSUME NEW e \in Exec PROVE ChainOK(turn'[e], row'[e], chain'[e])
    BY <1>0, <2>1, <2>2, <2>3, ChainKept
  <2> QED BY <1>0, <2>1, <2>4
<1>16. CASE gatewayStarts
  BY <1>3, <1>16, SweepFrame
<1>17. CASE requestEnterpriseRunResume
  BY <1>3, <1>17, ArmFrame
<1>18. ASSUME \/ \E o \in Exec : continueClicked(o)
              \/ \E a \in Agent : resetTranscript(a)
              \/ \E p \in Proc : localStarts(p)
              \/ tick \/ UNCHANGED vars
       PROVE  Goal
  BY <1>0, <1>18, QuietFrame
<1> QED
  BY <1>5, <1>6, <1>7, <1>8, <1>9, <1>10, <1>11, <1>12, <1>13, <1>14, <1>15, <1>16, <1>17, <1>18
     DEF Next

(* What a walk skips was done; a steady chain has nothing stale.           *)
LEMMA ChainSkipsSound == ChainInv => SkipsOnlySoundWork
<1> SUFFICES ASSUME ChainInv, NEW e \in Exec, turn[e].stage \in Tracing,
                    NEW i \in 1..(turn[e].cursor - 1)
             PROVE  /\ turn[e].route[i] \in DoneBy(chain[e])
                    /\ Steady(chain[e]) => turn[e].route[i] \in chain[e].sound
  BY DEF SkipsOnlySoundWork
<1>1. turn[e].route[i] \in DoneBy(chain[e]) /\ (Steady(chain[e]) => chain[e].stale = {})
  BY DEF ChainInv, ChainOK
<1> QED BY <1>1 DEF DoneBy

(* enterpriseRunResumeRefusal says "route-complete" truthfully of a log    *)
(* that kept to its route and lost no record of its first step.            *)
LEMMA ChainRefusesHonestly == ChainInv => RefusalIsHonest
<1> SUFFICES ASSUME ChainInv, NEW e \in Exec, row[e].status # "none",
                    enterpriseRunResumeRefusal(row[e]) = "route-complete"
             PROVE  \/ StepSet(row[e].route) \subseteq row[e].completed
                    \/ ~(row[e].completed \subseteq StepSet(row[e].route))
                    \/ row[e].route[1] \in DoneBy(chain[e]) \ row[e].completed
  BY DEF RefusalIsHonest
<1>1. /\ row[e].completed # {}
      /\ firstUnfinishedStep(row[e].route, row[e].completed) = 0
  BY DEF enterpriseRunResumeRefusal
<1>2. /\ row[e].route \in Route
      /\ row[e].completed \subseteq StepSet(row[e].route) => row[e].route[1] \in DoneBy(chain[e])
  BY <1>1 DEF ChainInv, ChainOK
<1>3. IsRoute(row[e].route, Node)
  BY <1>2, RouteAssumption
<1>4. Len(row[e].route) \in Nat \ {0}
  BY <1>3 DEF IsRoute
<1>5. \/ row[e].route[1] \notin row[e].completed
      \/ StepSet(row[e].route) \subseteq row[e].completed
  BY <1>1, <1>4, FirstUnfinishedNone
<1> QED BY <1>2, <1>5

LEMMA ChainSoundParts == ChainSound <=> BeginIsBlank /\ ChainInv
<1>1. ChainSound => BeginIsBlank /\ ChainInv
  BY DEF ChainSound, SkipsOnlySoundWork, LogIsSound, LogHasHead, ChainInv, ChainOK
<1>2. ChainInv => LogIsSound /\ LogHasHead
  BY DEF LogIsSound, LogHasHead, ChainInv, ChainOK
<1> QED BY <1>1, <1>2, ChainSkipsSound, ChainRefusesHonestly DEF ChainSound

(* Over any chain of continuations, on whatever routes of a work-map,      *)
(* through any crashes and any lost writes: what a continued walk skips    *)
(* was done and taken back by no event, and in a chain that kept to one    *)
(* route and lost no node.reopened is not built on a corrected step        *)
(* either; "route-complete" is said only if nothing is left to do, unless  *)
(* the log counts another route's steps or lost its first step's record    *)
(* (cumulativeCompletedNodeIds, enterpriseRunResumeRefusal).               *)
THEOREM TraceChainSound == Spec => []ChainSound
<1>1. Init => BeginIsBlank /\ ChainInv
  <2>1. NewChain({}) \in ChainType /\ NewChain({}).stale = {}
    BY DEF NewChain, ChainType
  <2> QED BY <2>1 DEF Init, BeginIsBlank, ChainInv, ChainOK, NoTurn, NoRow, Tracing
<1>2. IInv /\ BeginIsBlank /\ ChainInv /\ [Next]_vars => BeginIsBlank' /\ ChainInv'
  BY BlankStep, ChainStep
<1> QED BY <1>1, <1>2, ChainSoundParts, TraceInvariant, PTL DEF Spec

-----------------------------------------------------------------------------
(* What ties an execution e, its turn t and its row r to the transcripts:  *)
(* ss are the conversations' transcripts and sn what each transcript saw.  *)
(* A transcript in use is not ahead of its conversation, and the row of a  *)
(* turn in flight follows it.                                              *)
SawOK(e, t, r, ss, sn) ==
  /\ t.stage \in InFlight => t.session[2] <= ss[t.session[1]][2]
  /\ t.stage = "taken" => e \in sn[t.session]
  /\ t.from # NoExec => t.from \in sn[t.session]
  /\ r.status # "none" =>
       /\ r.session \in Transcript /\ r.session[1] = r.agent
       /\ r.session[2] <= ss[r.agent][2]
       /\ t.stage \in InFlight => r.session = t.session
       /\ r.completed # {} => e \in sn[r.session]

SawInv ==
  /\ seen \in [Transcript -> SUBSET Exec]
  /\ \A e \in Exec : SawOK(e, turn[e], row[e], session, seen)

LEMMA TranscriptParts ==
  ASSUME NEW s \in Transcript
  PROVE  s[1] \in Agent /\ s[2] \in Nat /\ s = <<s[1], s[2]>>
BY DEF Transcript

(* Transcripts only move forward, and the ones in use forget nothing.      *)
Forward(ss, sn) ==
  /\ \A b \in Agent : ss[b] \in Transcript /\ session[b][2] <= ss[b][2]
  /\ \A s \in Transcript : s[2] <= session[s[1]][2] => seen[s] \subseteq sn[s]

LEMMA SawMono ==
  ASSUME TypeOK, NEW e \in Exec, NEW t, NEW r, SawOK(e, t, r, session, seen), BlankOK(t, r),
         t.stage \in InFlight => t.session \in Transcript,
         NEW ss, NEW sn, Forward(ss, sn)
  PROVE  SawOK(e, t, r, ss, sn)
<1>0. \A b \in Agent : session[b] \in Transcript
  BY DEF TypeOK
<1>1. ASSUME NEW s \in Transcript, s[2] <= session[s[1]][2]
      PROVE  s[2] <= ss[s[1]][2] /\ seen[s] \subseteq sn[s]
  <2>1. s[1] \in Agent /\ s[2] \in Nat
    BY TranscriptParts
  <2>2. session[s[1]][2] \in Nat /\ ss[s[1]][2] \in Nat /\ session[s[1]][2] <= ss[s[1]][2]
    BY <1>0, <2>1, TranscriptParts DEF Forward
  <2> QED BY <1>1, <2>1, <2>2 DEF Forward
<1>2. t.stage \in InFlight => /\ t.session[2] <= ss[t.session[1]][2]
                              /\ seen[t.session] \subseteq sn[t.session]
  BY <1>1 DEF SawOK
<1>3. t.stage = "taken" => e \in sn[t.session]
  BY <1>2 DEF SawOK, InFlight, Tracing
<1>4. t.from # NoExec => t.from \in sn[t.session]
  BY <1>2 DEF SawOK, BlankOK, InFlight, Tracing
<1>5. r.status # "none" => /\ r.session[2] <= ss[r.agent][2]
                           /\ seen[r.session] \subseteq sn[r.session]
  BY <1>1 DEF SawOK
<1> QED BY <1>2, <1>3, <1>4, <1>5 DEF SawOK

(* Steps that leave the conversations alone and only add to what they saw. *)
LEMMA SameForward ==
  ASSUME TypeOK, \A s \in Transcript : seen[s] \subseteq seen'[s], session' = session
  PROVE  Forward(session', seen')
<1>1. ASSUME NEW b \in Agent PROVE session[b] \in Transcript /\ session[b][2] <= session[b][2]
  BY TranscriptParts DEF TypeOK
<1> QED BY <1>1 DEF Forward

(* A rotation moves one conversation to a transcript nobody has used.      *)
LEMMA RotateForward ==
  ASSUME TypeOK, NEW a \in Agent, session[a][2] < MaxSession,
         session' = [session EXCEPT ![a] = Rotated(a)],
         \A s \in Transcript : s # Rotated(a) => seen[s] \subseteq seen'[s]
  PROVE  /\ Rotated(a) \in Transcript /\ Rotated(a)[1] = a
         /\ Rotated(a)[2] = session[a][2] + 1 /\ session'[a] = Rotated(a)
         /\ Forward(session', seen')
<1>1. session[a] \in Transcript /\ session[a][2] \in Nat /\ session[a][2] + 1 \in 1..MaxSession
  <2>1. session[a] \in Transcript
    BY DEF TypeOK
  <2> QED BY <2>1, TranscriptParts, BoundAssumption
<1>2. Rotated(a) \in Transcript /\ Rotated(a)[1] = a /\ Rotated(a)[2] = session[a][2] + 1
  BY <1>1 DEF Rotated, Transcript
<1>3. \A b \in Agent : session'[b] = IF b = a THEN Rotated(a) ELSE session[b]
  BY DEF TypeOK
<1>4. ASSUME NEW b \in Agent PROVE session'[b] \in Transcript /\ session[b][2] <= session'[b][2]
  <2>1. session[b] \in Transcript /\ session[b][2] \in Nat
    BY TranscriptParts DEF TypeOK
  <2> QED BY <1>1, <1>2, <1>3, <2>1
<1>5. ASSUME NEW s \in Transcript, s[2] <= session[s[1]][2] PROVE s # Rotated(a)
  BY <1>1, <1>2, <1>5
<1> QED BY <1>2, <1>3, <1>4, <1>5 DEF Forward

LEMMA SawStep ==
  ASSUME "adopt" \notin Lossy, IInv, BeginIsBlank, SawInv, [Next]_vars
  PROVE  SawInv'
<1>0. /\ TypeOK /\ StageBoundsRow /\ ArmedIsOver /\ seen \in [Transcript -> SUBSET Exec]
      /\ \A f \in Exec : /\ SawOK(f, turn[f], row[f], session, seen) /\ BlankOK(turn[f], row[f])
                         /\ turn[f].stage \in InFlight => turn[f].session \in Transcript
  BY BlankByExec DEF IInv, SawInv, StageBoundsRow
<1> DEFINE Goal == /\ seen' \in [Transcript -> SUBSET Exec]
                   /\ \A f \in Exec : SawOK(f, turn'[f], row'[f], session', seen')
<1> SUFFICES Goal
  BY DEF SawInv
<1>1. ASSUME NEW e \in Exec, Others(e), seen' \in [Transcript -> SUBSET Exec],
             Forward(session', seen'), SawOK(e, turn'[e], row'[e], session', seen')
      PROVE  Goal
  <2>1. ASSUME NEW f \in Exec, f # e PROVE SawOK(f, turn'[f], row'[f], session', seen')
    <3>1. SawOK(f, turn[f], row[f], session', seen')
      BY <1>0, <1>1, SawMono
    <3> QED BY <1>1, <2>1, <3>1 DEF Others
  <2> QED BY <1>1, <2>1
<1>2. ASSUME turn' = turn, seen' = seen, session' = session,
             \A f \in Exec : /\ row'[f].completed = row[f].completed
                             /\ SameLane(row'[f], row[f])
      PROVE  Goal
  BY <1>0, <1>2 DEF SawOK, SameLane
<1>3. session' = session /\ seen' = seen => Forward(session', seen')
  BY <1>0, SameForward
<1>4. ASSUME NEW e \in Exec, NEW p \in Proc, NEW a \in Agent, turnArrives(e, p, a) PROVE Goal
  <2>1. /\ Others(e) /\ row' = row /\ session' = session /\ seen' = seen
        /\ turn[e].stage = "none" /\ turn'[e].stage = "planning"
        /\ turn'[e].session = session[a] /\ turn'[e].from = NoExec
    BY <1>0, <1>4, ArrivesFrame
  <2>2. row[e].status = "none"
    BY <1>0, <2>1 DEF StageBoundsRow
  <2>3. session[a][1] = a /\ session[a][2] \in Nat
    BY <1>0, TranscriptParts DEF TypeOK
  <2>4. SawOK(e, turn'[e], row'[e], session', seen')
    BY <2>1, <2>2, <2>3 DEF SawOK
  <2> QED BY <1>0, <1>1, <1>3, <2>1, <2>4
(* The row taken over has steps behind it, which its transcript saw; that  *)
(* transcript is the turn's.                                               *)
<1>5. ASSUME NEW e \in Exec, NEW o \in Exec, takeEnterpriseRunResume(e, o) PROVE Goal
  <2> DEFINE c == row[o].completed
             k == firstUnfinishedStep(turn[e].route, c)
  <2>1. /\ turn[e].stage = "inserted" /\ takeable(e, o) /\ session' = session
        /\ turn'[e].session = turn[e].session
        /\ \A f \in Exec : f # e => turn'[f] = turn[f]
        /\ \A f \in Exec : row'[f].completed = row[f].completed /\ SameLane(row'[f], row[f])
        /\ k = 0 => turn'[e].stage = "walking" /\ turn'[e].from = turn[e].from /\ seen' = seen
        /\ k # 0 => /\ turn'[e].stage = "taken" /\ turn'[e].from = o
                    /\ seen' = [s \in Transcript |->
                         IF s = turn[e].session /\ o \in seen[s] THEN seen[s] \cup {e}
                         ELSE seen[s]]
    BY <1>0, <1>5, TakeFrame
  <2>2. turn[e].route \in Route /\ Len(turn[e].route) \in Nat /\ turn[e].from = NoExec
        /\ turn[e].session \in Transcript /\ turn[e].stage \in InFlight
    BY <1>0, <2>1, RouteAssumption DEF StageBoundsRow, BlankOK, IsRoute, InFlight, Tracing
  <2>3. k # 0 => o \in seen[turn[e].session]
    <3> SUFFICES ASSUME k # 0 PROVE o \in seen[turn[e].session]
      OBVIOUS
    <3>1. k \in 2..Len(turn[e].route) /\ \A i \in 1..(k - 1) : turn[e].route[i] \in c
      BY <2>2, FirstUnfinishedBehind
    <3>2. 1 \in 1..(k - 1)
      BY <2>2, <3>1
    <3>3. c # {}
      BY <3>1, <3>2
    <3>4. row[o].status \in Final /\ row[o].session = turn[e].session
      BY <1>0, <2>1 DEF takeable, ArmedIsOver
    <3>5. row[o].status # "none"
      BY <3>4, BlankTypes
    <3> QED BY <1>0, <3>3, <3>4, <3>5 DEF SawOK
  <2>4. /\ seen' \in [Transcript -> SUBSET Exec]
        /\ \A s \in Transcript : seen[s] \subseteq seen'[s]
        /\ k # 0 => e \in seen'[turn[e].session] /\ o \in seen'[turn[e].session]
    <3> HIDE DEF k
    <3>1. CASE k = 0
      BY <1>0, <2>1, <3>1
    <3>2. CASE k # 0
      BY <1>0, <2>1, <2>2, <2>3, <3>2
    <3> QED BY <3>1, <3>2
  <2> HIDE DEF k
  <2>5. Forward(session', seen')
    BY <1>0, <2>1, <2>4, SameForward
  <2>6. \A f \in Exec : SawOK(f, turn[f], row[f], session', seen')
    BY <1>0, <2>5, SawMono
  <2>7. ASSUME NEW f \in Exec, f # e PROVE SawOK(f, turn'[f], row'[f], session', seen')
    BY <2>1, <2>6, <2>7 DEF SawOK, SameLane
  <2>8. SawOK(e, turn'[e], row'[e], session', seen')
    BY <2>1, <2>2, <2>4, <2>6 DEF SawOK, SameLane
  <2> QED BY <2>4, <2>7, <2>8
<1>6. ASSUME \/ \E o \in Exec : continueClicked(o)
             \/ \E a \in Agent : resetTranscript(a)
             \/ \E p \in Proc : localStarts(p)
             \/ tick \/ UNCHANGED vars
      PROVE  Goal
  <2>1. turn' = turn /\ row' = row /\ seen' = seen
    BY <1>0, <1>6, QuietFrame
  <2>2. Forward(session', seen')
    <3>1. CASE session' = session
      BY <1>3, <2>1, <3>1
    <3>2. ASSUME NEW a \in Agent, resetTranscript(a) PROVE Forward(session', seen')
      BY <1>0, <2>1, <3>2, RotateForward DEF resetTranscript
    <3> QED BY <1>6, <3>1, <3>2 DEF continueClicked, localStarts, tick, vars
  <2>3. \A f \in Exec : SawOK(f, turn[f], row[f], session', seen')
    BY <1>0, <2>2, SawMono
  <2> QED BY <1>0, <2>1, <2>3
<1>7. CASE requestEnterpriseRunResume
  BY <1>2, <1>7, ArmFrame
<1>8. ASSUME NEW p \in Proc, crash(p) PROVE Goal
  <2>1. /\ row' = row /\ session' = session /\ seen' = seen
        /\ \A e \in Exec : turn'[e] = turn[e] \/ turn'[e] \in {NoTurn, Gone}
    BY <1>0, <1>8, CrashFrame
  <2>2. NoTurn.stage = "none" /\ NoTurn.from = NoExec /\ Gone.stage = "gone" /\ Gone.from = NoExec
    BY DEF NoTurn, Gone
  <2> QED BY <1>0, <2>1, <2>2 DEF SawOK, InFlight, Tracing
<1>9. CASE gatewayStarts
  BY <1>2, <1>9, SweepFrame
<1>10. ASSUME NEW e \in Exec, turnDropped(e) PROVE Goal
  <2>1. /\ Others(e) /\ row' = row /\ session' = session /\ seen' = seen
        /\ turn'[e].stage = "none" /\ turn'[e].from = NoExec
    BY <1>0, <1>10, DroppedFrame
  <2>2. SawOK(e, turn'[e], row'[e], session', seen')
    BY <1>0, <2>1 DEF SawOK, InFlight, Tracing
  <2> QED BY <1>0, <1>1, <1>3, <2>1, <2>2
<1>11. ASSUME NEW e \in Exec, NEW rt \in Route, NEW at \in 1..clock,
              persistEnterpriseRunStart(e, rt, at)
       PROVE  Goal
  <2>1. /\ Others(e) /\ session' = session /\ seen' = seen /\ turn[e].stage = "planning"
        /\ turn'[e].stage = "inserted" /\ turn'[e].session = turn[e].session
        /\ turn'[e].from = turn[e].from /\ row'[e].completed = row[e].completed
        /\ \/ row'[e] = row[e]
           \/ row'[e].agent = AgentOf(e) /\ row'[e].session = turn[e].session
    BY <1>0, <1>11, StartFrame
  <2>2. /\ row[e].completed = {} /\ row[e].status = "none" /\ turn[e].from = NoExec
        /\ turn[e].session \in Transcript /\ turn[e].stage \in InFlight
    BY <1>0, <2>1 DEF BlankOK, StageBoundsRow, InFlight
  <2>3. SawOK(e, turn'[e], row'[e], session', seen')
    BY <1>0, <2>1, <2>2 DEF SawOK, AgentOf
  <2> QED BY <1>0, <1>1, <1>3, <2>1, <2>3
<1>12. ASSUME NEW e \in Exec, opensFresh(e) \/ runResumedTraced(e) PROVE Goal
  <2>1. /\ Others(e) /\ session' = session /\ seen' = seen /\ turn'[e].stage = "walking"
        /\ turn'[e].session = turn[e].session /\ turn'[e].from = turn[e].from
        /\ SameLane(row'[e], row[e]) /\ turn[e].stage \in {"inserted", "taken"}
        /\ turn[e].stage = "inserted" => row'[e] = row[e]
    BY <1>0, <1>12, OpenFrame
  <2>2. turn[e].stage \in InFlight
    BY <2>1 DEF InFlight, Tracing
  <2>3. SawOK(e, turn'[e], row'[e], session', seen')
    BY <1>0, <2>1, <2>2 DEF SawOK, SameLane
  <2> QED BY <1>0, <1>1, <1>3, <2>1, <2>3
<1>13. ASSUME NEW e \in Exec, completeEnterpriseStep(e) PROVE Goal
  <2>1. /\ Others(e) /\ session' = session /\ turn[e].stage = "walking"
        /\ turn'[e].stage = "walking" /\ turn'[e].session = turn[e].session
        /\ turn'[e].from = turn[e].from /\ SameLane(row'[e], row[e])
        /\ seen' = [seen EXCEPT ![turn[e].session] = seen[turn[e].session] \cup {e}]
    BY <1>0, <1>13, CompleteFrame
  <2>2. turn[e].stage \in InFlight /\ turn[e].session \in Transcript
    BY <1>0, <2>1 DEF InFlight, Tracing
  <2>3. /\ seen' \in [Transcript -> SUBSET Exec] /\ e \in seen'[turn[e].session]
        /\ \A s \in Transcript : seen[s] \subseteq seen'[s]
    BY <1>0, <2>1, <2>2
  <2>4. Forward(session', seen')
    BY <1>0, <2>1, <2>3, SameForward
  <2>5. SawOK(e, turn[e], row[e], session', seen')
    BY <1>0, <2>4, SawMono
  <2>6. SawOK(e, turn'[e], row'[e], session', seen')
    BY <2>1, <2>2, <2>3, <2>5 DEF SawOK, SameLane
  <2> QED BY <1>1, <2>1, <2>3, <2>4, <2>6
<1>14. ASSUME NEW e \in Exec, NEW i \in 1..Len(turn[e].route), reopenEnterpriseStep(e, i)
       PROVE  Goal
  <2>1. /\ Others(e) /\ session' = session /\ seen' = seen /\ turn[e].stage = "walking"
        /\ turn'[e].stage = "walking" /\ turn'[e].session = turn[e].session
        /\ turn'[e].from = turn[e].from /\ SameLane(row'[e], row[e])
        /\ row'[e].completed \subseteq row[e].completed
    BY <1>0, <1>14, ReopenFrame
  <2>2. SawOK(e, turn'[e], row'[e], session', seen')
    BY <1>0, <2>1 DEF SawOK, SameLane
  <2> QED BY <1>0, <1>1, <1>3, <2>1, <2>2
(* The row follows its turn to the fresh transcript, which saw what the    *)
(* one before it saw.                                                      *)
<1>15. ASSUME NEW e \in Exec, compact(e) PROVE Goal
  <2> DEFINE a == AgentOf(e)
  <2>1. /\ Others(e) /\ turn[e].stage = "walking" /\ session[a] = turn[e].session
        /\ session[a][2] < MaxSession /\ session' = [session EXCEPT ![a] = Rotated(a)]
        /\ turn'[e].stage = "walking" /\ turn'[e].from = turn[e].from
        /\ turn'[e].session = Rotated(a)
        /\ row'[e].status = row[e].status /\ row'[e].completed = row[e].completed
        /\ row'[e].agent = row[e].agent
        /\ row'[e].session = Rotated(a) \/ row[e].status = "none"
        /\ seen' = [seen EXCEPT ![Rotated(a)] = seen[session[a]]]
    BY <1>0, <1>15, CompactFrame
  <2>2. turn[e].stage \in InFlight /\ turn[e].session \in Transcript
    BY <1>0, <2>1 DEF InFlight, Tracing
  <2>3. a \in Agent /\ turn[e].session[1] = a
    BY <2>2, TranscriptParts DEF AgentOf
  <2> HIDE DEF a
  <2>4. Rotated(a) \in Transcript => /\ seen' \in [Transcript -> SUBSET Exec]
                                     /\ seen'[Rotated(a)] = seen[turn[e].session]
    BY <1>0, <2>1, <2>2
  <2>5. \A s \in Transcript : s # Rotated(a) => seen[s] \subseteq seen'[s]
    BY <1>0, <2>1
  <2>6. /\ Rotated(a) \in Transcript /\ Rotated(a)[1] = a
        /\ Rotated(a)[2] = session[a][2] + 1 /\ session'[a] = Rotated(a)
        /\ Forward(session', seen')
    BY <1>0, <2>1, <2>3, <2>5, RotateForward
  <2>7. Rotated(a)[2] \in Nat
    BY <2>6, TranscriptParts
  <2>8. row[e].status # "none" => /\ row[e].agent = a /\ row[e].session = turn[e].session
                                  /\ row[e].completed # {} => e \in seen[turn[e].session]
    BY <1>0, <2>2, <2>3 DEF SawOK
  <2>9. turn[e].from # NoExec => turn[e].from \in seen[turn[e].session]
    BY <1>0 DEF SawOK
  <2>10. SawOK(e, turn'[e], row'[e], session', seen')
    BY <2>1, <2>4, <2>6, <2>7, <2>8, <2>9 DEF SawOK
  <2> QED BY <1>1, <2>1, <2>4, <2>6, <2>10
<1>16. ASSUME NEW e \in Exec, (\E st \in Outcome \cup {"blocked"} : appendRunEnded(e, st))
                              \/ finalizeEnterpriseRun(e)
       PROVE  Goal
  <2>1. /\ Others(e) /\ session' = session /\ seen' = seen
        /\ \/ turn'[e].stage = "closing" /\ turn[e].stage \in {"inserted", "walking"}
           \/ turn'[e].stage = "gone" /\ turn'[e].from = NoExec
        /\ turn'[e].from \in {turn[e].from, NoExec}
        /\ turn'[e].stage = "closing" => turn'[e].session = turn[e].session
        /\ SameLane(row'[e], row[e]) /\ row'[e].completed = row[e].completed
    BY <1>16, CloseFrame
  <2>2. SawOK(e, turn'[e], row'[e], session', seen')
    BY <1>0, <2>1 DEF SawOK, SameLane, InFlight, Tracing
  <2> QED BY <1>0, <1>1, <1>3, <2>1, <2>2
<1> QED
  BY <1>4, <1>5, <1>6, <1>7, <1>8, <1>9, <1>10, <1>11, <1>12, <1>13, <1>14, <1>15, <1>16 DEF Next

(* As long as no adoption is lost, a resumed turn runs in a conversation   *)
(* that saw the steps it skips: the take compares transcripts, and the row *)
(* of a run that compacts moves after its turn                             *)
(* (adoptEnterpriseRunTranscript).                                         *)
THEOREM TraceConversationSawSteps ==
  ASSUME "adopt" \notin Lossy
  PROVE  Spec => []ConversationSawSteps
<1>1. Init => BeginIsBlank /\ SawInv
  BY DEF Init, BeginIsBlank, SawInv, SawOK, NoTurn, NoRow, InFlight, Tracing
<1>2. IInv /\ BeginIsBlank /\ SawInv /\ [Next]_vars => BeginIsBlank' /\ SawInv'
  BY BlankStep, SawStep
<1>3. SawInv => ConversationSawSteps
  BY DEF SawInv, SawOK, ConversationSawSteps
<1> QED BY <1>1, <1>2, <1>3, TraceInvariant, PTL DEF Spec
=============================================================================
