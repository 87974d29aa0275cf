------------------------------ MODULE RunTrace ------------------------------
(***************************************************************************)
(* The durable trace of governed executions (trace-store.sqlite.ts) and    *)
(* what survives of them: crash recovery and the operator's "Continue this *)
(* run".  A gateway and `openclaw agent --local' processes share the       *)
(* database, so every write transaction is a step of its own and the       *)
(* processes interleave and crash between any two of them.  Writes made    *)
(* under persistTrace may fail and the run goes on.                        *)
(*                                                                         *)
(* All agents share one session key (session.scope "global"), so a marker  *)
(* lane is an agent.  `row' is a table row with its event log summarised   *)
(* to what readers of it use: the completed steps a replay yields, and the *)
(* statuses of its run.ended events.                                       *)
(***************************************************************************)
EXTENDS StepRoute

CONSTANTS Exec, Proc, Gateway, Agent, Node, Route, treeOf,
          NoExec,
          StartTimeKnown,  \* getProcessStartTime answers (Linux)
          Outcome,         \* the statuses endEnterpriseRun is given
          Lossy,           \* the writes that may fail
          MaxReopens, MaxClock, MaxStarts, MaxSession  \* bounds

WriteKinds ==
  {"start", "resumed", "completed", "reopened", "adopt", "ended", "finalize", "sweep"}
Final == Outcome \cup {"aborted", "blocked"}
NoRoute == << >>

ASSUME ExecAssumption ==
  NoExec \notin Exec /\ IsFiniteSet(Exec) /\ Gateway \in Proc /\ Agent # {}
ASSUME RouteAssumption == \A r \in Route : IsRoute(r, Node)
ASSUME BoundAssumption ==
  /\ MaxReopens \in Nat /\ MaxClock \in Nat /\ MaxStarts \in Nat /\ MaxSession \in Nat \ {0}
  /\ StartTimeKnown \in BOOLEAN /\ Lossy \subseteq WriteKinds
  /\ Outcome \cap {"none", "running"} = {}

VARIABLES clock,     \* Date.now(), the same for every process of the host
          proc,      \* process slots: alive, and the start time of the incarnation
          session,   \* the transcript of an agent's conversation
          turn,      \* in memory: the execution of a turn
          row,       \* enterprise_runs and enterprise_run_events of an execution
          ask,       \* the gateway's enterprise.runs.resume handler, before its transaction
          seen,      \* observed: executions whose steps, carried ones too, a transcript saw
          claims,    \* observed: takes of a row since it was armed
          chain      \* observed: what a run and those it continues did to their steps

observed == <<seen, claims, chain>>
vars == <<clock, proc, session, turn, row, ask, seen, claims, chain>>

(* A transcript id names the agent whose conversation it holds.            *)
Transcript == Agent \X (1..MaxSession)
Tracing == {"inserted", "taken", "walking"}
InFlight == {"planning", "closing"} \cup Tracing

-----------------------------------------------------------------------------
NoTurn == [stage |-> "none", proc |-> Gateway, start |-> 0, session |-> << >>,
           startedAt |-> 0, clicked |-> {}, route |-> NoRoute, cursor |-> 0, reopens |-> 0,
           from |-> NoExec, carried |-> {}, verdict |-> "none"]
Gone == [NoTurn EXCEPT !.stage = "gone"]
NoRow == [status |-> "none", agent |-> NoExec, session |-> << >>, proc |-> Gateway, start |-> 0,
          route |-> NoRoute, createdAt |-> 0, marker |-> 0, completed |-> {}, ended |-> << >>]
NoAsk == [exec |-> NoExec, active |-> << >>, armedAt |-> 0]

(* `sound': done and not built on a step corrected since; `stale': done,   *)
(* and built on a corrected step, but no event took it back; `forgot': the *)
(* record of a correction was lost.                                        *)
NewChain(routes) == [routes |-> routes, sound |-> {}, stale |-> {}, forgot |-> FALSE]

Init ==
  /\ clock = 1
  /\ proc = [p \in Proc |-> [alive |-> p = Gateway, start |-> IF p = Gateway THEN 1 ELSE 0]]
  /\ session = [a \in Agent |-> <<a, 1>>]
  /\ turn = [e \in Exec |-> NoTurn]
  /\ row = [e \in Exec |-> NoRow]
  /\ ask = NoAsk
  /\ seen = [s \in Transcript |-> {}]
  /\ claims = [e \in Exec |-> 0]
  /\ chain = [e \in Exec |-> NewChain({})]

AgentOf(e) == turn[e].session[1]
CurrentTurns == {e \in Exec : turn[e].stage \in InFlight}

(* runOpenClawStateWriteTransaction under persistTrace: the write takes    *)
(* effect, or it fails and is logged.                                      *)
Persist(kind, e, written) ==
  row' \in {[row EXCEPT ![e] = written]} \cup (IF kind \in Lossy THEN {row} ELSE {})

(* Whether a write of this kind, made under persistTrace, took effect.     *)
Written(kind) == IF kind \in Lossy THEN BOOLEAN ELSE {TRUE}

(* Observed by an arriving turn: the executions "Continue" was clicked on. *)
ArmedOrAsked == {o \in Exec : row[o].marker # 0 \/ ask.exec = o}

(* A turn reaches beginEnterpriseRun.  Turns of one conversation are       *)
(* queued within a process only.                                           *)
turnArrives(e, p, a) ==
  /\ turn[e].stage = "none" /\ proc[p].alive
  /\ ~ \E f \in CurrentTurns : turn[f].proc = p /\ AgentOf(f) = a
  /\ turn' = [turn EXCEPT ![e] = [NoTurn EXCEPT !.stage = "planning", !.proc = p,
                !.start = proc[p].start, !.session = session[a],
                !.startedAt = clock, !.clicked = ArmedOrAsked]]
  /\ UNCHANGED <<clock, proc, session, row, ask, observed>>

(* The begin ends without a run: refused, clarified or cancelled.  The     *)
(* execution id is drawn after planning, so it is still free.              *)
turnDropped(e) ==
  /\ turn[e].stage = "planning"
  /\ turn' = [turn EXCEPT ![e] = NoTurn]
  /\ UNCHANGED <<clock, proc, session, row, ask, observed>>

(* persistEnterpriseRunStart, once route r is planned; the plan was dated  *)
(* `at', somewhere between the turn's arrival and this write.              *)
persistEnterpriseRunStart(e, r, at) ==
  /\ turn[e].stage = "planning" /\ at \in turn[e].startedAt..clock
  /\ turn' = [turn EXCEPT ![e] = [@ EXCEPT !.stage = "inserted", !.route = r]]
  /\ Persist("start", e,
       [row[e] EXCEPT !.status = "running", !.agent = AgentOf(e), !.session = turn[e].session,
                      !.proc = turn[e].proc, !.start = turn[e].start, !.route = r,
                      !.createdAt = at])
  /\ chain' = [chain EXCEPT ![e] = NewChain({r})]
  /\ UNCHANGED <<clock, proc, session, ask, seen, claims>>

(* Mutants: the turn is dated by its plan; the transcript is not compared. *)
takeable_PlanTime(e, o) ==
  /\ row[o].marker # 0 /\ row[o].marker < row[e].createdAt
  /\ row[o].session = turn[e].session /\ treeOf[row[o].route] = treeOf[turn[e].route]
takeable_AnyTranscript(e, o) ==
  /\ row[o].marker # 0 /\ row[o].marker < turn[e].startedAt
  /\ row[o].agent = AgentOf(e) /\ treeOf[row[o].route] = treeOf[turn[e].route]

(* The armed rows a turn may consume.                                      *)
takeable(e, o) ==
  /\ row[o].marker # 0 /\ row[o].marker < turn[e].startedAt
  /\ row[o].agent = AgentOf(e) /\ row[o].session = turn[e].session
  /\ treeOf[row[o].route] = treeOf[turn[e].route]

newestTakeable(e) ==
  {o \in Exec : /\ takeable(e, o)
                /\ \A q \in Exec : takeable(e, q) => row[q].createdAt <= row[o].createdAt}

consumed(r) == [r EXCEPT !.marker = 0]

(* The walk opens at k; what only the begin knew is gone.                  *)
Opened(t, k) == [t EXCEPT !.stage = "walking", !.cursor = k, !.startedAt = 0, !.carried = {},
                          !.clicked = {}]

Continued(c, r) == [c EXCEPT !.routes = @ \cup {r}]

(* takeEnterpriseRunResume and the opening of the walk.                    *)
takeEnterpriseRunResume(e, o) ==
  LET c == row[o].completed
      k == firstUnfinishedStep(turn[e].route, c)
  IN  /\ turn[e].stage = "inserted"
      /\ o \in newestTakeable(e)
      /\ row' = [row EXCEPT ![o] = consumed(@)]
      /\ claims' = [claims EXCEPT ![o] = @ + 1]
      /\ IF k = 0
         THEN /\ turn' = [turn EXCEPT ![e] = Opened(@, 1)]
              /\ UNCHANGED <<seen, chain>>
         ELSE /\ turn' = [turn EXCEPT ![e] = [@ EXCEPT !.stage = "taken", !.cursor = k,
                                                       !.from = o, !.carried = c]]
              /\ chain' = [chain EXCEPT ![e] = Continued(chain[o], turn[e].route)]
              /\ seen' = [s \in Transcript |->
                   IF s = turn[e].session /\ o \in seen[s] THEN seen[s] \cup {e} ELSE seen[s]]
      /\ UNCHANGED <<clock, proc, session, ask>>

(* Nothing armed for this turn, a turn that never takes (background,       *)
(* hidden, a runtime continuation) or a failed read: the walk opens on its *)
(* first step.                                                             *)
opensFresh(e) ==
  /\ turn[e].stage = "inserted"
  /\ turn' = [turn EXCEPT ![e] = Opened(@, 1)]
  /\ UNCHANGED <<clock, proc, session, row, ask, observed>>

Logged(e, event) == [row[e] EXCEPT !.completed = ReplayEvent(@, event)]

(* The run.resumed event, in a transaction after the take.                 *)
runResumedTraced(e) ==
  /\ turn[e].stage = "taken"
  /\ turn' = [turn EXCEPT ![e] = Opened(@, @.cursor)]
  /\ Persist("resumed", e, Logged(e, [kind |-> "run.resumed", steps |-> turn[e].carried]))
  /\ UNCHANGED <<clock, proc, session, ask, observed>>

Done(c, steps) == [c EXCEPT !.sound = @ \cup steps, !.stale = @ \ steps]

(* complete_step; a cursor past the route is routeCompleted.               *)
completeEnterpriseStep(e) ==
  LET done == {turn[e].route[turn[e].cursor]}
  IN  /\ turn[e].stage = "walking" /\ turn[e].cursor <= Len(turn[e].route)
      /\ turn' = [turn EXCEPT ![e] = [@ EXCEPT !.cursor = turn[e].cursor + 1]]
      /\ Persist("completed", e, Logged(e, [kind |-> "node.completed", steps |-> done]))
      /\ chain' = [chain EXCEPT ![e] = Done(@, done)]
      /\ seen' = [seen EXCEPT ![turn[e].session] = @ \cup {e}]
      /\ UNCHANGED <<clock, proc, session, ask, claims>>

(* m, and the steps that one of the routes visits after m.                 *)
BuiltOn(routes, m) ==
  {m} \cup {n \in Node : \E r \in routes : \E i, j \in 1..Len(r) : i < j /\ r[i] = m /\ r[j] = n}

(* A correction of step m on route r undoes what any route of the chain    *)
(* built on m; its event, if written, takes back the part that r visits.   *)
Corrected(c, r, m, written) ==
  LET undone == BuiltOn(c.routes, m)
      takenBack == IF written THEN BuiltOn({r}, m) ELSE {}
  IN  [c EXCEPT !.sound = @ \ undone, !.stale = (@ \cup (c.sound \cap undone)) \ takenBack,
                !.forgot = @ \/ ~written]

reopenEnterpriseStep(e, i) ==
  /\ turn[e].stage = "walking" /\ i < turn[e].cursor /\ turn[e].reopens < MaxReopens
  /\ turn' = [turn EXCEPT ![e] = [@ EXCEPT !.cursor = i, !.reopens = turn[e].reopens + 1]]
  /\ \E written \in Written("reopened") :
       /\ row' = IF written
                 THEN [row EXCEPT ![e] = Logged(e, [kind |-> "node.reopened",
                                                    steps |-> Invalidated(turn[e].route, i)])]
                 ELSE row
       /\ chain' = [chain EXCEPT ![e] = Corrected(@, turn[e].route, turn[e].route[i], written)]
  /\ UNCHANGED <<clock, proc, session, ask, seen, claims>>

Rotated(a) == <<a, session[a][2] + 1>>

(* A compaction rotates the transcript of a running conversation and       *)
(* adoptEnterpriseRunTranscript moves the row after it.                    *)
compact(e) ==
  LET a == AgentOf(e)
  IN  /\ turn[e].stage = "walking" /\ session[a] = turn[e].session /\ session[a][2] < MaxSession
      /\ session' = [session EXCEPT ![a] = Rotated(a)]
      /\ turn' = [turn EXCEPT ![e] = [@ EXCEPT !.session = Rotated(a)]]
      /\ Persist("adopt", e, IF row[e].status = "none" THEN row[e]
                             ELSE [row[e] EXCEPT !.session = Rotated(a)])
      /\ seen' = [seen EXCEPT ![Rotated(a)] = seen[session[a]]]
      /\ UNCHANGED <<clock, proc, ask, claims, chain>>

(* /new or /reset.                                                         *)
resetTranscript(a) ==
  /\ session[a][2] < MaxSession
  /\ session' = [session EXCEPT ![a] = Rotated(a)]
  /\ UNCHANGED <<clock, proc, turn, row, ask, observed>>

-----------------------------------------------------------------------------
(* endEnterpriseRun, first transaction: run.ended is appended.  A denied   *)
(* run start ends before its walk opens.                                   *)
appendRunEnded(e, status) ==
  /\ turn[e].stage \in (IF status = "blocked" THEN {"inserted"} ELSE {"walking"})
  /\ turn' = [turn EXCEPT ![e] = [@ EXCEPT !.stage = "closing", !.verdict = status]]
  /\ Persist("ended", e, [row[e] EXCEPT !.ended = Append(@, status)])
  /\ UNCHANGED <<clock, proc, session, ask, observed>>

(* Second transaction.                                                     *)
finalizeEnterpriseRun(e) ==
  /\ turn[e].stage = "closing"
  /\ turn' = [turn EXCEPT ![e] = Gone]
  /\ Persist("finalize", e, IF row[e].status = "none" THEN row[e]
                            ELSE [row[e] EXCEPT !.status = turn[e].verdict])
  /\ UNCHANGED <<clock, proc, session, ask, observed>>

(* A process dies: what it held in memory is gone.  Only crashes that the  *)
(* bound lets a restart follow are explored.                               *)
crash(p) ==
  /\ proc[p].alive /\ proc[p].start < MaxStarts
  /\ proc' = [proc EXCEPT ![p].alive = FALSE]
  /\ turn' = [e \in Exec |-> IF turn[e].proc = p /\ turn[e].stage \in InFlight
                             THEN IF turn[e].stage = "planning" THEN NoTurn ELSE Gone
                             ELSE turn[e]]
  /\ ask' = IF p = Gateway THEN NoAsk ELSE ask
  /\ UNCHANGED <<clock, session, row, observed>>

Started(p) == [proc EXCEPT ![p] = [alive |-> TRUE, start |-> proc[p].start + 1]]

localStarts(p) ==
  /\ p # Gateway /\ ~proc[p].alive /\ proc[p].start < MaxStarts
  /\ proc' = Started(p)
  /\ UNCHANGED <<clock, session, turn, row, ask, observed>>

(* The pid is dead, or is now worn by another incarnation.                 *)
isOwnerTokenGone(r, procs) ==
  ~procs[r.proc].alive \/ (StartTimeKnown /\ procs[r.proc].start # r.start)

(* Mutant: recovery always writes its own verdict.                         *)
recovered_Overwrites(r) == [r EXCEPT !.status = "aborted", !.ended = Append(@, "aborted")]

(* An orphan that had already ended keeps its own verdict.                 *)
recovered(r) ==
  IF r.ended = << >> THEN [r EXCEPT !.status = "aborted", !.ended = <<"aborted">>]
  ELSE [r EXCEPT !.status = r.ended[Len(r.ended)]]

abortOrphanedEnterpriseRuns(procs) ==
  [e \in Exec |-> IF row[e].status = "running" /\ isOwnerTokenGone(row[e], procs)
                  THEN recovered(row[e]) ELSE row[e]]

(* The gateway starts and sweeps before it serves; a failed sweep is       *)
(* logged.                                                                 *)
gatewayStarts ==
  /\ ~proc[Gateway].alive /\ proc[Gateway].start < MaxStarts
  /\ proc' = Started(Gateway)
  /\ row' \in {abortOrphanedEnterpriseRuns(Started(Gateway))}
              \cup (IF "sweep" \in Lossy THEN {row} ELSE {})
  /\ UNCHANGED <<clock, session, turn, ask, observed>>

-----------------------------------------------------------------------------
(* enterpriseRunResumeRefusal: "none" stands for null.                     *)
enterpriseRunResumeRefusal(r) ==
  IF r.status = "running" THEN "still-running"
  ELSE IF r.completed = {} THEN "no-steps-completed"
  ELSE IF firstUnfinishedStep(r.route, r.completed) = 0 THEN "route-complete"
  ELSE "none"

enterpriseRunTranscriptRotated(o) ==
  \E f \in Exec : /\ row[f].status # "none" /\ row[f].agent = row[o].agent
                  /\ row[f].createdAt > row[o].createdAt /\ row[f].session # row[o].session

(* enterprise.runs.resume: the handler reads the session owner's           *)
(* transcript and the clock, then enters the store.  A caller whose own    *)
(* token is not the row's transcript is refused, which changes nothing.    *)
continueClicked(o) ==
  /\ proc[Gateway].alive /\ ask = NoAsk
  /\ row[o].status # "none"
  /\ ask' = [exec |-> o, active |-> session[row[o].agent], armedAt |-> clock]
  /\ UNCHANGED <<clock, proc, session, turn, row, observed>>

resumeAccepted(o, active) ==
  /\ enterpriseRunResumeRefusal(row[o]) = "none"
  /\ row[o].session = active
  /\ ~enterpriseRunTranscriptRotated(o)

(* Mark o and clear every other pending marker of its lane.                *)
armed(o, at) ==
  [e \in Exec |-> IF e = o THEN [row[e] EXCEPT !.marker = at]
                  ELSE IF row[e].marker # 0 /\ row[e].agent = row[o].agent
                  THEN [row[e] EXCEPT !.marker = 0] ELSE row[e]]

requestEnterpriseRunResume ==
  LET o == ask.exec
  IN  /\ o # NoExec
      /\ ask' = NoAsk
      /\ IF resumeAccepted(o, ask.active)
         THEN /\ row' = armed(o, ask.armedAt)
              /\ claims' = [claims EXCEPT ![o] = 0]
         ELSE UNCHANGED <<row, claims>>
      /\ UNCHANGED <<clock, proc, session, turn, seen, chain>>

tick ==
  /\ clock < MaxClock
  /\ clock' = clock + 1
  /\ UNCHANGED <<proc, session, turn, row, ask, observed>>

(* The resume handler has no await between its read and its transaction:   *)
(* the gateway does nothing else meanwhile, the other processes may.       *)
Responsive(p) == p = Gateway => ask = NoAsk

Next ==
  \/ \E e \in Exec, p \in Proc, a \in Agent : Responsive(p) /\ turnArrives(e, p, a)
  \/ \E e \in Exec :
       /\ Responsive(turn[e].proc)
       /\ \/ \E r \in Route, at \in 1..clock : persistEnterpriseRunStart(e, r, at)
          \/ \E o \in Exec : takeEnterpriseRunResume(e, o)
          \/ \E i \in 1..Len(turn[e].route) : reopenEnterpriseStep(e, i)
          \/ \E st \in Outcome \cup {"blocked"} : appendRunEnded(e, st)
          \/ turnDropped(e) \/ opensFresh(e) \/ runResumedTraced(e)
          \/ completeEnterpriseStep(e) \/ compact(e) \/ finalizeEnterpriseRun(e)
  \/ \E e \in Exec : continueClicked(e)
  \/ \E a \in Agent : resetTranscript(a)
  \/ \E p \in Proc : crash(p) \/ localStarts(p)
  \/ gatewayStarts \/ requestEnterpriseRunResume \/ tick

Spec == Init /\ [][Next]_vars

-----------------------------------------------------------------------------
TurnType ==
  [stage : {"none", "gone"} \cup InFlight, proc : Proc, start : Nat,
   session : Transcript \cup {<< >>}, startedAt : Nat, clicked : SUBSET Exec,
   route : Route \cup {NoRoute}, cursor : Nat, reopens : Nat, from : Exec \cup {NoExec},
   carried : SUBSET Node, verdict : Final \cup {"none"}]
RowType ==
  [status : {"none", "running"} \cup Final, agent : Agent \cup {NoExec},
   session : Transcript \cup {<< >>}, proc : Proc, start : Nat, route : Route \cup {NoRoute},
   createdAt : Nat, marker : Nat, completed : SUBSET Node, ended : Seq(Final)]

(* Types of the processes, the turns and the trace.                        *)
TypeOK ==
  /\ clock \in Nat \ {0}
  /\ proc \in [Proc -> [alive : BOOLEAN, start : Nat]]
  /\ session \in [Agent -> Transcript]
  /\ turn \in [Exec -> TurnType]
  /\ row \in [Exec -> RowType]
  /\ ask \in [exec : Exec \cup {NoExec}, active : Transcript \cup {<< >>}, armedAt : Nat]
  /\ claims \in [Exec -> Nat]
  /\ \A a \in Agent : session[a][1] = a

(* An agent's lane has one pending continuation at most, whoever arms and  *)
(* takes concurrently.                                                     *)
OneMarkerPerLane ==
  \A e, f \in Exec : row[e].marker # 0 /\ row[f].marker # 0 /\ row[e].agent = row[f].agent => e = f

(* An execution's event log never holds two terminal events, and its row   *)
(* never contradicts the one it holds, across crashes between the two      *)
(* writes of an end, lost writes and the recovery sweep.                   *)
VerdictStands ==
  \A e \in Exec :
     /\ Len(row[e].ended) <= 1
     /\ row[e].status \in Final /\ row[e].ended # << >> => row[e].status = row[e].ended[1]

(* Startup recovery never closes the row of an execution that some live    *)
(* process is still running.                                               *)
LiveRowIsOpen ==
  \A e \in Exec : turn[e].stage \in Tracing => row[e].status \notin Final

(* One click continues a run at most once, even with two processes         *)
(* starting turns in the conversation.                                     *)
ContinuedOnce == \A e \in Exec : claims[e] <= 1

(* The clicks a begin finds dated before it are the ones it saw on         *)
(* arrival: what makes NextRequestOnly inductive.                          *)
OlderClickIsKnown ==
  \A e \in Exec : turn[e].stage \in {"planning", "inserted"} =>
     /\ turn[e].startedAt <= clock
     /\ \A o \in Exec :
          \/ row[o].marker # 0 /\ row[o].marker < turn[e].startedAt
          \/ ask.exec = o /\ ask.armedAt < turn[e].startedAt
          => o \in turn[e].clicked

(* A turn that was already under way when the operator clicked never takes *)
(* the continuation, however long its planning took.                       *)
NextRequestOnly ==
  /\ \A e \in Exec : turn[e].stage = "taken" => turn[e].from \in turn[e].clicked
  /\ OlderClickIsKnown

(* A resumed turn runs in a conversation that saw the steps it skips.      *)
(* Checked with two processes, and proved for any number as long as no     *)
(* adoption is lost.  Beyond both it fails: if the write of an adoption    *)
(* fails (adoptEnterpriseRunTranscript), the row keeps a transcript that a *)
(* turn of a third process may still hold, and the take succeeds there     *)
(* though the steps were done on a later transcript.                       *)
ConversationSawSteps ==
  \A e \in Exec : turn[e].from # NoExec => turn[e].from \in seen[turn[e].session]

(* A marker stands only on an execution that is over.                      *)
ArmedIsOver == \A e \in Exec : row[e].marker # 0 => row[e].status \in Final

(* The strengthening that makes these inductive: where a turn stands       *)
(* bounds what its row and log can say, and a turn in flight belongs to    *)
(* the incarnation its row names.                                          *)
StageBoundsRow ==
  \A e \in Exec :
     LET t == turn[e] r == row[e]
     IN  /\ t.stage \in {"none", "planning"} => r.status = "none" /\ r.ended = << >>
         /\ t.stage \in Tracing => r.status \notin Final /\ r.ended = << >>
         /\ t.stage = "closing" => /\ r.status \notin Final /\ t.verdict \in Final
                                   /\ r.ended \in {<< >>, <<t.verdict>>}
         /\ t.stage \in {"taken", "walking"} => t.route \in Route /\ t.cursor >= 1
         /\ t.stage = "inserted" => t.route \in Route
         /\ t.stage \in InFlight => t.session \in Transcript
         /\ r.status # "none" => r.agent \in Agent

OwnerIsAlive ==
  \A e \in Exec : turn[e].stage \in InFlight =>
     /\ proc[turn[e].proc] = [alive |-> TRUE, start |-> turn[e].start]
     /\ row[e].status = "running" => row[e].proc = turn[e].proc /\ row[e].start = turn[e].start

PendingIsUnclaimed ==
  /\ \A e \in Exec : row[e].marker # 0 => claims[e] = 0
  /\ ask.exec # NoExec => row[ask.exec].status # "none" /\ ask.armedAt # 0

(* The inductive invariant: whatever write is lost and wherever a process  *)
(* crashes, a trace has one verdict that its row does not contradict, a    *)
(* lane has one pending continuation, a click is consumed at most once,    *)
(* and no row of an execution in flight is closed by the recovery of       *)
(* another process (abortOrphanedEnterpriseRuns, takeEnterpriseRunResume). *)
IInv == /\ TypeOK /\ OneMarkerPerLane /\ VerdictStands /\ ContinuedOnce /\ ArmedIsOver
        /\ StageBoundsRow /\ OwnerIsAlive /\ PendingIsUnclaimed

(* The chain kept to one route and lost no record of a correction.         *)
Steady(c) == ~c.forgot /\ \A r, s \in c.routes : r = s

DoneBy(c) == c.sound \cup c.stale

(* What a walk has behind its cursor was done by its chain and taken back  *)
(* by no event since.  Unless the route changed or the record of a         *)
(* correction was lost, nor is it built on a step corrected since.         *)
SkipsOnlySoundWork ==
  \A e \in Exec : turn[e].stage \in Tracing =>
     \A i \in 1..(turn[e].cursor - 1) :
        /\ turn[e].route[i] \in DoneBy(chain[e])
        /\ Steady(chain[e]) => turn[e].route[i] \in chain[e].sound

(* "route-complete" is said only of a run with no step left to do, unless  *)
(* its log counts steps of another route of the chain, or lost the record  *)
(* of the route's first step.                                              *)
RefusalIsHonest ==
  \A e \in Exec :
     LET r == row[e]
     IN  enterpriseRunResumeRefusal(r) = "route-complete" /\ r.status # "none" =>
           \/ StepSet(r.route) \subseteq r.completed
           \/ ~(r.completed \subseteq StepSet(r.route))
           \/ r.route[1] \in DoneBy(chain[e]) \ r.completed

(* What a begin has not written yet is blank.                              *)
BeginIsBlank ==
  \A e \in Exec :
     LET t == turn[e]
     IN  /\ t.stage \in {"none", "planning", "inserted", "taken"} => row[e].completed = {}
         /\ t.stage \in {"none", "planning", "inserted"} => t.cursor = 0
         /\ t.stage \notin {"taken", "walking", "closing"} => t.from = NoExec

ChainType == [routes : SUBSET Route, sound : SUBSET Node, stale : SUBSET Node, forgot : BOOLEAN]

(* A replayed log holds only work that no event took back, and so does     *)
(* what is carried over; a steady chain has no other.                      *)
LogIsSound ==
  /\ chain \in [Exec -> ChainType]
  /\ \A e \in Exec :
       /\ row[e].completed \subseteq DoneBy(chain[e])
       /\ turn[e].stage = "taken" => turn[e].carried \subseteq DoneBy(chain[e])
       /\ turn[e].stage \in Tracing => turn[e].route \in chain[e].routes
       /\ Steady(chain[e]) => chain[e].stale = {}

(* A log that tells of its own route only is of a walk whose first step    *)
(* was done.                                                               *)
LogHasHead ==
  \A e \in Exec :
     LET t == turn[e] r == row[e]
     IN  /\ t.stage = "taken" => t.cursor >= 2
         /\ t.stage \in Tracing /\ r.status # "none" => r.route = t.route
         /\ r.status # "none" =>
               /\ r.route \in Route
               /\ r.completed # {} /\ r.completed \subseteq StepSet(r.route)
                  => r.route[1] \in DoneBy(chain[e])

(* Over a chain of continuations the replay of its logs is neither too     *)
(* generous nor too strict, whichever writes of the trace are lost and     *)
(* whatever routes of the work-map the runs are planned on: what a         *)
(* continued walk skips was done and taken back by no event, and is sound  *)
(* unless the route changed within the chain or the record of a correction *)
(* was lost; and a run is refused as complete only if nothing of it is     *)
(* left, unless its log counts another route's steps or lost the record of *)
(* its first step, a lost run.resumed above all                            *)
(* (cumulativeCompletedNodeIds, enterpriseRunResumeRefusal).  The last     *)
(* three parts are what makes it inductive.                                *)
ChainSound ==
  /\ SkipsOnlySoundWork /\ RefusalIsHonest
  /\ BeginIsBlank /\ LogIsSound /\ LogHasHead
=============================================================================
