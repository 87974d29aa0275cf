# ClawWorks: TLA+ models, checks and proofs

ClawWorks adds a governed work layer to the OpenClaw agent gateway: a request is
routed onto a *work-map* (a tree of nodes), the agent walks the steps of the
chosen route, every tool call is judged by the policies of the step it is on,
and everything is traced so that an operator can audit, correct and continue a
run. The code is `src/src/enterprise/` with its callers in `src/src/agents/` and
`src/src/gateway/`, and it stands on the gateway's own lanes, lock, approvals
and delivery queue. This directory holds models of the parts that keep state
across awaits, processes and crashes, the TLC runs that check them on small
instances, and TLAPS proofs for every instance.

## 1. Inventory

| Component | State it keeps | Operations | What is hard, what makes it correct |
|---|---|---|---|
| Step walk (`runtime.ts`, `plan.ts`) | `plan.activeNodeId`, `routeCompleted`, `reopenCount` of a run; the event log | open (fresh or resumed), `complete_step`, `reopen_step`, end | events whose write is lost, chains of resumes, a bounded number of corrections; the cursor never stands past unfinished work and a resume never skips any |
| Run mediation and registry (`run-mediation.ts`, `active-runs.ts`) | `pendingBegins`, `mediatedRuns`, `activeRuns`, session-to-run index | begin (join, reuse, plan, read skills, register), transcript adoption, end | two awaits in a begin, ends outside the session lane, recurring run ids; the index names only live runs, no trace row stays open unowned |
| Dispatch wrapper, lane watchdog (`enterprise-model-dispatch.ts`, embedded runner) | abort controllers | admit, time out, cancel, finalize once | a timeout that rejects a task that goes on running |
| Trace store and resume (`trace-store.sqlite.ts`) | `enterprise_runs`, `enterprise_run_events` | insert, append, finalize, startup sweep, session update, arm, take | a database shared by processes that crash between two writes, pid reuse, one-shot markers; one verdict per run, one consumer per click |
| Command lanes (`process/command-queue.ts`) | queues, active tasks, generation, waiters | enqueue, pump, time out, abort, release, widen, clear, reset, drain | tasks that end after their timeout or after a reset; no slot leaks, none idles while work waits |
| Tool gate and approvals (`agent-tools.before-tool-call.ts`, `runtime.ts`, native bridge) | the verdict of a call across the hook chain and its approvals | judge, revise, ask, defer, finalize the release | state read before an await and used after it; a call is released only under the run and the policy that are current |
| Governance (`governance.ts`) | none | evaluate a tool call, a step tool and a run start | four layers in a row, precedence of effects, what the step's scope omits |
| Route planner and plan (`packages/enterprise-planner`, `plan.ts`, planner runtimes) | none beyond the call | pre-check, classify, ask, resolve, select, build the plan | deadlines, providers that never answer, unusable answers; a denied tree is never shown, a run executes what was answered |
| Gateway lock and run loop (`gateway-lock.ts`, `run-loop.ts`) | lock file, port, the loop's pending request | acquire, reclaim, release, start, restart, stop | death at any step, two processes, a request during a start; a service that is supervised comes back |
| Outbound delivery queue (`infra/outbound/*`) | durable rows, in-memory claims | enqueue, mark, send, ack, fail, recover, drain | crash between the platform call and the record of it, three owners of one entry; what is out is not sent again, nothing stays pending |
| Gateway approvals, forwarder (`exec-approval-manager.ts`, `server-methods/*approval*.ts`, `exec-approval-forwarder.ts`) | records with timers, request and wait handlers, chat prompts | request, wait, resolve, abort, expire, sweep, run on a node | recurring ids, retries, one-time use, a decision that overtakes its prompt |
| Ontology actions, object store (`ontology-*.ts`, `object-store.sqlite.ts`) | objects and links of a work-map | action with parameters and effects, import, removal | one of several effects failing, definitions that change under a run |
| Tree store, registry, bundles (`tree-store.sqlite.ts`, `tree-registry.ts`, `tree-io.ts`, `bundle-io.ts`) | stored definition, history, bundled knowledge, registry snapshot | save, remove, import reviewed bundle, refresh | a CLI that writes beside the gateway; nobody's change is overwritten unseen |
| Gateway methods, CLI, Control UI | none of their own | validate and call the above | |
| Policy compilation, skills, MCP names, schemas, text safety, expressions, built-ins | none | pure or I/O | |

How they interact: a message enters a command lane; its runner calls
`beginEnterpriseRun` before the turn, which asks the route planner, and
`finishEnterpriseMediation` after it. The tool gate and the loopback server look
the run up in the registry at every call, ask governance, and ask a human
through the gateway's approvals and their forwarder. `complete_step` and
`reopen_step` move the run's cursor and emit events into its sink, which writes
the trace; ontology actions write objects of the work-map the run was planned
against, which the tree store may replace meanwhile. Answers leave through the
delivery queue. The gateway, alone under its lock, sweeps the trace and the
queue at startup and arms continuations; the next begin takes one.
`PROJECT.json` lists every component with its status, and under `hazards` the
places where this can go wrong and a test hardly reaches, with the properties
that cover them.

## 2. Modules

`X` is the model of a component, `MCX` its instance for TLC, `XProofs` the
theorems about it. Four proof modules are about two components each, which share
no state: one half follows the other.

| Module | Models | Kind |
|---|---|---|
| `StepRoute` | route, `firstUnfinishedStep`, the steps a reopen invalidates, the replay of one event; what the prefix loop computes is proved for every input where it is used | operators, used by `StepWalk`, `RunTrace` and `RoutePlanner` |
| `RouteProgress` | the promise of a walk: a number that grows by one and shrinks within a budget | abstract specification |
| `StepWalk` | one execution walking its route | component; proofs in `RouteProofs` |
| `RunMediation` | begins, ends and the registry | component; proofs in `MediationProofs` |
| `RunTrace`, `RunTraceProofs` | the shared trace, recovery, resume; composes the walk's operators with the processes and the operator | component |
| `CommandLane` | lanes, tasks, timers, drains | component; proofs in `GatewayProofs` |
| `ToolGate`, `ToolGateProofs` | a tool call from its first verdict to its release | component |
| `Governance` | the three evaluations over declared policies | function, with its calls as steps; proofs in `MediationProofs` |
| `RoutePlanner` | from the candidates to the plan of a run | component; proofs in `RouteProofs` |
| `GatewayLock` | processes that contend for one state directory and port | component; proofs in `GatewayProofs` |
| `DeliveryQueue`, `DeliveryQueueProofs` | queue, senders, passes and platform | component |
| `ApprovalForwarder`, `PendingApproval`, `PendingApprovalProofs` | chat prompts; the records and handlers, which extend the forwarder and call it within their steps | composition of two |
| `OntologyStore` | objects and links, the runs that act on them and the imports beside them | component; proofs in `StoreProofs` |
| `TreeStore` | a work-map's row, history and knowledge; gateway, editors and CLI | component; proofs in `StoreProofs` |

Every await of the code, every transaction of a store shared by processes and
every timer ends a step; what lies between two of them is one action. A call
that is refused and changes nothing is a stuttering step unless its answer is
what a property is about.

### StepWalk
`cursor` is the position of `plan.activeNodeId`, `routeCompleted` and
`reopenCount` are the run's fields. Each handler is synchronous and is one
action with its early returns as guards: `completeEnterpriseStep(expected)`,
`reopenEnterpriseStep(i)` (only backwards unless the route is complete, within
`MAX_STEP_REOPENS_PER_RUN`), the two openings and the end. `Emit` is `run.sink`:
the event is written, or `persistTrace` swallows the failure. `completed` is what
`cumulativeCompletedNodeIds` would replay from the durable events; `finished`
(observed) is what the walk really did. Recording a steer leaves all of this
alone and is not an action.

### RunMediation
A turn's `stage` follows `beginEnterpriseRun` through its two awaits
(`planning`, `reading`), its work (`live`) and the runner's finalization. Turns
of one lane are queued; the dispatch wrapper (`Managed`) finalizes inside the
lane, the other runners after it. `watchdogRejects` is the lane timeout: the
runner finalizes at once and never again, the task goes on, and only the wrapper
cancels it. `Supervised` are the turns that the wrapper runs or no watchdog can
reject. An execution is named by the turn that opened it because run ids recur.
`mediatedRuns` and `activeRuns` change in the same steps and are one variable.
`UnmediatedOnlyByJoin` states what a begin may not do silently: a turn runs
without mediation only if it joined the begin in flight of a turn whose runner
had already given up on it.

### RunTrace
`row[e]` is a row of `enterprise_runs` with its event log summarised to what
readers use: the completed steps a replay yields and the statuses of its
`run.ended` events. `turn[e]` is what a process holds in memory. Every write
transaction is its own action, so the two writes of an end and the take and its
`run.resumed` event are separate, other processes run between them, and
`crash(p)` may fall anywhere. `Lossy` names the writes that may fail.
`gatewayStarts` is a restart with the sweep of `abortOrphanedEnterpriseRuns`;
`proc[p].start` distinguishes incarnations of a pid. `continueClicked` and
`requestEnterpriseRunResume` are the two halves of the resume handler: the
gateway does nothing between them (no await), other processes may. A row's
`created_at` is the plan's date, anywhere between the turn's arrival and the
insert. `seen`, `claims` and `chain` are observed only: `chain[e]` is what `e` and the
runs it continues did to their steps (done and sound, done and since corrected)
on which routes, and whether the record of a correction was lost. All agents share a
session key (`session.scope: "global"`), the case in which a lane is not just a
session; the caller's own session token of `enterprise.runs.resume` is not a
variable, since a stale one is refused and changes nothing.

### CommandLane
An entry's task, its timers (fixed, renewed by progress, grace after an abort)
and its two signals are one record; a completion carries the generation it
started in, so that one that comes after a reset is recognised. A waiter of a
drain holds the tasks it captured. `HeldOpen(l)` says that the lane is paused, or
held by a task with no timeout or one that progress renews: then nothing is promised.

### ToolGate
One call follows `runBeforeToolCallHook`: the verdict before the hook chain, the
chain (an external answer: go on, rewrite, block, ask), the verdict after it, the
enterprise approval in its three modes, the deferral of a plugin's approval, and
the two release finalizers, of the deferral and of the native bridge. Beside it
the run ends, is replaced by another execution of its id, or moves to another
step. The trail of a call is what each of these writes. Calls share nothing but
the registry, so one call meets every hazard; what a policy says of a call at a
step is a constant. The relay that stores native calls is left out.

### Governance
A selector is the set of what it matches, so globs and the spellings of MCP names
are left out; one MCP server is registered. `evaluateEnterpriseToolCall` keeps the
order of its layers: the step's scope, the policies, the omission, the outward
call of an action. Policies of other work-maps and the filter of an export are
left out. The decision is compared with a definition that ignores the order.

### RoutePlanner
A tree is a sequence of parents in depth-first order. The run-start pre-check per
candidate, the classifier's two questions, the preparation and the completion of
the model, its deadlines of 20 s and 90 s (events that may fall anywhere) and the
cancellation are steps; the provider may answer anything, late or never. What an
answer is read as, the resolution of endpoints to nodes and the pruning of the
tree are operators. Prompts, redaction, hashes and attachments are left out.

### GatewayLock
A process creates the lock file, writes its payload, probes, binds, serves,
restarts in process or through a fresh one, releases, and may die before any of
these; `orphan` says that the creator of the file is gone. A file is reclaimed
when its owner is dead or nobody listens on the port, and one without a payload
when it is older than `staleMs`. The drain of a restart, the restart scheduler, the handoff to a
supervisor, the health wait of an update and an unreadable `/proc` are left out.

### DeliveryQueue
One process, one thread. Rows survive a crash; claims, senders and passes do not.
A live sender, the startup pass and a drain work through
`deliverOutboundPayloadsCore` alike; `platform` is what recipients see, and `live`
what the live sender put there. An adapter that reconciles tells the truth unless
the call is `lagging`. In `drainQueuedEntry` the sender of an entry just written
takes its turn first: it is microtasks from its claim, the pass at least one await
from the send. How a payload is rendered, chunked and mirrored is left out.

### PendingApproval, ApprovalForwarder
A record is named by the request that created it, since ids recur. `clock[r]` is
before, at or past `expiresAtMs`. `call`, `op` and `waiter` are the handlers in
flight; `used` counts the runs a record let through. The forwarder has one chat
target for all, and a post that fails counts as posted. A record is swept 15 s
after it was settled. The guard of `sweep` takes it that by then a timer that was
due has fired and the lookup of the prompt's route has ended; the code enforces
neither, and a slower lookup is left out. A push to iOS may or may not arrive. An
outcome is posted where the entry it found is, which may be that of an earlier
request with the id (`note[r].entry`). Operators are named; the forwarder's stop is left out.

### OntologyStore
An object is the set of its properties that are not null; a value is an id, null
or of the wrong type. An action plans all its effects against the step's
declarations and the shape the whole definition requires, then applies them in
one transaction; a plan that fails is no step. `writer` (observed) is the
definition an object was last written under. Duplicate parameter declarations,
the cardinality of relationships and the read tools are left out.

### TreeStore
One work-map id. Each database transaction of a gateway operation is a step, and
the CLI writes between any two. A definition stands for its hash, knowledge for a
fingerprint; a corrupt row and a row older than the history exist only from the
start. `cache` is the registry's snapshot, `seen` what an editor was shown.
`cliBundleImport` merges the reads of the command with its write and never meets a
corrupt row: it writes without a precondition, so its reads can only refuse it,
for a row that does not load, and no row stops loading once it did.
Parsing, the diagnostics of a bundle other than its target, and storage errors are
left out.

## 3. Runs

One run per component. Where one instance with everything in it would be out of
reach, the MC module explores it from several sides (`focus`), chosen in the
initial state: each side leaves out things nobody has to do (a request, a click,
a crash, a second operator), never a step that fairness is about, so the liveness
properties keep their meaning.

| Run | Instance | Shows |
|---|---|---|
| `step_walk` | 4 steps and one foreign step, any carried set, 3 reopens, any write lost | the cursor never stands past unfinished work; short of a lost `node.reopened` a resume never skips; the durable log differs from what was done by lost events only (`IInv`); the walk settles; it implements `RouteProgress` |
| `run_mediation` | 3 turns in one lane, two of one run id, 3 transcripts, one turn under the wrapper | the session index is sound, successors keep their link, open rows are registered (`IInv`); a turn is unmediated only by a join and a finalized supervised turn has no registered run (`MediationMatchesTurn`); its row is closed (`OpenRowIsClosed`) |
| `run_trace` | "crash": 2 executions of a step each, gateway and local process, 2 incarnations each, lossy writes; "continue": 3 executions, one of them in the local process, 2 transcripts, lost adoptions, the two writes of an end together, done when all have opened; "chain": 3 executions over the two routes of a work-map with corrections, any one of their events lost; the operator clicks between two runs and the next run takes the marker | one verdict per trace, recovery spares live runs, one marker per lane, one consumer per click (`IInv`); only later turns (`NextRequestOnly`), only conversations that saw the steps (`ConversationSawSteps`); skipped work was done and not taken back, sound unless the route changed or the record of a correction was lost, and a refusal is true but for the two cases of section 4 (`ChainSound`) |
| `command_lane` | "order": 3 tasks of two priorities; "drain": 2 tasks and a waiter; "timers": 2 tasks and both signals; one reset, concurrency 0 to 2 | slots match tasks, no slot idles, the bound is kept and waiters are told in time (`LaneInv`), an aborted task settles (`AbortedSettles`), work and drains end unless the lane is held open (`LaneMovesOn`) |
| `tool_gate` | one call at 2 steps with 2 parameter values, policies of every effect, 2 executions | a trail has the call's own execution only; no attestation of a blocked call; every deferred callback runs once; one judgement (`IInv`); a release happens under the run and the policy that are current and is attested |
| `governance` | 2 policies of ten shapes, 2 steps, calls with and without action | the verdict is the strictest that applies; a call the scope omits fails closed; an action not yet named is not refused early |
| `route_planner` | every tree of up to 4 nodes, a second work-map, a default tree built in or imported | a run executes what was answered and a denied tree is never asked about (`SelectionSound`); nothing is asked after the deadline; every request concludes |
| `gateway_lock` | 2 processes, one supervised, 2 deaths, 2 failures, 3 requests | the file has a worker or its owner died; a supervised gateway comes back; a restart that waits for a start is carried out |
| `delivery_queue` | "solo": one delivery of 2 payloads under every policy (best effort without reconciliation), crash, fault, lagging adapter; "pair": 2 deliveries and a drain | one owner, a retry budget, acked means delivered, hooks run once and after the ack, no replay over evidence (`QueueSafe`); what the live sender put out is not repeated, settled is final, everything settles |
| `pending_approval` | "reuse": 2 exec requests of one id, allowed once; "use": 2 operators, a wait and 2 node runs; "plugin": a runtime's request, its abort and its wait | no shared record, true replies, no answer after an abort, no late prompt (`ApprovalSafe`); one use, the first settlement stands; all waits end and all prompts are closed (`Concludes`) |
| `ontology_store` | 2 runs, 3 definitions of a work-map of two steps, 2 ids, one removal ("shape", "removal", "reuse") | objects keep the shape of the definition they were written under, no dangling link (`OntologyInv`); an action happens entirely or not at all (`AllOrNothing`) |
| `tree_store` | 2 definitions, one built in, 2 editors, 2 saves, a CLI write, a restart | a save replaces what was seen, an import what was reviewed, a stale snapshot does not last; that knowledge has its owner and the history loses nothing is proved |

A run checks a component's state invariants together: `IInv` (`LaneInv`,
`OntologyInv`), or a conjunction
(`MediationMatchesTurn`, `ChainSound`, `SelectionSound`, `QueueSafe`,
`ApprovalSafe`) whose parts are named, each with the comment that says what it is
about. Each property has a mutant (`X_Variant` next to `X`): the same definition
with a plausible bug, under which TLC finds the property violated.

**Bounds.** Four steps let a reopen land on the first, an inner and the last
step. Two turns of one run id plus a third of the same lane are the fewest that
let a late end meet a successor of the same and of another id; the third
transcript lets a rotation happen while both others are linked. Two incarnations
are a crash and the recovery after it; three executions are a run, its
continuation and a competitor for the marker, or a chain of two continuations.
Three tasks are one that holds the lane, one that waits and one that overtakes;
one reset makes a completion stale. Two policies are enough for a composition,
since it is decided pairwise. Four nodes have every relation two endpoints of a
route can have. Two payloads let a batch fail half way; `MAX_RETRIES` is 5 in the
code and 1 here, since the budget is only compared with. Two runs on the node are
a use and a second attempt. One CLI write between the transactions of a gateway
operation makes its check stale. `MaxDeaths`, `MaxFailures`, `MaxRequests`,
`MaxCrashes`, `MaxFaults`, `MaxSaves`, `MaxForeign`, `MaxRestarts`,
`MaxGeneration`, `MaxRemovals`, `MaxExecution` and the trace's clock count what
nobody has to do. The proofs have no bounds: they hold for all values of these
constants.

**Deadlock** is not checked where executions end (`CHECK_DEADLOCK FALSE`): a
system with nothing to do stops.

**Fairness.**
* `run_mediation`: the planner call has a total time budget, skill files are read
  or fail, a turn ends, a settled promise runs its continuation.
* `command_lane`: timers fire, and a task that has settled runs its completion.
  A task need not end.
* `route_planner`: the code's own continuations run and its deadline fires; the
  provider may never answer.
* `gateway_lock`: a process takes its next step, its start ends or fails, a lock
  file grows older than `staleMs`, and a supervised process is launched again.
* `delivery_queue`: a channel call ends or times out, the backoff elapses, drains
  recur (on every reconnect). Nobody has to send.
* `pending_approval`: awaits return, timers fire, time passes. Nobody has to
  decide.
* `tree_store`: the gateway finishes an operation it began; the one persistent
  editor loads and retries again and again (strong fairness, since the gateway is
  busy with others in between).

Nothing is assumed of users, watchdogs, crashes or other processes.
`WalkSettles` needs no fairness: it says moves are finitely many.

## 4. Disagreements met while modelling

The models do what the code does. In these places a comment, a test or the
documentation says something else; the properties above are stated so that they
hold of the code, with the exception named in their comments.

* `run-mediation.ts:359`: a lost write of `node.reopened` is swallowed and the log
  still counts the corrected steps, against
  `docs/concepts/clawworks-enterprise.md:686` (`ResumeNeverSkips` excepts it). A
  lost `run.resumed` has a milder effect: the continued run can be refused as
  `route-complete`. `run_trace` loses any one event of a chain; `ChainSound`
  excepts soundness after a lost correction, and a refusal after a log that lost
  the record of its first step.
* `embedded-agent-runner/run.ts:623`: outside the dispatch wrapper nothing cancels
  a task whose lane timed out while planning; it registers a run after its only
  end (`RegistryHoldsCurrent` is about supervised turns).
* `trace-store.sqlite.ts:655`, `runtime.ts:344`: a take compares the tree and not
  the route, and a reopen invalidates steps of its own route only, so a chain that
  changes route can be refused wrongly or skip stale work. `run_trace` has two
  routes of one work-map; `ChainSound` excepts both, and says what is left: what
  is skipped was done, and no event took it back.
* `trace-store.sqlite.ts:791`: a resume compares the row's transcript with the
  owner's, read before its transaction. If the write of an adoption is lost, a
  process beside the gateway can complete a step on a new transcript in between,
  and a turn of a third process that arrived on the old transcript takes the
  marker, in a conversation that did not see that step
  (`docs/concepts/clawworks-enterprise.md:1184`). It takes three processes and a
  failed write; `run_trace` has two processes, the proof of
  `ConversationSawSteps` assumes that adoptions are written, and the property's
  comment says so.
* `command-queue.ts:342`: a task that starts after its abort signal fired installs
  no release listener; a release signalled later is ignored
  (`command-queue.types.ts:13`).
* `runtime.ts:633`: in observe mode an evaluation that throws writes its fallback
  decision at both passes, against `runtime.ts:545` (`JudgedOnce` counts
  decisions, not faults).
* `governance.ts:1004`: of two matching approval policies the first declared one
  gives the timeout, so composition is order-independent in its effect only
  (`docs/concepts/clawworks-enterprise.md:967`).
* `gateway-lock.ts:301`: a starter that found the port free removes the file after
  its owner has bound the port, and a healthy gateway serves without a lock file
  (`gateway-lock.ts:315`). It keeps the port, so `SomeoneServes` is not affected.
* `plan.ts:88`: an imported default tree is sorted among the candidates and not
  last (`plan.ts:54`).
* `run-mediation.ts:284`: a selection that may not execute blocks in observe mode
  too (`docs/concepts/clawworks-enterprise.md:49`); `route-planner.ts:374`: so does
  a default tree of several steps when the model answered that nothing applies
  (`docs/concepts/clawworks-enterprise.md:503`).
* `deliver.ts:1275`: a replay writes no marker, so a crash after it leads to a
  second replay without reconciliation (`delivery-queue-recovery.ts:355`);
  `LiveSendNotRepeated` is about what the live sender put out.
* `delivery-queue-recovery.ts:431`: a best-effort entry is acked although its
  payloads failed in the replay (`delivery-queue-storage.ts:133`);
  `AckedMeansDelivered` excepts best effort.
* `approval-shared.ts:595`: a requester without a route is told null even if
  somebody decided during the lookup; the record keeps the decision
  (`FirstSettlementStands`). The call names the record by its id: if a push
  settles so late that the record was swept and the id came back, the later
  request's record is expired instead, and its chat entry stays until its timer
  (`ApprovalSafe` and `OneUse` hold then too).
* `exec-approval-forwarder.ts:690`: a decision that comes after the expiry timer
  took the entry is routed again and can be posted above the prompt
  (`exec-approval-forwarder.ts:631`); `NoLatePrompt` excepts that case.
* `ontology-actions.ts:294`: cardinality is never checked
  (`docs/concepts/clawworks-worktree-authoring.md:409`); `ontology-tools.ts:368`: a
  run that outlives its work-map leaves objects to the next one with the id
  (`object-store.sqlite.ts:152`); `object-store.sqlite.ts:485`: the key of a link
  has no object types, while the traversal reads by them.

## 5. Proofs

All for arbitrary constants satisfying the named assumptions (routes are
non-empty sequences of distinct nodes; bounds are naturals; sentinels are not
members of the sets). Everything a run checks was checked by TLC first.

* **StepWalk.** `IInv` adds to types and `BehindIsFinished` that finished steps
  ahead of the cursor were carried (`AheadIsCarried`), how the durable and the
  real set differ given what was lost (`DurableIsReal`), and that a complete
  route has its cursor at the end. `WalkBehindIsFinished`,
  `WalkResumeNeverSkips`, `WalkResumeOpensAtCursor` follow with the lemmas on
  `firstUnfinishedStep`; `WalkNoSkip` is the action property, and
  `WalkImplementsProgress` the refinement of `RouteProgress`.
* **RunMediation.** `LinkSound` alone is not inductive: an end must know that the
  link it drops is its own, and a registration that no execution of the run id
  is there (`PendingIsAwaiting`, `OpenHasSession`). One lemma per registry
  operation (register, adopt, end), cited by every action that performs it.
  `MediationAgreesWithTurns` relates the registry to the turns: where a turn's
  runner has given up bounds which registrations can still be under way.
* **RunTrace.** `IInv` says where a turn stands bounds what its row and log can
  hold (`StageBoundsRow`), an execution in flight belongs to the live incarnation
  its row names (`OwnerIsAlive`), and a pending marker is unclaimed and on an
  execution that is over (`PendingIsUnclaimed`, `ArmedIsOver`). The proof restates
  it per execution (`ExecOK`): nearly every action touches one execution and
  `OneExecStep` does the rest. Consequences: `TraceVerdictStands`,
  `TraceLiveRowIsOpen`, `TraceOneMarkerPerLane`, `TraceContinuedOnce`, also on
  platforms without process start times (`StartTimeKnown` is a constant).
  `TraceNextRequestOnly` needs nothing more. `TraceChainSound` has no assumption
  either: whatever writes are lost and however often the route changes. Its
  invariant relates three things per execution (`ChainOK`): what the replay of
  the log holds, what the walk has behind its cursor and what the chain really
  did; the log and the walk stay within what was done and not taken back, and on
  a steady chain (one route, no lost correction) nothing stale is left. It rests
  on the lemmas about `firstUnfinishedStep` and on one lemma per change of the
  chain (`ContinuedChain`, `DoneChain`, `CorrectedChain`).
  `TraceConversationSawSteps` assumes that adoptions are written, which the run
  does not: with two processes it holds without.
* **DeliveryQueue.** For any finite non-empty set of deliveries. `IInv` adds to
  `QueueSafe` who may have an entry in hand and what its row then is
  (`PassesFollow`, `LoopLeavesNone`), that hooks still due have an owner
  (`HooksStillDue`), and what a marker in the row tells about the platform
  (`LiveSendMarked`, `ReplaysOnlyUnsent`). The actions are of a few kinds (a
  worker takes an entry, proceeds with it, gives it back, waits; the process
  crashes): each action is first shown to be of its kind, then each conjunct to
  be kept by the kinds. `QueueSettledIsFinal` is the action property from it.
* **PendingApproval.** `ApprovalSafe` is inductive, for any number of requests
  that share ids, operators and waiters. Its parts beside the promises: the map
  names an unsettled record by its id and its timer is armed (`PendingOwned`,
  `MapNamesRecords`), the record tells its promise and the runs it let through
  (`RecordTellsPromise`, `SettlerMayDecide`, `RunsAreRecorded`), handlers and
  holders refer to registered records, an entry of the forwarder is open
  (`EntriesAreOpen`), and until the forwarder is told of the outcome a prompt
  under way has its entry or an expiry notice that follows it (`PromptIsHeld`).
  The last two carry `NoLatePrompt`. The proof is about the few ways a step
  changes the records (settles, registers, sweeps, consumes) and the forwarder
  (one note goes on, a slot moves, an outcome is told); an action combines one of
  each. That a registration finds its id free (`RegistersAlone`) is where the
  lookup after the analysis is needed. `ApprovalsUsedOnce` follows from the
  records; `SettlementsStand` is the action property read off the same lemmas.
* **ToolGate.** For any number of calls, which share the registry only: the
  invariant is one statement about a call (`Kept`): what its place in the gate
  says of its record (`CallOK`), the execution and the number of entries of each
  sort in its trail (`Ledger`), and what those numbers may be there (`Tally`). An
  action is reduced to the record and the trail it leaves, so its lemma has no
  primes; a registration makes a fresh execution current, an end leaves calls
  without trail, and a step moves only when the calls in the gate are native. The
  three action properties are read off the same lemmas (`ReleaseOK`).
* **GatewayLock.** `LockFileHasWorker` is the inductive invariant: the listener of
  the port is the process that serves, a handle is held only from the payload to
  the release, and a lock file belongs to a process at work under it or is an
  orphan. Every way out of the loop either goes through `gone` with the file
  released or not its own, or is a death, which makes the file an orphan.
* **TreeStore.** `StoreConsistent`: the history ends in the live definition
  (unless the row predates it or is corrupt), knowledge has its row, and an
  operation between its transactions has passed the checks before. From it
  `KnowledgeHasOwner`, and the action properties `HistoryLosesNothing`,
  `NoLostUpdate` and `BundleAsReviewed`: the precondition is evaluated again in
  the transaction that writes, so no foreign write can lie between them.
* **OntologyStore.** `OntologyInv` is inductive: an action plans all its effects
  against the shape every step of its definition requires, and what it writes is
  what it planned, so each write keeps the shape (`ShapeHoldsTreeWide`) and each
  link has both its objects after the deletions (`NoDanglingLinks`, from
  `endpointsStay` and the cascade). `ActionsAreWhole` is the action property
  `AllOrNothing`. Its proof showed that the property was too strong: two effects
  of one action may name the same edge, and then the last one decides
  (`ontology-actions.ts:540`); the property says so now, and `retypeEdge` of the
  instance does it.
* **CommandLane.** `LaneInv` is inductive once `Bookkeeping` says how many slots a
  lane that was widened and narrowed again may still hold, which generation an
  entry may carry and that a waiter waits for started tasks. A step is an update
  and a pump, and between them a slot may be idle: the invariant is stated of
  given lanes, entries and sequence (`sound`, `full`), each update keeps `sound`,
  the pump keeps it (`PumpSound`) and gives `full` (`PumpFull`). A timer, a signal
  or a report that leaves an entry's standing alone is one lemma (`StandingKept`),
  and every other update of an entry has its own. The order of the queue rests on
  where `insertAt` puts an entry (`InsertPlace`).
* **Governance.** Stated for every list of policies: the policies that match a
  question are a set of places in the list, and the first of an effect is the
  least of them, so that composition needs no induction over the list
  (`StrictestPolicy`). A layer's early return is strictest where it refuses
  (`WallIsRefusal`), the scope decides what is omitted (`GrantIsScope`), and a call
  that names no action matches fewer policies (`UnnamedIsWeaker`).
* **RoutePlanner.** For every set of trees of any size. The two recursive walks
  are shown to be what they should by the least node at which they would not:
  the ancestors of a node are the other nodes it is below (`Ancestors`), and the
  pruning keeps all of a set that holds the parent of each of its nodes
  (`Flattened`). So an endpoint set becomes exactly the steps that lead to it
  (`RouteIsKept`) and a selected plan is always built. The sort takes each place
  once, because a tree has more before it than any of those before it (`Sorted`):
  the candidates are the trees that serve the trigger, and the default
  (`Candidates`). `RouteInv` then follows the request: the classifier's second
  question is about a candidate, the plan before its skills are read serves what
  was said, and a withheld planner has asked nothing. `RoutingIsSound` and
  `NothingIsAskedTooLate` are read off it. The assumptions say what the importer
  and the runtime guarantee: nodes are numbered depth first, there are finitely
  many trees, and no tree has the id of none.

**Only model-checked:** the liveness properties (`WalkSettles`,
`OpenRowIsClosed`, `AbortedSettles`, `LaneMovesOn`, `AlwaysConcludes`,
`SomeoneServes`, `WaitingRestartRuns`, `Settles`, `Concludes`,
`StaleSnapshotEnds`), which are outside this prover's reach, and
`ConversationSawSteps` where an adoption is lost. Every other property of a run is
a theorem for all values of the constants.

## 6. Not modelled, and the plan

In order:

1. A composition of `RunMediation` and `RunTrace`: the registry's open rows are
   the trace's running rows of a live process.
2. The relay of native tool calls beside `ToolGate`, the drain of a restart
   beside `GatewayLock`, and the cron service.

Left out: presentation (CLI, Control UI, validation in the gateway methods),
string processing (names, text safety, schemas, the expression language), calls
to models and files beyond the fact that they are awaited and may fail, and the
rest of the OpenClaw base (channels, plugins, apps, the model providers and the
agent loop). The repository has over two million lines, most of them
integrations, user interface, mobile apps, scripts and generated bundles whose
state is that of the services they call; the mapped lines are a small share of
it, and are the part in which the work layer's own state changes hands.
