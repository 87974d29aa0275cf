---------------------------- MODULE CommandLane ----------------------------
(***************************************************************************)
(* The in-process command lanes every agent turn runs in                   *)
(* (src/process/command-queue.ts): bounded concurrency per lane, priority  *)
(* order, task timeouts that free a slot while the task still runs, lane   *)
(* resets that make old completions stale, and the waiters a restart uses  *)
(* to drain.                                                               *)
(*                                                                         *)
(* The code is one JavaScript thread: what runs between two awaits is one  *)
(* step.  A task's race (its own end against the timeout) is decided in    *)
(* one step and its completion runs in a later one, so a reset, a signal   *)
(* or the task's late end can come between.  An entry is dequeued once, so *)
(* it is its own task id; `draining' is true only inside one synchronous   *)
(* pump and is left out.                                                   *)
(***************************************************************************)
EXTENDS Integers, Sequences, FiniteSets

CONSTANTS Entry, Lane, Waiter,
          Priority,       \* resolveQueuePriority: -1, 0, 1
          Timeout,        \* "untimed", "fixed" or "progress"
          Signal,         \* which of its signals, "abort" and "release", a caller uses
          Concurrency,    \* the values setCommandLaneConcurrency is called with
          MaxGeneration   \* bound: lane resets

ASSUME LaneAssumption ==
  /\ Priority \subseteq Int /\ Priority # {}
  /\ Timeout \subseteq {"untimed", "fixed", "progress"}
  /\ Signal \subseteq {"abort", "release"}
  /\ Concurrency \subseteq Nat /\ MaxGeneration \in Nat
  /\ 1 \in Concurrency    \* getLaneState creates a lane with maxConcurrent 1
  /\ IsFiniteSet(Entry)

VARIABLES lane,             \* LaneState per lane
          entry,            \* QueueEntry per task, with its promise and timers
          waiter,           \* activeTaskWaiters
          gatewayDraining,
          nextSequence      \* nextQueueSequence

laneVars == <<lane, entry, waiter, gatewayDraining, nextSequence>>

EntryPhases == {"new", "queued", "running", "raced", "settled"}
Outcomes == {"none", "ended", "timeout", "cleared", "refused"}

EntryRecord ==
  [phase : EntryPhases, outcome : Outcomes,
   work : {"idle", "running", "over"},        \* the task itself
   lane : Lane, priority : Priority, sequence : Nat, generation : Nat,
   timeout : Timeout, timer : {"off", "progress", "grace"},
   listening : BOOLEAN,                       \* the release listener is installed
   progressed : BOOLEAN,                      \* since the timer was armed
   aborted : BOOLEAN, released : BOOLEAN]     \* the caller's two signals

LaneRecord ==
  [queue : Seq(Entry), active : SUBSET Entry, maxConcurrent : Nat, generation : Nat]

WaiterRecord ==
  [taskIds : SUBSET Entry, state : {"idle", "waiting", "drained", "expired"}, timed : BOOLEAN]

LaneTypeOK ==
  /\ lane \in [Lane -> LaneRecord]
  /\ entry \in [Entry -> EntryRecord]
  /\ waiter \in [Waiter -> WaiterRecord]
  /\ gatewayDraining \in BOOLEAN
  /\ nextSequence \in Nat

LaneInit ==
  /\ lane = [l \in Lane |->
       [queue |-> <<>>, active |-> {}, maxConcurrent |-> 1, generation |-> 0]]
  /\ entry \in [Entry -> [phase : {"new"}, outcome : {"none"}, work : {"idle"},
                          lane : Lane, priority : Priority, sequence : {0},
                          generation : {0}, timeout : Timeout, timer : {"off"},
                          listening : {FALSE}, progressed : {FALSE},
                          aborted : {FALSE}, released : {FALSE}]]
  /\ waiter = [w \in Waiter |-> [taskIds |-> {}, state |-> "idle", timed |-> FALSE]]
  /\ gatewayDraining = FALSE
  /\ nextSequence = 1

-----------------------------------------------------------------------------
Timed(x) == x.timeout # "untimed"

(* runQueueEntryTask up to its race: the task is started in any case; a    *)
(* release signalled earlier decides the race at once; an abort signalled  *)
(* earlier arms the grace timer and returns before the release listener is *)
(* installed.                                                              *)
runQueueEntryTask(x, g) ==
  LET begun == [x EXCEPT !.work = "running", !.generation = g, !.phase = "running"]
  IN  IF ~Timed(x) THEN begun
      ELSE IF x.released THEN [begun EXCEPT !.phase = "raced", !.outcome = "timeout"]
      ELSE IF x.aborted THEN [begun EXCEPT !.timer = "grace"]
      ELSE [begun EXCEPT !.timer = "progress", !.listening = TRUE]

(* How many entries the pump's loop takes from the head of the queue.      *)
startable(s) ==
  IF Cardinality(s.active) < s.maxConcurrent
  THEN IF s.maxConcurrent - Cardinality(s.active) < Len(s.queue)
       THEN s.maxConcurrent - Cardinality(s.active) ELSE Len(s.queue)
  ELSE 0

startedIn(s) == {s.queue[i] : i \in 1 .. startable(s)}

pumped(s) ==
  [s EXCEPT !.queue = SubSeq(s.queue, startable(s) + 1, Len(s.queue)),
            !.active = s.active \cup startedIn(s)]

(* pump, from lane states ls and entries xs, for the lanes in pumping.     *)
pump(pumping, ls, xs) ==
  /\ lane' = [l \in Lane |-> IF l \in pumping THEN pumped(ls[l]) ELSE ls[l]]
  /\ entry' = [e \in Entry |->
       IF xs[e].lane \in pumping /\ e \in startedIn(ls[xs[e].lane])
       THEN runQueueEntryTask(xs[e], ls[xs[e].lane].generation) ELSE xs[e]]

(* hasPendingActiveTasks and notifyActiveTaskWaiters, over the active sets *)
(* of ls: every waiter none of whose tasks is active any more resolves.    *)
stillActive(ids, ls) == \E l \in Lane : ids \cap ls[l].active # {}

notified(ls, ws) ==
  [w \in Waiter |->
     IF ws[w].state = "waiting" /\ ~stillActive(ws[w].taskIds, ls)
     THEN [ws[w] EXCEPT !.state = "drained"] ELSE ws[w]]

-----------------------------------------------------------------------------
(* enqueueLaneEntry: the first queued entry that must run after x.         *)
insertAt(q, x) ==
  LET runsAfter(i) == \/ entry[q[i]].priority < x.priority
                      \/ /\ entry[q[i]].priority = x.priority
                         /\ entry[q[i]].sequence > x.sequence
  IN  IF \E i \in 1 .. Len(q) : runsAfter(i)
      THEN CHOOSE i \in 1 .. Len(q) : runsAfter(i) /\ \A j \in 1 .. i - 1 : ~runsAfter(j)
      ELSE Len(q) + 1

inserted(q, i, e) == SubSeq(q, 1, i - 1) \o <<e>> \o SubSeq(q, i, Len(q))

(* enqueueCommandInLane: refused while the gateway drains.                 *)
enqueueCommandInLane(e) ==
  /\ entry[e].phase = "new"
  /\ IF gatewayDraining
     THEN /\ entry' = [entry EXCEPT ![e] = [entry[e] EXCEPT !.phase = "settled", !.outcome = "refused"]]
          /\ UNCHANGED <<lane, nextSequence>>
     ELSE LET l == entry[e].lane
              x == [entry[e] EXCEPT !.phase = "queued", !.sequence = nextSequence]
              q == inserted(lane[l].queue, insertAt(lane[l].queue, x), e)
          IN  /\ pump({l}, [lane EXCEPT ![l] = [lane[l] EXCEPT !.queue = q]],
                           [entry EXCEPT ![e] = x])
              /\ nextSequence' = nextSequence + 1
  /\ UNCHANGED <<waiter, gatewayDraining>>

(* The race of a running task is decided; its continuation runs later.     *)
decided(e, o) == [entry[e] EXCEPT !.phase = "raced", !.outcome = o]

(* The task ends by itself, with a result or an error: the two branches of *)
(* the continuation differ in logging only.  Too late for its race, the    *)
(* end is only logged.                                                     *)
taskEnds(e) ==
  /\ entry[e].work = "running"
  /\ entry' = [entry EXCEPT ![e] =
       [(IF entry[e].phase = "running" THEN decided(e, "ended") ELSE entry[e])
          EXCEPT !.work = "over"]]
  /\ UNCHANGED <<lane, waiter, gatewayDraining, nextSequence>>

(* The progress callback reports a newer time.                             *)
progress(e) ==
  /\ entry[e].phase = "running" /\ entry[e].timeout = "progress" /\ ~entry[e].progressed
  /\ entry' = [entry EXCEPT ![e] = [entry[e] EXCEPT !.progressed = TRUE]]
  /\ UNCHANGED <<lane, waiter, gatewayDraining, nextSequence>>

(* Mutant: an aborted task's timer still listens to progress.              *)
renews_AfterAbort(x) == x.progressed
renews(x) == x.timer = "progress" /\ x.progressed

(* armProgressTimeout's timer fires: renewed from the progress made since, *)
(* else the race is lost.  The grace timer is never renewed.               *)
timerFires(e) ==
  /\ entry[e].phase = "running" /\ entry[e].timer # "off"
  /\ entry' = [entry EXCEPT ![e] =
       IF renews(entry[e]) THEN [entry[e] EXCEPT !.progressed = FALSE] ELSE decided(e, "timeout")]
  /\ UNCHANGED <<lane, waiter, gatewayDraining, nextSequence>>

(* The caller's abort signal: armAbortTimeout replaces the progress timer. *)
abortSignal(e) ==
  /\ entry[e].phase \in {"queued", "running"} /\ ~entry[e].aborted
  /\ Timed(entry[e]) /\ "abort" \in Signal
  /\ entry' = [entry EXCEPT ![e] =
       [entry[e] EXCEPT !.aborted = TRUE,
                        !.timer = IF entry[e].timer = "progress" THEN "grace" ELSE entry[e].timer]]
  /\ UNCHANGED <<lane, waiter, gatewayDraining, nextSequence>>

(* The caller's release signal: onRelease, if the listener is installed.   *)
releaseSignal(e) ==
  /\ entry[e].phase \in {"queued", "running"} /\ ~entry[e].released
  /\ Timed(entry[e]) /\ "release" \in Signal
  /\ entry' = [entry EXCEPT ![e] =
       [(IF entry[e].phase = "running" /\ entry[e].listening
         THEN decided(e, "timeout") ELSE entry[e]) EXCEPT !.released = TRUE]]
  /\ UNCHANGED <<lane, waiter, gatewayDraining, nextSequence>>

(* Mutant: the slot is kept until the task itself is over.                 *)
completeTask_WhenOver(e) ==
  IF entry[e].work = "over" THEN lane[entry[e].lane].active \ {e} ELSE lane[entry[e].lane].active
completeTask(e) == lane[entry[e].lane].active \ {e}

(* The continuation of a decided race.  Of the current generation, it      *)
(* frees its slot, tells the waiters and pumps; of an older one, it only   *)
(* settles the caller's promise.                                           *)
taskCompletes(e) ==
  LET l == entry[e].lane
      freed == [lane EXCEPT ![l] = [lane[l] EXCEPT !.active = completeTask(e)]]
      xs == [entry EXCEPT ![e] = [entry[e] EXCEPT !.phase = "settled"]]
  IN  /\ entry[e].phase = "raced"
      /\ IF entry[e].generation = lane[l].generation
         THEN pump({l}, freed, xs) /\ waiter' = notified(freed, waiter)
         ELSE entry' = xs /\ UNCHANGED <<lane, waiter>>
      /\ UNCHANGED <<gatewayDraining, nextSequence>>

-----------------------------------------------------------------------------
(* setCommandLaneConcurrency: 0 pauses a lane, anything else pumps it.     *)
setCommandLaneConcurrency(l, n) ==
  /\ lane[l].maxConcurrent # n
  /\ pump(IF n > 0 THEN {l} ELSE {}, [lane EXCEPT ![l] = [lane[l] EXCEPT !.maxConcurrent = n]], entry)
  /\ UNCHANGED <<waiter, gatewayDraining, nextSequence>>

clearCommandLane(l) ==
  /\ lane[l].queue # <<>>
  /\ lane' = [lane EXCEPT ![l] = [lane[l] EXCEPT !.queue = <<>>]]
  /\ entry' = [e \in Entry |->
       IF entry[e].phase = "queued" /\ entry[e].lane = l
       THEN [entry[e] EXCEPT !.phase = "settled", !.outcome = "cleared"] ELSE entry[e]]
  /\ UNCHANGED <<waiter, gatewayDraining, nextSequence>>

(* Mutant: the active set is cleared under the old generation.             *)
idled_SameGeneration(s) == [s EXCEPT !.active = {}]

(* A lane forced back to idle.                                             *)
idled(s) == [s EXCEPT !.generation = s.generation + 1, !.active = {}]

resetPumps(l) == {l}

(* resetCommandLane: pump what is queued, then tell the waiters.           *)
resetCommandLane(l) ==
  /\ lane[l].generation < MaxGeneration
  /\ pump(resetPumps(l), [lane EXCEPT ![l] = idled(lane[l])], entry)
  /\ waiter' = notified(lane', waiter)
  /\ UNCHANGED <<gatewayDraining, nextSequence>>

(* resetAllLanes: the lanes survive an in-process restart, queued work     *)
(* included.                                                               *)
resetAllLanes ==
  /\ \A l \in Lane : lane[l].generation < MaxGeneration
  /\ pump(Lane, [l \in Lane |-> idled(lane[l])], entry)
  /\ waiter' = notified(lane', waiter)
  /\ gatewayDraining' = FALSE
  /\ UNCHANGED nextSequence

markGatewayDraining ==
  /\ ~gatewayDraining
  /\ gatewayDraining' = TRUE
  /\ UNCHANGED <<lane, entry, waiter, nextSequence>>

(* waitForActiveTasks over the tasks active now; a zero timeout answers at *)
(* once.                                                                   *)
waitForActiveTasks(w, timeout) ==
  LET ids == UNION {lane[l].active : l \in Lane}
  IN  /\ waiter[w].state = "idle"
      /\ waiter' = [waiter EXCEPT ![w] =
           [taskIds |-> ids, timed |-> timeout # "none",
            state |-> IF ids = {} THEN "drained"
                      ELSE IF timeout = "zero" THEN "expired" ELSE "waiting"]]
      /\ UNCHANGED <<lane, entry, gatewayDraining, nextSequence>>

waiterTimesOut(w) ==
  /\ waiter[w].state = "waiting" /\ waiter[w].timed
  /\ waiter' = [waiter EXCEPT ![w] = [waiter[w] EXCEPT !.state = "expired"]]
  /\ UNCHANGED <<lane, entry, gatewayDraining, nextSequence>>

LaneNext ==
  \/ \E e \in Entry :
       \/ enqueueCommandInLane(e) \/ taskCompletes(e) \/ progress(e) \/ timerFires(e)
       \/ abortSignal(e) \/ releaseSignal(e) \/ taskEnds(e)
  \/ \E l \in Lane :
       \/ clearCommandLane(l) \/ resetCommandLane(l)
       \/ \E n \in Concurrency : setCommandLaneConcurrency(l, n)
  \/ resetAllLanes
  \/ markGatewayDraining
  \/ \E w \in Waiter :
       \/ waiterTimesOut(w)
       \/ \E timeout \in {"none", "zero", "some"} : waitForActiveTasks(w, timeout)

LaneSpec == LaneInit /\ [][LaneNext]_laneVars

(* Timers fire and continuations run.  A task need never end, and nobody   *)
(* needs to reset, clear or signal anything.                               *)
LaneFairness ==
  /\ \A e \in Entry : WF_laneVars(timerFires(e)) /\ WF_laneVars(taskCompletes(e))
  /\ \A w \in Waiter : WF_laneVars(waiterTimesOut(w))

-----------------------------------------------------------------------------
Settled(e) == entry[e].phase = "settled"
Running(e) == entry[e].phase \in {"running", "raced"}

(* A slot is held by exactly the started, not yet completed tasks of the   *)
(* lane's current generation: a timeout or a reset neither leaks a slot    *)
(* nor frees one twice (completeTask, resetCommandLane).                   *)
SlotsMatchTasks ==
  \A l \in Lane :
    lane[l].active = {e \in Entry : /\ Running(e) /\ entry[e].lane = l
                                   /\ entry[e].generation = lane[l].generation}

(* No lane has a free slot while work waits in it: whatever frees a slot,  *)
(* widens the lane or adds work also pumps, so queued work never depends   *)
(* on a later enqueue (drainLane, resetAllLanes).                          *)
NoIdleSlot ==
  \A l \in Lane :
    lane[l].queue # <<>> => Cardinality(lane[l].active) >= lane[l].maxConcurrent

(* Tasks really running at the same time in a lane, those given up by a    *)
(* timeout or a reset aside, never exceed the largest concurrency the lane *)
(* was ever given (pump against concurrent completions).                   *)
LaneBound ==
  \A l \in Lane : \E n \in Concurrency :
    Cardinality({e \in Entry :
      /\ entry[e].work = "running" /\ entry[e].lane = l
      /\ entry[e].outcome # "timeout"
      /\ entry[e].generation = lane[l].generation}) <= n

(* A waiter is waiting exactly while one of its tasks is active, and is    *)
(* told "drained" only when none is: no wakeup is lost, none comes early   *)
(* (notifyActiveTaskWaiters).                                              *)
WaitersInformed ==
  \A w \in Waiter :
    /\ waiter[w].state = "waiting" => stillActive(waiter[w].taskIds, lane)
    /\ waiter[w].state = "drained" => ~stillActive(waiter[w].taskIds, lane)

(* The queue of a lane holds exactly its queued entries, each once, in     *)
(* priority order and in order of arrival within a priority.               *)
QueueMatchesEntries ==
  \A l \in Lane :
    LET q == lane[l].queue
    IN  /\ {q[i] : i \in 1 .. Len(q)} = {e \in Entry : entry[e].phase = "queued" /\ entry[e].lane = l}
        /\ \A i, j \in 1 .. Len(q) : i < j =>
             \/ entry[q[i]].priority > entry[q[j]].priority
             \/ /\ entry[q[i]].priority = entry[q[j]].priority
                /\ entry[q[i]].sequence < entry[q[j]].sequence

(* A task outlives its race only by a timeout, no task belongs to a later  *)
(* generation than its lane's, a waiter waits for tasks that have started, *)
(* and a lane's bookkeeping stays within the numbers it was given.         *)
Bookkeeping ==
  /\ \A e \in Entry :
       /\ entry[e].sequence < nextSequence
       /\ entry[e].generation <= lane[entry[e].lane].generation
       /\ entry[e].work = "running" => entry[e].phase \in {"running", "raced", "settled"}
       /\ entry[e].work = "running" /\ entry[e].phase # "running" => entry[e].outcome = "timeout"
  /\ \A w \in Waiter : \A e \in waiter[w].taskIds : entry[e].phase \notin {"new", "queued"}
  /\ \A l \in Lane :
       /\ lane[l].maxConcurrent \in Concurrency
       /\ \E n \in Concurrency : Cardinality(lane[l].active) <= n

(* The invariant: through timeouts, aborts, resets and late completions a  *)
(* lane neither leaks nor frees twice a slot, lets none idle, keeps its    *)
(* bound and loses no wakeup (completeTask, resetAllLanes, drainLane).     *)
LaneInv ==
  /\ LaneTypeOK /\ SlotsMatchTasks /\ NoIdleSlot /\ LaneBound /\ WaitersInformed
  /\ QueueMatchesEntries /\ Bookkeeping

(* An aborted timed task settles even if it never ends and keeps reporting *)
(* progress (armAbortTimeout).                                             *)
AbortedSettles ==
  \A e \in Entry : entry[e].phase = "running" /\ entry[e].aborted ~> Settled(e)

(* A lane may be held for ever: it is paused, or a task in it has no       *)
(* timeout or one that every report of progress renews.                    *)
HeldOpen(l) ==
  \/ lane[l].maxConcurrent = 0
  \/ \E e \in lane[l].active : entry[e].timeout # "fixed"

(* Unless its lane is held open, queued work is eventually served.         *)
QueuedIsServed ==
  \A e \in Entry : entry[e].phase = "queued" ~> Settled(e) \/ HeldOpen(entry[e].lane)

(* So does a drain without a timeout of its own eventually end.            *)
DrainEnds ==
  \A w \in Waiter :
    waiter[w].state = "waiting" ~> waiter[w].state # "waiting" \/ \E l \in Lane : HeldOpen(l)

(* A lane moves on even if no task ever ends: queued work is served and a  *)
(* drain ends (timeoutPromise releases the lane).                          *)
LaneMovesOn == QueuedIsServed /\ DrainEnds
=============================================================================
