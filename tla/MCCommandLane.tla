--------------------------- MODULE MCCommandLane ---------------------------
(***************************************************************************)
(* One lane, explored from three sides so that each stays small.  "order": *)
(* one task holds the lane, one waits and one overtakes it, of two         *)
(* priorities.  "drain": two tasks and a waiter, and the lane may pause.   *)
(* Both while the lane is widened, narrowed, cleared and reset; one reset  *)
(* makes a completion stale.  "timers": two tasks without timeout or that  *)
(* report progress, and the callers' signals before, during and after      *)
(* their start.  What is left out of a side is something nobody has to do. *)
(***************************************************************************)
EXTENDS CommandLane

CONSTANTS a, b, c
VARIABLE focus

MCEntry == {a, b, c}
MCPriority == {-1, 1}

MCInit ==
  /\ LaneInit
  /\ focus \in {"order", "drain", "timers"}
  /\ entry[a].priority = -1 /\ entry[b].priority = 1 /\ entry[c].priority = 1
  /\ entry[c].timeout = "fixed"
  /\ \A e \in {a, b} : (entry[e].timeout = "fixed") = (focus # "timers")

NoSignals == \A e \in Entry : ~entry'[e].aborted /\ ~entry'[e].released

MCNext ==
  /\ LaneNext
  /\ focus' = focus
  /\ \/ focus = "order" /\ NoSignals /\ waiter' = waiter
                        /\ \A l \in Lane : lane'[l].maxConcurrent # 0
     \/ focus = "drain" /\ NoSignals /\ entry'[c].phase = "new"
     \/ focus = "timers" /\ entry'[c].phase = "new" /\ waiter' = waiter
                         /\ \A l \in Lane : lane'[l].maxConcurrent = 1

MCSpec == MCInit /\ [][MCNext]_<<laneVars, focus>> /\ LaneFairness
=============================================================================
