----------------------------- MODULE MCRunTrace -----------------------------
(***************************************************************************)
(* One instance of the trace, explored from three sides so that each stays *)
(* small.  "crash": two executions of one step each, processes that die    *)
(* and come back, and the writes of starts, ends and sweeps failing.       *)
(* "continue": a run, its continuation and a competitor for the marker,    *)
(* one of them in the local process, with transcripts that rotate and      *)
(* adoptions that fail; no run start is denied there, the two writes of an *)
(* end are not parted, and only a transcript moves once all have opened.   *)
(* "chain": a run and two continuations of it over the two routes of a     *)
(* work-map, each with a correction, any one of their events lost; there   *)
(* the operator clicks between two runs, the clock moves when a            *)
(* continuation waits, the next run takes it, and nobody clicks on the     *)
(* last.                                                                   *)
(***************************************************************************)
EXTENDS RunTrace, TLC

VARIABLES focus,
          lost    \* whether the chain's one lost event is spent

MCShort == <<"plan", "do">>
MCLong == <<"r", "a", "b">>
MCBranch == <<"r", "b">>
MCRoutes == {MCShort, MCLong, MCBranch}
MCTreeOf == [r \in MCRoutes |-> r[1]]
ExecSymmetry == Permutations(Exec)

\* The trace writes of a turn that moves on, all of which change its row.
Writes == {<<"planning", "inserted">>, <<"inserted", "closing">>, <<"walking", "closing">>,
           <<"closing", "gone">>}
Moves(e, writes) == <<turn[e].stage, turn'[e].stage>> \in writes
NoWriteLost == \A e \in Exec : Moves(e, Writes) => row' # row

\* The events of a walk: its resume, and complete and reopen, which move its cursor.
WalkEvent(e) ==
  \/ Moves(e, {<<"taken", "walking">>})
  \/ Moves(e, {<<"walking", "walking">>}) /\ turn'[e].cursor # turn[e].cursor
NoEventLost == \A e \in Exec : WalkEvent(e) => row' # row

OnRoutes(R) == \A e \in Exec : turn'[e].route \in {NoRoute} \cup R
AllOpened == \A e \in Exec : turn[e].stage \in {"walking", "closing", "gone"}
NoCrash == \A p \in Proc : proc[p].alive => proc'[p].alive

Crash ==
  /\ OnRoutes({MCShort}) /\ clock' <= 2 /\ session' = session /\ NoEventLost
  /\ Cardinality({e \in Exec : turn'[e].stage # "none"}) <= 2
  /\ \A e \in Exec : turn'[e].cursor <= 2
Continue ==
  /\ OnRoutes({MCShort}) /\ clock' <= 2 /\ NoCrash /\ NoWriteLost /\ NoEventLost
  /\ \A e \in Exec : turn'[e].verdict # "blocked"
  /\ \A e \in Exec : turn[e].stage = "closing" => turn'[e].stage = "gone"
  /\ AllOpened => session' # session
  /\ Cardinality({e \in Exec : "local" \in {turn'[e].proc, row'[e].proc}}) <= 1
Chain ==
  /\ OnRoutes({MCLong, MCBranch}) /\ session' = session /\ NoCrash /\ NoWriteLost
  /\ \A p \in Proc \ {Gateway} : proc'[p] = proc[p]
  /\ \A e \in Exec : turn'[e].verdict # "blocked"
  /\ ask' # ask \/ clock' # clock => CurrentTurns = {}
  /\ clock' # clock => \E e \in Exec : row[e].marker # 0
  /\ (\E e \in Exec : Moves(e, {<<"inserted", "walking">>})) => \A o \in Exec : row'[o].marker = 0
  /\ ~NoEventLost => ~lost
  /\ AllOpened => ask' = ask /\ clock' = clock

MCInit == Init /\ focus \in {"crash", "continue", "chain"} /\ lost = FALSE
MCNext ==
  /\ Next
  /\ focus' = focus /\ lost' = (lost \/ ~NoEventLost)
  /\ \/ focus = "crash" /\ Crash
     \/ focus = "continue" /\ Continue
     \/ focus = "chain" /\ Chain
  /\ focus # "chain" => \A e \in Exec : turn'[e].reopens = 0
MCSpec == MCInit /\ [][MCNext]_<<vars, focus, lost>>
=============================================================================
