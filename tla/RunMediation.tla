---------------------------- MODULE RunMediation ----------------------------
(***************************************************************************)
(* Binding turns to governed executions (src/enterprise/run-mediation.ts)  *)
(* and the registry the tool gate and the loopback server read             *)
(* (active-runs.ts: activeRuns and the sessionId -> runId index).          *)
(*                                                                         *)
(* A begin awaits twice, on the route planner and on the skill files, so   *)
(* turns interleave there; everything between two awaits is one step.  The *)
(* end of a run happens after its turn has left the session lane, so the   *)
(* next turn of the session may begin first.  A lane watchdog may give up  *)
(* on a turn whose task goes on running: the runner then finalizes at once *)
(* and never again, and only the dispatch wrapper                          *)
(* (agents/enterprise-model-dispatch.ts) also cancels the task.            *)
(*                                                                         *)
(* Run ids recur; an execution is named by the turn that opened it.        *)
(* mediatedRuns and activeRuns hold the same object and are changed in the *)
(* same steps, so `active' stands for both.                                *)
(***************************************************************************)
EXTENDS Naturals, FiniteSets

CONSTANTS Turn, RunId, Session, Lane,
          NoTurn, NoRun, NoSession,
          runOf,        \* the run id of a turn
          laneOf,       \* the session lane (sessionKey) of a turn
          Managed,      \* turns run under the dispatch wrapper
          Watchdogged   \* turns whose lane task has a timeout

ASSUME TurnAssumption ==
  /\ runOf \in [Turn -> RunId] /\ laneOf \in [Turn -> Lane]
  /\ Managed \subseteq Turn /\ Watchdogged \subseteq Turn
  /\ NoTurn \notin Turn /\ NoRun \notin RunId /\ NoSession \notin Session

VARIABLES stage,       \* where each turn stands
          verdict,     \* what its begin answered
          aborted,     \* turns whose signal has fired
          settled,     \* turns whose runner has finalized
          pending,     \* pendingBegins: the turn whose begin is in flight
          active,      \* mediatedRuns / activeRuns: the execution of a run id
          sessionId,   \* run.sessionId of an execution
          link,        \* sessionActiveRuns
          row,         \* the execution's trace row
          transcript,  \* the session id a lane's next turn starts with
          lastLinked   \* observed: the run id that linked a session last

vars == <<stage, verdict, aborted, settled, pending, active, sessionId, link, row,
          transcript, lastLinked>>

AwaitingStages == {"planning", "reading"}
RunningStages == AwaitingStages \cup {"joined", "live"}

-----------------------------------------------------------------------------
Init ==
  /\ stage = [t \in Turn |-> "idle"]
  /\ verdict = [t \in Turn |-> "none"]
  /\ aborted = {} /\ settled = {}
  /\ pending = [r \in RunId |-> NoTurn]
  /\ active = [r \in RunId |-> NoTurn]
  /\ sessionId = [t \in Turn |-> NoSession]
  /\ link = [s \in Session |-> NoRun]
  /\ row = [t \in Turn |-> "none"]
  /\ transcript \in [Lane -> Session]
  /\ \A k, l \in Lane : transcript[k] = transcript[l] => k = l
  /\ lastLinked = [s \in Session |-> NoRun]

(* A turn holds its session lane while its runner waits for the task; the  *)
(* dispatch wrapper finalizes before it lets the lane go, the other        *)
(* runners after.                                                          *)
HoldsLane(u) ==
  /\ u \notin settled
  /\ stage[u] \in RunningStages \cup (IF u \in Managed THEN {"returned"} ELSE {})

(* Turns of one lane are queued, and a caller that reuses a run id awaits  *)
(* the earlier use of it.                                                  *)
Admitted(t) ==
  /\ stage[t] = "idle" /\ t \notin aborted
  /\ \A u \in Turn \ {t} :
       /\ laneOf[u] = laneOf[t] => ~HoldsLane(u)
       /\ runOf[u] = runOf[t] => stage[u] = "idle" \/ u \in settled

joinsPendingBegin(t) == pending[runOf[t]] # NoTurn

(* beginEnterpriseRun up to its first await: join the begin in flight,     *)
(* reuse the active execution of the run id, or start planning.            *)
beginEnterpriseRun(t) ==
  /\ Admitted(t)
  /\ \/ /\ joinsPendingBegin(t)
        /\ stage' = [stage EXCEPT ![t] = "joined"]
        /\ UNCHANGED <<verdict, pending>>
     \/ /\ ~joinsPendingBegin(t)
        /\ active[runOf[t]] # NoTurn
        /\ stage' = [stage EXCEPT ![t] = "live"]
        /\ verdict' = [verdict EXCEPT ![t] = "mediated"]
        /\ UNCHANGED pending
     \/ /\ ~joinsPendingBegin(t)
        /\ active[runOf[t]] = NoTurn
        /\ stage' = [stage EXCEPT ![t] = "planning"]
        /\ pending' = [pending EXCEPT ![runOf[t]] = t]
        /\ UNCHANGED verdict
  /\ UNCHANGED <<aborted, settled, active, sessionId, link, row, transcript, lastLinked>>

(* Mutant: a cancelled turn goes on when its begin answers "off".          *)
goesOn_Cancelled(u, v) == v # "answered"

(* The runner goes on after a begin: mediated, or unmediated and not       *)
(* cancelled itself.                                                       *)
goesOn(u, v) == v = "mediated" \/ (v = "off" /\ u \notin aborted)

(* The begin of t answers v, to itself and to every turn that joined it.   *)
(* A blocked or clarifying answer is returned as the reply.                *)
Answer(t, v) ==
  LET hears == {t} \cup {u \in Turn : stage[u] = "joined" /\ runOf[u] = runOf[t]}
  IN  /\ verdict' = [u \in Turn |-> IF u \in hears THEN v ELSE verdict[u]]
      /\ stage' = [u \in Turn |-> IF u \notin hears THEN stage[u]
                                  ELSE IF goesOn(u, v) THEN "live"
                                  ELSE IF u \in settled THEN "done" ELSE "returned"]
      /\ pending' = [pending EXCEPT ![runOf[t]] = NoTurn]

cancelledInFlight(t) == t \in aborted

(* The planner returned a route.  A cancelled turn is answered "off" with  *)
(* nothing registered, otherwise the skill files are read.                 *)
planningReturns(t) ==
  /\ stage[t] = "planning"
  /\ \/ /\ cancelledInFlight(t)
        /\ Answer(t, "off")
     \/ /\ ~cancelledInFlight(t)
        /\ stage' = [stage EXCEPT ![t] = "reading"]
        /\ UNCHANGED <<verdict, pending>>
  /\ UNCHANGED <<aborted, settled, active, sessionId, link, row, transcript, lastLinked>>

(* No route to follow: an unreadable registry, a blocked selection, or a   *)
(* clarification.  Nothing is registered and no row is written.            *)
planningRefuses(t) ==
  /\ stage[t] = "planning"
  /\ Answer(t, "answered")
  /\ UNCHANGED <<aborted, settled, active, sessionId, link, row, transcript, lastLinked>>

(* Run-start governance denies the planned route in enforce mode: the row  *)
(* is written and closed in the same step, and the skills are not read.    *)
runStartBlocked(t) ==
  /\ stage[t] = "planning" /\ ~cancelledInFlight(t)
  /\ Answer(t, "answered")
  /\ row' = [row EXCEPT ![t] = "ended"]
  /\ UNCHANGED <<aborted, settled, active, sessionId, link, transcript, lastLinked>>

(* registerEnterpriseActiveRun: the newest begin of a session owns its     *)
(* link.                                                                   *)
registerEnterpriseActiveRun(t, s) ==
  /\ active' = [active EXCEPT ![runOf[t]] = t]
  /\ sessionId' = [sessionId EXCEPT ![t] = s]
  /\ link' = [link EXCEPT ![s] = runOf[t]]
  /\ lastLinked' = [lastLinked EXCEPT ![s] = runOf[t]]

(* The skill files are read: persist the row, register, answer.            *)
skillsRead(t) ==
  /\ stage[t] = "reading"
  /\ \/ /\ cancelledInFlight(t)
        /\ Answer(t, "off")
        /\ UNCHANGED <<active, sessionId, link, row, lastLinked>>
     \/ /\ ~cancelledInFlight(t)
        /\ Answer(t, "mediated")
        /\ registerEnterpriseActiveRun(t, transcript[laneOf[t]])
        /\ row' = [row EXCEPT ![t] = "running"]
  /\ UNCHANGED <<aborted, settled, transcript>>

(* Mutant: the session's link is dropped whoever owns it.                  *)
linkWithout_Unguarded(r, s) ==
  [q \in Session |-> IF q = s THEN NoRun ELSE link[q]]
linkWithout(r, s) ==
  [q \in Session |-> IF q = s /\ link[q] = r THEN NoRun ELSE link[q]]

(* adoptEnterpriseActiveRunSessionId: a compaction rotated the transcript. *)
adoptEnterpriseActiveRunSessionId(r, s) ==
  LET e == active[r]
  IN  IF e = NoTurn \/ sessionId[e] = s
      THEN UNCHANGED <<sessionId, link, lastLinked>>
      ELSE /\ sessionId' = [sessionId EXCEPT ![e] = s]
           /\ link' = [linkWithout(r, sessionId[e]) EXCEPT ![s] = r]
           /\ lastLinked' = [lastLinked EXCEPT ![s] = r]

(* A running turn compacts: the lane moves to a fresh transcript and the   *)
(* run follows.                                                            *)
compact(t, s) ==
  /\ stage[t] = "live"
  /\ \A l \in Lane : transcript[l] # s
  /\ transcript' = [transcript EXCEPT ![laneOf[t]] = s]
  /\ adoptEnterpriseActiveRunSessionId(runOf[t], s)
  /\ UNCHANGED <<stage, verdict, aborted, settled, pending, active, row>>

(* /new or /reset: the lane moves to a fresh transcript, no run follows.   *)
resetTranscript(l, s) ==
  /\ \A k \in Lane : transcript[k] # s
  /\ transcript' = [transcript EXCEPT ![l] = s]
  /\ UNCHANGED <<stage, verdict, aborted, settled, pending, active, sessionId, link, row,
                 lastLinked>>

(* endEnterpriseRun / unregisterEnterpriseActiveRun, by run id.            *)
endEnterpriseRun(r) ==
  LET e == active[r]
  IN  IF e = NoTurn THEN UNCHANGED <<active, link, row>>
      ELSE /\ active' = [active EXCEPT ![r] = NoTurn]
           /\ link' = linkWithout(r, sessionId[e])
           /\ row' = [row EXCEPT ![e] = "ended"]

(* The turn's work is over and its lane task resolves.  A task its runner  *)
(* has already given up on is dropped.                                     *)
turnReturns(t) ==
  /\ stage[t] = "live"
  /\ stage' = [stage EXCEPT ![t] = IF t \in settled THEN "done" ELSE "returned"]
  /\ UNCHANGED <<verdict, aborted, settled, pending, active, sessionId, link, row, transcript,
                 lastLinked>>

(* finishEnterpriseMediation: once per turn, outside the lane.             *)
finishEnterpriseMediation(t) ==
  /\ stage[t] = "returned" /\ t \notin settled
  /\ stage' = [stage EXCEPT ![t] = "done"]
  /\ settled' = settled \cup {t}
  /\ endEnterpriseRun(runOf[t])
  /\ UNCHANGED <<verdict, aborted, pending, sessionId, transcript, lastLinked>>

(* Mutant: the dispatch wrapper finalizes without cancelling the task.     *)
cancelOnTimeout_Never(t) == aborted
cancelOnTimeout(t) == IF t \in Managed THEN aborted \cup {t} ELSE aborted

(* The lane watchdog rejects while the task is still running; the runner   *)
(* finalizes.                                                              *)
watchdogRejects(t) ==
  /\ t \in Watchdogged /\ t \notin settled /\ stage[t] \in RunningStages
  /\ aborted' = cancelOnTimeout(t)
  /\ settled' = settled \cup {t}
  /\ endEnterpriseRun(runOf[t])
  /\ UNCHANGED <<stage, verdict, pending, sessionId, transcript, lastLinked>>

(* The user stops the turn.                                                *)
stop(t) ==
  /\ t \notin aborted /\ stage[t] \in RunningStages
  /\ aborted' = aborted \cup {t}
  /\ UNCHANGED <<stage, verdict, settled, pending, active, sessionId, link, row, transcript,
                 lastLinked>>

Next ==
  \/ \E t \in Turn :
       \/ beginEnterpriseRun(t) \/ planningReturns(t) \/ planningRefuses(t)
       \/ runStartBlocked(t) \/ skillsRead(t) \/ turnReturns(t)
       \/ finishEnterpriseMediation(t) \/ watchdogRejects(t) \/ stop(t)
       \/ \E s \in Session : compact(t, s)
  \/ \E l \in Lane, s \in Session : resetTranscript(l, s)

(* The planner has a total budget, file reads and turns are bounded, and a *)
(* settled promise runs its continuation.                                  *)
Fairness ==
  \A t \in Turn : /\ WF_vars(planningReturns(t) \/ planningRefuses(t) \/ runStartBlocked(t))
                  /\ WF_vars(skillsRead(t))
                  /\ WF_vars(turnReturns(t))
                  /\ WF_vars(finishEnterpriseMediation(t))

Spec == Init /\ [][Next]_vars
FairSpec == Spec /\ Fairness

-----------------------------------------------------------------------------
(* Types of the registry and of the turns.                                 *)
TypeOK ==
  /\ stage \in [Turn -> {"idle", "returned", "done"} \cup RunningStages]
  /\ verdict \in [Turn -> {"none", "mediated", "off", "answered"}]
  /\ aborted \subseteq Turn /\ settled \subseteq Turn
  /\ pending \in [RunId -> Turn \cup {NoTurn}]
  /\ active \in [RunId -> Turn \cup {NoTurn}]
  /\ sessionId \in [Turn -> Session \cup {NoSession}]
  /\ link \in [Session -> RunId \cup {NoRun}]
  /\ row \in [Turn -> {"none", "running", "ended"}]
  /\ transcript \in [Lane -> Session]
  /\ lastLinked \in [Session -> RunId \cup {NoRun}]

(* The loopback server resolves a session to a run through the link: it    *)
(* never resolves to a run that is over, or to one that moved to another   *)
(* transcript.                                                             *)
LinkSound ==
  \A s \in Session : link[s] # NoRun =>
     active[link[s]] # NoTurn /\ sessionId[active[link[s]]] = s

(* The end of an earlier run, or its move to another transcript, never     *)
(* orphans the run that linked the session after it.                       *)
SuccessorKeepsLink ==
  \A s \in Session :
     LET r == lastLinked[s]
     IN  r # NoRun /\ active[r] # NoTurn /\ sessionId[active[r]] = s => link[s] = r

(* No trace row stays open behind the registry's back: an execution's row  *)
(* is open exactly while its run id maps to it.                            *)
OpenRowIsActive ==
  /\ \A t \in Turn : row[t] = "running" => active[runOf[t]] = t
  /\ \A r \in RunId : active[r] # NoTurn => row[active[r]] = "running" /\ runOf[active[r]] = r

(* The begin in flight for a run id is that of a turn still awaiting, and  *)
(* no execution of that run id is registered meanwhile.                    *)
PendingIsAwaiting ==
  /\ \A t \in Turn : stage[t] \in AwaitingStages => pending[runOf[t]] = t
  /\ \A r \in RunId : pending[r] # NoTurn =>
        /\ stage[pending[r]] \in AwaitingStages
        /\ runOf[pending[r]] = r /\ active[r] = NoTurn

(* The strengthening the proofs use: an execution has a session, and only  *)
(* a turn past its begin has a row.                                        *)
OpenHasSession == \A r \in RunId : active[r] # NoTurn => sessionId[active[r]] \in Session

(* The inductive invariant: under every interleaving of begins, rotations, *)
(* ends and watchdogs the session index names only open executions, a late *)
(* end or rotation leaves a successor's link alone, and a trace row is     *)
(* open exactly while its run id maps to its execution (active-runs.ts).   *)
IInv == /\ TypeOK /\ LinkSound /\ SuccessorKeepsLink /\ OpenRowIsActive
        /\ PendingIsAwaiting /\ OpenHasSession

(* Turns whose runner is still there when their execution ends: nothing    *)
(* gives up on them early, or the dispatch wrapper cancels what it gives   *)
(* up on.  A plain runner with a watchdog is neither: its task goes on,    *)
(* may register an execution after the only end, and nobody ends that.     *)
Supervised == Managed \cup (Turn \ Watchdogged)

(* The registry never holds the execution of a supervised turn that its    *)
(* runner has finalized (finishEnterpriseMediation, the abort of           *)
(* runManagedEnterpriseDispatch).                                          *)
RegistryHoldsCurrent ==
  \A r \in RunId : active[r] \in Supervised => active[r] \notin settled

(* A turn runs unmediated only after it joined the begin of an earlier     *)
(* turn with its run id, one that was cancelled and whose runner had given *)
(* up on it (pendingBegins.get, the cancel guards after both awaits).      *)
UnmediatedOnlyByJoin ==
  \A t \in Turn : stage[t] = "live" /\ verdict[t] = "off" =>
    \E u \in Turn \ {t} : runOf[u] = runOf[t] /\ u \in aborted /\ u \in settled

(* A supervised turn its runner has given up on while its task runs has    *)
(* been cancelled, so its begin registers nothing when it resumes.         *)
GivenUpIsCancelled ==
  \A t \in Supervised : t \in settled /\ stage[t] \in RunningStages => t \in aborted

(* A runner finalizes no turn before it has begun.                         *)
SettledHasBegun == \A t \in settled : stage[t] # "idle"

(* A turn only ever joins the begin of a turn its runner has given up on:  *)
(* a caller that reuses a run id awaits the earlier use of it.             *)
JoinedBehindGivenUp ==
  \A t \in Turn : stage[t] = "joined" => pending[runOf[t]] \in settled

(* What the registry says of a turn is true of it: it holds no execution   *)
(* of a supervised turn that is over, and lacks that of a live turn only   *)
(* after such a join (beginEnterpriseRun, finishEnterpriseMediation).  The *)
(* last three parts are what makes it inductive.                           *)
MediationMatchesTurn ==
  /\ RegistryHoldsCurrent /\ UnmediatedOnlyByJoin
  /\ GivenUpIsCancelled /\ SettledHasBegun /\ JoinedBehindGivenUp

(* Every open execution of a supervised turn is eventually finalized.      *)
OpenRowIsClosed == \A t \in Supervised : row[t] = "running" ~> row[t] = "ended"
=============================================================================
