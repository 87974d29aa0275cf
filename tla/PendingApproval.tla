-------------------------- MODULE PendingApproval --------------------------
(***************************************************************************)
(* The gateway's pending approvals: the records of                         *)
(* src/gateway/exec-approval-manager.ts, the request, wait and resolve     *)
(* handlers of src/gateway/server-methods/{approval-shared,exec-approval,  *)
(* plugin-approval}.ts, and the run on a node that consumes a decision     *)
(* (src/gateway/node-invoke-system-run-approval.ts).                       *)
(*                                                                         *)
(* A record is named by the request that created it; its id may recur once *)
(* the record is gone, because an exec request may bring an id of its own. *)
(* Exec and plugin approvals have a manager each and disjoint ids, so one  *)
(* map stands for both.  Callers name a record by its full id and may see  *)
(* it; a call that fails validation, or whose caller may not see the       *)
(* record, changes nothing and is left out.                                *)
(***************************************************************************)
EXTENDS ApprovalForwarder

CONSTANTS Plugin,        \* the requests a plugin makes; the others are exec requests
          TwoPhase,      \* those that ask for an "accepted" answer first
          Runtime,       \* those whose caller holds the approval runtime token
          Suppressed,    \* exec requests with suppressDelivery
          RouteOptional, \* exec requests with requireDeliveryRoute = false
          Decisions,     \* the decisions operators give
          Allowed,       \* the decisions a request accepts
          Operator,      \* calls of approval.resolve
          Waiter,        \* calls of approval.waitDecision
          RuntimeWaiter, \* those made with the approval runtime token
          MaxRuns        \* bound: runs a node is asked for under one record

Null == "null"       \* the decision of a record nobody decided
Unset == "unset"

ASSUME ApprovalAssumption ==
  /\ Plugin \subseteq Request
  /\ TwoPhase \subseteq Request
  /\ Runtime \subseteq Plugin
  /\ Suppressed \subseteq Request \ Plugin
  /\ RouteOptional \subseteq Request \ Plugin
  /\ Decisions \subseteq {"allow-once", "allow-always", "deny"}
  /\ Allowed \in [Request -> SUBSET Decisions]
  /\ RuntimeWaiter \subseteq Waiter
  /\ MaxRuns \in Nat
  \* Nobody and nothing has a name of its own.
  /\ None \notin Operator \cup {"request-aborted", "no-approval-route"}
  /\ None \notin {"allow-once", "allow-always", "deny", Null, Unset}
  /\ "request-aborted" \notin Operator
  \* A plugin's id is made by the server and is its own.
  /\ \A p \in Plugin, r \in Request : IdOf[p] = IdOf[r] => p = r

VARIABLES pending,  \* the manager's map from ids to records
          rec,      \* the records, each with its promise
          call,     \* the request handlers
          op,       \* the resolve handlers
          waiter,   \* the waitDecision handlers
          used      \* the runs each record let through

vars == <<pending, rec, call, op, waiter, used, fwdVars>>

\* Who settled a record; nobody when its own timer did.
Settler == Operator \cup {"request-aborted", "no-approval-route", None}

Verdict == {"allow-once", "allow-always", "deny"}

Record == [state: {"none", "pending", "resolved"}, timer: BOOLEAN, swept: BOOLEAN,
           decision: Verdict \cup {None}, consumed: Verdict \cup {None},
           by: Settler, promise: Verdict \cup {Null, Unset}]

NewRecord == [state |-> "none", timer |-> FALSE, swept |-> FALSE, decision |-> None,
              consumed |-> None, by |-> None, promise |-> Unset]

\* A handler answers with "accepted" (ack) and then with the decision (final).
Handler == [pc: {"new", "analysing", "delivering", "closing", "waiting", "done"},
            on: Request \cup {None},      \* whose promise it awaits
            clients: BOOLEAN,             \* approval clients at the time of the broadcast
            settled: BOOLEAN,             \* markRequestDeliverySettled
            resp: {"pending", "acknowledged", "aborted"},
            ack: BOOLEAN,
            final: Verdict \cup {Null, Unset, "error"}]

Resolver == [pc: {"idle", "following", "done"}, on: Request \cup {None},
             decision: Verdict \cup {None},
             reply: {"none", "ok", "conflict", "unavailable", "unknown"}]

Waiting == [pc: {"idle", "waiting", "aborted", "done"}, on: Request \cup {None},
            answer: Verdict \cup {Null, Unset, "error"}]

abortable(r) == r \in Runtime \cap TwoPhase

Init ==
  /\ ForwarderInit
  /\ pending = [i \in Id |-> None]
  /\ rec = [r \in Request |-> NewRecord]
  /\ call = [r \in Request |->
               [pc |-> "new", on |-> None, clients |-> FALSE, settled |-> FALSE,
                resp |-> IF abortable(r) THEN "pending" ELSE "acknowledged",
                ack |-> FALSE, final |-> Unset]]
  /\ op = [o \in Operator |-> [pc |-> "idle", on |-> None, decision |-> None, reply |-> "none"]]
  /\ waiter = [w \in Waiter |-> [pc |-> "idle", on |-> None, answer |-> Unset]]
  /\ used = [r \in Request |-> [once |-> 0, always |-> 0, fallback |-> 0]]

-----------------------------------------------------------------------------
(* The manager: each operation on the records rc under the map pm.         *)

getSnapshot(i) == pending[i]

\* The settled record keeps its promise and loses its timer; the decision of
\* a record that expired is undefined.
settled(e, d, by) ==
  [e EXCEPT !.state = "resolved", !.timer = FALSE, !.by = by, !.promise = d,
            !.decision = IF d = Null THEN None ELSE d]

\* resolve and expire: a record that is gone or settled is left alone.
\* Mutant: a settled record can be settled again.
settles_Again(pm, rc, i) == pm[i] # None

settles(pm, rc, i) == pm[i] # None /\ rc[pm[i]].state = "pending"

settle(pm, rc, i, d, by) ==
  IF settles(pm, rc, i) THEN [rc EXCEPT ![pm[i]] = settled(rc[pm[i]], d, by)] ELSE rc

recorded(e) == IF e.decision # None THEN e.decision ELSE e.consumed

repeats(e, d) == recorded(e) = d

-----------------------------------------------------------------------------
(* approval.request.                                                       *)

\* exec: the handler awaits the analysis of the command; the id is looked up
\* after that, in the same step as the registration.
execRequest(r) ==
  /\ r \notin Plugin
  /\ call[r].pc = "new"
  /\ call' = [call EXCEPT ![r].pc = "analysing"]
  /\ UNCHANGED <<pending, rec, op, waiter, used, fwdVars>>

refuse(r) ==
  /\ call' = [call EXCEPT ![r] = [call[r] EXCEPT !.pc = "done", !.final = "error"]]
  /\ UNCHANGED <<pending, rec, op, waiter, used, fwdVars>>

\* No approval client, no chat and no turn source can answer.
unreachable(r, clients, delivered, turnSource) ==
  /\ r \notin RouteOptional
  /\ ~clients /\ ~turnSource /\ ~delivered

\* Expires the record and answers null, or answers "accepted" and waits.
\* (clients is not read again and goes back to FALSE.)
routedCall(c, r, lost) ==
  IF lost THEN [c EXCEPT !.pc = "done", !.settled = TRUE, !.final = Null, !.clients = FALSE]
  ELSE [c EXCEPT !.pc = "waiting", !.settled = TRUE, !.ack = r \in TwoPhase,
                 !.resp = "acknowledged", !.clients = FALSE]

routedRecords(pm, rc, r, lost) ==
  IF lost THEN settle(pm, rc, IdOf[r], Null, "no-approval-route") ELSE rc

\* register joins a pending record with the id, throws on a settled one, and
\* otherwise stores its own with a timer.  The broadcast and the delivery
\* start in the same step, unless delivery is suppressed.
throws(r) == pending[IdOf[r]] # None /\ rec[pending[IdOf[r]]].state = "resolved"

registered(r) ==
  LET i == IdOf[r]
      own == pending[i] = None
      pm == IF own THEN [pending EXCEPT ![i] = r] ELSE pending
      rc == IF own THEN [rec EXCEPT ![r] = [NewRecord EXCEPT !.state = "pending", !.timer = TRUE]]
                   ELSE rec
      c == [call[r] EXCEPT !.on = pm[i]]
  IN  /\ pending' = pm
      /\ \/ /\ r \in Suppressed
            /\ \E turnSource \in BOOLEAN :
                 LET lost == unreachable(r, FALSE, FALSE, turnSource)
                 IN  /\ rec' = routedRecords(pm, rc, r, lost)
                     /\ call' = [call EXCEPT ![r] = routedCall(c, r, lost)]
            /\ UNCHANGED <<slot, note>>
         \/ /\ r \notin Suppressed
            /\ \E clients \in BOOLEAN :
                 call' = [call EXCEPT ![r] = [c EXCEPT !.pc = "delivering",
                                                       !.clients = clients]]
            /\ rec' = rc
            /\ handleRequested(r)
      /\ UNCHANGED <<op, waiter, used, clock>>

register(r) == IF throws(r) THEN refuse(r) ELSE registered(r)

\* Mutant: the id is looked up before the analysis only.
taken_Stale(r) == FALSE

taken(r) == getSnapshot(IdOf[r]) # None

execRegister(r) ==
  /\ call[r].pc = "analysing"
  /\ IF taken(r) THEN refuse(r) ELSE register(r)

\* plugin: no await before the registration; a request that was already
\* aborted leaves without a record and without an answer.
pluginRequest(r) ==
  /\ r \in Plugin
  /\ call[r].pc = "new"
  /\ \/ register(r)
     \/ /\ call' = [call EXCEPT ![r].pc = "done"]
        /\ UNCHANGED <<pending, rec, op, waiter, used, fwdVars>>

\* An exec approval is also pushed to iOS devices, which may reach one.
pushed(r) == IF r \in Plugin THEN {FALSE} ELSE BOOLEAN

abandoned(r) == call[r].resp = "aborted"

\* The delivery's promise settled.
deliverySettled(r) ==
  /\ call[r].pc = "delivering"
  /\ note[r].route \in {"forwarded", "unrouted"}
  /\ IF abandoned(r)
     THEN /\ call' = [call EXCEPT ![r] = [call[r] EXCEPT !.pc = "closing", !.settled = TRUE,
                                                         !.clients = FALSE]]
          /\ UNCHANGED rec
     ELSE \E turnSource \in BOOLEAN, push \in pushed(r) :
            LET delivered == note[r].route = "forwarded" \/ push
                lost == unreachable(r, call[r].clients, delivered, turnSource)
            IN  /\ rec' = routedRecords(pending, rec, r, lost)
                /\ call' = [call EXCEPT ![r] = routedCall(call[r], r, lost)]
  /\ UNCHANGED <<pending, op, waiter, used, fwdVars>>

\* The aborted handler waits for its denial to be forwarded, if it denied.
cleanupReturns(r) ==
  /\ call[r].pc = "closing"
  /\ rec[r].by = "request-aborted" => note[r].closing = "done"
  /\ call' = [call EXCEPT ![r].pc = "done"]
  /\ UNCHANGED <<pending, rec, op, waiter, used, fwdVars>>

decided(r) ==
  /\ call[r].pc = "waiting"
  /\ rec[call[r].on].promise # Unset
  /\ call' = [call EXCEPT ![r] = [call[r] EXCEPT !.pc = "done",
                                                !.final = rec[call[r].on].promise]]
  /\ UNCHANGED <<pending, rec, op, waiter, used, fwdVars>>

-----------------------------------------------------------------------------
(* approval.resolve, and the denial of an aborted turn.                    *)

\* The exec handler tells the forwarder at once; the plugin handler waits
\* until the request's delivery has settled.
forwardResolved(e) ==
  IF e \in Plugin
  THEN /\ note' = [note EXCEPT ![e].closing = "gated"]
       /\ UNCHANGED slot
  ELSE handleResolved(e)

\* Mutant: the gate is opened when the request's handler has ended.
gateOpens_AfterHandler(r) == call[r].pc = "done"

gateOpens(r) == call[r].settled

openGate(r) ==
  /\ note[r].closing = "gated"
  /\ gateOpens(r)
  /\ handleResolved(r)
  /\ UNCHANGED <<pending, rec, call, op, waiter, used, clock>>

resolve(o, i, d) ==
  LET e == pending[i]
      reply(m) == /\ op' = [op EXCEPT ![o] = [pc |-> "done", on |-> e, decision |-> d, reply |-> m]]
                  /\ UNCHANGED <<rec, slot, note>>
  IN  /\ op[o].pc = "idle"
      /\ \/ e = None /\ reply("unknown")
         \/ /\ e # None /\ rec[e].state = "resolved"
            /\ reply(IF repeats(rec[e], d) THEN "ok" ELSE "conflict")
         \/ /\ e # None /\ rec[e].state = "pending"
            /\ IF d \notin Allowed[e] THEN reply("unavailable")
               ELSE /\ rec' = settle(pending, rec, i, d, o)
                    /\ op' = [op EXCEPT ![o] = [pc |-> "following", on |-> e,
                                                decision |-> d, reply |-> "none"]]
                    /\ forwardResolved(e)
      /\ UNCHANGED <<pending, call, waiter, used, clock>>

resolveReturns(o) ==
  /\ op[o].pc = "following"
  /\ note[op[o].on].closing = "done"
  /\ op' = [op EXCEPT ![o] = [op[o] EXCEPT !.pc = "done", !.reply = "ok"]]
  /\ UNCHANGED <<pending, rec, call, waiter, used, fwdVars>>

\* The approval runtime's turn was cancelled: deny, unless already settled.
denyAborted(i) ==
  IF settles(pending, rec, i)
  THEN /\ rec' = settle(pending, rec, i, "deny", "request-aborted")
       /\ forwardResolved(pending[i])
  ELSE UNCHANGED <<rec, slot, note>>

\* The listener is there until the first answer.
abortRequest(r) ==
  /\ abortable(r)
  /\ call[r].pc = "delivering"
  /\ call[r].resp = "pending"
  /\ call' = [call EXCEPT ![r].resp = "aborted"]
  /\ denyAborted(IdOf[r])
  /\ UNCHANGED <<pending, op, waiter, used, clock>>

-----------------------------------------------------------------------------
(* approval.waitDecision.                                                  *)

waitDecision(w, i) ==
  /\ waiter[w].pc = "idle"
  /\ (w \in RuntimeWaiter) => \E p \in Plugin : IdOf[p] = i
  /\ waiter' = [waiter EXCEPT ![w] =
                  IF getSnapshot(i) = None
                  THEN [pc |-> "done", on |-> None, answer |-> "error"]
                  ELSE [pc |-> "waiting", on |-> getSnapshot(i), answer |-> Unset]]
  /\ UNCHANGED <<pending, rec, call, op, used, fwdVars>>

abortWait(w) ==
  /\ w \in RuntimeWaiter
  /\ waiter[w].pc = "waiting"
  /\ waiter' = [waiter EXCEPT ![w].pc = "aborted"]
  /\ denyAborted(IdOf[waiter[w].on])
  /\ UNCHANGED <<pending, call, op, used, clock>>

waitReturns(w) ==
  /\ waiter[w].pc \in {"waiting", "aborted"}
  /\ rec[waiter[w].on].promise # Unset
  /\ waiter' = [waiter EXCEPT ![w] =
                  [waiter[w] EXCEPT !.pc = "done",
                                    !.answer = IF waiter[w].pc = "waiting"
                                               THEN rec[waiter[w].on].promise
                                               ELSE waiter[w].answer]]
  /\ UNCHANGED <<pending, rec, call, op, used, fwdVars>>

-----------------------------------------------------------------------------
(* Timers.                                                                 *)

expire(r) ==
  /\ rec[r].timer
  /\ due(r)
  /\ rec' = settle(pending, [rec EXCEPT ![r].timer = FALSE], IdOf[r], Null, None)
  /\ UNCHANGED <<pending, call, op, waiter, used, fwdVars>>

sweepable(r) == rec[r].state = "resolved"

sweep(r) ==
  /\ sweepable(r)
  /\ ~rec[r].swept
  /\ ~(note[r].timer /\ due(r))
  /\ note[r].route # "routing"
  /\ rec' = [rec EXCEPT ![r].swept = TRUE]
  /\ pending' = IF pending[IdOf[r]] = r THEN [pending EXCEPT ![IdOf[r]] = None] ELSE pending
  /\ UNCHANGED <<call, op, waiter, used, fwdVars>>

-----------------------------------------------------------------------------
(* node.invoke system.run with an approval: the caller, the node and the   *)
(* command match the record.  A run that is refused changes nothing.       *)

\* Nobody decided: the record's own timer settled it.
\* Mutant: who settled the record is not asked.
timedOut_Anyone(e) == e.state = "resolved" /\ e.decision = None

timedOut(e) == e.state = "resolved" /\ e.decision = None /\ e.by = None

\* consumeAllowOnce.
consumed(e) == [e EXCEPT !.consumed = e.decision, !.decision = None]

nodeRun(i) ==
  LET r == getSnapshot(i)
  IN  /\ r # None
      /\ r \notin Plugin
      /\ clock[r] # "past"
      /\ used[r].once + used[r].always + used[r].fallback < MaxRuns
      /\ \/ /\ rec[r].decision = "allow-once"
            /\ rec' = [rec EXCEPT ![r] = consumed(rec[r])]
            /\ used' = [used EXCEPT ![r].once = used[r].once + 1]
         \/ /\ rec[r].decision = "allow-always"
            /\ used' = [used EXCEPT ![r].always = used[r].always + 1]
            /\ UNCHANGED rec
         \/ /\ timedOut(rec[r])
            /\ used' = [used EXCEPT ![r].fallback = used[r].fallback + 1]
            /\ UNCHANGED rec
      /\ UNCHANGED <<pending, call, op, waiter, fwdVars>>

-----------------------------------------------------------------------------
forwarderStep(r) == forwards(r) /\ UNCHANGED <<pending, rec, call, op, waiter, used>>

\* A plugin's handler goes on from the forwarder's answer, and its gate opens,
\* within microtasks: no timer fires in between.
expiryNotice(r) ==
  /\ r \in Plugin => call[r].pc # "delivering" /\ ~(note[r].closing = "gated" /\ call[r].settled)
  /\ expiryDue(r)
  /\ UNCHANGED <<pending, rec, call, op, waiter, used>>

timePasses(r) == /\ rec[r].state # "none"
                 /\ tick(r)
                 /\ UNCHANGED <<pending, rec, call, op, waiter, used>>

Next ==
  \/ \E r \in Request :
       \/ execRequest(r) \/ execRegister(r) \/ pluginRequest(r) \/ deliverySettled(r)
       \/ decided(r) \/ cleanupReturns(r) \/ abortRequest(r) \/ openGate(r) \/ expire(r) \/ sweep(r)
       \/ forwarderStep(r) \/ expiryNotice(r) \/ timePasses(r)
  \/ \E o \in Operator, i \in Id, d \in Decisions : resolve(o, i, d)
  \/ \E o \in Operator : resolveReturns(o)
  \/ \E w \in Waiter, i \in Id : waitDecision(w, i)
  \/ \E w \in Waiter : abortWait(w) \/ waitReturns(w)
  \/ \E i \in Id : nodeRun(i)

Spec == Init /\ [][Next]_vars

\* Awaits return, timers fire and time passes; whether anybody asks, decides,
\* aborts, waits or runs is open.
Fairness ==
  /\ \A r \in Request :
       /\ WF_vars(execRegister(r)) /\ WF_vars(deliverySettled(r)) /\ WF_vars(decided(r))
       /\ WF_vars(cleanupReturns(r)) /\ WF_vars(openGate(r)) /\ WF_vars(expire(r)) /\ WF_vars(forwarderStep(r))
       /\ WF_vars(expiryNotice(r)) /\ WF_vars(timePasses(r))
  /\ \A w \in Waiter : WF_vars(waitReturns(w))
  /\ \A o \in Operator : WF_vars(resolveReturns(o))

FairSpec == Spec /\ Fairness

-----------------------------------------------------------------------------
TypeOK ==
  /\ ForwarderTypeOK
  /\ pending \in [Id -> Request \cup {None}]
  /\ rec \in [Request -> Record]
  /\ call \in [Request -> Handler]
  /\ op \in [Operator -> Resolver]
  /\ waiter \in [Waiter -> Waiting]
  /\ used \in [Request -> [once: 0..MaxRuns, always: 0..MaxRuns, fallback: 0..MaxRuns]]

\* A record nobody settled is the one its id names, and its timer is armed.
PendingOwned == \A r \in Request :
  /\ rec[r].state = "pending" => pending[IdOf[r]] = r
  /\ rec[r].timer <=> rec[r].state = "pending"

\* The map names records by their ids, and only what was registered.
MapNamesRecords == \A i \in Id : pending[i] # None =>
                     IdOf[pending[i]] = i /\ rec[pending[i]].state # "none"

\* What the promise gave is what the record says, before and after a run
\* consumed it.
RecordTellsPromise == \A r \in Request :
  LET e == rec[r]
  IN  /\ (e.state = "resolved") <=> (e.promise # Unset)
      /\ e.promise \in Verdict => recorded(e) = e.promise
      /\ e.promise \notin Verdict => e.decision = None /\ e.consumed = None
      /\ e.consumed \in {None, "allow-once"}

\* Only operators allow, and an abort only denies.
SettlerMayDecide == \A r \in Request :
  /\ rec[r].promise = "allow-once" => rec[r].by \in Operator
  /\ rec[r].by = "request-aborted" => rec[r].promise = "deny"

\* A run under an allow-once leaves nothing to run under.
RunsAreRecorded == \A r \in Request :
  /\ used[r].once <= 1
  /\ used[r].once > 0 => rec[r].consumed = "allow-once" /\ rec[r].decision = None
  /\ used[r].always > 0 => rec[r].promise = "allow-always"
  /\ used[r].fallback > 0 => rec[r].promise = Null

\* A handler's own record is never younger than the handler.
HandlerOwnsRecord == \A r \in Request :
  /\ call[r].pc \in {"new", "analysing"} =>
       rec[r] = NewRecord /\ call[r].on = None /\ note[r] = NewNote
  /\ call[r].pc \in {"delivering", "waiting"} => call[r].on \in Request
  /\ call[r].pc = "delivering" => rec[r].state # "none"

\* A handler that was not heard of, or was aborted, has not answered.
HandlerIsSilent == \A r \in Request :
  /\ call[r].pc \in {"new", "analysing", "delivering"} => ~call[r].ack /\ call[r].final = Unset
  /\ call[r].resp = "aborted" => call[r].pc \in {"delivering", "closing", "done"}

\* Waiters and operators hold records that were registered.
HoldersHoldRecords ==
  /\ \A w \in Waiter : waiter[w].pc \in {"waiting", "aborted"} => waiter[w].on \in Request
  /\ \A o \in Operator : op[o].pc = "following" =>
       /\ op[o].on \in Request
       /\ rec[op[o].on].promise = op[o].decision /\ op[o].decision # None
  /\ \A o \in Operator : op[o].reply \in {"ok", "conflict"} =>
       op[o].on \in Request /\ rec[op[o].on].promise # Unset

\* The forwarder closes what is settled, a plugin's through the gate.
ClosedIsSettled == \A r \in Request :
  /\ note[r].closing # "none" => rec[r].promise # Unset
  /\ note[r].closing = "gated" => r \in Plugin

\* Until the forwarder is told of the outcome, a prompt under way has its
\* entry in the map, or its expiry notice follows it.
PromptIsHeld == \A r \in Request :
  /\ note[r].prompt \in {"queued", "sending"}
  /\ \/ rec[r].state = "pending"
     \/ r \in Plugin /\ note[r].closing \in {"none", "gated"}
  => slot[IdOf[r]] = Ready(r) \/ note[r].expiry # "none"

(***************************************************************************)
(* The invariant the others rest on: as long as a record is unsettled it   *)
(* can be found and will expire (exec-approval-manager.ts, register),      *)
(* whatever happens to other records with its id; the record tells what    *)
(* its promise gave; and a prompt under way is held by its entry.          *)
(***************************************************************************)
IInv == /\ TypeOK /\ PendingOwned /\ MapNamesRecords /\ RecordTellsPromise
        /\ SettlerMayDecide /\ RunsAreRecorded /\ HandlerOwnsRecord /\ HandlerIsSilent
        /\ HoldersHoldRecords /\ EntriesAreOpen /\ PromptComesFirst
        /\ ClosedIsSettled /\ PromptIsHeld

(***************************************************************************)
(* No two requests share one decision: an exec request that brings the id  *)
(* of a pending record is refused even if that record was registered while *)
(* its own command was analysed.                                           *)
(***************************************************************************)
NeverJoined == \A r \in Request : call[r].on \in {None, r}

(***************************************************************************)
(* An allow-once lets one run through, and the fallback for an approval    *)
(* that timed out only lets runs through that nobody decided; both over    *)
(* resolves, retries, the grace window and the return of an id.            *)
(***************************************************************************)
OneUse == \A r \in Request :
  /\ used[r].once <= 1
  /\ used[r].once > 0 => rec[r].promise = "allow-once" /\ rec[r].by \in Operator
  /\ used[r].always > 0 => rec[r].promise = "allow-always"
  /\ used[r].fallback > 0 => rec[r].promise = Null /\ used[r].once = 0

(***************************************************************************)
(* An operator is told the truth about the record: "ok" if its decision is *)
(* the one that stands, first or retried, and "already resolved" only if   *)
(* another one stands, also after a run consumed the decision.             *)
(***************************************************************************)
ReplyTellsOutcome == \A o \in Operator :
  /\ op[o].reply = "ok" => rec[op[o].on].promise = op[o].decision
  /\ op[o].reply = "conflict" => rec[op[o].on].promise # op[o].decision

(***************************************************************************)
(* A request whose turn was cancelled is never answered, and its record is *)
(* settled by then: denied unless somebody decided first.                  *)
(***************************************************************************)
AbortedUnanswered == \A r \in Request : call[r].resp = "aborted" =>
  /\ ~call[r].ack
  /\ call[r].final = Unset
  /\ rec[r].promise # Unset
  /\ rec[r].promise # "deny" => rec[r].by # "request-aborted"

(***************************************************************************)
(* The first settlement stands: no later resolve, expiry, missing route or *)
(* abort changes who settled a record and how.                             *)
(***************************************************************************)
FirstSettlementStands ==
  [][\A r \in Request : rec[r].promise # Unset =>
       /\ rec'[r].promise = rec[r].promise
       /\ rec'[r].by = rec[r].by
       /\ rec'[r].state = "resolved"
       /\ recorded(rec'[r]) = recorded(rec[r])]_vars

(***************************************************************************)
(* Every request and every wait ends, whether or not anybody decides.      *)
(***************************************************************************)
Answered == /\ \A r \in Request : call[r].pc \notin {"new", "done"} ~> call[r].pc = "done"
            /\ \A w \in Waiter : waiter[w].pc = "waiting" ~> waiter[w].pc = "done"

(***************************************************************************)
(* The safety of an approval under reuse of its id, retries, aborts and    *)
(* late timers: an unsettled record can be found and expires, is never     *)
(* shared, operators are told what stands, an aborted request is not       *)
(* answered and no prompt comes below its outcome                          *)
(* (exec-approval-manager.ts, approval-shared.ts, the forwarder).          *)
(***************************************************************************)
ApprovalSafe == IInv /\ NeverJoined /\ ReplyTellsOutcome /\ AbortedUnanswered /\ NoLatePrompt

(***************************************************************************)
(* Nobody is left waiting: every request and wait ends, and every prompt   *)
(* in the chat is closed by an outcome or an expiry notice.                *)
(***************************************************************************)
Concludes == Answered /\ PromptClosed

=============================================================================
