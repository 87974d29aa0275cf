--------------------------- MODULE DeliveryQueue ---------------------------
(***************************************************************************)
(* The durable queue in front of every channel send                        *)
(* (src/infra/outbound/delivery-queue-storage.ts and -recovery.ts, with    *)
(* the live sender of src/infra/outbound/deliver.ts): an entry is written  *)
(* before the platform is called and removed after it answered; after a    *)
(* crash the startup pass, and after a reconnect a channel's drain, go     *)
(* through what is left.                                                   *)
(*                                                                         *)
(* One process, one thread: a step runs from one await to the next, every  *)
(* storage call is synchronous inside its step, and the process may crash  *)
(* between any two steps.  Rows survive a crash; the claims                *)
(* (entriesInProgress) and everything a worker was doing do not.           *)
(***************************************************************************)
EXTENDS Integers, FiniteSets

CONSTANTS Entry,       \* the deliveries, each with its live sender
          Startup,     \* the pass of recoverPendingDeliveries
          Drain,       \* the callers of drainPendingDeliveries, by drainKey
          Units,       \* payloads of a delivery
          MAX_RETRIES,
          BestEffort,  \* the values of bestEffort callers use,
          QueuePolicy, \* of queuePolicy,
          Reconciles,  \* whether their channels can reconcile,
          Lagging,     \* and whether their adapter may not find what is out
          MaxCrashes,  \* bound: crashes
          MaxFaults    \* bound: storage operations that fail

ASSUME DeliveryAssumption ==
  /\ Entry # {} /\ IsFiniteSet(Entry)
  /\ Startup \notin Drain /\ Entry \cap (Drain \cup {Startup}) = {}
  /\ Units \in Nat \ {0} /\ MAX_RETRIES \in Nat \ {0}
  /\ BestEffort \subseteq BOOLEAN /\ Reconciles \subseteq BOOLEAN /\ Lagging \subseteq BOOLEAN
  /\ QueuePolicy \subseteq {"required", "best_effort"}
  /\ MaxCrashes \in Nat /\ MaxFaults \in Nat

Pass == Drain \cup {Startup}
Worker == Entry \cup Pass

VARIABLES row,       \* delivery_queue_entries: durable
          claims,    \* entriesInProgress
          worker,    \* what each live sender and each pass is doing
          call,      \* the caller's parameters, and its abort signal
          platform,  \* what recipients see
          hooks,     \* how often the afterCommit hooks of a delivery ran
          crashes, faults

vars == <<row, claims, worker, call, platform, hooks, crashes, faults>>

RowRecord ==
  [status : {"none", "pending", "failed", "acked"}, retryCount : Nat,
   elapsed : BOOLEAN,                \* the backoff since lastAttemptAt is over
   recoveryState : {"none", "send_attempt_started", "unknown_after_send"},
   enqueuedAt : Nat]

WorkerRecord ==
  [pc : {"idle", "enqueued", "unit", "calling", "committed", "threw", "aborted",
         "acking", "hooks", "scan", "claimed", "reconcile", "done"},
   entry : Entry, durable : BOOLEAN,        \* queueId is not null
   todo : SUBSET Entry,                     \* entries of the snapshot still to do
   seen : RowRecord,                        \* currentEntry
   unit : 1 .. Units + 1, results : BOOLEAN,
   started : BOOLEAN, partial : BOOLEAN]    \* platformSendStarted, hadPartialFailure

CallRecord ==
  [bestEffort : BestEffort, queuePolicy : QueuePolicy, reconciles : Reconciles,
   lagging : Lagging, aborted : BOOLEAN]

(* copies: how often a unit became visible, 2 standing for more than once. *)
PlatformRecord ==
  [copies : [1 .. Units -> 0 .. 2], live : SUBSET (1 .. Units),
   suppressed : SUBSET (1 .. Units)]

TypeOK ==
  /\ row \in [Entry -> RowRecord]
  /\ claims \subseteq Entry
  /\ worker \in [Worker -> WorkerRecord]
  /\ call \in [Entry -> CallRecord]
  /\ platform \in [Entry -> PlatformRecord]
  /\ hooks \in [Entry -> 0 .. 2]
  /\ crashes \in 0 .. MaxCrashes
  /\ faults \in 0 .. MaxFaults

NoRow == [status |-> "none", retryCount |-> 0, elapsed |-> FALSE,
          recoveryState |-> "none", enqueuedAt |-> 0]

atRest(e, pc) ==
  [pc |-> pc, entry |-> e, durable |-> FALSE, todo |-> {}, seen |-> NoRow,
   unit |-> 1, results |-> FALSE, started |-> FALSE, partial |-> FALSE]

AnyEntry == CHOOSE e \in Entry : TRUE    \* a pass between two entries

Init ==
  /\ row = [e \in Entry |-> NoRow]
  /\ claims = {}
  /\ worker = [w \in Worker |-> atRest(IF w \in Entry THEN w ELSE AnyEntry, "idle")]
  /\ call \in [Entry -> [bestEffort : BestEffort, queuePolicy : QueuePolicy,
                         reconciles : Reconciles, lagging : Lagging, aborted : {FALSE}]]
  /\ platform = [e \in Entry |-> [copies |-> [u \in 1 .. Units |-> 0],
                                  live |-> {}, suppressed |-> {}]]
  /\ hooks = [e \in Entry |-> 0]
  /\ crashes = 0
  /\ faults = 0

-----------------------------------------------------------------------------
(* The storage operations.  Each is one synchronous transaction that may   *)
(* fail; an update or a move of an entry that is not pending throws        *)
(* ENOENT, a delete of one does nothing.                                   *)
faultsOf(ok) == IF ok THEN 0 ELSE 1

storesTwice(ok, ok2) ==
  /\ faults + faultsOf(ok) + faultsOf(ok2) <= MaxFaults
  /\ faults' = faults + faultsOf(ok) + faultsOf(ok2)

stores(ok) == storesTwice(ok, TRUE)

(* Mutant: a failure that is not counted.                                  *)
failDelivery_Uncounted(r) == [r EXCEPT !.elapsed = FALSE]

failDelivery(r) == [r EXCEPT !.retryCount = r.retryCount + 1, !.elapsed = FALSE]

markDeliveryPlatformSendAttemptStarted(r) == [r EXCEPT !.recoveryState = "send_attempt_started"]

markDeliveryPlatformOutcomeUnknown(r) == [r EXCEPT !.recoveryState = "unknown_after_send"]

moveToFailed(r) == [r EXCEPT !.status = "failed"]

ackDelivery(r) == [r EXCEPT !.status = "acked"]

updates(e, ok, new) ==
  row' = IF ok /\ row[e].status = "pending" THEN [row EXCEPT ![e] = new] ELSE row

-----------------------------------------------------------------------------
(* Claims.                                                                 *)
(* Mutant: a claim that does not look whether there is one.                *)
claimable_Always(e) == TRUE

claimable(e) == e \notin claims    \* claimRecoveryEntry

active(w) == worker[w].pc \notin {"idle", "enqueued", "scan", "done"}

released(w) == claims \ {worker[w].entry}    \* releaseRecoveryEntry, in the finally

(* A worker is through with its entry: a sender for good, a pass until the *)
(* next entry of its snapshot.                                             *)
finish(w) ==
  /\ claims' = IF worker[w].durable \/ w \in Pass THEN released(w) ELSE claims
  /\ worker' = [worker EXCEPT ![w] =
       IF w \in Entry THEN atRest(w, "done")
       ELSE [atRest(AnyEntry, "scan") EXCEPT !.todo = worker[w].todo]]

goes(w, pc) == worker' = [worker EXCEPT ![w].pc = pc]

-----------------------------------------------------------------------------
(* deliverOutboundPayloadsInternal up to the claim.  A queue write that    *)
(* fails ends a required delivery and makes a best-effort one direct.      *)
enqueue(e, ok) ==
  /\ worker[e].pc = "idle"
  /\ stores(ok)
  /\ row' = IF ok THEN [row EXCEPT ![e] =
               [NoRow EXCEPT !.status = "pending",
                             !.enqueuedAt = Cardinality({f \in Entry : row[f].status # "none"})]]
            ELSE row
  /\ worker' = [worker EXCEPT ![e] =
       IF ok THEN [worker[e] EXCEPT !.pc = "enqueued", !.durable = TRUE]
       ELSE IF call[e].queuePolicy = "required" THEN atRest(e, "done")
       ELSE [worker[e] EXCEPT !.pc = "unit"]]
  /\ UNCHANGED <<claims, call, platform, hooks, crashes>>

(* withActiveDeliveryClaim of the live sender; an entry that a pass has    *)
(* claimed meanwhile is left to it.                                        *)
liveClaim(e) ==
  /\ worker[e].pc = "enqueued"
  /\ IF claimable(e) THEN claims' = claims \cup {e} /\ goes(e, "unit")
     ELSE claims' = claims /\ worker' = [worker EXCEPT ![e] = atRest(e, "done")]
  /\ UNCHANGED <<row, call, platform, hooks, crashes, faults>>

(* The caller's abort signal.                                              *)
abort(e) ==
  /\ ~call[e].aborted /\ worker[e].pc # "done"
  /\ call' = [call EXCEPT ![e].aborted = TRUE]
  /\ UNCHANGED <<row, claims, worker, platform, hooks, crashes, faults>>

-----------------------------------------------------------------------------
(* deliverOutboundPayloadsCore, the loop over the payloads.  A pass gives  *)
(* no abort signal and no queue id.                                        *)
inLoop(w) == worker[w].pc = "unit" /\ worker[w].unit <= Units

aborting(w) == w \in Entry /\ call[w].aborted

(* The catch of one payload: with bestEffort the loop goes on.             *)
unitThrows(w, pc) ==
  worker' = [worker EXCEPT ![w] =
    IF call[worker[w].entry].bestEffort
    THEN [worker[w] EXCEPT !.pc = "unit", !.unit = worker[w].unit + 1, !.partial = TRUE]
    ELSE [worker[w] EXCEPT !.pc = pc]]

throwIfAborted(w) ==
  /\ inLoop(w) /\ aborting(w)
  /\ unitThrows(w, "aborted")
  /\ UNCHANGED <<row, claims, call, platform, hooks, crashes, faults>>

(* A sending hook cancels the payload.                                     *)
suppress(w) ==
  /\ inLoop(w) /\ ~aborting(w)
  /\ worker' = [worker EXCEPT ![w].unit = worker[w].unit + 1]
  /\ platform' = [platform EXCEPT ![worker[w].entry].suppressed =
                     platform[worker[w].entry].suppressed \cup {worker[w].unit}]
  /\ UNCHANGED <<row, claims, call, hooks, crashes, faults>>

(* Mutant: the marker is left out.                                         *)
marks_Never(w) == FALSE

(* onPlatformSendStart writes the marker once, for a queued delivery.      *)
marks(w) == worker[w].durable /\ ~worker[w].started

startUnit(w) ==
  /\ inLoop(w) /\ ~aborting(w) /\ ~marks(w)
  /\ goes(w, "calling")
  /\ UNCHANGED <<row, claims, call, platform, hooks, crashes, faults>>

markAndStartUnit(w, ok) ==
  /\ inLoop(w) /\ ~aborting(w) /\ marks(w)
  /\ stores(ok)
  /\ updates(w, ok, markDeliveryPlatformSendAttemptStarted(row[w]))
  /\ IF ok /\ row[w].status = "pending"
     THEN worker' = [worker EXCEPT ![w].pc = "calling", ![w].started = TRUE]
     ELSE IF call[w].queuePolicy = "required" THEN unitThrows(w, "threw")
     ELSE goes(w, "calling")
  /\ UNCHANGED <<claims, call, platform, hooks, crashes>>

(* The platform accepts the unit; its answer comes later, or never.        *)
accept(w) ==
  LET e == worker[w].entry
      u == worker[w].unit
  IN  /\ worker[w].pc = "calling"
      /\ goes(w, "committed")
      /\ platform' = [platform EXCEPT
           ![e].copies[u] = IF platform[e].copies[u] < 2 THEN platform[e].copies[u] + 1 ELSE 2,
           ![e].live = IF w \in Entry THEN platform[e].live \cup {u} ELSE platform[e].live]
      /\ UNCHANGED <<row, claims, call, hooks, crashes, faults>>

(* The answer arrives, with an identity pushIdentifiedDeliveryResult keeps *)
(* or without one.                                                         *)
unitReturns(w, identified) ==
  /\ worker[w].pc = "committed"
  /\ worker' = [worker EXCEPT ![w].pc = "unit", ![w].unit = worker[w].unit + 1,
                              ![w].results = worker[w].results \/ identified]
  /\ UNCHANGED <<row, claims, call, platform, hooks, crashes, faults>>

(* The payload fails before the call, in it, or after the platform took it.*)
unitFails(w) ==
  /\ inLoop(w) \/ worker[w].pc \in {"calling", "committed"}
  /\ unitThrows(w, "threw")
  /\ UNCHANGED <<row, claims, call, platform, hooks, crashes, faults>>

coreReturned(w) == worker[w].pc = "unit" /\ worker[w].unit > Units

-----------------------------------------------------------------------------
(* deliverOutboundPayloadsWithQueueCleanup.                                *)
runHooks(e) == hooks' = [hooks EXCEPT ![e] = IF hooks[e] < 2 THEN hooks[e] + 1 ELSE 2]

commitsNow(w) == w \in Entry    \* not deferCommitHooks

directReturns(e) ==
  /\ e \in Entry /\ coreReturned(e) /\ ~worker[e].durable
  /\ IF commitsNow(e) THEN runHooks(e) ELSE hooks' = hooks
  /\ finish(e)
  /\ UNCHANGED <<row, call, platform, crashes, faults>>

partialFailure(e, ok) ==
  /\ e \in Entry /\ coreReturned(e) /\ worker[e].durable /\ worker[e].partial
  /\ stores(ok)
  /\ updates(e, ok, failDelivery(row[e]))
  /\ finish(e)
  /\ UNCHANGED <<call, platform, hooks, crashes>>

markOutcomeUnknown(e, ok) ==
  /\ e \in Entry /\ coreReturned(e) /\ worker[e].durable /\ ~worker[e].partial /\ worker[e].started
  /\ stores(ok)
  /\ updates(e, ok, markDeliveryPlatformOutcomeUnknown(row[e]))
  /\ IF (ok /\ row[e].status = "pending") \/ call[e].queuePolicy # "required"
     THEN goes(e, "acking") /\ claims' = claims
     ELSE finish(e)
  /\ UNCHANGED <<call, platform, hooks, crashes>>

liveAck(e, ok) ==
  /\ e \in Entry
  /\ \/ worker[e].pc = "acking"
     \/ coreReturned(e) /\ worker[e].durable /\ ~worker[e].partial /\ ~worker[e].started
  /\ stores(ok)
  /\ updates(e, ok, ackDelivery(row[e]))
  /\ IF ok THEN goes(e, "hooks") /\ claims' = claims ELSE finish(e)
  /\ UNCHANGED <<call, platform, hooks, crashes>>

(* Both owners of an entry run the commit hooks after the ack.             *)
commitHooks(w) ==
  /\ worker[w].pc = "hooks"
  /\ runHooks(worker[w].entry)
  /\ finish(w)
  /\ UNCHANGED <<row, call, platform, crashes, faults>>

(* The outer catch.  An abort takes the entry off the queue; an error      *)
(* after a unit was answered for marks it; any other error is a failure to *)
(* retry.  A marker that fails is a failure too when it throws.            *)
sendEvidence(e) == worker[e].started /\ worker[e].results

liveCatches(e, ok, ok2) ==
  LET fallsBack == sendEvidence(e) /\ call[e].queuePolicy = "required"
                   /\ ~(ok /\ row[e].status = "pending")
  IN  /\ storesTwice(ok, ok2) /\ (~fallsBack => ok2)
      /\ updates(e, IF fallsBack THEN ok2 ELSE ok,
                 IF sendEvidence(e) /\ ~fallsBack
                 THEN markDeliveryPlatformOutcomeUnknown(row[e]) ELSE failDelivery(row[e]))

liveThrew(e, ok, ok2) ==
  /\ e \in Entry /\ worker[e].pc = "threw" /\ worker[e].durable
  /\ liveCatches(e, ok, ok2)
  /\ finish(e)
  /\ UNCHANGED <<call, platform, hooks, crashes>>

liveAborted(e, ok) ==
  /\ e \in Entry /\ worker[e].pc = "aborted" /\ worker[e].durable
  /\ stores(ok)
  /\ updates(e, ok, ackDelivery(row[e]))
  /\ finish(e)
  /\ UNCHANGED <<call, platform, hooks, crashes>>

directThrew(e) ==
  /\ e \in Entry /\ worker[e].pc \in {"threw", "aborted"} /\ ~worker[e].durable
  /\ finish(e)
  /\ UNCHANGED <<row, call, platform, hooks, crashes, faults>>

-----------------------------------------------------------------------------
(* The passes: recoverPendingDeliveries at startup, drainPendingDeliveries *)
(* on a reconnect.                                                         *)
pending == {e \in Entry : row[e].status = "pending"}

beginPass(p) ==
  /\ worker[p].pc = "idle" /\ pending # {}
  /\ worker' = [worker EXCEPT ![p] = [atRest(AnyEntry, "scan") EXCEPT !.todo = pending]]
  /\ UNCHANGED <<row, claims, call, platform, hooks, crashes, faults>>

(* The startup pass runs once in a process; a drain may run again.         *)
passOver(p) == IF p = Startup THEN "done" ELSE "idle"

endPass(p) == worker' = [worker EXCEPT ![p] = atRest(AnyEntry, passOver(p))]

(* The snapshot is worked off, or the startup pass's time budget is spent. *)
passEnds(p) ==
  /\ worker[p].pc = "scan"
  /\ worker[p].todo = {} \/ p = Startup
  /\ endPass(p)
  /\ UNCHANGED <<row, claims, call, platform, hooks, crashes, faults>>

oldest(p, e) ==
  e \in worker[p].todo /\ \A f \in worker[p].todo : row[e].enqueuedAt <= row[f].enqueuedAt

(* Mutant: the pass works on what the entry was when it loaded the queue.  *)
reread_Snapshot(e) == [row[e] EXCEPT !.status = "pending"]

reread(e) == row[e]    \* loadPendingDelivery, after the claim

passClaims(p, e) ==
  /\ worker[p].pc = "scan" /\ oldest(p, e)
  /\ IF claimable(e)
     THEN /\ claims' = claims \cup {e}
          /\ worker' = [worker EXCEPT ![p] = [atRest(e, "claimed") EXCEPT
                           !.todo = worker[p].todo \ {e}, !.seen = reread(e)]]
     ELSE claims' = claims /\ worker' = [worker EXCEPT ![p].todo = worker[p].todo \ {e}]
  /\ UNCHANGED <<row, call, platform, hooks, crashes, faults>>

(* The read fails: the claim is given back and the error ends the pass.    *)
rereadFails(p) ==
  /\ worker[p].pc = "scan" /\ \E e \in Entry : oldest(p, e) /\ claimable(e)
  /\ stores(FALSE)
  /\ endPass(p)
  /\ UNCHANGED <<row, claims, call, platform, hooks, crashes>>

alreadyGone(p) ==
  /\ worker[p].pc = "claimed" /\ worker[p].seen.status # "pending"
  /\ finish(p)
  /\ UNCHANGED <<row, call, platform, hooks, crashes, faults>>

exhausted(r) == r.retryCount >= MAX_RETRIES

(* A move that fails is logged by the startup pass and ends a drain.       *)
exceededRetries(p, ok) ==
  LET e == worker[p].entry
  IN  /\ worker[p].pc = "claimed" /\ worker[p].seen.status = "pending"
      /\ exhausted(worker[p].seen)
      /\ stores(ok)
      /\ updates(e, ok, moveToFailed(row[e]))
      /\ IF ok \/ p = Startup THEN finish(p) ELSE endPass(p) /\ claims' = released(p)
      /\ UNCHANGED <<call, platform, hooks, crashes>>

isEntryEligibleForRecoveryRetry(r) == r.retryCount = 0 \/ r.elapsed

notReady(p) ==
  /\ worker[p].pc = "claimed" /\ worker[p].seen.status = "pending"
  /\ ~exhausted(worker[p].seen) /\ ~isEntryEligibleForRecoveryRetry(worker[p].seen)
  /\ finish(p)
  /\ UNCHANGED <<row, call, platform, hooks, crashes, faults>>

(* drainQueuedEntry begins.  A drain's caller may bypass the backoff.  The *)
(* sender that wrote the entry takes its turn first: it is a microtask or  *)
(* two from its claim, a pass that has the entry is further from an end.   *)
drainQueuedEntry(p) ==
  /\ worker[worker[p].entry].pc # "enqueued"
  /\ worker[p].pc = "claimed" /\ worker[p].seen.status = "pending"
  /\ ~exhausted(worker[p].seen)
  /\ isEntryEligibleForRecoveryRetry(worker[p].seen) \/ p \in Drain
  /\ goes(p, IF worker[p].seen.recoveryState = "none" THEN "unit" ELSE "reconcile")
  /\ UNCHANGED <<row, claims, call, platform, hooks, crashes, faults>>

(* reconcileUnknownQueuedDelivery.  An adapter calls a delivery sent when  *)
(* all of it is out, and not sent when none of it is, as far as it can     *)
(* see; what it throws is retryable.                                       *)
out(e) == {u \in 1 .. Units : platform[e].copies[u] > 0}

Answers(e) ==
  {"none"} \cup
  (IF ~call[e].reconciles THEN {}
   ELSE {"unresolved", "retryable"}
        \cup (IF out(e) \cup platform[e].suppressed = 1 .. Units /\ out(e) # {} THEN {"sent"} ELSE {})
        \cup (IF out(e) = {} \/ call[e].lagging THEN {"not_sent"} ELSE {}))

provedPreSendFailure(p, answer) ==
  answer = "not_sent" /\ worker[p].seen.recoveryState = "send_attempt_started"

reconciledSent(p, ok, ok2) ==
  LET e == worker[p].entry
  IN  /\ worker[p].pc = "reconcile" /\ "sent" \in Answers(e)
      /\ storesTwice(ok, ok2) /\ (ok => ok2)
      /\ IF ok THEN updates(e, TRUE, ackDelivery(row[e])) /\ goes(p, "hooks") /\ claims' = claims
         ELSE updates(e, ok2, failDelivery(row[e])) /\ finish(p)
      /\ UNCHANGED <<call, platform, hooks, crashes>>

reconciledNotSent(p) ==
  /\ worker[p].pc = "reconcile"
  /\ \E answer \in Answers(worker[p].entry) : provedPreSendFailure(p, answer)
  /\ goes(p, "unit")
  /\ UNCHANGED <<row, claims, call, platform, hooks, crashes, faults>>

(* Every other answer is not replayed: one that can still come is waited   *)
(* for, any other ends the entry.                                          *)
refuseReplay(p, ok) ==
  LET e == worker[p].entry
  IN  /\ worker[p].pc = "reconcile"
      /\ \E answer \in Answers(e) \ {"sent"} :
           /\ ~provedPreSendFailure(p, answer)
           /\ updates(e, ok, IF answer = "retryable" THEN failDelivery(row[e])
                                                     ELSE moveToFailed(row[e]))
      /\ stores(ok)
      /\ finish(p)
      /\ UNCHANGED <<call, platform, hooks, crashes>>

(* The replay returned: the entry is acked, then the hooks run.            *)
recoveredAck(p, ok) ==
  /\ p \in Pass /\ coreReturned(p)
  /\ stores(ok)
  /\ updates(worker[p].entry, ok, ackDelivery(row[worker[p].entry]))
  /\ goes(p, IF ok THEN "hooks" ELSE "threw")
  /\ IF commitsNow(p) THEN runHooks(worker[p].entry) ELSE hooks' = hooks
  /\ UNCHANGED <<claims, call, platform, crashes>>

(* The replay threw: a permanent error ends the entry.                     *)
replayFailed(p, permanent, ok) ==
  LET e == worker[p].entry
  IN  /\ p \in Pass /\ worker[p].pc = "threw"
      /\ stores(ok)
      /\ updates(e, ok, IF permanent THEN moveToFailed(row[e]) ELSE failDelivery(row[e]))
      /\ finish(p)
      /\ UNCHANGED <<call, platform, hooks, crashes>>

backoffElapses(e) ==
  /\ row[e].status = "pending" /\ row[e].retryCount > 0 /\ ~row[e].elapsed
  /\ row' = [row EXCEPT ![e].elapsed = TRUE]
  /\ UNCHANGED <<claims, worker, call, platform, hooks, crashes, faults>>

(* The process dies and comes back: a sender that had begun is lost.       *)
crash ==
  /\ crashes < MaxCrashes
  /\ crashes' = crashes + 1
  /\ claims' = {}
  /\ worker' = [w \in Worker |->
       IF w \in Pass THEN atRest(AnyEntry, "idle")
       ELSE IF worker[w].pc = "idle" THEN worker[w] ELSE atRest(w, "done")]
  /\ UNCHANGED <<row, call, platform, hooks, faults>>

-----------------------------------------------------------------------------
liveStep(e) ==
  \/ liveClaim(e) \/ directReturns(e) \/ directThrew(e)
  \/ \E ok \in BOOLEAN :
       \/ enqueue(e, ok) \/ partialFailure(e, ok) \/ markOutcomeUnknown(e, ok)
       \/ liveAck(e, ok) \/ liveAborted(e, ok)
       \/ \E ok2 \in BOOLEAN : liveThrew(e, ok, ok2)

coreStep(w) ==
  \/ throwIfAborted(w) \/ suppress(w) \/ startUnit(w) \/ accept(w) \/ unitFails(w)
  \/ \E ok \in BOOLEAN : markAndStartUnit(w, ok) \/ unitReturns(w, ok)
  \/ commitHooks(w)

passStep(p) ==
  \/ passEnds(p) \/ rereadFails(p) \/ alreadyGone(p) \/ notReady(p) \/ drainQueuedEntry(p)
  \/ reconciledNotSent(p)
  \/ \E e \in Entry : passClaims(p, e)
  \/ \E ok \in BOOLEAN :
       \/ exceededRetries(p, ok) \/ refuseReplay(p, ok) \/ recoveredAck(p, ok)
       \/ \E permanent \in BOOLEAN : replayFailed(p, permanent, ok)
       \/ \E ok2 \in BOOLEAN : reconciledSent(p, ok, ok2)

Next ==
  \/ \E e \in Entry : liveStep(e) \/ abort(e) \/ backoffElapses(e)
  \/ \E w \in Worker : coreStep(w)
  \/ \E p \in Pass : beginPass(p) \/ passStep(p)
  \/ crash

Spec == Init /\ [][Next]_vars

(* Every await comes back (a channel call ends or times out), time passes, *)
(* and a channel is drained again and again (its periodic drain, and every *)
(* reconnect); nothing makes a caller send, abort or the process crash.    *)
Fairness ==
  /\ \A e \in Entry : WF_vars(liveStep(e) /\ worker[e].pc # "idle") /\ WF_vars(backoffElapses(e))
  /\ \A w \in Worker : WF_vars(coreStep(w))
  /\ \A p \in Pass : WF_vars(passStep(p))
  /\ \A p \in Drain : WF_vars(beginPass(p))

FairSpec == Spec /\ Fairness

-----------------------------------------------------------------------------
(* A worker that has an entry of the queue in hand.                        *)
owns(w) == active(w) /\ (w \in Entry => worker[w].durable)

sending(w) == worker[w].pc \in {"unit", "calling", "committed"}

(* The claims are exactly the entries in hand: none leaks when a worker is *)
(* done with an entry, whatever went wrong (the finally blocks), and none  *)
(* is missing.                                                             *)
ClaimsOwned == claims = {worker[w].entry : w \in {v \in Worker : owns(v)}}

(* No two of the live sender, the startup pass and the drains have the     *)
(* same entry in hand (entriesInProgress).                                 *)
ExclusiveOwner ==
  \A v, w \in Worker : owns(v) /\ owns(w) /\ v # w => worker[v].entry # worker[w].entry

(* What an owner knows of its entry stays true: the row is pending until   *)
(* the owner itself settles it, and a pass's currentEntry is the row.      *)
OwnedRow ==
  \A w \in Worker : owns(w) /\ worker[w].pc # "hooks" =>
    LET r == row[worker[w].entry]
        s == worker[w].seen
    IN  IF w \in Entry THEN r.status = "pending"
        ELSE /\ s.status = r.status /\ s.retryCount = r.retryCount
             /\ s.recoveryState = r.recoveryState
             /\ worker[w].pc # "claimed" => r.status = "pending" /\ r.retryCount < MAX_RETRIES

(* The retry budget: the live attempt and the replays together fail at     *)
(* most MAX_RETRIES times.                                                 *)
RetriesBounded == \A e \in Entry : row[e].retryCount <= MAX_RETRIES

(* A sender is the sender of its own entry; what it has not yet claimed    *)
(* nobody has tried, and what it could not queue is not in the queue.      *)
SendersOwn ==
  \A e \in Entry :
    /\ worker[e].entry = e
    /\ worker[e].pc \notin {"scan", "claimed", "reconcile"}
    /\ worker[e].pc = "idle" => row[e] = NoRow /\ ~worker[e].durable
    /\ worker[e].pc = "enqueued" =>
         /\ row[e].status = "pending" /\ row[e].retryCount = 0 /\ row[e].recoveryState = "none"
         /\ worker[e].durable
    /\ worker[e].pc \in {"idle", "enqueued"} => worker[e].unit = 1 /\ ~worker[e].started
    /\ owns(e) => row[e].retryCount = 0
    /\ active(e) /\ ~worker[e].durable => row[e] = NoRow /\ worker[e].pc \notin {"acking", "hooks"}

(* A pass works on what was queued, and goes on with an entry only after   *)
(* the sender of the entry has left it.                                    *)
PassesFollow ==
  \A p \in Pass :
    /\ ~worker[p].durable /\ worker[p].pc \notin {"enqueued", "aborted", "acking"}
    /\ \A e \in worker[p].todo : row[e].status # "none"
    /\ active(p) =>
         LET e == worker[p].entry
         IN  /\ row[e].status # "none"
             /\ worker[e].pc = "done" \/ (worker[e].pc = "enqueued" /\ worker[p].pc = "claimed")

(* Without best effort the loop over the payloads leaves none behind.      *)
LoopLeavesNone ==
  \A w \in Worker :
    LET e == worker[w].entry
        seen(u) == platform[e].copies[u] > 0
    IN  /\ worker[w].pc \in {"claimed", "reconcile"} => worker[w].unit = 1
        /\ worker[w].pc \in {"calling", "committed"} => worker[w].unit <= Units
        /\ worker[w].pc = "committed" => seen(worker[w].unit)
        /\ worker[w].pc = "acking" => worker[w].unit > Units
        /\ (sending(w) \/ worker[w].pc = "acking") /\ ~call[e].bestEffort =>
             \A u \in 1 .. Units : u < worker[w].unit => seen(u) \/ u \in platform[e].suppressed
        /\ worker[w].pc = "aborted" => call[w].aborted

(* The hooks of a delivery have not run while it may still be sent.        *)
HooksStillDue ==
  /\ \A w \in Worker : worker[w].pc = "hooks" =>
       row[worker[w].entry].status = "acked" /\ hooks[worker[w].entry] = 0
  /\ \A e \in Entry : worker[e].pc # "done" => hooks[e] = 0

(* The sender's marker is in the row before the platform is called: the    *)
(* required policy sees to it, or a storage that works.                    *)
assured(e) == call[e].queuePolicy = "required" \/ faults = 0

LiveSendMarked ==
  \A e \in Entry :
    /\ \A u \in platform[e].live : platform[e].copies[u] > 0
    /\ worker[e].pc # "done" => \A u \in 1 .. Units :
         /\ platform[e].copies[u] <= 1
         /\ \/ worker[e].pc \in {"idle", "enqueued", "unit", "calling"} /\ u >= worker[e].unit
            \/ worker[e].pc = "committed" /\ u > worker[e].unit
            => platform[e].copies[u] = 0
    /\ active(e) /\ worker[e].started =>
         worker[e].durable /\ row[e].recoveryState # "none"
    /\ worker[e].durable /\ assured(e) /\ worker[e].pc \in {"calling", "committed"} => worker[e].started
    /\ assured(e) /\ row[e].status # "none" /\ platform[e].live # {} => row[e].recoveryState # "none"

(* A pass that sends has been told that nothing of the sender's is out.    *)
ReplaysOnlyUnsent ==
  \A p \in Pass : LET e == worker[p].entry
                  IN  sending(p) /\ assured(e) /\ ~call[e].lagging => platform[e].live = {}

(* The inductive invariant.                                                *)
IInv ==
  /\ TypeOK /\ ClaimsOwned /\ ExclusiveOwner /\ OwnedRow /\ RetriesBounded /\ SendersOwn
  /\ PassesFollow /\ LoopLeavesNone /\ HooksStillDue /\ LiveSendMarked /\ ReplaysOnlyUnsent

(* A unit that a live sender put on the platform is never put there again: *)
(* the marker written before the call makes every later pass ask the       *)
(* adapter first (markQueuedPlatformSendAttemptStarted).  It needs an      *)
(* adapter that finds what is out and, without the required policy, a      *)
(* storage that works.                                                     *)
LiveSendNotRepeated ==
  \A e \in Entry :
    assured(e) /\ row[e].status # "none" /\ ~call[e].lagging
    => platform[e].live = {} \/ \A u \in 1 .. Units : platform[e].copies[u] <= 1

(* An entry leaves the queue by ackDelivery only when everything in it is  *)
(* out or was cancelled by a hook, the caller aborted it, or the caller    *)
(* asked for best effort.                                                  *)
AckedMeansDelivered ==
  \A e \in Entry :
    row[e].status = "acked" /\ ~call[e].aborted /\ ~call[e].bestEffort
    => out(e) \cup platform[e].suppressed = 1 .. Units

(* The commit hooks of a delivery run at most once, and of a queued one    *)
(* only when its entry is gone (deferCommitHooks).                         *)
HooksAfterAck ==
  \A e \in Entry : hooks[e] <= 1 /\ (hooks[e] = 1 => row[e].status \in {"acked", "none"})

(* An entry with evidence that part of it is out is not replayed, even if  *)
(* the adapter does not find it on the platform                            *)
(* (reconciliationProvedPreSendFailure).                                   *)
EvidenceNotReplayed ==
  \A p \in Pass : sending(p) => row[worker[p].entry].recoveryState # "unknown_after_send"

(* The queue's safety: at every crash, fault and overlap of its workers an *)
(* entry has one owner and its retry budget, is acked only when it is out, *)
(* its hooks run after that, and no pass replays it over evidence          *)
(* (deliver.ts, delivery-queue-recovery.ts).                               *)
QueueSafe == IInv /\ AckedMeansDelivered /\ HooksAfterAck /\ EvidenceNotReplayed

(* Once an entry is acked or moved to failed, its row is final and nothing *)
(* of it is sent, although passes hold snapshots in which it is pending.   *)
SettledIsFinal ==
  [][\A e \in Entry :
       row[e].status \in {"acked", "failed"}
       => row'[e].status = row[e].status /\ platform'[e].copies = platform[e].copies]_vars

(* Every entry that was queued is in the end delivered or moved to failed, *)
(* through crashes, storage faults and transient errors.                   *)
Settles == \A e \in Entry : row[e].status = "pending" ~> row[e].status # "pending"
=============================================================================
