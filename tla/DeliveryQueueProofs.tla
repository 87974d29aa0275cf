------------------------ MODULE DeliveryQueueProofs ------------------------
(***************************************************************************)
(* The queue's safety for any number of deliveries, drains, payloads,      *)
(* retries, crashes and storage faults.                                    *)
(*                                                                         *)
(* The actions fall into a few kinds.  A worker takes an entry, goes on    *)
(* with the one it has, or gives it back; next to that it may change the   *)
(* entry's row (as far as the row is pending), put a unit on the platform  *)
(* or run the hooks.  The first half gives each action its kind; the       *)
(* second shows for each conjunct of the invariant that the kinds keep it. *)
(***************************************************************************)
EXTENDS DeliveryQueue, FiniteSetTheorems, TLAPS

USE DeliveryAssumption

LEMMA AnyEntryIsEntry == AnyEntry \in Entry
BY DEF AnyEntry

LEMMA WorkersApart ==
  /\ Entry \subseteq Worker /\ Pass \subseteq Worker
  /\ \A w \in Worker : w \in Entry <=> w \notin Pass
BY DEF Worker, Pass

(* What atRest builds.                                                     *)
LEMMA AtRest ==
  ASSUME NEW e \in Entry, NEW pc
  PROVE  /\ atRest(e, pc).pc = pc /\ atRest(e, pc).entry = e /\ atRest(e, pc).durable = FALSE
         /\ atRest(e, pc).todo = {} /\ atRest(e, pc).seen = NoRow /\ atRest(e, pc).unit = 1
         /\ atRest(e, pc).started = FALSE /\ atRest(e, pc).partial = FALSE
         /\ atRest(e, pc).results = FALSE
         /\ pc \in {"idle", "enqueued", "unit", "calling", "committed", "threw", "aborted",
                    "acking", "hooks", "scan", "claimed", "reconcile", "done"}
            => atRest(e, pc) \in WorkerRecord
BY DEF atRest, WorkerRecord, RowRecord, NoRow

LEMMA NoRowType == NoRow \in RowRecord
BY DEF NoRow, RowRecord

(* SendersOwn field by field.                                              *)
LEMMA SenderFacts ==
  ASSUME SendersOwn, NEW e \in Entry
  PROVE  /\ worker[e].entry = e
         /\ worker[e].pc \notin {"scan", "claimed", "reconcile"}
         /\ worker[e].pc = "idle" =>
              /\ row[e] = NoRow /\ row[e].status = "none"
              /\ worker[e].unit = 1 /\ ~worker[e].durable /\ ~worker[e].started
         /\ worker[e].pc = "enqueued" =>
              /\ worker[e].unit = 1 /\ worker[e].durable /\ ~worker[e].started
              /\ row[e].status = "pending" /\ row[e].retryCount = 0 /\ row[e].recoveryState = "none"
         /\ owns(e) => row[e].retryCount = 0
         /\ active(e) /\ ~worker[e].durable =>
              row[e] = NoRow /\ row[e].status = "none" /\ worker[e].pc \notin {"acking", "hooks"}
<1>1. NoRow.status = "none"
  BY DEF NoRow
<1> QED BY <1>1 DEF SendersOwn

-----------------------------------------------------------------------------
(* The kinds of steps.                                                     *)
Structure == TypeOK /\ ClaimsOwned /\ ExclusiveOwner /\ OwnedRow /\ RetriesBounded
             /\ SendersOwn /\ PassesFollow

resting == {"idle", "enqueued", "scan", "done"}

(* No worker but w moves.                                                  *)
Only(w) == \A v \in Worker : v # w => worker'[v] = worker[v]

(* A row that is pending may be settled, marked or charged with a failure. *)
RowMoves(e) ==
  /\ \A f \in Entry : f # e => row'[f] = row[f]
  /\ row[e].status # "pending" => row'[e] = row[e]
  /\ row[e].status = "pending" => row'[e].status # "none"
  /\ row[e].recoveryState # "none" => row'[e].recoveryState # "none"
  /\ row'[e].retryCount \in {row[e].retryCount, row[e].retryCount + 1}

(* A worker goes on with the entry it has in hand.                         *)
Proceeds(w) ==
  /\ Only(w) /\ active(w) /\ worker[w].pc # "hooks" /\ worker'[w].pc \notin resting
  /\ worker'[w].entry = worker[w].entry /\ worker'[w].durable = worker[w].durable
  /\ worker'[w].todo = worker[w].todo /\ worker'[w].seen = worker[w].seen
  /\ claims' = claims
  /\ w \in Entry =>
       /\ worker'[w].pc \notin {"scan", "claimed", "reconcile"}
       /\ ~worker[w].durable => worker'[w].pc \notin {"acking", "hooks"}
  /\ w \in Pass =>
       /\ worker'[w].pc \notin {"claimed", "aborted", "acking"}
       /\ worker[worker[w].entry].pc = "done"
       /\ worker'[w].pc # "hooks" => row[worker[w].entry].status = "pending"
                                     /\ row[worker[w].entry].retryCount < MAX_RETRIES
  /\ \/ row' = row /\ (worker'[w].pc # "hooks")
     \/ LET e == worker[w].entry
        IN  /\ owns(w) /\ RowMoves(e)
            /\ row'[e].retryCount = row[e].retryCount
            /\ worker'[w].pc # "hooks" =>
                 /\ row'[e].status = row[e].status
                 /\ w \in Pass => row'[e].recoveryState = row[e].recoveryState

(* A worker gives its entry back, with the row as its last step leaves it. *)
Gives(w) ==
  /\ Only(w) /\ active(w)
  /\ worker'[w].pc \in IF w \in Entry THEN {"done"} ELSE {"scan", "idle", "done"}
  /\ w \in Entry => worker'[w].entry = w
  /\ ~worker'[w].durable /\ worker'[w].todo \subseteq worker[w].todo
  /\ claims' = IF owns(w) THEN claims \ {worker[w].entry} ELSE claims
  /\ \/ row' = row
     \/ owns(w) /\ RowMoves(worker[w].entry)
        /\ worker[worker[w].entry].pc # "enqueued"
        /\ row'[worker[w].entry].retryCount <= MAX_RETRIES

(* A pass between two entries, or before or after its snapshot.            *)
Rests(p) ==
  /\ p \in Pass /\ Only(p)
  /\ worker[p].pc \in {"idle", "scan"} /\ worker'[p].pc \in {"idle", "scan", "done"}
  /\ ~worker'[p].durable
  /\ worker'[p].todo \subseteq worker[p].todo \cup pending
  /\ claims' = claims /\ row' = row

(* A worker takes an entry nobody has.                                     *)
Takes(w, e) ==
  /\ e \in Entry /\ Only(w) /\ e \notin claims
  /\ worker[w].pc \in IF w \in Entry THEN {"enqueued"} ELSE {"scan"}
  /\ worker'[w].pc = IF w \in Entry THEN "unit" ELSE "claimed"
  /\ worker'[w].entry = e
  /\ w \in Entry => e = w /\ worker'[w].durable
  /\ w \in Pass => ~worker'[w].durable /\ e \in worker[w].todo /\ worker'[w].seen = row[e]
  /\ worker'[w].todo \subseteq worker[w].todo
  /\ claims' = claims \cup {e} /\ row' = row

-----------------------------------------------------------------------------
(* The structure of the queue under each kind.                             *)
LEMMA ProceedsKeeps ==
  ASSUME Structure, TypeOK', NEW w \in Worker, Proceeds(w)
  PROVE  Structure'
<1> DEFINE e == worker[w].entry
<1>t. /\ worker \in [Worker -> WorkerRecord] /\ worker' \in [Worker -> WorkerRecord]
      /\ row \in [Entry -> RowRecord] /\ row' \in [Entry -> RowRecord]
      /\ e \in Entry /\ (w \notin Entry <=> w \in Pass)
      /\ \A v \in Worker : worker[v].entry \in Entry
  BY WorkersApart DEF Structure, TypeOK, WorkerRecord
<1>a. /\ \A v \in Worker : worker'[v].entry = worker[v].entry
      /\ \A v \in Worker : active(v)' <=> active(v)
      /\ \A v \in Worker : owns(v)' <=> owns(v)
  BY DEF Proceeds, Only, active, owns, resting
<1>1. ClaimsOwned'
  <2>1. {v \in Worker : owns(v)'} = {v \in Worker : owns(v)}
    BY <1>a
  <2>2. {worker'[v].entry : v \in {v \in Worker : owns(v)'}} = {worker[v].entry : v \in {v \in Worker : owns(v)}}
    BY <2>1, <1>a
  <2> QED BY <2>2 DEF Structure, ClaimsOwned, Proceeds
<1>2. ExclusiveOwner'
  BY <1>a DEF Structure, ExclusiveOwner
<1>r. /\ \A f \in Entry : f # e => row'[f] = row[f]
      /\ ~owns(w) => row' = row
      /\ \A f \in Entry : row'[f].retryCount = row[f].retryCount
      /\ \A f \in Entry : row[f].status # "pending" => row'[f] = row[f]
      /\ \A f \in Entry : row[f].status # "none" => row'[f].status # "none"
  BY <1>t DEF Proceeds, RowMoves
<1>3. OwnedRow'
  <2> SUFFICES ASSUME NEW v \in Worker, owns(v)', worker'[v].pc # "hooks"
               PROVE  LET r == row'[worker'[v].entry]
                          s == worker'[v].seen
                      IN  IF v \in Entry THEN r.status = "pending"
                          ELSE /\ s.status = r.status /\ s.retryCount = r.retryCount
                               /\ s.recoveryState = r.recoveryState
                               /\ worker'[v].pc # "claimed" => r.status = "pending" /\ r.retryCount < MAX_RETRIES
    BY DEF OwnedRow
  <2>1. CASE v # w
    <3>1. worker'[v] = worker[v] /\ owns(v)
      BY <2>1, <1>a DEF Proceeds, Only
    <3>2. row'[worker[v].entry] = row[worker[v].entry]
      <4>1. CASE owns(w)
        <5>1. worker[v].entry # e
          BY <4>1, <3>1, <2>1 DEF Structure, ExclusiveOwner
        <5> QED BY <5>1, <1>r, <1>t
      <4>2. CASE ~owns(w)
        BY <4>2, <1>r
      <4> QED BY <4>1, <4>2
    <3> QED BY <3>1, <3>2 DEF Structure, OwnedRow
  <2>2. CASE v = w
    <3>1. owns(w)
      BY <2>2, <1>a
    <3> QED BY <2>2, <3>1, <1>r, <1>t DEF Structure, OwnedRow, Proceeds
  <2> QED BY <2>1, <2>2
<1>4. RetriesBounded'
  BY <1>r DEF Structure, RetriesBounded
<1>5. SendersOwn'
  <2> SUFFICES ASSUME NEW f \in Entry
               PROVE  /\ worker'[f].entry = f
                      /\ worker'[f].pc \notin {"scan", "claimed", "reconcile"}
                      /\ worker'[f].pc = "idle" => row'[f] = NoRow /\ ~worker'[f].durable
                      /\ worker'[f].pc = "enqueued" =>
                           /\ row'[f].status = "pending" /\ row'[f].retryCount = 0
                           /\ row'[f].recoveryState = "none" /\ worker'[f].durable
                      /\ worker'[f].pc \in {"idle", "enqueued"} => worker'[f].unit = 1 /\ ~worker'[f].started
                      /\ owns(f)' => row'[f].retryCount = 0
                      /\ active(f)' /\ ~worker'[f].durable =>
                           row'[f] = NoRow /\ worker'[f].pc \notin {"acking", "hooks"}
    BY DEF SendersOwn
  <2>n. NoRow.status = "none"
    BY DEF NoRow
  <2>1. CASE f # w
    <3>1. worker'[f] = worker[f] /\ f \in Worker
      BY <2>1, WorkersApart DEF Proceeds, Only
    <3>2. worker[f].pc = "enqueued" => row'[f] = row[f]
      <4>1. w \in Entry => e = w
        BY DEF Structure, SendersOwn
      <4>2. w \in Pass => worker[e].pc = "done"
        BY DEF Proceeds
      <4> QED BY <4>1, <4>2, <2>1, <1>r, <1>t
    <3> QED BY <3>1, <3>2, <2>n, <1>a, <1>r DEF Structure, SendersOwn
  <2>2. CASE f = w
    <3>1. row[f] = NoRow => row'[f] = NoRow
      BY <1>r, <2>n
    <3> QED BY <2>2, <3>1, <1>a, <1>r DEF Structure, SendersOwn, Proceeds, resting, active
  <2> QED BY <2>1, <2>2
<1>6. PassesFollow'
  <2> SUFFICES ASSUME NEW p \in Pass
               PROVE  /\ ~worker'[p].durable /\ worker'[p].pc \notin {"enqueued", "aborted", "acking"}
                      /\ \A f \in worker'[p].todo : row'[f].status # "none"
                      /\ active(p)' =>
                           /\ row'[worker'[p].entry].status # "none"
                           /\ \/ worker'[worker'[p].entry].pc = "done"
                              \/ worker'[worker'[p].entry].pc = "enqueued" /\ worker'[p].pc = "claimed"
    BY DEF PassesFollow
  <2>1. p \in Worker /\ worker[p].todo \subseteq Entry /\ worker[p].entry \in Worker
    BY WorkersApart, <1>t DEF WorkerRecord
  <2>2. active(p) => worker'[worker[p].entry] = worker[worker[p].entry]
    BY <2>1, WorkersApart DEF Structure, PassesFollow, Proceeds, Only, active
  <2> QED BY <2>1, <2>2, <1>a, <1>r, <1>t DEF Structure, PassesFollow, Proceeds, Only, resting
<1> QED BY <1>1, <1>2, <1>3, <1>4, <1>5, <1>6 DEF Structure

LEMMA GivesKeeps ==
  ASSUME Structure, TypeOK', NEW w \in Worker, Gives(w)
  PROVE  Structure'
<1> DEFINE e == worker[w].entry
<1>t. /\ worker \in [Worker -> WorkerRecord] /\ worker' \in [Worker -> WorkerRecord]
      /\ row \in [Entry -> RowRecord] /\ row' \in [Entry -> RowRecord]
      /\ e \in Entry /\ (w \notin Entry <=> w \in Pass)
      /\ \A v \in Worker : worker[v].entry \in Entry
  BY WorkersApart DEF Structure, TypeOK, WorkerRecord
<1>a. /\ \A v \in Worker : v # w => worker'[v] = worker[v]
      /\ \A v \in Worker : active(v)' <=> active(v) /\ v # w
      /\ \A v \in Worker : owns(v)' <=> owns(v) /\ v # w
  BY <1>t DEF Gives, Only, active, owns
<1>1. ClaimsOwned'
  <2>1. CASE owns(w)
    <3>1. \A v \in Worker : owns(v) /\ v # w => worker[v].entry # e
      BY <2>1 DEF Structure, ExclusiveOwner
    <3>2. {worker'[v].entry : v \in {v \in Worker : owns(v)'}}
            = {worker[v].entry : v \in {v \in Worker : owns(v)}} \ {e}
      BY <3>1, <2>1, <1>a
    <3> QED BY <3>2, <2>1 DEF Structure, ClaimsOwned, Gives
  <2>2. CASE ~owns(w)
    <3>1. {worker'[v].entry : v \in {v \in Worker : owns(v)'}}
            = {worker[v].entry : v \in {v \in Worker : owns(v)}}
      BY <2>2, <1>a
    <3> QED BY <3>1, <2>2 DEF Structure, ClaimsOwned, Gives
  <2> QED BY <2>1, <2>2
<1>2. ExclusiveOwner'
  BY <1>a DEF Structure, ExclusiveOwner
<1>r. /\ \A f \in Entry : f # e => row'[f] = row[f]
      /\ ~owns(w) => row' = row
      /\ row'[e].retryCount <= MAX_RETRIES
      /\ \A f \in Entry : row[f].status # "pending" => row'[f] = row[f]
      /\ \A f \in Entry : row[f].status # "none" => row'[f].status # "none"
  BY <1>t DEF Gives, RowMoves, Structure, RetriesBounded
<1>3. OwnedRow'
  <2> SUFFICES ASSUME NEW v \in Worker, owns(v), v # w, worker[v].pc # "hooks"
               PROVE  row'[worker[v].entry] = row[worker[v].entry]
    BY <1>a DEF Structure, OwnedRow
  <2>1. CASE owns(w)
    <3>1. worker[v].entry # e
      BY <2>1 DEF Structure, ExclusiveOwner
    <3> QED BY <3>1, <1>r, <1>t
  <2>2. CASE ~owns(w)
    BY <2>2, <1>r
  <2> QED BY <2>1, <2>2
<1>4. RetriesBounded'
  BY <1>r DEF Structure, RetriesBounded
<1>5. SendersOwn'
  <2> SUFFICES ASSUME NEW f \in Entry
               PROVE  /\ worker'[f].entry = f
                      /\ worker'[f].pc \notin {"scan", "claimed", "reconcile"}
                      /\ worker'[f].pc = "idle" => row'[f] = NoRow /\ ~worker'[f].durable
                      /\ worker'[f].pc = "enqueued" =>
                           /\ row'[f].status = "pending" /\ row'[f].retryCount = 0
                           /\ row'[f].recoveryState = "none" /\ worker'[f].durable
                      /\ worker'[f].pc \in {"idle", "enqueued"} => worker'[f].unit = 1 /\ ~worker'[f].started
                      /\ owns(f)' => row'[f].retryCount = 0
                      /\ active(f)' /\ ~worker'[f].durable =>
                           row'[f] = NoRow /\ worker'[f].pc \notin {"acking", "hooks"}
    BY DEF SendersOwn
  <2>n. NoRow.status = "none" /\ f \in Worker
    BY WorkersApart DEF NoRow
  <2>1. CASE f # w
    <3>1. worker'[f] = worker[f] /\ f \in Worker
      BY <2>1, <2>n, <1>a
    <3>2. worker[f].pc = "enqueued" \/ owns(f) => row'[f] = row[f]
      <4>1. w \in Entry => e = w
        BY DEF Structure, SendersOwn
      <4>2. w \in Pass => worker[e].pc \in {"done", "enqueued"}
        BY DEF Gives, Structure, PassesFollow
      <4>3. e = f => ~owns(f)
        BY <4>1, <4>2, <2>1, <1>t DEF owns, active
      <4>4. e = f /\ worker[f].pc = "enqueued" => row'[f] = row[f]
        BY DEF Gives
      <4> QED BY <4>3, <4>4, <1>r
    <3> QED BY <3>1, <3>2, <2>n, <1>a, <1>r DEF Structure, SendersOwn
  <2>2. CASE f = w
    BY <2>2, <1>a DEF Structure, SendersOwn, Gives
  <2> QED BY <2>1, <2>2
<1>6. PassesFollow'
  <2> SUFFICES ASSUME NEW p \in Pass
               PROVE  /\ ~worker'[p].durable /\ worker'[p].pc \notin {"enqueued", "aborted", "acking"}
                      /\ \A f \in worker'[p].todo : row'[f].status # "none"
                      /\ active(p)' =>
                           /\ row'[worker'[p].entry].status # "none"
                           /\ \/ worker'[worker'[p].entry].pc = "done"
                              \/ worker'[worker'[p].entry].pc = "enqueued" /\ worker'[p].pc = "claimed"
    BY DEF PassesFollow
  <2>1. p \in Worker /\ worker[p].todo \subseteq Entry /\ worker[p].entry \in Worker
    BY WorkersApart, <1>t DEF WorkerRecord
  <2>2. active(p) /\ p # w => worker'[worker[p].entry].pc = worker[worker[p].entry].pc
    BY <2>1, WorkersApart DEF Structure, PassesFollow, Gives, Only, active
  <2> QED BY <2>1, <2>2, <1>a, <1>r, <1>t DEF Structure, PassesFollow, Gives
<1> QED BY <1>1, <1>2, <1>3, <1>4, <1>5, <1>6 DEF Structure

LEMMA RestsKeeps ==
  ASSUME Structure, TypeOK', NEW p \in Worker, Rests(p)
  PROVE  Structure'
<1>t. /\ worker \in [Worker -> WorkerRecord] /\ worker' \in [Worker -> WorkerRecord]
      /\ p \in Pass /\ p \notin Entry
      /\ \A v \in Worker : worker[v].entry \in Entry
  BY WorkersApart DEF Structure, TypeOK, WorkerRecord, Rests
<1>a. /\ \A v \in Worker : v # p => worker'[v] = worker[v]
      /\ \A v \in Worker : active(v)' <=> active(v)
      /\ \A v \in Worker : owns(v)' <=> owns(v)
      /\ ~active(p) /\ ~owns(p) /\ row' = row /\ claims' = claims
  BY <1>t DEF Rests, Only, active, owns
<1>1. ClaimsOwned'
  <2>1. {worker'[v].entry : v \in {v \in Worker : owns(v)'}}
          = {worker[v].entry : v \in {v \in Worker : owns(v)}}
    BY <1>a
  <2> QED BY <2>1, <1>a DEF Structure, ClaimsOwned
<1>2. ExclusiveOwner'
  BY <1>a DEF Structure, ExclusiveOwner
<1>3. OwnedRow'
  BY <1>a DEF Structure, OwnedRow
<1>4. RetriesBounded'
  BY <1>a DEF Structure, RetriesBounded
<1>5. SendersOwn'
  <2>1. \A f \in Entry : f \in Worker /\ f # p
    BY <1>t, WorkersApart
  <2> QED BY <2>1, <1>a DEF Structure, SendersOwn
<1>6. PassesFollow'
  <2>1. \A v \in Pass : v \in Worker
    BY WorkersApart
  <2>2. \A v \in Pass : active(v) => worker[v].entry # p /\ worker[v].entry \in Worker
    BY <1>t, <2>1, WorkersApart
  <2> QED BY <2>1, <2>2, <1>a, <1>t DEF Structure, PassesFollow, Rests, pending
<1> QED BY <1>1, <1>2, <1>3, <1>4, <1>5, <1>6 DEF Structure

LEMMA TakesKeeps ==
  ASSUME Structure, TypeOK', NEW w \in Worker, NEW e \in Entry, Takes(w, e)
  PROVE  Structure'
<1>t. /\ worker \in [Worker -> WorkerRecord] /\ worker' \in [Worker -> WorkerRecord]
      /\ (w \notin Entry <=> w \in Pass)
      /\ \A v \in Worker : worker[v].entry \in Entry
  BY WorkersApart DEF Structure, TypeOK, WorkerRecord
<1>a. /\ \A v \in Worker : v # w => worker'[v] = worker[v]
      /\ \A v \in Worker : active(v)' <=> active(v) \/ v = w
      /\ \A v \in Worker : owns(v)' <=> owns(v) \/ v = w
      /\ ~active(w) /\ ~owns(w) /\ row' = row
  BY <1>t DEF Takes, Only, active, owns
<1>b. \A v \in Worker : owns(v) => worker[v].entry # e
  BY DEF Takes, Structure, ClaimsOwned
<1>1. ClaimsOwned'
  <2>1. {worker'[v].entry : v \in {v \in Worker : owns(v)'}}
          = {worker[v].entry : v \in {v \in Worker : owns(v)}} \cup {e}
    BY <1>a DEF Takes
  <2> QED BY <2>1 DEF Structure, ClaimsOwned, Takes
<1>2. ExclusiveOwner'
  BY <1>a, <1>b DEF Structure, ExclusiveOwner, Takes
<1>3. OwnedRow'
  <2>1. w \in Entry => row[w].status = "pending"
    BY DEF Structure, SendersOwn, Takes
  <2> QED BY <1>a, <1>t, <2>1 DEF Structure, OwnedRow, Takes
<1>4. RetriesBounded'
  BY <1>a DEF Structure, RetriesBounded
<1>5. SendersOwn'
  <2> SUFFICES ASSUME NEW f \in Entry, f = w
               PROVE  /\ worker'[f].entry = f
                      /\ worker'[f].pc = "unit" /\ worker'[f].durable
                      /\ row'[f].retryCount = 0
    <3>1. \A f \in Entry : f \in Worker
      BY WorkersApart
    <3> QED BY <3>1, <1>a DEF Structure, SendersOwn
  <2> QED BY <1>a, SenderFacts DEF Structure, Takes
<1>6. PassesFollow'
  <2> SUFFICES ASSUME NEW p \in Pass
               PROVE  /\ ~worker'[p].durable /\ worker'[p].pc \notin {"enqueued", "aborted", "acking"}
                      /\ \A f \in worker'[p].todo : row'[f].status # "none"
                      /\ active(p)' =>
                           /\ row'[worker'[p].entry].status # "none"
                           /\ \/ worker'[worker'[p].entry].pc = "done"
                              \/ worker'[worker'[p].entry].pc = "enqueued" /\ worker'[p].pc = "claimed"
    BY DEF PassesFollow
  <2>1. p \in Worker /\ p \notin Entry /\ worker[p].entry \in Worker /\ e \in Worker
    BY WorkersApart, <1>t
  <2>2. CASE p = w
    <3>1. worker[e].pc \in {"done", "enqueued"}
      <4>1. row[e].status # "none"
        BY <2>2 DEF Structure, PassesFollow, Takes
      <4>2. worker[e].pc # "idle" /\ worker[e].pc # "scan" /\ (active(e) => worker[e].durable)
        BY <4>1, SenderFacts DEF Structure
      <4>3. worker[e].entry = e
        BY SenderFacts DEF Structure
      <4> QED BY <4>2, <4>3, <1>b, <2>1 DEF active, owns
    <3>2. worker'[e] = worker[e]
      BY <2>1, <2>2, <1>a
    <3> QED BY <3>1, <3>2, <2>1, <2>2, <1>a DEF Structure, PassesFollow, Takes
  <2>3. CASE p # w
    <3>1. worker'[p] = worker[p]
      BY <2>1, <2>3, <1>a
    <3>2. active(p)' => active(p) /\ owns(p)
      BY <2>1, <2>3, <1>a DEF owns
    <3>3. active(p) => worker[p].entry # w
      BY <3>2, <1>a, <1>b, <1>t, <2>1 DEF Takes, owns
    <3> QED BY <3>1, <3>2, <3>3, <1>a, <2>1 DEF Structure, PassesFollow
  <2> QED BY <2>2, <2>3
<1> QED BY <1>1, <1>2, <1>3, <1>4, <1>5, <1>6 DEF Structure

(* A sender leaves an entry it never had: it is done before a queue row    *)
(* exists, or a pass has its entry.                                        *)
Leaves(e) ==
  /\ e \in Entry /\ Only(e)
  /\ worker[e].pc \in {"idle", "enqueued"} /\ worker'[e].pc = "done" /\ worker'[e].entry = e
  /\ claims' = claims /\ row' = row

LEMMA LeavesKeeps ==
  ASSUME Structure, TypeOK', NEW e \in Entry, Leaves(e)
  PROVE  Structure'
<1>t. /\ worker \in [Worker -> WorkerRecord] /\ worker' \in [Worker -> WorkerRecord]
      /\ e \in Worker /\ e \notin Pass
      /\ \A v \in Worker : worker[v].entry \in Entry
  BY WorkersApart DEF Structure, TypeOK, WorkerRecord
<1>a. /\ \A v \in Worker : v # e => worker'[v] = worker[v]
      /\ \A v \in Worker : active(v)' <=> active(v)
      /\ \A v \in Worker : owns(v)' <=> owns(v)
      /\ ~active(e) /\ ~owns(e) /\ row' = row /\ claims' = claims
  BY <1>t DEF Leaves, Only, active, owns
<1>1. ClaimsOwned'
  <2>1. {worker'[v].entry : v \in {v \in Worker : owns(v)'}}
          = {worker[v].entry : v \in {v \in Worker : owns(v)}}
    BY <1>a
  <2> QED BY <2>1, <1>a DEF Structure, ClaimsOwned
<1>2. ExclusiveOwner'
  BY <1>a DEF Structure, ExclusiveOwner
<1>3. OwnedRow'
  BY <1>a DEF Structure, OwnedRow
<1>4. RetriesBounded'
  BY <1>a DEF Structure, RetriesBounded
<1>5. SendersOwn'
  <2>1. \A f \in Entry : f \in Worker
    BY WorkersApart
  <2> QED BY <2>1, <1>a DEF Structure, SendersOwn, Leaves
<1>6. PassesFollow'
  <2>1. \A v \in Pass : v \in Worker /\ v # e
    BY WorkersApart, <1>t
  <2>2. \A v \in Pass : active(v) => worker[v].entry \in Worker
    BY <1>t, <2>1, WorkersApart
  <2> QED BY <2>1, <2>2, <1>a, <1>t DEF Structure, PassesFollow, Leaves
<1> QED BY <1>1, <1>2, <1>3, <1>4, <1>5, <1>6 DEF Structure

(* A sender writes its row, or goes on without one.                        *)
LEMMA EnqueueKeeps ==
  ASSUME Structure, TypeOK', NEW e \in Entry, NEW ok \in BOOLEAN, enqueue(e, ok)
  PROVE  Structure'
<1>t. /\ worker \in [Worker -> WorkerRecord] /\ worker' \in [Worker -> WorkerRecord]
      /\ row \in [Entry -> RowRecord] /\ row' \in [Entry -> RowRecord]
      /\ e \in Worker /\ e \notin Pass
      /\ \A v \in Worker : worker[v].entry \in Entry
  BY WorkersApart DEF Structure, TypeOK, WorkerRecord
<1>i. /\ worker[e].pc = "idle" /\ row[e].status = "none" /\ row[e] = NoRow
      /\ worker[e].unit = 1 /\ ~worker[e].durable /\ ~worker[e].started
  BY SenderFacts DEF Structure, enqueue, SendersOwn
<1>0. CASE ~ok /\ call[e].queuePolicy = "required"
  <2>1. Leaves(e)
    <3>1. worker' = [worker EXCEPT ![e] = atRest(e, "done")] /\ row' = row /\ claims' = claims
      BY <1>0 DEF enqueue
    <3>2. worker'[e] = atRest(e, "done")
      BY <3>1, <1>t
    <3>3. worker'[e].pc = "done" /\ worker'[e].entry = e
      BY <3>2 DEF atRest
    <3> QED BY <3>1, <3>3, <1>i, <1>t DEF Leaves, Only
  <2> QED BY <2>1, LeavesKeeps
<1>00. CASE ok \/ call[e].queuePolicy # "required"
  <2> DEFINE x == worker'[e]
  <2>a. \A v \in Worker : v # e => worker'[v] = worker[v]
    BY <1>t DEF enqueue
  <2>x. /\ x.entry = e
        /\ x.unit = 1 /\ ~x.started
        /\ ok => x.pc = "enqueued" /\ x.durable
        /\ ~ok => x.pc = "unit" /\ ~x.durable
    BY <1>t, <1>i, <1>00, SenderFacts DEF enqueue, Structure, WorkerRecord
  <2>y. /\ \A f \in Entry : f # e => row'[f] = row[f]
        /\ ok => row'[e].status = "pending" /\ row'[e].retryCount = 0 /\ row'[e].recoveryState = "none"
        /\ ~ok => row' = row
    BY <1>t DEF enqueue, NoRow
  <2>o. /\ \A v \in Worker : owns(v)' <=> owns(v)
        /\ \A v \in Worker : v # e => (active(v)' <=> active(v))
        /\ active(e)' <=> ~ok
        /\ ~owns(e) /\ claims' = claims
    BY <2>a, <2>x, <1>i, <1>t DEF owns, active, enqueue
  <2>p. \A p \in Pass : /\ active(p) => worker[p].entry # e
                        /\ e \notin worker[p].todo /\ p # e /\ p \in Worker
                        /\ worker[p].todo \subseteq Entry
    BY <1>i, <1>t, WorkersApart DEF Structure, PassesFollow, WorkerRecord
  <2>q. \A v \in Worker : owns(v) => worker[v].entry # e
    <3> SUFFICES ASSUME NEW v \in Worker, owns(v), worker[v].entry = e PROVE FALSE
      OBVIOUS
    <3>1. CASE v \in Entry
      BY <3>1, <2>o, SenderFacts DEF Structure
    <3>2. CASE v \in Pass
      BY <3>2, <2>p DEF owns
    <3> QED BY <3>1, <3>2 DEF Worker
  <2>1. ClaimsOwned'
    <3>1. {worker'[v].entry : v \in {v \in Worker : owns(v)'}}
            = {worker[v].entry : v \in {v \in Worker : owns(v)}}
      BY <2>a, <2>o
    <3> QED BY <3>1, <2>o DEF Structure, ClaimsOwned
  <2>2. ExclusiveOwner'
    BY <2>a, <2>o DEF Structure, ExclusiveOwner
  <2>3. OwnedRow'
    <3>1. \A v \in Worker : owns(v) => worker'[v] = worker[v] /\ row'[worker[v].entry] = row[worker[v].entry]
      BY <2>a, <2>o, <2>q, <2>y, <1>t
    <3> QED BY <3>1, <2>o DEF Structure, OwnedRow
  <2>4. RetriesBounded'
    <3>1. row'[e].retryCount <= MAX_RETRIES
      BY <2>y, <1>t DEF Structure, RetriesBounded
    <3> QED BY <3>1, <2>y DEF Structure, RetriesBounded
  <2>5. SendersOwn'
    <3> SUFFICES ASSUME NEW f \in Entry
                 PROVE  /\ worker'[f].entry = f
                        /\ worker'[f].pc \notin {"scan", "claimed", "reconcile"}
                        /\ worker'[f].pc = "idle" => row'[f] = NoRow /\ ~worker'[f].durable
                        /\ worker'[f].pc = "enqueued" =>
                             /\ row'[f].status = "pending" /\ row'[f].retryCount = 0
                             /\ row'[f].recoveryState = "none" /\ worker'[f].durable
                        /\ worker'[f].pc \in {"idle", "enqueued"} => worker'[f].unit = 1 /\ ~worker'[f].started
                        /\ owns(f)' => row'[f].retryCount = 0
                        /\ active(f)' /\ ~worker'[f].durable =>
                             row'[f] = NoRow /\ worker'[f].pc \notin {"acking", "hooks"}
      BY DEF SendersOwn
    <3>1. CASE f # e
      <4>1. f \in Worker
        BY WorkersApart
      <4> QED BY <3>1, <4>1, <2>a, <2>o, <2>y DEF Structure, SendersOwn
    <3>2. CASE f = e
      BY <3>2, <2>x, <2>y, <2>o, <1>i, <1>t
    <3> QED BY <3>1, <3>2
  <2>6. PassesFollow'
    <3>1. \A p \in Pass : worker'[p] = worker[p] /\ (active(p)' <=> active(p))
      BY <2>a, <2>o, <2>p
    <3>2. \A p \in Pass : active(p) => worker'[worker[p].entry] = worker[worker[p].entry]
                                       /\ row'[worker[p].entry] = row[worker[p].entry]
      BY <2>a, <2>p, <2>y, <1>t, WorkersApart
    <3>3. \A p \in Pass : \A f \in worker[p].todo : row'[f] = row[f]
      BY <2>p, <2>y
    <3> QED BY <3>1, <3>2, <3>3 DEF Structure, PassesFollow
  <2> QED BY <2>1, <2>2, <2>3, <2>4, <2>5, <2>6 DEF Structure
<1> QED BY <1>0, <1>00

(* Nothing but a backoff that is over, or the caller's signal.             *)
Waits ==
  /\ worker' = worker /\ claims' = claims
  /\ \A e \in Entry : /\ row'[e].status = row[e].status
                      /\ row'[e].retryCount = row[e].retryCount
                      /\ row'[e].recoveryState = row[e].recoveryState
                      /\ row[e] = NoRow => row'[e] = NoRow

LEMMA WaitsKeeps ==
  ASSUME Structure, TypeOK', Waits
  PROVE  Structure'
<1>t. /\ \A v \in Worker : worker[v].entry \in Entry /\ worker[v].todo \subseteq Entry
  BY WorkersApart DEF Structure, TypeOK, WorkerRecord
<1>a. worker' = worker /\ \A v \in Worker : (active(v)' <=> active(v)) /\ (owns(v)' <=> owns(v))
  BY DEF Waits, active, owns
<1>1. ClaimsOwned'
  <2>1. {worker'[v].entry : v \in {v \in Worker : owns(v)'}}
          = {worker[v].entry : v \in {v \in Worker : owns(v)}}
    BY <1>a
  <2> QED BY <2>1, <1>a DEF Structure, ClaimsOwned, Waits
<1>2. ExclusiveOwner'
  BY <1>a DEF Structure, ExclusiveOwner
<1>3. OwnedRow'
  BY <1>a, <1>t DEF Structure, OwnedRow, Waits
<1>4. RetriesBounded'
  BY <1>a DEF Structure, RetriesBounded, Waits
<1>5. SendersOwn'
  BY <1>a, WorkersApart DEF Structure, SendersOwn, Waits
<1>6. PassesFollow'
  BY <1>a, <1>t, WorkersApart DEF Structure, PassesFollow, Waits
<1> QED BY <1>1, <1>2, <1>3, <1>4, <1>5, <1>6 DEF Structure

(* The process starts again without a worker that has an entry in hand.    *)
LEMMA CrashRests ==
  ASSUME Structure, crash
  PROVE  /\ worker' \in [Worker -> WorkerRecord]
         /\ \A v \in Worker : worker'[v].pc \in {"idle", "done"}
                              /\ ~worker'[v].durable
         /\ \A p \in Pass : worker'[p].pc = "idle" /\ worker'[p].todo = {}
         /\ \A e \in Entry : /\ worker'[e].entry = e
                             /\ worker'[e].pc = "idle" => worker[e].pc = "idle" /\ worker'[e] = worker[e]
<1>t. worker \in [Worker -> WorkerRecord]
  BY DEF Structure, TypeOK
<1>1. ASSUME NEW v \in Worker
      PROVE  /\ worker'[v] \in WorkerRecord /\ worker'[v].pc \in {"idle", "done"}
             /\ ~worker'[v].durable
             /\ v \in Pass => worker'[v].pc = "idle" /\ worker'[v].todo = {}
             /\ v \in Entry => /\ worker'[v].entry = v
                               /\ worker'[v].pc = "idle" => worker[v].pc = "idle" /\ worker'[v] = worker[v]
  <2>1. CASE v \in Pass
    <3>1. worker'[v] = atRest(AnyEntry, "idle")
      BY <2>1 DEF crash
    <3>2. atRest(AnyEntry, "idle") \in WorkerRecord
      BY AnyEntryIsEntry, AtRest
    <3> QED BY <3>1, <3>2, <2>1, WorkersApart DEF atRest
  <2>2. CASE v \in Entry /\ worker[v].pc = "idle"
    <3>1. worker'[v] = worker[v]
      BY <2>2, WorkersApart DEF crash
    <3> QED BY <3>1, <2>2, <1>t, SenderFacts, WorkersApart DEF Structure
  <2>3. CASE v \in Entry /\ worker[v].pc # "idle"
    <3>1. worker'[v] = atRest(v, "done")
      BY <2>3, WorkersApart DEF crash
    <3>2. atRest(v, "done") \in WorkerRecord
      BY <2>3, AtRest
    <3> QED BY <3>1, <3>2, <2>3, WorkersApart DEF atRest
  <2> QED BY <2>1, <2>2, <2>3 DEF Worker
<1>2. DOMAIN worker' = Worker /\ worker' = [v \in Worker |-> worker'[v]]
  BY DEF crash
<1> QED BY <1>1, <1>2, WorkersApart

LEMMA CrashKeeps ==
  ASSUME Structure, TypeOK', crash
  PROVE  Structure'
<1>a. /\ \A v \in Worker : ~active(v)' /\ ~owns(v)'
      /\ row' = row /\ claims' = {}
  BY CrashRests DEF active, owns, crash
<1>1. ClaimsOwned'
  BY <1>a DEF ClaimsOwned
<1>2. ExclusiveOwner'
  BY <1>a DEF ExclusiveOwner
<1>3. OwnedRow'
  BY <1>a DEF OwnedRow
<1>4. RetriesBounded'
  BY <1>a DEF Structure, RetriesBounded
<1>5. SendersOwn'
  <2>1. \A e \in Entry : e \in Worker
    BY WorkersApart
  <2>2. \A e \in Entry : /\ worker'[e].entry = e /\ worker'[e].pc \in {"idle", "done"}
                         /\ worker'[e].pc = "idle" => worker[e].pc = "idle" /\ worker'[e] = worker[e]
    BY <2>1, CrashRests
  <2> QED BY <1>a, <2>1, <2>2 DEF Structure, SendersOwn
<1>6. PassesFollow'
  <2>1. \A p \in Pass : p \in Worker
    BY WorkersApart
  <2> QED BY <1>a, <2>1, CrashRests DEF PassesFollow
<1> QED BY <1>1, <1>2, <1>3, <1>4, <1>5, <1>6 DEF Structure

-----------------------------------------------------------------------------
(* What the operators of the model do to a row, field by field.            *)
LEMMA RowUnchanged ==
  ASSUME TypeOK, row' = row, NEW e \in Entry
  PROVE  row' \in [Entry -> RowRecord] /\ RowMoves(e)
BY DEF TypeOK, RowMoves

LEMMA RowFailed ==
  ASSUME TypeOK, NEW e \in Entry, NEW ok \in BOOLEAN, updates(e, ok, failDelivery(row[e]))
  PROVE  /\ row' \in [Entry -> RowRecord] /\ RowMoves(e)
         /\ row'[e].status = row[e].status /\ row'[e].recoveryState = row[e].recoveryState
<1> DEFINE r == [row[e] EXCEPT !.retryCount = row[e].retryCount + 1, !.elapsed = FALSE]
<1>1. /\ r \in RowRecord /\ r.status = row[e].status /\ r.recoveryState = row[e].recoveryState
      /\ r.retryCount = row[e].retryCount + 1
  <2> DEFINE r1 == [row[e] EXCEPT !.retryCount = row[e].retryCount + 1]
  <2>1. /\ r1 \in RowRecord /\ r1.status = row[e].status /\ r1.recoveryState = row[e].recoveryState
        /\ r1.retryCount = row[e].retryCount + 1
    BY DEF TypeOK, RowRecord
  <2>2. r = [r1 EXCEPT !.elapsed = FALSE]
    OBVIOUS
  <2> HIDE DEF r, r1
  <2> QED BY <2>1, <2>2 DEF RowRecord
<1>2. row' = row \/ (row' = [row EXCEPT ![e] = r] /\ row[e].status = "pending")
  BY DEF updates, failDelivery
<1>3. row \in [Entry -> RowRecord]
  BY DEF TypeOK
<1> HIDE DEF r
<1> QED BY <1>1, <1>2, <1>3 DEF RowMoves

LEMMA RowMarked ==
  ASSUME TypeOK, NEW e \in Entry, NEW ok \in BOOLEAN, NEW new,
         new \in {markDeliveryPlatformSendAttemptStarted(row[e]), markDeliveryPlatformOutcomeUnknown(row[e])},
         updates(e, ok, new)
  PROVE  /\ row' \in [Entry -> RowRecord] /\ RowMoves(e)
         /\ row'[e].status = row[e].status /\ row'[e].retryCount = row[e].retryCount
         /\ ok /\ row[e].status = "pending" => row'[e].recoveryState # "none"
         /\ ~ok \/ row[e].status # "pending" => row' = row
<1>1. /\ new \in RowRecord /\ new.status = row[e].status /\ new.recoveryState # "none"
      /\ new.retryCount = row[e].retryCount
  BY DEF TypeOK, RowRecord, markDeliveryPlatformOutcomeUnknown, markDeliveryPlatformSendAttemptStarted
<1>2. \/ row' = row /\ ~(ok /\ row[e].status = "pending")
      \/ row' = [row EXCEPT ![e] = new] /\ row[e].status = "pending" /\ ok
  BY DEF updates
<1>3. row \in [Entry -> RowRecord] /\ row[e].retryCount \in Nat
  BY DEF TypeOK, RowRecord
<1> QED BY <1>1, <1>2, <1>3 DEF RowMoves

LEMMA RowSettled ==
  ASSUME TypeOK, NEW e \in Entry, NEW ok \in BOOLEAN, NEW new,
         new \in {moveToFailed(row[e]), ackDelivery(row[e])}, updates(e, ok, new)
  PROVE  /\ row' \in [Entry -> RowRecord] /\ RowMoves(e)
         /\ row'[e].retryCount = row[e].retryCount /\ row'[e].recoveryState = row[e].recoveryState
         /\ ok /\ row[e].status = "pending" /\ new = ackDelivery(row[e]) => row'[e].status = "acked"
         /\ new = moveToFailed(row[e]) /\ row[e].status = "pending" => row'[e].status # "acked"
         /\ ~ok \/ row[e].status # "pending" => row' = row
<1>1. /\ new \in RowRecord /\ new.status \in {"failed", "acked"} /\ new.recoveryState = row[e].recoveryState
      /\ new.retryCount = row[e].retryCount
      /\ new = ackDelivery(row[e]) => new.status = "acked"
      /\ new = moveToFailed(row[e]) => new.status = "failed"
  BY DEF TypeOK, RowRecord, moveToFailed, ackDelivery
<1>2. \/ row' = row /\ ~(ok /\ row[e].status = "pending")
      \/ row' = [row EXCEPT ![e] = new] /\ row[e].status = "pending" /\ ok
  BY DEF updates
<1>3. row \in [Entry -> RowRecord] /\ row[e].retryCount \in Nat
  BY DEF TypeOK, RowRecord
<1> QED BY <1>1, <1>2, <1>3 DEF RowMoves

LEMMA Stored ==
  ASSUME TypeOK, NEW ok \in BOOLEAN, NEW ok2 \in BOOLEAN, storesTwice(ok, ok2)
  PROVE  /\ faults' \in 0 .. MaxFaults /\ faults <= faults'
         /\ ~ok \/ ~ok2 => faults' > 0
BY DEF TypeOK, storesTwice, faultsOf

LEMMA StoredOnce ==
  ASSUME TypeOK, NEW ok \in BOOLEAN, stores(ok)
  PROVE  /\ faults' \in 0 .. MaxFaults /\ faults <= faults'
         /\ ~ok => faults' > 0
BY Stored DEF stores

-----------------------------------------------------------------------------
(* What they do to a worker.                                               *)
LEMMA Goes ==
  ASSUME TypeOK, NEW w \in Worker,
         NEW pc \in {"unit", "calling", "committed", "acking", "hooks", "threw", "reconcile"},
         goes(w, pc)
  PROVE  /\ worker' \in [Worker -> WorkerRecord] /\ Only(w)
         /\ worker'[w].pc = pc /\ worker'[w].entry = worker[w].entry
         /\ worker'[w].durable = worker[w].durable /\ worker'[w].todo = worker[w].todo
         /\ worker'[w].seen = worker[w].seen /\ worker'[w].unit = worker[w].unit
         /\ worker'[w].started = worker[w].started
<1>1. worker \in [Worker -> WorkerRecord] /\ worker' = [worker EXCEPT ![w].pc = pc]
  BY DEF TypeOK, goes
<1> QED BY <1>1 DEF WorkerRecord, Only

(* A worker's record when the loop over its payloads goes on.              *)
SameHand(x, y) ==
  x.entry = y.entry /\ x.durable = y.durable /\ x.todo = y.todo /\ x.seen = y.seen

LEMMA NextUnit ==
  ASSUME NEW x \in WorkerRecord, x.unit <= Units
  PROVE  LET y == [x EXCEPT !.pc = "unit", !.unit = x.unit + 1]
         IN  /\ y \in WorkerRecord /\ SameHand(y, x) /\ y.started = x.started
             /\ y.pc = "unit" /\ y.unit = x.unit + 1
<1> DEFINE n == x.unit + 1
<1>1. n \in 1 .. Units + 1
  BY DEF WorkerRecord
<1> HIDE DEF n
<1>2. LET y == [x EXCEPT !.pc = "unit", !.unit = n]
      IN  /\ y \in WorkerRecord /\ SameHand(y, x) /\ y.started = x.started
          /\ y.pc = "unit" /\ y.unit = n
  BY <1>1 DEF WorkerRecord, SameHand
<1> QED BY <1>2 DEF n

LEMMA FlagSet ==
  ASSUME NEW x \in WorkerRecord, NEW b \in BOOLEAN
  PROVE  /\ LET y == [x EXCEPT !.partial = b]
            IN  /\ y \in WorkerRecord /\ SameHand(y, x) /\ y.pc = x.pc /\ y.unit = x.unit
                /\ y.started = x.started
         /\ LET y == [x EXCEPT !.results = b]
            IN  /\ y \in WorkerRecord /\ SameHand(y, x) /\ y.pc = x.pc /\ y.unit = x.unit
                /\ y.started = x.started
         /\ LET y == [x EXCEPT !.started = b]
            IN  /\ y \in WorkerRecord /\ SameHand(y, x) /\ y.pc = x.pc /\ y.unit = x.unit
                /\ y.started = b
BY DEF WorkerRecord, SameHand

LEMMA UnitThrows ==
  ASSUME TypeOK, NEW w \in Worker, NEW pc \in {"aborted", "threw"}, unitThrows(w, pc),
         worker[w].unit <= Units
  PROVE  /\ worker' \in [Worker -> WorkerRecord] /\ Only(w)
         /\ worker'[w].entry = worker[w].entry
         /\ worker'[w].durable = worker[w].durable /\ worker'[w].todo = worker[w].todo
         /\ worker'[w].seen = worker[w].seen
         /\ worker'[w].started = worker[w].started
         /\ \/ /\ call[worker[w].entry].bestEffort
               /\ worker'[w].pc = "unit" /\ worker'[w].unit = worker[w].unit + 1
            \/ worker'[w].pc = pc /\ worker'[w].unit = worker[w].unit
<1>1. worker \in [Worker -> WorkerRecord]
  BY DEF TypeOK
<1>2. CASE call[worker[w].entry].bestEffort
  <2>1. worker' = [worker EXCEPT ![w] =
                     [worker[w] EXCEPT !.pc = "unit", !.unit = worker[w].unit + 1, !.partial = TRUE]]
    BY <1>2 DEF unitThrows
  <2> DEFINE x1 == [worker[w] EXCEPT !.pc = "unit", !.unit = worker[w].unit + 1]
             x == [x1 EXCEPT !.partial = TRUE]
  <2>2. /\ x1 \in WorkerRecord /\ SameHand(x1, worker[w]) /\ x1.started = worker[w].started
        /\ x1.pc = "unit" /\ x1.unit = worker[w].unit + 1
    BY <1>1, NextUnit
  <2>3. worker' = [worker EXCEPT ![w] = x]
    BY <2>1
  <2> HIDE DEF x1
  <2>4. /\ x \in WorkerRecord /\ SameHand(x, x1) /\ x.started = x1.started
        /\ x.pc = x1.pc /\ x.unit = x1.unit
    BY <2>2, FlagSet
  <2> HIDE DEF x
  <2> QED BY <2>2, <2>3, <2>4, <1>1, <1>2 DEF Only, SameHand
<1>3. CASE ~call[worker[w].entry].bestEffort
  <2>1. worker' = [worker EXCEPT ![w] = [worker[w] EXCEPT !.pc = pc]]
    BY <1>3 DEF unitThrows
  <2> QED BY <2>1, <1>1, <1>3 DEF WorkerRecord, Only
<1> QED BY <1>2, <1>3

(* A worker that is through gives its entry back.                          *)
LEMMA Finishes ==
  ASSUME Structure, NEW w \in Worker, active(w), finish(w),
         \/ row' = row
         \/ /\ owns(w) /\ RowMoves(worker[w].entry)
            /\ worker[worker[w].entry].pc # "enqueued"
            /\ row'[worker[w].entry].retryCount <= MAX_RETRIES
  PROVE  worker' \in [Worker -> WorkerRecord] /\ claims' \subseteq Entry /\ Gives(w)
<1>t. /\ worker \in [Worker -> WorkerRecord] /\ claims \subseteq Entry
      /\ (w \in Entry <=> w \notin Pass)
  BY WorkersApart DEF Structure, TypeOK
<1>o. owns(w) <=> (worker[w].durable \/ w \in Pass)
  BY <1>t, WorkersApart DEF owns
<1>c. claims' = IF owns(w) THEN claims \ {worker[w].entry} ELSE claims
  BY <1>o DEF finish, released
<1>1. CASE w \in Entry
  <2>1. worker' = [worker EXCEPT ![w] = atRest(w, "done")]
    BY <1>1 DEF finish
  <2>2. /\ atRest(w, "done") \in WorkerRecord /\ atRest(w, "done").pc = "done"
        /\ atRest(w, "done").entry = w
        /\ ~atRest(w, "done").durable /\ atRest(w, "done").todo = {}
    BY <1>1, AtRest DEF atRest
  <2> QED BY <1>1, <2>1, <2>2, <1>t, <1>c DEF Gives, Only
<1>2. CASE w \in Pass
  <2> DEFINE x == [atRest(AnyEntry, "scan") EXCEPT !.todo = worker[w].todo]
  <2>1. worker' = [worker EXCEPT ![w] = x]
    BY <1>2, <1>t DEF finish
  <2>2. x \in WorkerRecord /\ x.pc = "scan" /\ ~x.durable /\ x.todo = worker[w].todo
    <3>1. atRest(AnyEntry, "scan") \in WorkerRecord
      BY AnyEntryIsEntry, AtRest
    <3>2. worker[w].todo \in SUBSET Entry
      BY <1>t DEF WorkerRecord
    <3>3. x \in WorkerRecord /\ x.todo = worker[w].todo
      BY <3>1, <3>2 DEF WorkerRecord
    <3>4. x.pc = "scan" /\ ~x.durable
      BY DEF atRest
    <3> QED BY <3>3, <3>4
  <2> HIDE DEF x
  <2> QED BY <1>2, <2>1, <2>2, <1>t, <1>c DEF Gives, Only
<1> QED BY <1>1, <1>2, <1>t

-----------------------------------------------------------------------------
(* Each action and its kind: first the loop over the payloads.             *)
LEMMA IInvStructure == IInv => Structure /\ TypeOK
BY DEF IInv, Structure

LEMMA LoopHolds ==
  ASSUME IInv, NEW w \in Worker, sending(w)
  PROVE  /\ active(w) /\ worker[w].pc # "hooks"
         /\ w \in Pass => /\ worker[worker[w].entry].pc = "done"
                          /\ row[worker[w].entry].status = "pending"
                          /\ row[worker[w].entry].retryCount < MAX_RETRIES
<1>1. active(w) /\ worker[w].pc \notin {"hooks", "claimed"}
  BY DEF sending, active
<1>2. ASSUME w \in Pass
      PROVE  /\ worker[worker[w].entry].pc = "done"
             /\ row[worker[w].entry].status = "pending"
             /\ row[worker[w].entry].retryCount < MAX_RETRIES
  <2>1. owns(w) /\ w \notin Entry
    BY <1>1, <1>2, WorkersApart DEF owns
  <2> QED BY <1>1, <1>2, <2>1 DEF IInv, PassesFollow, OwnedRow
<1> QED BY <1>1, <1>2

LEMMA LoopProceeds ==
  ASSUME IInv, NEW w \in Worker, sending(w), Only(w), SameHand(worker'[w], worker[w]),
         worker'[w].pc \in {"unit", "calling", "committed", "threw", "aborted"},
         w \in Pass => worker'[w].pc # "aborted",
         claims' = claims,
         \/ row' = row
         \/ /\ owns(w) /\ w \in Entry /\ RowMoves(worker[w].entry)
            /\ row'[worker[w].entry].retryCount = row[worker[w].entry].retryCount
            /\ row'[worker[w].entry].status = row[worker[w].entry].status
  PROVE  Proceeds(w)
BY LoopHolds, WorkersApart DEF Proceeds, SameHand, resting

LEMMA ThrowIfAborted ==
  ASSUME IInv, NEW w \in Worker, throwIfAborted(w)
  PROVE  /\ TypeOK' /\ Proceeds(w) /\ w \in Entry /\ call[w].aborted
         /\ row' = row /\ platform' = platform /\ hooks' = hooks /\ call' = call /\ faults' = faults
         /\ worker[w].pc = "unit" /\ worker'[w].started = worker[w].started
         /\ \/ /\ call[worker[w].entry].bestEffort
               /\ worker'[w].pc = "unit" /\ worker'[w].unit = worker[w].unit + 1
            \/ worker'[w].pc = "aborted" /\ worker'[w].unit = worker[w].unit
<1>0. TypeOK /\ sending(w) /\ worker[w].unit <= Units /\ w \in Entry /\ call[w].aborted
  BY DEF IInv, throwIfAborted, inLoop, aborting, sending
<1>1. /\ worker' \in [Worker -> WorkerRecord] /\ Only(w) /\ SameHand(worker'[w], worker[w])
      /\ worker'[w].started = worker[w].started
      /\ \/ /\ call[worker[w].entry].bestEffort
            /\ worker'[w].pc = "unit" /\ worker'[w].unit = worker[w].unit + 1
         \/ worker'[w].pc = "aborted" /\ worker'[w].unit = worker[w].unit
  BY <1>0, UnitThrows DEF throwIfAborted, SameHand
<1>2. Proceeds(w)
  BY <1>0, <1>1, LoopProceeds, WorkersApart DEF throwIfAborted
<1>3. TypeOK'
  BY <1>0, <1>1 DEF throwIfAborted, TypeOK
<1> QED BY <1>0, <1>1, <1>2, <1>3 DEF throwIfAborted, inLoop

LEMMA UnitFails ==
  ASSUME IInv, NEW w \in Worker, unitFails(w)
  PROVE  /\ TypeOK' /\ Proceeds(w) /\ sending(w) /\ worker[w].unit <= Units
         /\ row' = row /\ platform' = platform /\ hooks' = hooks /\ call' = call /\ faults' = faults
         /\ worker'[w].started = worker[w].started
         /\ \/ /\ call[worker[w].entry].bestEffort
               /\ worker'[w].pc = "unit" /\ worker'[w].unit = worker[w].unit + 1
            \/ worker'[w].pc = "threw" /\ worker'[w].unit = worker[w].unit
<1>0. TypeOK /\ sending(w) /\ worker[w].unit <= Units
  BY DEF IInv, unitFails, inLoop, sending, LoopLeavesNone
<1>1. /\ worker' \in [Worker -> WorkerRecord] /\ Only(w) /\ SameHand(worker'[w], worker[w])
      /\ worker'[w].started = worker[w].started
      /\ \/ /\ call[worker[w].entry].bestEffort
            /\ worker'[w].pc = "unit" /\ worker'[w].unit = worker[w].unit + 1
         \/ worker'[w].pc = "threw" /\ worker'[w].unit = worker[w].unit
  BY <1>0, UnitThrows DEF unitFails, SameHand
<1>2. Proceeds(w)
  BY <1>0, <1>1, LoopProceeds DEF unitFails
<1>3. TypeOK'
  BY <1>0, <1>1 DEF unitFails, TypeOK
<1> QED BY <1>0, <1>1, <1>2, <1>3 DEF unitFails

LEMMA Suppress ==
  ASSUME IInv, NEW w \in Worker, suppress(w)
  PROVE  LET e == worker[w].entry
         IN  /\ TypeOK' /\ Proceeds(w) /\ worker[w].pc = "unit" /\ worker[w].unit <= Units
             /\ row' = row /\ hooks' = hooks /\ call' = call /\ faults' = faults
             /\ worker'[w].started = worker[w].started
             /\ worker'[w].pc = "unit" /\ worker'[w].unit = worker[w].unit + 1
             /\ \A f \in Entry : /\ platform'[f].copies = platform[f].copies
                                 /\ platform'[f].live = platform[f].live
                                 /\ platform[f].suppressed \subseteq platform'[f].suppressed
             /\ worker[w].unit \in platform'[e].suppressed
<1> DEFINE e == worker[w].entry
           x == [worker[w] EXCEPT !.unit = worker[w].unit + 1]
           s == platform[e].suppressed \cup {worker[w].unit}
<1>0. TypeOK /\ sending(w) /\ worker[w].pc = "unit" /\ worker[w].unit <= Units
  BY DEF IInv, suppress, inLoop, sending
<1>t. /\ worker \in [Worker -> WorkerRecord] /\ worker[w] \in WorkerRecord /\ e \in Entry
      /\ platform \in [Entry -> PlatformRecord] /\ worker[w].unit \in 1 .. Units
  BY <1>0 DEF TypeOK, WorkerRecord
<1>1. /\ x \in WorkerRecord /\ SameHand(x, worker[w]) /\ x.started = worker[w].started
      /\ x.pc = "unit" /\ x.unit = worker[w].unit + 1
  <2> DEFINE n == worker[w].unit + 1
  <2>1. n \in 1 .. Units + 1
    BY <1>t
  <2> HIDE DEF n
  <2>2. LET y == [worker[w] EXCEPT !.unit = n]
        IN  /\ y \in WorkerRecord /\ SameHand(y, worker[w]) /\ y.started = worker[w].started
            /\ y.pc = "unit" /\ y.unit = n
    BY <2>1, <1>t, <1>0 DEF WorkerRecord, SameHand
  <2> QED BY <2>2 DEF n
<1>2. worker' = [worker EXCEPT ![w] = x]
  BY DEF suppress
<1>3. platform' = [platform EXCEPT ![e].suppressed = s]
  BY DEF suppress
<1> HIDE DEF x
<1>4. worker' \in [Worker -> WorkerRecord] /\ Only(w) /\ worker'[w] = x
  BY <1>1, <1>2, <1>t DEF Only
<1>5. Proceeds(w)
  BY <1>0, <1>1, <1>4, LoopProceeds DEF suppress
<1>6. platform' \in [Entry -> PlatformRecord]
  <2>1. s \in SUBSET (1 .. Units)
    BY <1>t DEF PlatformRecord
  <2> HIDE DEF s
  <2> QED BY <1>3, <2>1, <1>t DEF PlatformRecord
<1>7. /\ \A f \in Entry : /\ platform'[f].copies = platform[f].copies
                          /\ platform'[f].live = platform[f].live
                          /\ platform[f].suppressed \subseteq platform'[f].suppressed
      /\ worker[w].unit \in platform'[e].suppressed
  BY <1>3, <1>t DEF PlatformRecord
<1>8. TypeOK'
  BY <1>0, <1>4, <1>6 DEF suppress, TypeOK
<1> QED BY <1>0, <1>1, <1>4, <1>5, <1>7, <1>8 DEF suppress

LEMMA StartUnit ==
  ASSUME IInv, NEW w \in Worker, startUnit(w)
  PROVE  /\ TypeOK' /\ Proceeds(w) /\ worker[w].pc = "unit" /\ worker[w].unit <= Units
         /\ row' = row /\ platform' = platform /\ hooks' = hooks /\ call' = call /\ faults' = faults
         /\ worker'[w].started = worker[w].started /\ worker'[w].unit = worker[w].unit
         /\ worker'[w].pc = "calling"
         /\ worker[w].durable => worker[w].started
<1>0. TypeOK /\ sending(w) /\ worker[w].pc = "unit" /\ worker[w].unit <= Units
  BY DEF IInv, startUnit, inLoop, sending
<1>1. /\ worker' \in [Worker -> WorkerRecord] /\ Only(w) /\ SameHand(worker'[w], worker[w])
      /\ worker'[w].started = worker[w].started /\ worker'[w].unit = worker[w].unit
      /\ worker'[w].pc = "calling"
  BY <1>0, Goes DEF startUnit, SameHand
<1>2. Proceeds(w)
  BY <1>0, <1>1, LoopProceeds DEF startUnit
<1>3. TypeOK'
  BY <1>0, <1>1 DEF startUnit, TypeOK
<1> QED BY <1>0, <1>1, <1>2, <1>3 DEF startUnit, marks

LEMMA MarkAndStartUnit ==
  ASSUME IInv, NEW w \in Worker, NEW ok \in BOOLEAN, markAndStartUnit(w, ok)
  PROVE  /\ TypeOK' /\ Proceeds(w) /\ w \in Entry /\ worker[w].durable
         /\ worker[w].pc = "unit" /\ worker[w].unit <= Units /\ RowMoves(w)
         /\ row'[w].status = row[w].status
         /\ platform' = platform /\ hooks' = hooks /\ call' = call /\ faults <= faults'
         /\ \/ /\ worker'[w].pc = "calling" /\ worker'[w].unit = worker[w].unit
               /\ worker'[w].started /\ row'[w].recoveryState # "none"
            \/ /\ call[worker[w].entry].bestEffort /\ worker'[w].started = worker[w].started
               /\ worker'[w].pc = "unit" /\ worker'[w].unit = worker[w].unit + 1
            \/ /\ worker'[w].pc = "threw" /\ worker'[w].unit = worker[w].unit
               /\ worker'[w].started = worker[w].started
            \/ /\ worker'[w].pc = "calling" /\ worker'[w].unit = worker[w].unit
               /\ worker'[w].started = worker[w].started /\ ~worker[w].started
               /\ call'[w].queuePolicy # "required" /\ faults' > 0
<1>0. /\ TypeOK /\ sending(w) /\ worker[w].pc = "unit" /\ worker[w].unit <= Units
      /\ worker[w].durable /\ ~worker[w].started
  BY DEF IInv, markAndStartUnit, inLoop, sending, marks
<1>e. w \in Entry /\ owns(w) /\ worker[w].entry = w /\ row[w].status = "pending"
  <2>1. w \in Entry
    BY <1>0 DEF Worker, IInv, PassesFollow
  <2>2. owns(w)
    BY <1>0, LoopHolds DEF owns
  <2>3. worker[w].entry = w
    BY <2>1 DEF IInv, SendersOwn
  <2> QED BY <2>1, <2>2, <2>3, <1>0 DEF IInv, OwnedRow
<1>f. faults' \in 0 .. MaxFaults /\ faults <= faults' /\ (~ok => faults' > 0)
  BY <1>0, StoredOnce DEF markAndStartUnit
<1>r. /\ row' \in [Entry -> RowRecord] /\ RowMoves(w)
      /\ row'[w].status = row[w].status /\ row'[w].retryCount = row[w].retryCount
      /\ ok => row'[w].recoveryState # "none"
  BY <1>0, <1>e, RowMarked DEF markAndStartUnit
<1>t. worker \in [Worker -> WorkerRecord] /\ worker[w] \in WorkerRecord
  BY <1>0 DEF TypeOK
<1>1. /\ worker' \in [Worker -> WorkerRecord] /\ Only(w) /\ SameHand(worker'[w], worker[w])
      /\ \/ /\ worker'[w].pc = "calling" /\ worker'[w].unit = worker[w].unit
            /\ worker'[w].started /\ ok
         \/ /\ call[worker[w].entry].bestEffort /\ worker'[w].started = worker[w].started
            /\ worker'[w].pc = "unit" /\ worker'[w].unit = worker[w].unit + 1
         \/ /\ worker'[w].pc = "threw" /\ worker'[w].unit = worker[w].unit
            /\ worker'[w].started = worker[w].started
         \/ /\ worker'[w].pc = "calling" /\ worker'[w].unit = worker[w].unit
            /\ worker'[w].started = worker[w].started
            /\ call[w].queuePolicy # "required" /\ ~ok
  <2>1. CASE ok
    <3> DEFINE y == [worker[w] EXCEPT !.pc = "calling"]
               x == [y EXCEPT !.started = TRUE]
    <3>1. y \in WorkerRecord /\ SameHand(y, worker[w]) /\ y.pc = "calling" /\ y.unit = worker[w].unit
      BY <1>t DEF WorkerRecord, SameHand
    <3>2. worker' = [worker EXCEPT ![w].pc = "calling", ![w].started = TRUE]
      BY <2>1, <1>e DEF markAndStartUnit
    <3>3. worker' = [worker EXCEPT ![w] = x]
      BY <3>2, <1>t
    <3> HIDE DEF y
    <3>4. x \in WorkerRecord /\ SameHand(x, y) /\ x.pc = y.pc /\ x.unit = y.unit /\ x.started
      BY <3>1, FlagSet
    <3> HIDE DEF x
    <3> QED BY <2>1, <3>1, <3>3, <3>4, <1>t DEF SameHand, Only
  <2>2. CASE ~ok /\ call[w].queuePolicy = "required"
    <3>1. unitThrows(w, "threw")
      BY <2>2 DEF markAndStartUnit
    <3> QED BY <3>1, <1>0, UnitThrows DEF SameHand
  <2>3. CASE ~ok /\ call[w].queuePolicy # "required"
    <3>1. goes(w, "calling")
      BY <2>3 DEF markAndStartUnit
    <3> QED BY <3>1, <2>3, <1>0, Goes DEF SameHand
  <2> QED BY <2>1, <2>2, <2>3
<1>2. Proceeds(w)
  BY <1>0, <1>1, <1>e, <1>r, LoopProceeds, WorkersApart DEF markAndStartUnit
<1>3. TypeOK'
  BY <1>0, <1>1, <1>r, <1>f DEF markAndStartUnit, TypeOK
<1> QED BY <1>0, <1>1, <1>2, <1>3, <1>e, <1>f, <1>r DEF markAndStartUnit

(* One more copy of the unit in hand is on the platform.                   *)
Puts(w) ==
  LET e == worker[w].entry
      u == worker[w].unit
  IN  /\ u \in 1 .. Units /\ e \in Entry
      /\ \A f \in Entry : f # e => platform'[f] = platform[f]
      /\ platform'[e].suppressed = platform[e].suppressed
      /\ \A v \in 1 .. Units : v # u => platform'[e].copies[v] = platform[e].copies[v]
      /\ platform'[e].copies[u] > 0
      /\ platform[e].copies[u] = 0 => platform'[e].copies[u] = 1
      /\ w \in Entry => platform'[e].live = platform[e].live \cup {u}
      /\ w \notin Entry => platform'[e].live = platform[e].live

LEMMA OneMoreCopy ==
  ASSUME NEW c \in [1 .. Units -> 0 .. 2], NEW u \in 1 .. Units
  PROVE  LET d == [c EXCEPT ![u] = IF c[u] < 2 THEN c[u] + 1 ELSE 2]
         IN  /\ d \in [1 .. Units -> 0 .. 2] /\ d[u] > 0
             /\ \A v \in 1 .. Units : v # u => d[v] = c[v]
             /\ c[u] = 0 => d[u] = 1
<1> DEFINE n == IF c[u] < 2 THEN c[u] + 1 ELSE 2
<1>1. n \in 0 .. 2 /\ n > 0 /\ (c[u] = 0 => n = 1)
  OBVIOUS
<1> HIDE DEF n
<1>2. LET d == [c EXCEPT ![u] = n]
      IN  /\ d \in [1 .. Units -> 0 .. 2] /\ d[u] = n
          /\ \A v \in 1 .. Units : v # u => d[v] = c[v]
  BY <1>1
<1> QED BY <1>1, <1>2 DEF n

LEMMA Accept ==
  ASSUME IInv, NEW w \in Worker, accept(w)
  PROVE  /\ TypeOK' /\ Proceeds(w) /\ worker[w].pc = "calling" /\ Puts(w)
         /\ row' = row /\ hooks' = hooks /\ call' = call /\ faults' = faults
         /\ worker'[w].started = worker[w].started
         /\ worker'[w].pc = "committed" /\ worker'[w].unit = worker[w].unit
<1> DEFINE e == worker[w].entry
           u == worker[w].unit
           c == [platform[e].copies EXCEPT ![u] =
                   IF platform[e].copies[u] < 2 THEN platform[e].copies[u] + 1 ELSE 2]
           l == IF w \in Entry THEN platform[e].live \cup {u} ELSE platform[e].live
           x == [platform[e] EXCEPT !.copies = c, !.live = l]
<1>0. TypeOK /\ sending(w) /\ worker[w].pc = "calling" /\ u <= Units
  BY DEF IInv, accept, sending, LoopLeavesNone
<1>t. /\ worker \in [Worker -> WorkerRecord] /\ worker[w] \in WorkerRecord /\ e \in Entry
      /\ platform \in [Entry -> PlatformRecord] /\ platform[e] \in PlatformRecord /\ u \in 1 .. Units
  BY <1>0 DEF TypeOK, WorkerRecord
<1>c. /\ c \in [1 .. Units -> 0 .. 2] /\ c[u] > 0
      /\ \A v \in 1 .. Units : v # u => c[v] = platform[e].copies[v]
      /\ platform[e].copies[u] = 0 => c[u] = 1
  <2>1. platform[e].copies \in [1 .. Units -> 0 .. 2]
    BY <1>t DEF PlatformRecord
  <2> QED BY <2>1, <1>t, OneMoreCopy
<1>l. l \in SUBSET (1 .. Units)
  BY <1>t DEF PlatformRecord
<1>p. platform' = [platform EXCEPT ![e] = x]
  BY <1>t DEF accept, PlatformRecord
<1>1. /\ worker' \in [Worker -> WorkerRecord] /\ Only(w) /\ SameHand(worker'[w], worker[w])
      /\ worker'[w].started = worker[w].started /\ worker'[w].unit = worker[w].unit
      /\ worker'[w].pc = "committed"
  BY <1>0, Goes DEF accept, SameHand
<1>2. Proceeds(w)
  BY <1>0, <1>1, LoopProceeds DEF accept
<1> HIDE DEF c, l
<1>x. /\ x \in PlatformRecord /\ x.copies = c /\ x.live = l /\ x.suppressed = platform[e].suppressed
  BY <1>t, <1>c, <1>l DEF PlatformRecord
<1> HIDE DEF x
<1>q. /\ platform' \in [Entry -> PlatformRecord] /\ platform'[e] = x
      /\ \A f \in Entry : f # e => platform'[f] = platform[f]
  BY <1>p, <1>x, <1>t
<1>3. TypeOK'
  BY <1>0, <1>1, <1>q DEF accept, TypeOK
<1>4. Puts(w)
  BY <1>c, <1>x, <1>q, <1>t DEF l, Puts
<1> QED BY <1>0, <1>1, <1>2, <1>3, <1>4 DEF accept

LEMMA UnitReturns ==
  ASSUME IInv, NEW w \in Worker, NEW identified \in BOOLEAN, unitReturns(w, identified)
  PROVE  /\ TypeOK' /\ Proceeds(w) /\ worker[w].pc = "committed" /\ worker[w].unit <= Units
         /\ row' = row /\ platform' = platform /\ hooks' = hooks /\ call' = call /\ faults' = faults
         /\ worker'[w].started = worker[w].started
         /\ worker'[w].pc = "unit" /\ worker'[w].unit = worker[w].unit + 1
<1> DEFINE y == [worker[w] EXCEPT !.pc = "unit", !.unit = worker[w].unit + 1]
           b == worker[w].results \/ identified
           x == [y EXCEPT !.results = b]
<1>0. TypeOK /\ sending(w) /\ worker[w].pc = "committed" /\ worker[w].unit <= Units
  BY DEF IInv, unitReturns, sending, LoopLeavesNone
<1>t. worker \in [Worker -> WorkerRecord] /\ worker[w] \in WorkerRecord /\ b \in BOOLEAN
  BY <1>0 DEF TypeOK, WorkerRecord
<1>1. /\ y \in WorkerRecord /\ SameHand(y, worker[w]) /\ y.started = worker[w].started
      /\ y.pc = "unit" /\ y.unit = worker[w].unit + 1
  BY <1>0, <1>t, NextUnit
<1>2. worker' = [worker EXCEPT ![w].pc = "unit", ![w].unit = worker[w].unit + 1, ![w].results = b]
  BY DEF unitReturns
<1> HIDE DEF b
<1>3. worker' = [worker EXCEPT ![w] = x]
  BY <1>2, <1>t DEF WorkerRecord
<1> HIDE DEF y
<1>4. /\ x \in WorkerRecord /\ SameHand(x, y) /\ x.pc = y.pc /\ x.unit = y.unit
      /\ x.started = y.started
  <2>1. y \in WorkerRecord /\ b \in BOOLEAN
    BY <1>1, <1>t
  <2> QED BY <2>1 DEF WorkerRecord, SameHand
<1> HIDE DEF x
<1>5. worker' \in [Worker -> WorkerRecord] /\ Only(w) /\ worker'[w] = x
  BY <1>3, <1>4, <1>t DEF Only
<1>6. Proceeds(w)
  BY <1>0, <1>1, <1>4, <1>5, LoopProceeds DEF unitReturns, SameHand
<1>7. TypeOK'
  BY <1>0, <1>5 DEF unitReturns, TypeOK
<1> QED BY <1>0, <1>1, <1>4, <1>5, <1>6, <1>7 DEF unitReturns

-----------------------------------------------------------------------------
(* The live sender after the loop.                                         *)
Delivered(e) == out(e) \cup platform[e].suppressed = 1 .. Units

(* An entry is acked for a reason.                                         *)
AckIsEarned(e) ==
  row'[e].status = "acked" /\ row[e].status # "acked"
  => call[e].aborted \/ call[e].bestEffort \/ Delivered(e)

(* The hooks run once, for a delivery that is out of the queue.            *)
HooksRun(w) ==
  LET e == worker[w].entry
  IN  /\ hooks[e] = 0 /\ hooks' = [hooks EXCEPT ![e] = 1]
      /\ row' = row /\ row[e].status \in {"acked", "none"}
      /\ w \in Entry \/ worker[w].pc = "hooks"

(* The last step of a worker with its entry.                               *)
Returns(w) ==
  /\ Gives(w) /\ platform' = platform /\ call' = call /\ faults <= faults'
  /\ AckIsEarned(worker[w].entry)
  /\ hooks' = hooks \/ HooksRun(w)

(* A step that goes on to the hooks, or has no part in the loop.           *)
Steady(w) ==
  /\ Proceeds(w) /\ platform' = platform /\ call' = call /\ faults <= faults'
  /\ AckIsEarned(worker[w].entry) /\ hooks' = hooks

LEMMA CoreDone ==
  ASSUME IInv, NEW w \in Worker, coreReturned(w) \/ worker[w].pc = "acking"
  PROVE  call[worker[w].entry].bestEffort \/ Delivered(worker[w].entry)
<1> DEFINE e == worker[w].entry
<1>1. /\ e \in Entry /\ platform[e].suppressed \subseteq 1 .. Units /\ worker[w].unit \in Int
  BY DEF IInv, TypeOK, WorkerRecord, PlatformRecord
<1>2. worker[w].unit > Units /\ (sending(w) \/ worker[w].pc = "acking")
  BY DEF IInv, LoopLeavesNone, coreReturned, sending
<1>3. ASSUME ~call[e].bestEffort, NEW u \in 1 .. Units
      PROVE  platform[e].copies[u] > 0 \/ u \in platform[e].suppressed
  <2>1. u < worker[w].unit
    BY <1>1, <1>2
  <2> QED BY <2>1, <1>2, <1>3 DEF IInv, LoopLeavesNone
<1> QED BY <1>1, <1>3 DEF Delivered, out

LEMMA SenderHas ==
  ASSUME IInv, NEW e \in Entry, active(e), worker[e].durable
  PROVE  /\ owns(e) /\ e \in Worker /\ worker[e].entry = e /\ row[e].retryCount = 0
         /\ worker[e].pc # "hooks" => row[e].status = "pending"
         /\ worker[e].pc # "enqueued"
<1>1. owns(e) /\ e \in Worker /\ worker[e].pc # "enqueued"
  BY WorkersApart DEF owns, active
<1>2. worker[e].entry = e /\ row[e].retryCount = 0
  BY <1>1, SenderFacts DEF IInv
<1> QED BY <1>1, <1>2 DEF IInv, OwnedRow

LEMMA DirectReturns ==
  ASSUME IInv, NEW e \in Entry, directReturns(e)
  PROVE  TypeOK' /\ Returns(e)
<1>0. TypeOK /\ active(e) /\ e \in Worker /\ ~worker[e].durable
  BY WorkersApart DEF IInv, directReturns, coreReturned, active
<1>1. worker[e].entry = e /\ row[e].status = "none"
  BY <1>0, SenderFacts DEF IInv
<1>2. hooks[e] = 0
  BY <1>0 DEF IInv, HooksStillDue, directReturns, coreReturned
<1>3. hooks' = [hooks EXCEPT ![e] = 1] /\ row' = row
  BY <1>2 DEF directReturns, commitsNow, runHooks
<1>4. worker' \in [Worker -> WorkerRecord] /\ claims' \subseteq Entry /\ Gives(e)
  BY <1>0, <1>3, Finishes, IInvStructure DEF directReturns
<1>5. TypeOK'
  BY <1>0, <1>3, <1>4 DEF directReturns, TypeOK
<1>6. faults <= faults'
  BY <1>0 DEF directReturns, TypeOK
<1> QED BY <1>1, <1>2, <1>3, <1>4, <1>5, <1>6 DEF directReturns, Returns, HooksRun, AckIsEarned

(* A sender that ends with one write to its row.                           *)
LEMMA SenderEnds ==
  ASSUME IInv, NEW e \in Entry, active(e), worker[e].durable, finish(e),
         row' \in [Entry -> RowRecord], RowMoves(e), AckIsEarned(e),
         faults' \in 0 .. MaxFaults, faults <= faults',
         UNCHANGED <<call, platform, hooks, crashes>>
  PROVE  TypeOK' /\ Returns(e)
<1>1. /\ owns(e) /\ e \in Worker /\ worker[e].entry = e /\ row[e].retryCount = 0
      /\ worker[e].pc # "enqueued" /\ TypeOK
  BY SenderHas DEF IInv
<1>2. row'[e].retryCount <= MAX_RETRIES
  BY <1>1 DEF RowMoves
<1>3. worker' \in [Worker -> WorkerRecord] /\ claims' \subseteq Entry /\ Gives(e)
  BY <1>1, <1>2, Finishes, IInvStructure
<1>4. TypeOK'
  BY <1>1, <1>3 DEF TypeOK
<1> QED BY <1>1, <1>3, <1>4 DEF Returns

LEMMA PartialFailure ==
  ASSUME IInv, NEW e \in Entry, NEW ok \in BOOLEAN, partialFailure(e, ok)
  PROVE  TypeOK' /\ Returns(e)
<1>0. TypeOK /\ active(e) /\ worker[e].durable
  BY DEF IInv, partialFailure, coreReturned, active
<1>1. row' \in [Entry -> RowRecord] /\ RowMoves(e) /\ row'[e].status = row[e].status
  BY <1>0, RowFailed DEF partialFailure
<1>2. faults' \in 0 .. MaxFaults /\ faults <= faults'
  BY <1>0, StoredOnce DEF partialFailure
<1> QED BY <1>0, <1>1, <1>2, SenderEnds DEF partialFailure, AckIsEarned

LEMMA LiveAborted ==
  ASSUME IInv, NEW e \in Entry, NEW ok \in BOOLEAN, liveAborted(e, ok)
  PROVE  TypeOK' /\ Returns(e)
<1>0. TypeOK /\ active(e) /\ worker[e].durable /\ call[e].aborted
  BY WorkersApart DEF IInv, liveAborted, active, LoopLeavesNone
<1>1. row' \in [Entry -> RowRecord] /\ RowMoves(e)
  BY <1>0, RowSettled DEF liveAborted
<1>2. faults' \in 0 .. MaxFaults /\ faults <= faults'
  BY <1>0, StoredOnce DEF liveAborted
<1> QED BY <1>0, <1>1, <1>2, SenderEnds DEF liveAborted, AckIsEarned

LEMMA LiveThrew ==
  ASSUME IInv, NEW e \in Entry, NEW ok \in BOOLEAN, NEW ok2 \in BOOLEAN, liveThrew(e, ok, ok2)
  PROVE  TypeOK' /\ Returns(e)
<1>0. TypeOK /\ active(e) /\ worker[e].durable
  BY DEF IInv, liveThrew, active
<1> DEFINE falls == sendEvidence(e) /\ call[e].queuePolicy = "required"
                    /\ ~(ok /\ row[e].status = "pending")
<1>a. storesTwice(ok, ok2)
  BY DEF liveThrew, liveCatches
<1>1. row' \in [Entry -> RowRecord] /\ RowMoves(e) /\ row'[e].status = row[e].status
  <2>1. CASE falls
    <3>1. updates(e, ok2, failDelivery(row[e]))
      BY <2>1 DEF liveThrew, liveCatches
    <3> QED BY <3>1, <1>0, RowFailed
  <2>2. CASE ~falls /\ sendEvidence(e)
    <3>1. updates(e, ok, markDeliveryPlatformOutcomeUnknown(row[e]))
      BY <2>2 DEF liveThrew, liveCatches
    <3> QED BY <3>1, <1>0, RowMarked
  <2>3. CASE ~falls /\ ~sendEvidence(e)
    <3>1. updates(e, ok, failDelivery(row[e]))
      BY <2>3 DEF liveThrew, liveCatches
    <3> QED BY <3>1, <1>0, RowFailed
  <2> QED BY <2>1, <2>2, <2>3
<1>2. faults' \in 0 .. MaxFaults /\ faults <= faults'
  BY <1>0, <1>a, Stored
<1> QED BY <1>0, <1>1, <1>2, SenderEnds DEF liveThrew, AckIsEarned

LEMMA DirectThrew ==
  ASSUME IInv, NEW e \in Entry, directThrew(e)
  PROVE  TypeOK' /\ Returns(e)
<1>0. TypeOK /\ active(e) /\ e \in Worker
  BY WorkersApart DEF IInv, directThrew, active
<1>1. worker' \in [Worker -> WorkerRecord] /\ claims' \subseteq Entry /\ Gives(e)
  BY <1>0, Finishes, IInvStructure DEF directThrew
<1>2. TypeOK'
  BY <1>0, <1>1 DEF directThrew, TypeOK
<1>3. faults <= faults' /\ row' = row
  BY <1>0 DEF directThrew, TypeOK
<1> QED BY <1>1, <1>2, <1>3 DEF directThrew, Returns, AckIsEarned

LEMMA SenderGoesOn ==
  ASSUME IInv, NEW e \in Entry, active(e), worker[e].durable, worker[e].pc # "hooks",
         NEW pc \in {"acking", "hooks"}, goes(e, pc), claims' = claims,
         row' \in [Entry -> RowRecord], RowMoves(e), AckIsEarned(e),
         row'[e].retryCount = row[e].retryCount,
         pc # "hooks" => row'[e].status = row[e].status,
         faults' \in 0 .. MaxFaults, faults <= faults',
         UNCHANGED <<call, platform, hooks, crashes>>
  PROVE  /\ TypeOK' /\ Steady(e) /\ worker'[e].pc = pc /\ worker'[e].unit = worker[e].unit
         /\ worker'[e].started = worker[e].started
<1>1. /\ owns(e) /\ e \in Worker /\ worker[e].entry = e /\ TypeOK /\ e \notin Pass
  BY SenderHas, WorkersApart DEF IInv
<1>2. /\ worker' \in [Worker -> WorkerRecord] /\ Only(e)
      /\ worker'[e].pc = pc /\ worker'[e].entry = worker[e].entry
      /\ worker'[e].durable = worker[e].durable /\ worker'[e].todo = worker[e].todo
      /\ worker'[e].seen = worker[e].seen /\ worker'[e].unit = worker[e].unit
      /\ worker'[e].started = worker[e].started
  BY <1>1, Goes
<1>3. Proceeds(e)
  BY <1>1, <1>2 DEF Proceeds, resting
<1>4. TypeOK'
  BY <1>1, <1>2 DEF TypeOK
<1> QED BY <1>1, <1>2, <1>3, <1>4 DEF Steady

LEMMA MarkOutcomeUnknown ==
  ASSUME IInv, NEW e \in Entry, NEW ok \in BOOLEAN, markOutcomeUnknown(e, ok)
  PROVE  /\ TypeOK'
         /\ \/ Returns(e)
            \/ /\ Steady(e) /\ worker'[e].pc = "acking" /\ worker'[e].unit = worker[e].unit
               /\ worker'[e].started = worker[e].started /\ coreReturned(e)
<1>0. TypeOK /\ active(e) /\ worker[e].durable /\ worker[e].pc # "hooks" /\ coreReturned(e)
  BY DEF IInv, markOutcomeUnknown, coreReturned, active
<1>1. /\ row' \in [Entry -> RowRecord] /\ RowMoves(e) /\ row'[e].status = row[e].status
      /\ row'[e].retryCount = row[e].retryCount
  BY <1>0, RowMarked DEF markOutcomeUnknown
<1>2. faults' \in 0 .. MaxFaults /\ faults <= faults' /\ AckIsEarned(e)
  BY <1>0, <1>1, StoredOnce DEF markOutcomeUnknown, AckIsEarned
<1>3. CASE goes(e, "acking") /\ claims' = claims
  BY <1>0, <1>1, <1>2, <1>3, SenderGoesOn DEF markOutcomeUnknown
<1>4. CASE finish(e)
  BY <1>0, <1>1, <1>2, <1>4, SenderEnds DEF markOutcomeUnknown
<1> QED BY <1>3, <1>4 DEF markOutcomeUnknown

LEMMA LiveAck ==
  ASSUME IInv, NEW e \in Entry, NEW ok \in BOOLEAN, liveAck(e, ok)
  PROVE  /\ TypeOK'
         /\ \/ Returns(e)
            \/ /\ Steady(e) /\ worker'[e].pc = "hooks" /\ row'[e].status = "acked"
               /\ worker'[e].started = worker[e].started
<1>0. TypeOK /\ active(e) /\ worker[e].pc # "hooks" /\ (coreReturned(e) \/ worker[e].pc = "acking")
  BY DEF IInv, liveAck, coreReturned, active
<1>d. worker[e].durable
  BY <1>0, SenderFacts DEF IInv, liveAck
<1>e. worker[e].entry = e /\ row[e].status = "pending" /\ e \in Worker
  BY <1>0, <1>d, SenderHas
<1>1. /\ row' \in [Entry -> RowRecord] /\ RowMoves(e)
      /\ row'[e].retryCount = row[e].retryCount
      /\ ok => row'[e].status = "acked"
  BY <1>0, <1>e, RowSettled DEF liveAck
<1>2. faults' \in 0 .. MaxFaults /\ faults <= faults'
  BY <1>0, StoredOnce DEF liveAck
<1>3. AckIsEarned(e)
  BY <1>0, <1>e, CoreDone DEF AckIsEarned
<1>4. CASE ok
  <2>1. goes(e, "hooks") /\ claims' = claims /\ UNCHANGED <<call, platform, hooks, crashes>>
    BY <1>4 DEF liveAck
  <2> QED BY <1>0, <1>d, <1>1, <1>2, <1>3, <1>4, <2>1, SenderGoesOn
<1>5. CASE ~ok
  <2>1. finish(e) /\ UNCHANGED <<call, platform, hooks, crashes>>
    BY <1>5 DEF liveAck
  <2> QED BY <1>0, <1>d, <1>1, <1>2, <1>3, <2>1, SenderEnds
<1> QED BY <1>4, <1>5

LEMMA CommitHooks ==
  ASSUME IInv, NEW w \in Worker, commitHooks(w)
  PROVE  TypeOK' /\ Returns(w)
<1> DEFINE e == worker[w].entry
<1>0. TypeOK /\ active(w) /\ worker[w].pc = "hooks" /\ e \in Entry
  BY DEF IInv, commitHooks, active, TypeOK, WorkerRecord
<1>2. hooks[e] = 0 /\ row[e].status = "acked"
  BY <1>0 DEF IInv, HooksStillDue
<1>3. hooks' = [hooks EXCEPT ![e] = 1] /\ row' = row
  BY <1>2 DEF commitHooks, runHooks
<1>4. worker' \in [Worker -> WorkerRecord] /\ claims' \subseteq Entry /\ Gives(w)
  BY <1>0, <1>3, Finishes, IInvStructure DEF commitHooks
<1>5. TypeOK'
  BY <1>0, <1>3, <1>4 DEF commitHooks, TypeOK
<1>6. faults <= faults'
  BY <1>0 DEF commitHooks, TypeOK
<1> QED BY <1>0, <1>2, <1>3, <1>4, <1>5, <1>6 DEF commitHooks, Returns, HooksRun, AckIsEarned

LEMMA LiveClaim ==
  ASSUME IInv, NEW e \in Entry, liveClaim(e)
  PROVE  /\ TypeOK'
         /\ UNCHANGED <<row, call, platform, hooks, faults>>
         /\ \/ Leaves(e)
            \/ /\ Takes(e, e) /\ worker'[e].unit = worker[e].unit
               /\ worker'[e].started = worker[e].started
<1>0. /\ TypeOK /\ e \in Worker /\ e \notin Pass /\ worker[e].pc = "enqueued" /\ worker[e].entry = e
      /\ worker[e].durable
  BY WorkersApart, SenderFacts DEF IInv, liveClaim
<1>t. worker \in [Worker -> WorkerRecord]
  BY <1>0 DEF TypeOK
<1>1. CASE claimable(e)
  <2>1. goes(e, "unit") /\ claims' = claims \cup {e} /\ UNCHANGED <<row, call, platform, hooks, crashes, faults>>
    BY <1>1 DEF liveClaim
  <2>2. /\ worker' \in [Worker -> WorkerRecord] /\ Only(e)
        /\ worker'[e].pc = "unit" /\ worker'[e].entry = worker[e].entry
        /\ worker'[e].durable = worker[e].durable /\ worker'[e].todo = worker[e].todo
        /\ worker'[e].unit = worker[e].unit
        /\ worker'[e].started = worker[e].started
    BY <1>0, <2>1, Goes
  <2>3. Takes(e, e)
    BY <1>0, <1>1, <2>1, <2>2 DEF Takes, claimable
  <2> QED BY <1>0, <2>1, <2>2, <2>3 DEF TypeOK
<1>2. CASE ~claimable(e)
  <2>1. /\ worker' = [worker EXCEPT ![e] = atRest(e, "done")] /\ claims' = claims
        /\ UNCHANGED <<row, call, platform, hooks, crashes, faults>>
    BY <1>2 DEF liveClaim
  <2>2. /\ atRest(e, "done") \in WorkerRecord /\ atRest(e, "done").pc = "done"
        /\ atRest(e, "done").entry = e
    BY AtRest DEF atRest
  <2>3. worker' \in [Worker -> WorkerRecord] /\ Leaves(e)
    BY <1>0, <1>t, <2>1, <2>2 DEF Leaves, Only
  <2> QED BY <1>0, <2>1, <2>3 DEF TypeOK
<1> QED BY <1>1, <1>2

LEMMA Enqueue ==
  ASSUME IInv, NEW e \in Entry, NEW ok \in BOOLEAN, enqueue(e, ok)
  PROVE  /\ TypeOK' /\ Only(e) /\ worker[e].pc = "idle"
         /\ claims' = claims /\ platform' = platform /\ hooks' = hooks /\ call' = call /\ faults <= faults'
         /\ \A f \in Entry : f # e => row'[f] = row[f]
         /\ row[e].status = "none" /\ row'[e].status \in {"none", "pending"}
         /\ row'[e].recoveryState = row[e].recoveryState
         /\ worker'[e].pc \in {"enqueued", "unit", "done"} /\ worker'[e].entry = e
         /\ worker'[e].unit = 1 /\ ~worker'[e].started
         /\ worker'[e].pc = "done" => row'[e].status = "none"
<1>0. /\ TypeOK /\ worker[e].pc = "idle" /\ worker[e].entry = e /\ e \in Worker
      /\ worker[e].unit = 1 /\ ~worker[e].started
      /\ row[e] = NoRow /\ row[e].status = "none"
  BY WorkersApart, SenderFacts DEF IInv, enqueue
<1>t. worker \in [Worker -> WorkerRecord] /\ worker[e] \in WorkerRecord /\ row \in [Entry -> RowRecord]
  BY <1>0 DEF TypeOK
<1>f. faults' \in 0 .. MaxFaults /\ faults <= faults'
  BY <1>0, StoredOnce DEF enqueue
<1> DEFINE n == Cardinality({f \in Entry : row[f].status # "none"})
           r == [NoRow EXCEPT !.status = "pending", !.enqueuedAt = n]
           y == [worker[e] EXCEPT !.pc = "enqueued", !.durable = TRUE]
           z == [worker[e] EXCEPT !.pc = "unit"]
<1>n. n \in Nat
  <2>1. IsFiniteSet({f \in Entry : row[f].status # "none"})
    BY FS_Subset
  <2> QED BY <2>1, FS_CardinalityType
<1>1. row' = row \/ row' = [row EXCEPT ![e] = r]
  BY DEF enqueue
<1>2. \/ worker' = [worker EXCEPT ![e] = y]
      \/ worker' = [worker EXCEPT ![e] = atRest(e, "done")]
      \/ worker' = [worker EXCEPT ![e] = z]
  BY DEF enqueue
<1>o. (~ok => row' = row) /\ (ok => worker' = [worker EXCEPT ![e] = y])
  BY DEF enqueue
<1> HIDE DEF n
<1>r. r \in RowRecord /\ r.status = "pending" /\ r.recoveryState = "none"
  BY <1>n DEF RowRecord, NoRow
<1>s. NoRow.recoveryState = "none"
  BY DEF NoRow
<1> HIDE DEF r
<1>3. /\ row' \in [Entry -> RowRecord] /\ \A f \in Entry : f # e => row'[f] = row[f]
      /\ row'[e].status \in {"none", "pending"} /\ row'[e].recoveryState = row[e].recoveryState
  BY <1>1, <1>r, <1>s, <1>t, <1>0
<1>y. y \in WorkerRecord /\ y.pc = "enqueued" /\ y.entry = e /\ y.unit = 1 /\ y.started = worker[e].started
  BY <1>0, <1>t DEF WorkerRecord
<1>z. z \in WorkerRecord /\ z.pc = "unit" /\ z.entry = e /\ z.unit = 1 /\ z.started = worker[e].started
  BY <1>0, <1>t DEF WorkerRecord
<1>d. LET d == atRest(e, "done")
      IN  d \in WorkerRecord /\ d.pc = "done" /\ d.entry = e /\ d.unit = 1 /\ ~d.started
  BY AtRest DEF atRest
<1> HIDE DEF y, z
<1>4. /\ worker' \in [Worker -> WorkerRecord] /\ Only(e)
      /\ worker'[e].pc \in {"enqueued", "unit", "done"} /\ worker'[e].entry = e
      /\ worker'[e].unit = 1 /\ ~worker'[e].started
  <2>1. CASE worker' = [worker EXCEPT ![e] = y]
    BY <2>1, <1>y, <1>0, <1>t DEF Only
  <2>2. CASE worker' = [worker EXCEPT ![e] = z]
    BY <2>2, <1>z, <1>0, <1>t DEF Only
  <2>3. CASE worker' = [worker EXCEPT ![e] = atRest(e, "done")]
    <3> DEFINE d == atRest(e, "done")
    <3>1. d \in WorkerRecord /\ d.pc = "done" /\ d.entry = e /\ d.unit = 1 /\ ~d.started
      BY <1>d
    <3>2. worker' = [worker EXCEPT ![e] = d]
      BY <2>3
    <3> HIDE DEF d
    <3> QED BY <3>1, <3>2, <1>0, <1>t DEF Only
  <2> QED BY <1>2, <2>1, <2>2, <2>3
<1>5. TypeOK'
  BY <1>0, <1>3, <1>4, <1>f DEF enqueue, TypeOK
<1>6. worker'[e].pc = "done" => row'[e].status = "none"
  BY <1>0, <1>o, <1>t, <1>y
<1> QED BY <1>0, <1>3, <1>4, <1>5, <1>6, <1>f DEF enqueue

LEMMA Abort ==
  ASSUME IInv, NEW e \in Entry, abort(e)
  PROVE  /\ TypeOK' /\ Waits /\ UNCHANGED <<row, platform, hooks, faults>>
         /\ \A f \in Entry : /\ call'[f].bestEffort = call[f].bestEffort
                             /\ call'[f].queuePolicy = call[f].queuePolicy
                             /\ call'[f].lagging = call[f].lagging
                             /\ call[f].aborted => call'[f].aborted
<1> DEFINE x == [call[e] EXCEPT !.aborted = TRUE]
<1>0. TypeOK /\ call \in [Entry -> CallRecord] /\ call' = [call EXCEPT ![e] = x]
  BY DEF IInv, abort, TypeOK
<1>1. /\ x \in CallRecord /\ x.bestEffort = call[e].bestEffort /\ x.queuePolicy = call[e].queuePolicy
      /\ x.lagging = call[e].lagging /\ x.aborted
  BY <1>0 DEF CallRecord
<1> HIDE DEF x
<1>2. /\ call' \in [Entry -> CallRecord]
      /\ \A f \in Entry : /\ call'[f].bestEffort = call[f].bestEffort
                          /\ call'[f].queuePolicy = call[f].queuePolicy
                          /\ call'[f].lagging = call[f].lagging
                          /\ call[f].aborted => call'[f].aborted
  BY <1>0, <1>1
<1> QED BY <1>0, <1>2 DEF abort, TypeOK, Waits

LEMMA BackoffElapses ==
  ASSUME IInv, NEW e \in Entry, backoffElapses(e)
  PROVE  /\ TypeOK' /\ Waits /\ UNCHANGED <<call, platform, hooks, faults>>
<1> DEFINE x == [row[e] EXCEPT !.elapsed = TRUE]
<1>0. /\ TypeOK /\ row \in [Entry -> RowRecord] /\ row' = [row EXCEPT ![e] = x]
      /\ row[e].status = "pending"
  BY DEF IInv, backoffElapses, TypeOK
<1>1. /\ x \in RowRecord /\ x.status = row[e].status /\ x.retryCount = row[e].retryCount
      /\ x.recoveryState = row[e].recoveryState
  BY <1>0 DEF RowRecord
<1>2. NoRow.status = "none"
  BY DEF NoRow
<1> HIDE DEF x
<1>3. row' \in [Entry -> RowRecord] /\ \A f \in Entry : f # e => row'[f] = row[f]
  BY <1>0, <1>1
<1>4. row'[e] = x
  BY <1>0
<1>5. Waits
  BY <1>0, <1>1, <1>2, <1>3, <1>4 DEF backoffElapses, Waits
<1> QED BY <1>0, <1>3, <1>5 DEF backoffElapses, TypeOK

LEMMA Crash ==
  ASSUME IInv, crash
  PROVE  TypeOK' /\ UNCHANGED <<row, call, platform, hooks, faults>>
<1>1. worker' \in [Worker -> WorkerRecord]
  BY CrashRests, IInvStructure
<1> QED BY <1>1 DEF IInv, TypeOK, crash

-----------------------------------------------------------------------------
(* The passes.                                                             *)
LEMMA PassHas ==
  ASSUME IInv, NEW p \in Pass, active(p)
  PROVE  LET e == worker[p].entry
             s == worker[p].seen
         IN  /\ owns(p) /\ p \in Worker /\ p \notin Entry /\ e \in Entry
             /\ worker[e].pc \in {"done", "enqueued"}
             /\ worker[p].pc # "hooks" =>
                  /\ s.status = row[e].status /\ s.retryCount = row[e].retryCount
                  /\ s.recoveryState = row[e].recoveryState
             /\ worker[p].pc \notin {"hooks", "claimed"} =>
                  row[e].status = "pending" /\ row[e].retryCount < MAX_RETRIES
             /\ worker[p].pc # "claimed" => worker[e].pc = "done"
             /\ worker[e].pc = "enqueued" => row[e].status = "pending" /\ row[e].retryCount = 0
             /\ row[e].retryCount \in Nat /\ row[e].retryCount <= MAX_RETRIES
<1>1. owns(p) /\ p \in Worker /\ p \notin Entry
  BY WorkersApart DEF owns
<1>2. worker[p].entry \in Entry /\ row[worker[p].entry].retryCount \in Nat
  BY <1>1 DEF IInv, TypeOK, WorkerRecord, RowRecord
<1>3. worker[worker[p].entry].pc = "done"
      \/ (worker[worker[p].entry].pc = "enqueued" /\ worker[p].pc = "claimed")
  BY DEF IInv, PassesFollow
<1>4. worker[worker[p].entry].pc = "enqueued" =>
        row[worker[p].entry].status = "pending" /\ row[worker[p].entry].retryCount = 0
  BY <1>2, SenderFacts DEF IInv
<1> QED BY <1>1, <1>2, <1>3, <1>4 DEF IInv, OwnedRow, RetriesBounded

LEMMA EndPass ==
  ASSUME TypeOK, NEW p \in Pass, endPass(p)
  PROVE  /\ worker' \in [Worker -> WorkerRecord] /\ Only(p)
         /\ worker'[p].pc \in {"idle", "done"} /\ ~worker'[p].durable /\ worker'[p].todo = {}
<1> DEFINE x == atRest(AnyEntry, passOver(p))
<1>1. passOver(p) \in {"idle", "done"}
  BY DEF passOver
<1>2. x \in WorkerRecord /\ x.pc \in {"idle", "done"} /\ ~x.durable /\ x.todo = {}
  <2>1. x \in WorkerRecord
    BY <1>1, AnyEntryIsEntry, AtRest
  <2> QED BY <2>1, <1>1 DEF atRest
<1>3. worker \in [Worker -> WorkerRecord] /\ p \in Worker /\ worker' = [worker EXCEPT ![p] = x]
  BY WorkersApart DEF TypeOK, endPass
<1> HIDE DEF x
<1> QED BY <1>2, <1>3 DEF Only

LEMMA PassReturns ==
  ASSUME IInv, NEW p \in Pass, active(p),
         \/ finish(p)
         \/ endPass(p) /\ claims' = released(p),
         row' \in [Entry -> RowRecord],
         \/ row' = row
         \/ /\ RowMoves(worker[p].entry) /\ worker[worker[p].entry].pc # "enqueued"
            /\ row'[worker[p].entry].retryCount <= MAX_RETRIES,
         AckIsEarned(worker[p].entry), faults' \in 0 .. MaxFaults, faults <= faults',
         UNCHANGED <<call, platform, hooks, crashes>>
  PROVE  TypeOK' /\ Returns(p)
<1>1. owns(p) /\ p \in Worker /\ p \notin Entry /\ TypeOK /\ Structure
  BY PassHas, IInvStructure
<1>2. worker' \in [Worker -> WorkerRecord] /\ claims' \subseteq Entry /\ Gives(p)
  <2>1. CASE finish(p)
    BY <1>1, <2>1, Finishes
  <2>2. CASE endPass(p) /\ claims' = released(p)
    <3>1. claims \subseteq Entry /\ claims' = claims \ {worker[p].entry}
      BY <1>1, <2>2 DEF released, TypeOK
    <3>2. /\ worker' \in [Worker -> WorkerRecord] /\ Only(p)
          /\ worker'[p].pc \in {"idle", "done"} /\ ~worker'[p].durable /\ worker'[p].todo = {}
      BY <1>1, <2>2, EndPass
    <3> QED BY <1>1, <3>1, <3>2 DEF Gives
  <2> QED BY <2>1, <2>2
<1>3. TypeOK'
  BY <1>1, <1>2 DEF TypeOK
<1> QED BY <1>2, <1>3 DEF Returns

LEMMA AlreadyGone ==
  ASSUME IInv, NEW p \in Pass, alreadyGone(p) \/ notReady(p)
  PROVE  TypeOK' /\ Returns(p)
<1>0. TypeOK /\ active(p) /\ finish(p) /\ UNCHANGED <<row, call, platform, hooks, crashes, faults>>
  BY DEF IInv, alreadyGone, notReady, active
<1>1. row' \in [Entry -> RowRecord] /\ faults' \in 0 .. MaxFaults /\ faults <= faults'
      /\ AckIsEarned(worker[p].entry)
  BY <1>0 DEF TypeOK, AckIsEarned
<1> QED BY <1>0, <1>1, PassReturns

LEMMA ExceededRetries ==
  ASSUME IInv, NEW p \in Pass, NEW ok \in BOOLEAN, exceededRetries(p, ok)
  PROVE  TypeOK' /\ Returns(p)
<1> DEFINE e == worker[p].entry
<1>0. TypeOK /\ active(p) /\ worker[p].pc = "claimed" /\ worker[p].seen.status = "pending"
      /\ worker[p].seen.retryCount >= MAX_RETRIES
  BY DEF IInv, exceededRetries, active, exhausted
<1>1. e \in Entry /\ row[e].status = "pending" /\ row[e].retryCount \in Nat
      /\ row[e].retryCount >= MAX_RETRIES /\ row[e].retryCount <= MAX_RETRIES
      /\ (worker[e].pc = "enqueued" => row[e].retryCount = 0)
  BY <1>0, PassHas
<1>2. worker[e].pc # "enqueued"
  BY <1>1
<1>3. /\ row' \in [Entry -> RowRecord] /\ RowMoves(e) /\ row'[e].retryCount = row[e].retryCount
      /\ row'[e].status # "acked"
  BY <1>0, <1>1, RowSettled DEF exceededRetries
<1>4. faults' \in 0 .. MaxFaults /\ faults <= faults' /\ AckIsEarned(e)
  BY <1>0, <1>3, StoredOnce DEF exceededRetries, AckIsEarned
<1>5. finish(p) \/ (endPass(p) /\ claims' = released(p))
  BY DEF exceededRetries
<1>6. row'[e].retryCount <= MAX_RETRIES
  BY <1>1, <1>3
<1>7. UNCHANGED <<call, platform, hooks, crashes>>
  BY DEF exceededRetries
<1> QED BY <1>0, <1>2, <1>3, <1>4, <1>5, <1>6, <1>7, PassReturns

(* Ends that charge or fail an entry past the claim.                       *)
LEMMA PassSettles ==
  ASSUME IInv, NEW p \in Pass, worker[p].pc \in {"reconcile", "threw"}, finish(p),
         NEW ok \in BOOLEAN,
         \/ updates(worker[p].entry, ok, failDelivery(row[worker[p].entry]))
         \/ updates(worker[p].entry, ok, moveToFailed(row[worker[p].entry])),
         faults' \in 0 .. MaxFaults, faults <= faults', UNCHANGED <<call, platform, hooks, crashes>>
  PROVE  TypeOK' /\ Returns(p)
<1> DEFINE e == worker[p].entry
<1>0. TypeOK /\ active(p)
  BY DEF IInv, active
<1>1. e \in Entry /\ row[e].status = "pending" /\ row[e].retryCount \in Nat
      /\ row[e].retryCount < MAX_RETRIES /\ worker[e].pc # "enqueued"
  BY <1>0, PassHas
<1>2. row' \in [Entry -> RowRecord] /\ RowMoves(e) /\ row'[e].status # "acked"
  <2>1. CASE updates(e, ok, failDelivery(row[e]))
    BY <1>0, <1>1, <2>1, RowFailed
  <2>2. CASE updates(e, ok, moveToFailed(row[e]))
    BY <1>0, <1>1, <2>2, RowSettled
  <2> QED BY <2>1, <2>2
<1>3. row'[e].retryCount <= MAX_RETRIES /\ AckIsEarned(e)
  BY <1>1, <1>2 DEF RowMoves, AckIsEarned
<1> QED BY <1>0, <1>1, <1>2, <1>3, PassReturns

LEMMA RefuseReplay ==
  ASSUME IInv, NEW p \in Pass, NEW ok \in BOOLEAN, refuseReplay(p, ok)
  PROVE  TypeOK' /\ Returns(p)
<1>0. /\ TypeOK /\ worker[p].pc = "reconcile" /\ finish(p) /\ stores(ok)
      /\ UNCHANGED <<call, platform, hooks, crashes>>
  BY DEF IInv, refuseReplay
<1>1. \/ updates(worker[p].entry, ok, failDelivery(row[worker[p].entry]))
      \/ updates(worker[p].entry, ok, moveToFailed(row[worker[p].entry]))
  BY DEF refuseReplay
<1>2. faults' \in 0 .. MaxFaults /\ faults <= faults'
  BY <1>0, StoredOnce
<1> QED BY <1>0, <1>1, <1>2, PassSettles

LEMMA ReplayFailed ==
  ASSUME IInv, NEW p \in Pass, NEW permanent \in BOOLEAN, NEW ok \in BOOLEAN,
         replayFailed(p, permanent, ok)
  PROVE  TypeOK' /\ Returns(p)
<1>0. /\ TypeOK /\ worker[p].pc = "threw" /\ finish(p) /\ stores(ok)
      /\ UNCHANGED <<call, platform, hooks, crashes>>
  BY DEF IInv, replayFailed
<1>1. \/ updates(worker[p].entry, ok, failDelivery(row[worker[p].entry]))
      \/ updates(worker[p].entry, ok, moveToFailed(row[worker[p].entry]))
  BY DEF replayFailed
<1>2. faults' \in 0 .. MaxFaults /\ faults <= faults'
  BY <1>0, StoredOnce
<1> QED BY <1>0, <1>1, <1>2, PassSettles

LEMMA PassGoesOn ==
  ASSUME IInv, NEW p \in Pass, active(p), worker[p].pc # "hooks",
         worker[worker[p].entry].pc = "done",
         NEW pc \in {"unit", "reconcile", "hooks", "threw"}, goes(p, pc), claims' = claims,
         row[worker[p].entry].status = "pending", row[worker[p].entry].retryCount < MAX_RETRIES,
         row' \in [Entry -> RowRecord],
         \/ row' = row /\ pc # "hooks"
         \/ /\ pc = "hooks" /\ RowMoves(worker[p].entry)
            /\ row'[worker[p].entry].retryCount = row[worker[p].entry].retryCount,
         AckIsEarned(worker[p].entry), faults' \in 0 .. MaxFaults, faults <= faults',
         UNCHANGED <<call, platform, hooks, crashes>>
  PROVE  /\ TypeOK' /\ Steady(p) /\ worker'[p].pc = pc /\ worker'[p].unit = worker[p].unit
<1>1. owns(p) /\ p \in Worker /\ p \notin Entry /\ TypeOK
  BY PassHas, IInvStructure
<1>2. /\ worker' \in [Worker -> WorkerRecord] /\ Only(p)
      /\ worker'[p].pc = pc /\ worker'[p].entry = worker[p].entry
      /\ worker'[p].durable = worker[p].durable /\ worker'[p].todo = worker[p].todo
      /\ worker'[p].seen = worker[p].seen /\ worker'[p].unit = worker[p].unit
  BY <1>1, Goes
<1>3. Proceeds(p)
  BY <1>1, <1>2 DEF Proceeds, resting
<1>4. TypeOK'
  BY <1>1, <1>2 DEF TypeOK
<1> QED BY <1>1, <1>2, <1>3, <1>4 DEF Steady

LEMMA DrainQueuedEntry ==
  ASSUME IInv, NEW p \in Pass, drainQueuedEntry(p)
  PROVE  /\ TypeOK' /\ Steady(p) /\ row' = row
         /\ worker[p].pc = "claimed" /\ worker'[p].unit = worker[p].unit
         /\ \/ worker'[p].pc = "unit" /\ row[worker[p].entry].recoveryState = "none"
            \/ worker'[p].pc = "reconcile"
<1> DEFINE e == worker[p].entry
           pc == IF worker[p].seen.recoveryState = "none" THEN "unit" ELSE "reconcile"
<1>0. /\ TypeOK /\ active(p) /\ worker[p].pc = "claimed" /\ worker[p].seen.status = "pending"
      /\ ~(worker[p].seen.retryCount >= MAX_RETRIES) /\ worker[e].pc # "enqueued"
      /\ goes(p, pc) /\ UNCHANGED <<row, claims, call, platform, hooks, crashes, faults>>
  BY DEF IInv, drainQueuedEntry, active, exhausted
<1>1. /\ e \in Entry /\ row[e].status = "pending" /\ row[e].retryCount \in Nat
      /\ worker[p].seen.retryCount = row[e].retryCount /\ worker[e].pc = "done"
      /\ worker[p].seen.recoveryState = row[e].recoveryState
  BY <1>0, PassHas
<1>2. row[e].retryCount < MAX_RETRIES
  BY <1>0, <1>1
<1>3. row' \in [Entry -> RowRecord] /\ faults' \in 0 .. MaxFaults /\ faults <= faults'
      /\ AckIsEarned(e)
  BY <1>0 DEF TypeOK, AckIsEarned
<1>4. pc \in {"unit", "reconcile"} /\ (pc = "unit" => row[e].recoveryState = "none")
  BY <1>1
<1> HIDE DEF pc
<1>5. TypeOK' /\ Steady(p) /\ worker'[p].pc = pc /\ worker'[p].unit = worker[p].unit
  BY <1>0, <1>1, <1>2, <1>3, <1>4, PassGoesOn
<1> QED BY <1>0, <1>4, <1>5

LEMMA ReconciledSent ==
  ASSUME IInv, NEW p \in Pass, NEW ok \in BOOLEAN, NEW ok2 \in BOOLEAN, reconciledSent(p, ok, ok2)
  PROVE  /\ TypeOK'
         /\ \/ Returns(p)
            \/ Steady(p) /\ worker'[p].pc = "hooks" /\ row'[worker[p].entry].status = "acked"
<1> DEFINE e == worker[p].entry
<1>0. /\ TypeOK /\ active(p) /\ worker[p].pc = "reconcile" /\ "sent" \in Answers(e)
      /\ storesTwice(ok, ok2) /\ UNCHANGED <<call, platform, hooks, crashes>>
  BY DEF IInv, reconciledSent, active
<1>1. /\ e \in Entry /\ row[e].status = "pending" /\ row[e].retryCount < MAX_RETRIES
      /\ worker[e].pc = "done"
  BY <1>0, PassHas
<1>2. faults' \in 0 .. MaxFaults /\ faults <= faults'
  BY <1>0, Stored
<1>3. Delivered(e)
  BY <1>0 DEF Answers, Delivered
<1>4. CASE ok
  <2>1. updates(e, TRUE, ackDelivery(row[e])) /\ goes(p, "hooks") /\ claims' = claims
    BY <1>4 DEF reconciledSent
  <2>2. /\ row' \in [Entry -> RowRecord] /\ RowMoves(e) /\ row'[e].retryCount = row[e].retryCount
        /\ row'[e].status = "acked"
    BY <1>0, <1>1, <2>1, RowSettled
  <2>3. AckIsEarned(e)
    BY <1>3 DEF AckIsEarned
  <2> QED BY <1>0, <1>1, <1>2, <2>1, <2>2, <2>3, PassGoesOn
<1>5. CASE ~ok
  <2>1. updates(e, ok2, failDelivery(row[e])) /\ finish(p)
    BY <1>5 DEF reconciledSent
  <2> QED BY <1>0, <1>2, <2>1, PassSettles
<1> QED BY <1>4, <1>5

LEMMA ReconciledNotSent ==
  ASSUME IInv, NEW p \in Pass, reconciledNotSent(p)
  PROVE  /\ TypeOK' /\ Steady(p) /\ row' = row
         /\ worker[p].pc = "reconcile" /\ worker'[p].pc = "unit" /\ worker'[p].unit = worker[p].unit
         /\ row[worker[p].entry].recoveryState = "send_attempt_started"
         /\ out(worker[p].entry) = {} \/ call[worker[p].entry].lagging
<1> DEFINE e == worker[p].entry
<1>0. /\ TypeOK /\ active(p) /\ worker[p].pc = "reconcile" /\ "not_sent" \in Answers(e)
      /\ worker[p].seen.recoveryState = "send_attempt_started"
      /\ goes(p, "unit") /\ UNCHANGED <<row, claims, call, platform, hooks, crashes, faults>>
  BY DEF IInv, reconciledNotSent, active, provedPreSendFailure
<1>1. /\ e \in Entry /\ row[e].status = "pending" /\ row[e].retryCount < MAX_RETRIES
      /\ worker[e].pc = "done" /\ row[e].recoveryState = "send_attempt_started"
  BY <1>0, PassHas
<1>2. out(e) = {} \/ call[e].lagging
  BY <1>0 DEF Answers
<1>3. row' \in [Entry -> RowRecord] /\ faults' \in 0 .. MaxFaults /\ faults <= faults'
      /\ AckIsEarned(e)
  BY <1>0 DEF TypeOK, AckIsEarned
<1>4. TypeOK' /\ Steady(p) /\ worker'[p].pc = "unit" /\ worker'[p].unit = worker[p].unit
  BY <1>0, <1>1, <1>3, PassGoesOn
<1> QED BY <1>0, <1>1, <1>2, <1>4

LEMMA RecoveredAck ==
  ASSUME IInv, NEW p \in Pass, NEW ok \in BOOLEAN, recoveredAck(p, ok)
  PROVE  /\ TypeOK' /\ Steady(p)
         /\ \/ worker'[p].pc = "hooks" /\ row'[worker[p].entry].status = "acked"
            \/ worker'[p].pc = "threw"
<1> DEFINE e == worker[p].entry
<1>0. /\ TypeOK /\ active(p) /\ worker[p].pc = "unit" /\ coreReturned(p) /\ p \in Worker /\ p \notin Entry
      /\ stores(ok) /\ UNCHANGED <<claims, call, platform, crashes>>
  BY WorkersApart DEF IInv, recoveredAck, coreReturned, active
<1>h. hooks' = hooks
  BY <1>0 DEF recoveredAck, commitsNow
<1>1. /\ e \in Entry /\ row[e].status = "pending" /\ row[e].retryCount < MAX_RETRIES
      /\ worker[e].pc = "done"
  BY <1>0, PassHas
<1>2. faults' \in 0 .. MaxFaults /\ faults <= faults'
  BY <1>0, StoredOnce
<1>3. call[e].bestEffort \/ Delivered(e)
  BY <1>0, CoreDone
<1>4. /\ row' \in [Entry -> RowRecord] /\ RowMoves(e) /\ row'[e].retryCount = row[e].retryCount
      /\ ok => row'[e].status = "acked"
      /\ ~ok => row' = row
  BY <1>0, <1>1, RowSettled DEF recoveredAck
<1>5. AckIsEarned(e)
  BY <1>3 DEF AckIsEarned
<1>6. CASE ok
  <2>1. goes(p, "hooks")
    BY <1>6 DEF recoveredAck
  <2> QED BY <1>0, <1>h, <1>1, <1>2, <1>4, <1>5, <1>6, <2>1, PassGoesOn
<1>7. CASE ~ok
  <2>1. goes(p, "threw")
    BY <1>7 DEF recoveredAck
  <2> QED BY <1>0, <1>h, <1>1, <1>2, <1>4, <1>5, <1>7, <2>1, PassGoesOn
<1> QED BY <1>6, <1>7

(* A pass that neither had nor has an entry in hand.                       *)
Idles(p) == Rests(p) /\ UNCHANGED <<row, call, platform, hooks>> /\ faults <= faults'

LEMMA BeginPass ==
  ASSUME IInv, NEW p \in Pass, beginPass(p)
  PROVE  TypeOK' /\ Idles(p)
<1> DEFINE x == [atRest(AnyEntry, "scan") EXCEPT !.todo = pending]
<1>0. TypeOK /\ p \in Worker /\ worker \in [Worker -> WorkerRecord]
  BY WorkersApart DEF IInv, TypeOK
<1>1. pending \in SUBSET Entry
  BY DEF pending
<1>2. x \in WorkerRecord /\ x.todo = pending
  <2>1. atRest(AnyEntry, "scan") \in WorkerRecord
    BY AnyEntryIsEntry, AtRest
  <2> QED BY <1>1, <2>1 DEF WorkerRecord
<1>3. x.pc = "scan" /\ ~x.durable
  BY DEF atRest
<1>4. worker' = [worker EXCEPT ![p] = x]
  BY DEF beginPass
<1> HIDE DEF x
<1>5. worker' \in [Worker -> WorkerRecord] /\ worker'[p] = x /\ Only(p)
  BY <1>0, <1>2, <1>4 DEF Only
<1>6. TypeOK'
  BY <1>0, <1>5 DEF beginPass, TypeOK
<1>7. faults <= faults'
  BY <1>0 DEF beginPass, TypeOK
<1> QED BY <1>2, <1>3, <1>5, <1>6, <1>7 DEF beginPass, Idles, Rests

LEMMA PassEnds ==
  ASSUME IInv, NEW p \in Pass, passEnds(p) \/ rereadFails(p)
  PROVE  TypeOK' /\ Idles(p)
<1>0. /\ TypeOK /\ worker[p].pc = "scan" /\ endPass(p)
      /\ UNCHANGED <<row, claims, call, platform, hooks, crashes>>
  BY DEF IInv, passEnds, rereadFails
<1>1. faults' \in 0 .. MaxFaults /\ faults <= faults'
  <2>1. CASE passEnds(p)
    BY <2>1, <1>0 DEF passEnds, TypeOK
  <2>2. CASE rereadFails(p)
    BY <2>2, <1>0, StoredOnce DEF rereadFails
  <2> QED BY <2>1, <2>2
<1>2. /\ worker' \in [Worker -> WorkerRecord] /\ Only(p)
      /\ worker'[p].pc \in {"idle", "done"} /\ ~worker'[p].durable /\ worker'[p].todo = {}
  BY <1>0, EndPass
<1>3. TypeOK'
  BY <1>0, <1>1, <1>2 DEF TypeOK
<1> QED BY <1>0, <1>1, <1>2, <1>3 DEF Idles, Rests

LEMMA PassClaims ==
  ASSUME IInv, NEW p \in Pass, NEW e \in Entry, passClaims(p, e)
  PROVE  /\ TypeOK'
         /\ \/ Idles(p)
            \/ /\ Takes(p, e) /\ worker'[p].unit = 1
               /\ UNCHANGED <<row, call, platform, hooks, faults>>
<1>0. /\ TypeOK /\ p \in Worker /\ p \notin Entry /\ worker \in [Worker -> WorkerRecord]
      /\ worker[p].pc = "scan" /\ e \in worker[p].todo
      /\ UNCHANGED <<row, call, platform, hooks, crashes, faults>>
  BY WorkersApart DEF IInv, TypeOK, passClaims, oldest
<1>t. worker[p] \in WorkerRecord /\ worker[p].todo \in SUBSET Entry /\ row[e] \in RowRecord /\ claims \subseteq Entry
  BY <1>0 DEF TypeOK, WorkerRecord
<1>d. ~worker[p].durable
  BY DEF IInv, PassesFollow
<1>1. CASE claimable(e)
  <2> DEFINE t == worker[p].todo \ {e}
             x == [atRest(e, "claimed") EXCEPT !.todo = t, !.seen = row[e]]
  <2>1. claims' = claims \cup {e} /\ worker' = [worker EXCEPT ![p] = x]
    BY <1>1 DEF passClaims, reread
  <2>2. t \in SUBSET Entry /\ t \subseteq worker[p].todo
    BY <1>t
  <2> HIDE DEF t
  <2>3. x \in WorkerRecord /\ x.todo = t /\ x.seen = row[e]
    <3>1. atRest(e, "claimed") \in WorkerRecord
      BY AtRest
    <3> QED BY <3>1, <2>2, <1>t DEF WorkerRecord
  <2>4. x.pc = "claimed" /\ ~x.durable /\ x.entry = e /\ x.unit = 1
    BY DEF atRest
  <2> HIDE DEF x
  <2>5. worker' \in [Worker -> WorkerRecord] /\ Only(p) /\ worker'[p] = x
    BY <2>1, <2>3, <1>0 DEF Only
  <2>6. Takes(p, e)
    BY <1>0, <1>1, <2>1, <2>2, <2>3, <2>4, <2>5 DEF Takes, claimable
  <2> QED BY <1>0, <1>t, <2>1, <2>4, <2>5, <2>6 DEF TypeOK
<1>2. CASE ~claimable(e)
  <2> DEFINE t == worker[p].todo \ {e}
             x == [worker[p] EXCEPT !.todo = t]
  <2>1. claims' = claims /\ worker' = [worker EXCEPT ![p] = x]
    BY <1>2 DEF passClaims
  <2>2. t \in SUBSET Entry /\ t \subseteq worker[p].todo
    BY <1>t
  <2> HIDE DEF t
  <2>3. x \in WorkerRecord /\ x.todo = t /\ x.pc = "scan" /\ x.durable = worker[p].durable
    BY <2>2, <1>t, <1>0 DEF WorkerRecord
  <2> HIDE DEF x
  <2>5. worker' \in [Worker -> WorkerRecord] /\ Only(p) /\ worker'[p] = x
    BY <2>1, <2>3, <1>0 DEF Only
  <2>6. faults <= faults'
    BY <1>0 DEF TypeOK
  <2> QED BY <1>0, <1>d, <2>1, <2>2, <2>3, <2>5, <2>6 DEF TypeOK, Idles, Rests
<1> QED BY <1>1, <1>2

-----------------------------------------------------------------------------
(* One step of the loop over the payloads, and what it does to the         *)
(* platform.                                                               *)
LoopMove(w) ==
  LET e == worker[w].entry
      u == worker[w].unit
  IN  /\ Proceeds(w) /\ sending(w) /\ hooks' = hooks /\ call' = call /\ faults <= faults'
      /\ RowMoves(e) /\ (w \in Pass => row' = row)
      /\ \A f \in Entry : row'[f].status = row[f].status
      /\ worker[w].started => worker'[w].started
      /\ worker'[w].started => worker[w].started \/ (row'[w].recoveryState # "none" /\ worker[w].durable)
      /\ \/ /\ call[e].bestEffort /\ u <= Units /\ platform' = platform             \* skips
            /\ worker'[w].pc = "unit" /\ worker'[w].unit = u + 1
         \/ /\ worker'[w].pc \in {"threw", "aborted"} /\ worker'[w].unit = u        \* stops
            /\ worker'[w].pc = "aborted" => call[w].aborted
            /\ platform' = platform
         \/ /\ worker[w].pc = "unit" /\ u <= Units                                  \* suppresses
            /\ worker'[w].pc = "unit" /\ worker'[w].unit = u + 1
            /\ \A f \in Entry : /\ platform'[f].copies = platform[f].copies
                                /\ platform'[f].live = platform[f].live
                                /\ platform[f].suppressed \subseteq platform'[f].suppressed
            /\ u \in platform'[e].suppressed
         \/ /\ worker[w].pc = "unit" /\ u <= Units /\ platform' = platform          \* calls
            /\ worker'[w].pc = "calling" /\ worker'[w].unit = u
            /\ w \in Entry /\ worker[w].durable /\ assured(w)' => worker'[w].started
         \/ /\ worker[w].pc = "calling" /\ Puts(w)                                  \* is accepted
            /\ worker'[w].pc = "committed" /\ worker'[w].unit = u
            /\ worker'[w].started = worker[w].started
         \/ /\ worker[w].pc = "committed" /\ u <= Units /\ platform' = platform     \* is answered
            /\ worker'[w].pc = "unit" /\ worker'[w].unit = u + 1

LEMMA LoopRow ==
  ASSUME IInv, NEW w \in Worker, row' = row
  PROVE  RowMoves(worker[w].entry) /\ \A f \in Entry : row'[f].status = row[f].status
BY DEF RowMoves, IInv, TypeOK, WorkerRecord

LEMMA FaultsInt == TypeOK => faults \in Int /\ faults <= faults
BY DEF TypeOK

LEMMA LoopMoves ==
  ASSUME IInv, NEW w \in Worker,
         \/ throwIfAborted(w) \/ suppress(w) \/ startUnit(w) \/ accept(w) \/ unitFails(w)
         \/ \E ok \in BOOLEAN : markAndStartUnit(w, ok) \/ unitReturns(w, ok)
  PROVE  TypeOK' /\ LoopMove(w)
<1>0. TypeOK /\ faults <= faults
  BY FaultsInt DEF IInv
<1>1. CASE throwIfAborted(w)
  BY <1>0, <1>1, ThrowIfAborted, LoopRow, WorkersApart DEF LoopMove, sending, throwIfAborted, inLoop
<1>2. CASE suppress(w)
  BY <1>0, <1>2, Suppress, LoopRow DEF LoopMove, sending
<1>3. CASE startUnit(w)
  BY <1>0, <1>3, StartUnit, LoopRow DEF LoopMove, sending
<1>4. CASE accept(w)
  BY <1>0, <1>4, Accept, LoopRow DEF LoopMove, sending
<1>5. CASE unitFails(w)
  BY <1>0, <1>5, UnitFails, LoopRow DEF LoopMove
<1>6. ASSUME NEW ok \in BOOLEAN, markAndStartUnit(w, ok)
      PROVE  TypeOK' /\ LoopMove(w)
  <2>1. w \in Entry /\ worker[w].entry = w /\ w \notin Pass
    BY <1>6, MarkAndStartUnit, SenderFacts, WorkersApart DEF IInv
  <2>2. /\ TypeOK' /\ Proceeds(w) /\ worker[w].durable
        /\ worker[w].pc = "unit" /\ worker[w].unit <= Units /\ RowMoves(w)
        /\ row'[w].status = row[w].status
        /\ platform' = platform /\ hooks' = hooks /\ call' = call /\ faults <= faults'
    BY <1>6, MarkAndStartUnit
  <2>3. \A f \in Entry : row'[f].status = row[f].status
    BY <2>2 DEF RowMoves
  <2>4. faults' \in Int
    BY <2>2 DEF TypeOK
  <2>5. ~worker[w].started
    BY <1>6 DEF markAndStartUnit, marks
  <2>6. \/ /\ worker'[w].pc = "calling" /\ worker'[w].unit = worker[w].unit
           /\ worker'[w].started /\ row'[w].recoveryState # "none"
        \/ /\ call[worker[w].entry].bestEffort /\ worker'[w].started = worker[w].started
           /\ worker'[w].pc = "unit" /\ worker'[w].unit = worker[w].unit + 1
        \/ /\ worker'[w].pc = "threw" /\ worker'[w].unit = worker[w].unit
           /\ worker'[w].started = worker[w].started
        \/ /\ worker'[w].pc = "calling" /\ worker'[w].unit = worker[w].unit
           /\ worker'[w].started = worker[w].started /\ ~assured(w)'
    <3>1. faults' > 0 /\ call'[w].queuePolicy # "required" => ~assured(w)'
      BY <2>4 DEF assured
    <3> QED BY <1>6, <3>1, MarkAndStartUnit
  <2> QED BY <2>1, <2>2, <2>3, <2>5, <2>6 DEF LoopMove, sending
<1>7. ASSUME NEW ok \in BOOLEAN, unitReturns(w, ok)
      PROVE  TypeOK' /\ LoopMove(w)
  BY <1>0, <1>7, UnitReturns, LoopRow DEF LoopMove, sending
<1> QED BY <1>1, <1>2, <1>3, <1>4, <1>5, <1>6, <1>7

(* A step with an entry in hand outside the loop.                          *)
SteadyMove(w) ==
  LET e == worker[w].entry
  IN  /\ Steady(w)
      /\ w \in Entry => worker'[w].started = worker[w].started
      /\ \/ /\ w \in Entry /\ coreReturned(w)
            /\ worker'[w].pc = "acking" /\ worker'[w].unit = worker[w].unit
         \/ worker[w].pc # "claimed" /\ worker'[w].pc = "hooks" /\ row'[e].status = "acked"
         \/ /\ w \in Pass /\ worker[w].pc = "claimed" /\ row[e].recoveryState = "none" /\ row' = row
            /\ worker'[w].pc = "unit" /\ worker'[w].unit = worker[w].unit
         \/ /\ w \in Pass /\ worker[w].pc = "claimed"
            /\ worker'[w].pc = "reconcile" /\ worker'[w].unit = worker[w].unit
         \/ /\ w \in Pass /\ worker[w].pc = "reconcile" /\ row[e].recoveryState = "send_attempt_started"
            /\ row' = row
            /\ out(e) = {} \/ call[e].lagging
            /\ worker'[w].pc = "unit" /\ worker'[w].unit = worker[w].unit
         \/ w \in Pass /\ worker'[w].pc = "threw"

LEMMA LiveKinds ==
  ASSUME IInv, NEW e \in Entry,
         \/ directReturns(e) \/ directThrew(e)
         \/ \E ok \in BOOLEAN :
              \/ partialFailure(e, ok) \/ markOutcomeUnknown(e, ok) \/ liveAck(e, ok) \/ liveAborted(e, ok)
              \/ \E ok2 \in BOOLEAN : liveThrew(e, ok, ok2)
  PROVE  TypeOK' /\ (Returns(e) \/ SteadyMove(e))
<1>0. worker[e].entry = e /\ worker[e].pc # "claimed"
  BY SenderFacts DEF IInv
<1>1. CASE directReturns(e) \/ directThrew(e)
  BY <1>1, DirectReturns, DirectThrew
<1>2. ASSUME NEW ok \in BOOLEAN, partialFailure(e, ok) \/ liveAborted(e, ok)
      PROVE  TypeOK' /\ Returns(e)
  BY <1>2, PartialFailure, LiveAborted
<1>3. ASSUME NEW ok \in BOOLEAN, NEW ok2 \in BOOLEAN, liveThrew(e, ok, ok2)
      PROVE  TypeOK' /\ Returns(e)
  BY <1>3, LiveThrew
<1>4. ASSUME NEW ok \in BOOLEAN, markOutcomeUnknown(e, ok)
      PROVE  TypeOK' /\ (Returns(e) \/ SteadyMove(e))
  BY <1>4, MarkOutcomeUnknown DEF SteadyMove
<1>5. ASSUME NEW ok \in BOOLEAN, liveAck(e, ok)
      PROVE  TypeOK' /\ (Returns(e) \/ SteadyMove(e))
  BY <1>0, <1>5, LiveAck DEF SteadyMove
<1> QED BY <1>1, <1>2, <1>3, <1>4, <1>5

LEMMA PassKinds ==
  ASSUME IInv, NEW p \in Pass, passStep(p) \/ beginPass(p)
  PROVE  /\ TypeOK'
         /\ \/ Returns(p) \/ SteadyMove(p) \/ Idles(p)
            \/ \E e \in Entry : /\ Takes(p, e) /\ worker'[p].unit = 1
                                /\ UNCHANGED <<row, call, platform, hooks, faults>>
<1>0. p \notin Entry
  BY WorkersApart
<1>1. CASE beginPass(p) \/ passEnds(p) \/ rereadFails(p)
  BY <1>1, BeginPass, PassEnds
<1>2. CASE alreadyGone(p) \/ notReady(p)
  BY <1>2, AlreadyGone
<1>3. CASE drainQueuedEntry(p)
  BY <1>0, <1>3, DrainQueuedEntry DEF SteadyMove
<1>4. CASE reconciledNotSent(p)
  BY <1>0, <1>4, ReconciledNotSent DEF SteadyMove
<1>5. ASSUME NEW e \in Entry, passClaims(p, e)
      PROVE  /\ TypeOK'
             /\ \/ Idles(p)
                \/ /\ Takes(p, e) /\ worker'[p].unit = 1
                   /\ UNCHANGED <<row, call, platform, hooks, faults>>
  BY <1>5, PassClaims
<1>6. ASSUME NEW ok \in BOOLEAN, exceededRetries(p, ok) \/ refuseReplay(p, ok)
      PROVE  TypeOK' /\ Returns(p)
  BY <1>6, ExceededRetries, RefuseReplay
<1>7. ASSUME NEW ok \in BOOLEAN, recoveredAck(p, ok)
      PROVE  TypeOK' /\ SteadyMove(p)
  <2>1. worker[p].pc # "claimed"
    BY <1>7 DEF recoveredAck, coreReturned
  <2> QED BY <1>0, <1>7, <2>1, RecoveredAck DEF SteadyMove
<1>8. ASSUME NEW ok \in BOOLEAN, NEW permanent \in BOOLEAN, replayFailed(p, permanent, ok)
      PROVE  TypeOK' /\ Returns(p)
  BY <1>8, ReplayFailed
<1>9. ASSUME NEW ok \in BOOLEAN, NEW ok2 \in BOOLEAN, reconciledSent(p, ok, ok2)
      PROVE  TypeOK' /\ (Returns(p) \/ SteadyMove(p))
  <2>1. worker[p].pc # "claimed"
    BY <1>9 DEF reconciledSent
  <2> QED BY <1>0, <1>9, <2>1, ReconciledSent DEF SteadyMove
<1> QED BY <1>1, <1>2, <1>3, <1>4, <1>5, <1>6, <1>7, <1>8, <1>9 DEF passStep

-----------------------------------------------------------------------------
(* What is out stays out, what is aborted stays aborted, and a delivery's  *)
(* policies are the caller's.                                              *)
Grows ==
  /\ \A f \in Entry :
       /\ \A u \in 1 .. Units : platform[f].copies[u] > 0 => platform'[f].copies[u] > 0
       /\ platform[f].suppressed \subseteq platform'[f].suppressed
       /\ call'[f].bestEffort = call[f].bestEffort
       /\ call'[f].queuePolicy = call[f].queuePolicy /\ call'[f].lagging = call[f].lagging
       /\ call[f].aborted => call'[f].aborted
  /\ faults \in Nat /\ faults' \in Nat /\ faults <= faults'

LEMMA GrowsByFrame ==
  ASSUME TypeOK, TypeOK', platform' = platform, call' = call, faults <= faults'
  PROVE  Grows
BY DEF Grows, TypeOK

LEMMA GrowsByLoop ==
  ASSUME IInv, TypeOK', NEW w \in Worker, LoopMove(w)
  PROVE  Grows
<1>0. TypeOK /\ call' = call /\ faults <= faults'
  BY DEF IInv, LoopMove
<1>1. CASE platform' = platform
  BY <1>0, <1>1, GrowsByFrame
<1>2. CASE \A f \in Entry : /\ platform'[f].copies = platform[f].copies
                            /\ platform[f].suppressed \subseteq platform'[f].suppressed
  BY <1>0, <1>2 DEF Grows, TypeOK
<1>3. CASE Puts(w)
  BY <1>0, <1>3 DEF Grows, TypeOK, Puts
<1> QED BY <1>1, <1>2, <1>3 DEF LoopMove

(* LoopLeavesNone, for one worker.                                         *)
LeavesNone(w) ==
  LET e == worker[w].entry
  IN  /\ worker[w].pc \in {"claimed", "reconcile"} => worker[w].unit = 1
      /\ worker[w].pc \in {"calling", "committed"} => worker[w].unit <= Units
      /\ worker[w].pc = "committed" => platform[e].copies[worker[w].unit] > 0
      /\ worker[w].pc = "acking" => worker[w].unit > Units
      /\ (sending(w) \/ worker[w].pc = "acking") /\ ~call[e].bestEffort =>
           \A u \in 1 .. Units :
             u < worker[w].unit => platform[e].copies[u] > 0 \/ u \in platform[e].suppressed
      /\ worker[w].pc = "aborted" => call[w].aborted

LEMMA NoneLeftByAll == LoopLeavesNone <=> \A w \in Worker : LeavesNone(w)
BY DEF LoopLeavesNone, LeavesNone

LEMMA OthersLeaveNone ==
  ASSUME IInv, TypeOK', Grows, NEW v \in Worker, worker'[v] = worker[v]
  PROVE  LeavesNone(v)'
<1>1. LeavesNone(v) /\ worker[v].entry \in Entry /\ worker[v].unit \in 1 .. Units + 1
  BY NoneLeftByAll DEF IInv, TypeOK, WorkerRecord
<1>2. v \notin Entry => worker[v].pc # "aborted"
  BY DEF IInv, PassesFollow, Worker
<1>3. worker[v].pc = "committed" => worker[v].unit \in 1 .. Units
  BY <1>1 DEF LeavesNone
<1> QED BY <1>1, <1>2, <1>3 DEF LeavesNone, Grows, sending

LEMMA LoopLeaves ==
  ASSUME IInv, TypeOK', NEW w \in Worker, LoopMove(w)
  PROVE  LeavesNone(w)'
<1> DEFINE e == worker[w].entry
           u == worker[w].unit
<1>g. Grows
  BY GrowsByLoop
<1>0. /\ e \in Entry /\ u \in 1 .. Units + 1 /\ worker'[w].entry = e /\ sending(w)
      /\ call' = call /\ LeavesNone(w)
  BY NoneLeftByAll DEF IInv, TypeOK, WorkerRecord, LoopMove, Proceeds
<1>b. ASSUME ~call[e].bestEffort, NEW v \in 1 .. Units, v < u
      PROVE  platform'[e].copies[v] > 0 \/ v \in platform'[e].suppressed
  BY <1>0, <1>b, <1>g DEF LeavesNone, Grows
<1>1. CASE /\ call[e].bestEffort /\ worker'[w].pc = "unit"
  BY <1>0, <1>1 DEF LeavesNone, sending
<1>2. CASE worker'[w].pc \in {"threw", "aborted"} /\ (worker'[w].pc = "aborted" => call[w].aborted)
  BY <1>0, <1>2 DEF LeavesNone, sending
<1>3. CASE /\ worker'[w].pc = "unit" /\ worker'[w].unit = u + 1
           /\ u \in platform'[e].suppressed
  <2>1. ASSUME ~call[e].bestEffort, NEW v \in 1 .. Units, v < u + 1
        PROVE  platform'[e].copies[v] > 0 \/ v \in platform'[e].suppressed
    <3>1. v < u \/ v = u
      BY <1>0, <2>1
    <3> QED BY <1>b, <1>3, <2>1, <3>1
  <2> QED BY <1>0, <1>3, <2>1 DEF LeavesNone, sending
<1>4. CASE worker'[w].pc = "calling" /\ worker'[w].unit = u /\ u <= Units
  BY <1>0, <1>4, <1>b DEF LeavesNone, sending
<1>5. CASE worker'[w].pc = "committed" /\ worker'[w].unit = u /\ Puts(w)
  BY <1>0, <1>5, <1>b DEF LeavesNone, sending, Puts
<1>6. CASE /\ worker[w].pc = "committed" /\ worker'[w].pc = "unit" /\ worker'[w].unit = u + 1
           /\ u <= Units /\ platform' = platform
  <2>0. platform'[e].copies[u] > 0
    BY <1>0, <1>6 DEF LeavesNone
  <2>1. ASSUME ~call[e].bestEffort, NEW v \in 1 .. Units, v < u + 1
        PROVE  platform'[e].copies[v] > 0 \/ v \in platform'[e].suppressed
    <3>1. v < u \/ v = u
      BY <1>0, <2>1
    <3> QED BY <1>b, <2>0, <2>1, <3>1
  <2> QED BY <1>0, <1>6, <2>1 DEF LeavesNone, sending
<1> QED BY <1>1, <1>2, <1>3, <1>4, <1>5, <1>6 DEF LoopMove

LEMMA SteadyLeaves ==
  ASSUME IInv, TypeOK', NEW w \in Worker, SteadyMove(w)
  PROVE  LeavesNone(w)'
<1> DEFINE e == worker[w].entry
           u == worker[w].unit
<1>0. /\ e \in Entry /\ u \in 1 .. Units + 1 /\ worker'[w].entry = e
      /\ call' = call /\ platform' = platform /\ LeavesNone(w)
  BY NoneLeftByAll DEF IInv, TypeOK, WorkerRecord, SteadyMove, Steady, Proceeds
<1>1. CASE coreReturned(w) /\ worker'[w].pc = "acking" /\ worker'[w].unit = u
  BY <1>0, <1>1 DEF LeavesNone, sending, coreReturned
<1>2. CASE worker'[w].pc \in {"hooks", "threw"}
  BY <1>0, <1>2 DEF LeavesNone, sending
<1>3. CASE /\ worker[w].pc \in {"claimed", "reconcile"}
           /\ worker'[w].pc \in {"unit", "reconcile"} /\ worker'[w].unit = u
  <2>1. worker'[w].unit = 1
    BY <1>0, <1>3 DEF LeavesNone
  <2> QED BY <1>0, <1>3, <2>1 DEF LeavesNone, sending
<1> QED BY <1>1, <1>2, <1>3 DEF SteadyMove

(* A worker at rest, or with an entry it has just taken.                   *)
LEMMA FreshLeaves ==
  ASSUME TypeOK', NEW w \in Worker,
         \/ worker'[w].pc \in {"idle", "enqueued", "scan", "done"}
         \/ worker'[w].pc \in {"unit", "claimed"} /\ worker'[w].unit = 1
  PROVE  LeavesNone(w)'
BY DEF LeavesNone, sending

LEMMA LeavesNoneByOne ==
  ASSUME IInv, TypeOK', Grows, NEW w \in Worker, Only(w), LeavesNone(w)'
  PROVE  LoopLeavesNone'
<1>1. \A v \in Worker : LeavesNone(v)'
  BY OthersLeaveNone DEF Only
<1> QED BY <1>1 DEF LoopLeavesNone, LeavesNone

-----------------------------------------------------------------------------
(* What every step does to the rows: a settled row is settled for good, an *)
(* entry is acked for a reason, and what evidence there was remains.       *)
Settling ==
  \A e \in Entry :
    /\ row[e].status \in {"acked", "failed"} => row'[e].status = row[e].status
    /\ row[e].status = "none" => row'[e].status = "none" \/ worker[e].pc = "idle"
    /\ row'[e].status = "none" => row[e].status = "none"
    /\ row[e].recoveryState # "none" => row'[e].recoveryState # "none"
    /\ AckIsEarned(e)

LEMMA SettlingByOne ==
  ASSUME TypeOK, NEW e \in Entry, RowMoves(e), AckIsEarned(e)
  PROVE  Settling
BY DEF Settling, RowMoves, AckIsEarned, TypeOK, RowRecord

LEMMA SettlingByNone ==
  ASSUME \A e \in Entry : row'[e].status = row[e].status /\ row'[e].recoveryState = row[e].recoveryState
  PROVE  Settling
BY DEF Settling, AckIsEarned

(* A worker leaves the rows of the others' entries alone.                  *)
LEMMA OthersRows ==
  ASSUME Structure, NEW w \in Worker, NEW v \in Worker, v # w, owns(v),
         row' = row \/ (owns(w) /\ RowMoves(worker[w].entry))
  PROVE  row'[worker[v].entry] = row[worker[v].entry]
<1>1. CASE row' = row
  BY <1>1
<1>2. CASE owns(w) /\ RowMoves(worker[w].entry)
  <2>1. worker[v].entry # worker[w].entry
    BY <1>2 DEF Structure, ExclusiveOwner
  <2>2. worker[v].entry \in Entry
    BY DEF Structure, TypeOK, WorkerRecord
  <2> QED BY <1>2, <2>1, <2>2 DEF RowMoves
<1> QED BY <1>1, <1>2

LEMMA DeliveredStays ==
  ASSUME TypeOK, TypeOK', Grows, NEW e \in Entry, Delivered(e)
  PROVE  Delivered(e)'
<1>1. \A u \in 1 .. Units : u \in out(e) \/ u \in platform[e].suppressed
  BY DEF Delivered
<1>2. \A u \in 1 .. Units : u \in out(e)' \/ u \in platform'[e].suppressed
  BY <1>1 DEF Grows, out
<1>3. out(e)' \subseteq 1 .. Units /\ platform'[e].suppressed \subseteq 1 .. Units
  BY DEF out, TypeOK, PlatformRecord
<1> QED BY <1>2, <1>3 DEF Delivered

LEMMA AckedStaysDelivered ==
  ASSUME TypeOK, TypeOK', AckedMeansDelivered, Grows, Settling
  PROVE  AckedMeansDelivered'
<1> SUFFICES ASSUME NEW e \in Entry, row'[e].status = "acked", ~call'[e].aborted, ~call'[e].bestEffort
             PROVE  Delivered(e)'
  BY DEF AckedMeansDelivered, Delivered
<1>1. ~call[e].aborted /\ ~call[e].bestEffort
  BY DEF Grows
<1>2. Delivered(e)
  BY <1>1 DEF Settling, AckIsEarned, AckedMeansDelivered, Delivered
<1> QED BY <1>2, DeliveredStays

(* A step that runs no hooks.                                              *)
HooksWait ==
  /\ hooks' = hooks
  /\ \A e \in Entry : worker'[e].pc # "done" => worker[e].pc # "done"
  /\ \A v \in Worker : worker'[v].pc = "hooks" =>
       \/ worker'[v] = worker[v]
       \/ /\ worker'[v].entry = worker[v].entry /\ owns(v) /\ worker[v].pc # "hooks"
          /\ row'[worker[v].entry].status = "acked"
          /\ v \in Pass => row[worker[v].entry].status = "pending"

LEMMA HooksWaiting ==
  ASSUME IInv, TypeOK', HooksAfterAck, Settling, HooksWait
  PROVE  HooksStillDue' /\ HooksAfterAck'
<1>0. /\ hooks \in [Entry -> 0 .. 2] /\ hooks' = hooks
      /\ \A v \in Worker : worker[v].entry \in Entry
  BY DEF IInv, TypeOK, WorkerRecord, HooksWait
<1>1. HooksAfterAck'
  <2> SUFFICES ASSUME NEW e \in Entry, hooks[e] = 1
               PROVE  row'[e].status \in {"acked", "none"}
    BY <1>0 DEF HooksAfterAck
  <2>1. row[e].status \in {"acked", "none"} /\ worker[e].pc # "idle"
    BY DEF HooksAfterAck, IInv, HooksStillDue
  <2> QED BY <2>1 DEF Settling
<1>2. ASSUME NEW e \in Entry, worker'[e].pc # "done"
      PROVE  hooks'[e] = 0
  BY <1>0, <1>2 DEF HooksWait, IInv, HooksStillDue
<1>3. ASSUME NEW v \in Worker, worker'[v].pc = "hooks"
      PROVE  row'[worker'[v].entry].status = "acked" /\ hooks'[worker'[v].entry] = 0
  <2>1. CASE worker'[v] = worker[v]
    BY <1>0, <1>3, <2>1 DEF IInv, HooksStillDue, Settling
  <2>2. CASE worker'[v] # worker[v]
    <3>1. /\ worker'[v].entry = worker[v].entry
          /\ row'[worker[v].entry].status = "acked"
          /\ v \in Pass => row[worker[v].entry].status = "pending"
      BY <1>3, <2>2 DEF HooksWait
    <3>2. CASE v \in Pass
      BY <1>0, <3>1, <3>2 DEF HooksAfterAck
    <3>3. CASE v \in Entry
      <4>1. worker[v].entry = v
        BY <3>3, SenderFacts DEF IInv
      <4> QED BY <1>2, <1>3, <3>1, <3>3, <4>1
    <3> QED BY <3>2, <3>3, WorkersApart
  <2> QED BY <2>1, <2>2
<1> QED BY <1>1, <1>2, <1>3 DEF HooksStillDue

(* The step that runs them.                                                *)
LEMMA HooksRunning ==
  ASSUME IInv, TypeOK', HooksAfterAck, NEW w \in Worker, Gives(w), HooksRun(w)
  PROVE  HooksStillDue' /\ HooksAfterAck'
<1> DEFINE e == worker[w].entry
<1>0. /\ hooks \in [Entry -> 0 .. 2] /\ e \in Entry /\ w \in Entry \cup Pass
      /\ \A v \in Worker : worker[v].entry \in Entry
  BY DEF IInv, TypeOK, WorkerRecord, Worker
<1>1. /\ hooks'[e] = 1 /\ row' = row /\ row[e].status \in {"acked", "none"}
      /\ \A f \in Entry : f # e => hooks'[f] = hooks[f]
  BY <1>0 DEF HooksRun
<1>2. HooksAfterAck'
  BY <1>1 DEF HooksAfterAck
<1>3. worker'[e].pc = "done"
  <2>1. CASE w \in Entry
    <3>1. e = w
      BY <2>1, SenderFacts DEF IInv
    <3> QED BY <2>1, <3>1 DEF Gives
  <2>2. CASE w \notin Entry
    <3>1. w \in Pass /\ worker[w].pc = "hooks" /\ active(w)
      BY <2>2, <1>0 DEF HooksRun, Gives
    <3>2. worker[e].pc = "done" /\ e # w
      BY <2>2, <3>1, <1>0, PassHas
    <3> QED BY <3>2, <1>0, WorkersApart DEF Gives, Only
  <2> QED BY <2>1, <2>2
<1>4. ASSUME NEW f \in Entry, worker'[f].pc # "done"
      PROVE  hooks'[f] = 0
  <2>1. worker[f].pc # "done" /\ f # e
    BY <1>3, <1>4, WorkersApart DEF Gives, Only
  <2> QED BY <2>1, <1>1 DEF IInv, HooksStillDue
<1>5. ASSUME NEW v \in Worker, worker'[v].pc = "hooks"
      PROVE  row'[worker'[v].entry].status = "acked" /\ hooks'[worker'[v].entry] = 0
  <2>1. v # w /\ worker'[v] = worker[v] /\ worker[v].pc = "hooks"
    BY <1>5 DEF Gives, Only
  <2>2. worker[v].entry # e
    <3>0. active(v)
      BY <2>1 DEF active
    <3>1. CASE v \in Entry
      <4>1. worker[v].entry = v
        BY <3>1, SenderFacts DEF IInv
      <4> QED BY <4>1, <2>1, <1>3
    <3>2. CASE v \notin Entry
      <4>1. v \in Pass /\ owns(v)
        BY <3>0, <3>2 DEF owns, Worker
      <4>2. row[worker[v].entry].status = "acked"
        BY <2>1 DEF IInv, HooksStillDue
      <4>3. CASE owns(w)
        BY <4>1, <4>3, <2>1 DEF IInv, ExclusiveOwner
      <4>4. CASE ~owns(w)
        <5>1. w \in Entry /\ active(w) /\ ~worker[w].durable
          BY <4>4, <1>0, WorkersApart DEF Gives, owns
        <5>2. row[w].status = "none" /\ e = w
          BY <5>1, SenderFacts DEF IInv
        <5> QED BY <5>2, <4>2
      <4> QED BY <4>3, <4>4
    <3> QED BY <3>1, <3>2
  <2> QED BY <2>1, <2>2, <1>0, <1>1 DEF IInv, HooksStillDue
<1> QED BY <1>2, <1>4, <1>5 DEF HooksStillDue

-----------------------------------------------------------------------------
(* A pass sends an entry that it was sending, or one that nobody has tried *)
(* to send, or one of which the adapter finds nothing; the sender of the   *)
(* entry is gone by then.                                                  *)
Replays ==
  \A p \in Pass : sending(p)' =>
    LET e == worker[p].entry
    IN  /\ worker'[p].entry = e /\ row[e].status = "pending"
        /\ row'[e].recoveryState = row[e].recoveryState
        /\ platform'[e].live = platform[e].live
        /\ \/ sending(p)
           \/ row[e].recoveryState = "none"
           \/ row[e].recoveryState = "send_attempt_started" /\ (out(e) = {} \/ call[e].lagging)

LEMMA AssuredBefore ==
  ASSUME Grows, NEW e \in Entry, assured(e)'
  PROVE  assured(e)
BY DEF Grows, assured

LEMMA EvidenceKept ==
  ASSUME EvidenceNotReplayed, Replays
  PROVE  EvidenceNotReplayed'
BY DEF EvidenceNotReplayed, Replays

LEMMA ReplaysKeep ==
  ASSUME IInv, TypeOK', Grows, Replays
  PROVE  ReplaysOnlyUnsent'
<1>t. \A p \in Pass : p \in Worker /\ worker[p].entry \in Entry /\ worker'[p].entry \in Entry
  BY WorkersApart DEF IInv, TypeOK, WorkerRecord
<1> SUFFICES ASSUME NEW p \in Pass, NEW e \in Entry, worker'[p].entry = e,
                    sending(p)', assured(e)', ~call'[e].lagging
             PROVE  platform'[e].live = {}
  BY <1>t DEF ReplaysOnlyUnsent, assured
<1>0. e = worker[p].entry
  BY DEF Replays
<1>1. /\ worker'[p].entry = e /\ row[e].status = "pending" /\ platform'[e].live = platform[e].live
      /\ \/ sending(p)
         \/ row[e].recoveryState = "none"
         \/ row[e].recoveryState = "send_attempt_started" /\ (out(e) = {} \/ call[e].lagging)
  BY <1>0 DEF Replays
<1>2. assured(e) /\ ~call[e].lagging
  <2>1. assured(e)
    BY AssuredBefore
  <2> QED BY <2>1 DEF Grows
<1>3. CASE sending(p)
  BY <1>0, <1>1, <1>2, <1>3 DEF IInv, ReplaysOnlyUnsent
<1>4. CASE row[e].recoveryState = "none"
  BY <1>0, <1>1, <1>2, <1>4 DEF IInv, LiveSendMarked
<1>5. CASE out(e) = {}
  <2>1. platform[e].live \subseteq 1 .. Units
    BY <1>0 DEF IInv, TypeOK, PlatformRecord
  <2>2. \A u \in platform[e].live : u \in out(e)
    BY <1>0, <2>1 DEF IInv, LiveSendMarked, out
  <2> QED BY <1>1, <1>5, <2>2
<1> QED BY <1>1, <1>2, <1>3, <1>4, <1>5

(* LiveSendMarked, for one entry.                                          *)
Marked(e) ==
  /\ \A u \in platform[e].live : platform[e].copies[u] > 0
  /\ worker[e].pc # "done" => \A u \in 1 .. Units :
       /\ platform[e].copies[u] <= 1
       /\ \/ worker[e].pc \in {"idle", "enqueued", "unit", "calling"} /\ u >= worker[e].unit
          \/ worker[e].pc = "committed" /\ u > worker[e].unit
          => platform[e].copies[u] = 0
  /\ active(e) /\ worker[e].started => worker[e].durable /\ row[e].recoveryState # "none"
  /\ worker[e].durable /\ assured(e) /\ worker[e].pc \in {"calling", "committed"} => worker[e].started
  /\ assured(e) /\ row[e].status # "none" /\ platform[e].live # {} => row[e].recoveryState # "none"

LEMMA MarkedAll == LiveSendMarked <=> \A e \in Entry : Marked(e)
BY DEF LiveSendMarked, Marked

(* An entry whose sender does not move in the step, or leaves.             *)
LEMMA MarkedByOthers ==
  ASSUME IInv, TypeOK', Grows, Settling, NEW e \in Entry,
         worker'[e] = worker[e] \/ worker'[e].pc = "done",
         platform'[e].live = platform[e].live,
         worker'[e].pc # "done" => platform'[e].copies = platform[e].copies,
         row[e].status = "none" => row'[e].status = "none"
  PROVE  Marked(e)'
<1>0. Marked(e)
  BY MarkedAll DEF IInv
<1>1. platform[e].live \subseteq 1 .. Units
  BY DEF IInv, TypeOK, PlatformRecord
<1>2. assured(e)' => assured(e)
  BY AssuredBefore
<1>3. row[e].recoveryState # "none" => row'[e].recoveryState # "none"
  BY DEF Settling
<1>4. \A u \in platform'[e].live : platform'[e].copies[u] > 0
  BY <1>0, <1>1 DEF Marked, Grows
<1>5. CASE worker'[e].pc = "done"
  BY <1>0, <1>2, <1>3, <1>4, <1>5 DEF Marked, active
<1>6. CASE worker'[e].pc # "done"
  <2>1. worker'[e] = worker[e] /\ platform'[e].copies = platform[e].copies
    BY <1>6
  <2>2. active(e)' => active(e)
    BY <2>1 DEF active
  <2> QED BY <1>0, <1>2, <1>3, <1>4, <1>6, <2>1, <2>2 DEF Marked
<1> QED BY <1>5, <1>6

(* What has been sent of an entry changes by its sender, who is then still *)
(* there, or by a pass that sends it; a settled entry is not sent.         *)
Sends ==
  \A e \in Entry :
    \/ /\ platform'[e].copies = platform[e].copies /\ platform'[e].live = platform[e].live
       /\ worker'[e].pc = "done" => (row'[e].status = "none" <=> row[e].status = "none")
    \/ /\ row[e].status \notin {"acked", "failed"}
       /\ worker'[e].pc # "done" \/ \E p \in Pass : sending(p)' /\ worker'[p].entry = e

LEMMA NotRepeated ==
  ASSUME IInv, TypeOK', LiveSendNotRepeated, Grows, LiveSendMarked', ReplaysOnlyUnsent', Sends
  PROVE  LiveSendNotRepeated'
<1> SUFFICES ASSUME NEW e \in Entry, assured(e)', row'[e].status # "none", ~call'[e].lagging
             PROVE  platform'[e].live = {} \/ \A u \in 1 .. Units : platform'[e].copies[u] <= 1
  BY DEF LiveSendNotRepeated
<1>1. CASE worker'[e].pc # "done"
  BY <1>1 DEF LiveSendMarked
<1>2. CASE \E p \in Pass : sending(p)' /\ worker'[p].entry = e
  BY <1>2 DEF ReplaysOnlyUnsent
<1>3. CASE /\ platform'[e].copies = platform[e].copies /\ platform'[e].live = platform[e].live
           /\ worker'[e].pc = "done" => (row'[e].status = "none" <=> row[e].status = "none")
           /\ worker'[e].pc = "done"
  <2>1. assured(e) /\ ~call[e].lagging
    BY AssuredBefore DEF Grows
  <2> QED BY <2>1, <1>3 DEF LiveSendNotRepeated
<1> QED BY <1>1, <1>2, <1>3 DEF Sends

-----------------------------------------------------------------------------
(* What the kinds of steps do to the rows, the platform and the markers.   *)
DataKept == Grows /\ Settling /\ Replays /\ Sends /\ LoopLeavesNone' /\ LiveSendMarked'

(* Steps in which nothing is sent and no worker begins to send.            *)
LEMMA QuietKeeps ==
  ASSUME IInv, TypeOK', Grows, Settling, LoopLeavesNone', platform' = platform,
         \A p \in Pass : sending(p)' =>
           /\ worker'[p] = worker[p]
           /\ row'[worker[p].entry].recoveryState = row[worker[p].entry].recoveryState,
         \A e \in Entry : worker'[e] = worker[e] \/ worker'[e].pc = "done",
         \A e \in Entry : row[e].status = "none" => row'[e].status = "none"
  PROVE  DataKept
<1>1. Replays
  <2> SUFFICES ASSUME NEW p \in Pass, sending(p)'
               PROVE  worker'[p] = worker[p] /\ sending(p) /\ row[worker[p].entry].status = "pending"
    BY DEF Replays
  <2>1. worker'[p] = worker[p] /\ p \in Worker
    BY WorkersApart
  <2>2. sending(p)
    BY <2>1 DEF sending
  <2> QED BY <2>1, <2>2, LoopHolds
<1>2. Sends
  BY DEF Sends, Settling
<1>3. LiveSendMarked'
  <2>1. \A e \in Entry : Marked(e)'
    BY MarkedByOthers
  <2> QED BY <2>1 DEF LiveSendMarked, Marked
<1> QED BY <1>1, <1>2, <1>3 DEF DataKept

LEMMA OnlyWaits ==
  ASSUME IInv, NEW w \in Worker, Only(w), worker'[w].pc # "hooks", hooks' = hooks,
         w \in Entry => worker'[w].pc = "done" \/ worker[w].pc # "done"
  PROVE  HooksWait
BY WorkersApart DEF HooksWait, Only

LEMMA ReturnsKeeps ==
  ASSUME IInv, TypeOK', HooksAfterAck, NEW w \in Worker, Returns(w)
  PROVE  Structure' /\ DataKept /\ HooksStillDue' /\ HooksAfterAck'
<1> DEFINE e == worker[w].entry
<1>0. /\ Structure /\ TypeOK /\ Gives(w) /\ Only(w) /\ platform' = platform /\ call' = call
      /\ faults <= faults' /\ AckIsEarned(e) /\ e \in Entry
      /\ worker'[w].pc \in {"done", "scan", "idle"} /\ (w \in Entry => worker'[w].pc = "done")
  BY IInvStructure DEF Returns, Gives, IInv, TypeOK, WorkerRecord
<1>1. Structure'
  BY <1>0, GivesKeeps
<1>2. Grows
  BY <1>0, GrowsByFrame
<1>3. RowMoves(e) /\ (row' = row \/ (owns(w) /\ RowMoves(e)))
  BY <1>0, RowUnchanged DEF Gives
<1>4. Settling
  BY <1>0, <1>3, SettlingByOne
<1>5. LoopLeavesNone'
  <2>1. LeavesNone(w)'
    BY <1>0, FreshLeaves
  <2> QED BY <1>0, <1>2, <2>1, LeavesNoneByOne
<1>6. ASSUME NEW p \in Pass, sending(p)'
      PROVE  /\ worker'[p] = worker[p]
             /\ row'[worker[p].entry].recoveryState = row[worker[p].entry].recoveryState
  <2>1. p # w /\ p \in Worker
    BY <1>0, <1>6, WorkersApart DEF sending
  <2>2. worker'[p] = worker[p]
    BY <1>0, <2>1 DEF Only
  <2>3. owns(p)
    BY <1>6, <2>1, <2>2, WorkersApart DEF owns, active, sending
  <2>4. row'[worker[p].entry] = row[worker[p].entry]
    BY <1>0, <1>3, <2>1, <2>3, OthersRows
  <2> QED BY <2>2, <2>4
<1>7. \A f \in Entry : worker'[f] = worker[f] \/ worker'[f].pc = "done"
  BY <1>0, WorkersApart DEF Only
<1>8. \A f \in Entry : row[f].status = "none" => row'[f].status = "none"
  BY <1>3 DEF RowMoves
<1>9. DataKept
  BY <1>0, <1>2, <1>4, <1>5, <1>6, <1>7, <1>8, QuietKeeps
<1>10. HooksStillDue' /\ HooksAfterAck'
  <2>1. CASE hooks' = hooks
    <3>1. HooksWait
      BY <1>0, <2>1, OnlyWaits
    <3> QED BY <3>1, <1>4, HooksWaiting
  <2>2. CASE HooksRun(w)
    BY <1>0, <2>2, HooksRunning
  <2> QED BY <2>1, <2>2 DEF Returns
<1> QED BY <1>1, <1>9, <1>10

(* The steps that leave every row, every call and the platform alone.      *)
LEMMA FrameKeeps ==
  ASSUME IInv, TypeOK', HooksAfterAck, UNCHANGED <<row, call, platform, hooks>>, faults <= faults',
         NEW w \in Worker, Only(w),
         w \in Entry => worker'[w].pc = "done",
         w \in Pass => \/ worker'[w].pc \in {"idle", "scan", "done"}
                       \/ worker'[w].pc = "claimed" /\ worker'[w].unit = 1
  PROVE  DataKept /\ HooksStillDue' /\ HooksAfterAck'
<1>0. TypeOK /\ (w \in Entry \/ w \in Pass)
  BY DEF IInv, Worker
<1>2. Grows
  BY <1>0, GrowsByFrame
<1>4. Settling
  BY SettlingByNone
<1>5. LoopLeavesNone'
  <2>1. LeavesNone(w)'
    BY <1>0, FreshLeaves
  <2> QED BY <1>2, <2>1, LeavesNoneByOne
<1>6. \A p \in Pass : sending(p)' =>
           /\ worker'[p] = worker[p]
           /\ row'[worker[p].entry].recoveryState = row[worker[p].entry].recoveryState
  BY <1>0, WorkersApart DEF sending, Only
<1>7. \A f \in Entry : worker'[f] = worker[f] \/ worker'[f].pc = "done"
  BY WorkersApart DEF Only
<1>9. DataKept
  BY <1>2, <1>4, <1>5, <1>6, <1>7, QuietKeeps
<1>10. HooksWait
  <2>1. worker'[w].pc # "hooks"
    BY <1>0
  <2> QED BY <2>1, OnlyWaits
<1> QED BY <1>4, <1>9, <1>10, HooksWaiting

LEMMA IdlesKeeps ==
  ASSUME IInv, TypeOK', HooksAfterAck, NEW p \in Pass, Idles(p)
  PROVE  Structure' /\ DataKept /\ HooksStillDue' /\ HooksAfterAck'
<1>1. Rests(p) /\ p \in Worker /\ p \notin Entry /\ Structure
  BY WorkersApart, IInvStructure DEF Idles
<1>2. Structure'
  BY <1>1, RestsKeeps
<1> QED BY <1>1, <1>2, FrameKeeps DEF Idles, Rests

LEMMA PassTakesKeeps ==
  ASSUME IInv, TypeOK', HooksAfterAck, NEW p \in Pass, NEW e \in Entry, Takes(p, e),
         worker'[p].unit = 1, UNCHANGED <<row, call, platform, hooks, faults>>
  PROVE  Structure' /\ DataKept /\ HooksStillDue' /\ HooksAfterAck'
<1>1. p \in Worker /\ p \notin Entry /\ Structure /\ faults <= faults'
  BY WorkersApart, IInvStructure, FaultsInt
<1>2. Structure'
  BY <1>1, TakesKeeps
<1> QED BY <1>1, <1>2, FrameKeeps DEF Takes

LEMMA LeavesKeepsData ==
  ASSUME IInv, TypeOK', HooksAfterAck, NEW e \in Entry, Leaves(e),
         UNCHANGED <<row, call, platform, hooks, faults>>
  PROVE  Structure' /\ DataKept /\ HooksStillDue' /\ HooksAfterAck'
<1>1. e \in Worker /\ e \notin Pass /\ Structure /\ faults <= faults'
  BY WorkersApart, IInvStructure, FaultsInt
<1>2. Structure'
  BY <1>1, LeavesKeeps
<1> QED BY <1>1, <1>2, FrameKeeps DEF Leaves

(* A backoff that is over, a caller's abort.                               *)
LEMMA WaitsKeepsData ==
  ASSUME IInv, TypeOK', HooksAfterAck, Waits, Grows, UNCHANGED <<platform, hooks>>
  PROVE  Structure' /\ DataKept /\ HooksStillDue' /\ HooksAfterAck'
<1>1. Structure'
  BY IInvStructure, WaitsKeeps
<1>2. Settling
  BY SettlingByNone DEF Waits
<1>3. LoopLeavesNone'
  <2>1. \A v \in Worker : LeavesNone(v)'
    BY OthersLeaveNone DEF Waits
  <2> QED BY <2>1 DEF LoopLeavesNone, LeavesNone
<1>4. \A v \in Worker : worker[v].entry \in Entry
  BY DEF IInv, TypeOK, WorkerRecord
<1>5. \A p \in Pass : sending(p)' =>
           /\ worker'[p] = worker[p]
           /\ row'[worker[p].entry].recoveryState = row[worker[p].entry].recoveryState
  BY <1>4, WorkersApart DEF Waits
<1>6. DataKept
  BY <1>2, <1>3, <1>5, QuietKeeps DEF Waits
<1>7. HooksWait
  BY DEF HooksWait, Waits
<1> QED BY <1>1, <1>2, <1>6, <1>7, HooksWaiting

(* The process dies: every worker is at rest, the rows are as they were.   *)
LEMMA CrashKeepsData ==
  ASSUME IInv, HooksAfterAck, crash
  PROVE  TypeOK' /\ Structure' /\ DataKept /\ HooksStillDue' /\ HooksAfterAck'
<1>0. TypeOK /\ Structure /\ TypeOK' /\ UNCHANGED <<row, call, platform, hooks, faults>> /\ faults <= faults'
  BY IInvStructure, Crash, FaultsInt
<1>1. Structure'
  BY <1>0, CrashKeeps
<1>2. /\ \A v \in Worker : worker'[v].pc \in {"idle", "done"}
      /\ \A e \in Entry : worker'[e].pc = "idle" => worker[e].pc = "idle" /\ worker'[e] = worker[e]
  BY <1>0, CrashRests
<1>3. Grows
  BY <1>0, GrowsByFrame
<1>4. Settling
  BY <1>0, SettlingByNone
<1>5. LoopLeavesNone'
  BY <1>2 DEF LoopLeavesNone, sending
<1>6. \A p \in Pass : ~sending(p)'
  BY <1>2, WorkersApart DEF sending
<1>7. \A e \in Entry : worker'[e] = worker[e] \/ worker'[e].pc = "done"
  BY <1>2, WorkersApart
<1>8. DataKept
  BY <1>0, <1>3, <1>4, <1>5, <1>6, <1>7, QuietKeeps
<1>9. HooksWait
  BY <1>0, <1>2, WorkersApart DEF HooksWait
<1> QED BY <1>0, <1>1, <1>4, <1>8, <1>9, HooksWaiting

(* A step of a sender: the passes go on with what they had.                *)
LEMMA SenderReplays ==
  ASSUME IInv, TypeOK', NEW w \in Entry, Only(w), worker[w].pc # "done", worker[w].entry = w,
         \A f \in Entry : f # w => row'[f] = row[f] /\ platform'[f].live = platform[f].live
  PROVE  Replays
<1> SUFFICES ASSUME NEW p \in Pass, sending(p)'
             PROVE  /\ worker'[p] = worker[p] /\ sending(p) /\ row[worker[p].entry].status = "pending"
                    /\ row'[worker[p].entry] = row[worker[p].entry]
                    /\ platform'[worker[p].entry].live = platform[worker[p].entry].live
  BY DEF Replays
<1>1. worker'[p] = worker[p] /\ p \in Worker /\ worker[p].entry \in Entry
  BY WorkersApart DEF Only, IInv, TypeOK, WorkerRecord
<1>2. sending(p)
  BY <1>1 DEF sending
<1>3. row[worker[p].entry].status = "pending" /\ worker[worker[p].entry].pc = "done"
  BY <1>1, <1>2, LoopHolds
<1> QED BY <1>1, <1>2, <1>3

LEMMA SenderTakesKeeps ==
  ASSUME IInv, TypeOK', HooksAfterAck, NEW e \in Entry, Takes(e, e),
         worker'[e].unit = worker[e].unit, worker'[e].started = worker[e].started,
         UNCHANGED <<row, call, platform, hooks, faults>>
  PROVE  Structure' /\ DataKept /\ HooksStillDue' /\ HooksAfterAck'
<1>0. /\ TypeOK /\ Structure /\ e \in Worker /\ Only(e) /\ faults <= faults'
      /\ worker[e].pc = "enqueued" /\ worker'[e].pc = "unit" /\ worker'[e].entry = e
      /\ worker[e].entry = e
      /\ worker'[e].unit = 1 /\ ~worker'[e].started
  BY IInvStructure, WorkersApart, FaultsInt, SenderFacts DEF Takes, IInv
<1>1. Structure'
  BY <1>0, TakesKeeps
<1>2. Grows
  BY <1>0, GrowsByFrame
<1>3. Settling
  BY SettlingByNone
<1>4. LoopLeavesNone'
  <2>1. LeavesNone(e)'
    BY <1>0, FreshLeaves
  <2> QED BY <1>0, <1>2, <2>1, LeavesNoneByOne
<1>5. Replays
  BY <1>0, SenderReplays
<1>6. Sends
  BY DEF Sends
<1>7. LiveSendMarked'
  <2>1. ASSUME NEW f \in Entry
        PROVE  Marked(f)'
    <3>1. CASE f # e
      <4>1. worker'[f] = worker[f]
        BY <1>0, <3>1, WorkersApart DEF Only
      <4> QED BY <1>2, <1>3, <4>1, MarkedByOthers
    <3>2. CASE f = e
      <4>1. Marked(e)
        BY MarkedAll DEF IInv
      <4>2. assured(e)' => assured(e)
        BY <1>2, AssuredBefore
      <4> QED BY <1>0, <3>2, <4>1, <4>2 DEF Marked
    <3> QED BY <3>1, <3>2
  <2> QED BY <2>1 DEF LiveSendMarked, Marked
<1>8. HooksWait
  BY <1>0, OnlyWaits
<1> QED BY <1>1, <1>2, <1>3, <1>4, <1>5, <1>6, <1>7, <1>8, HooksWaiting DEF DataKept

LEMMA EnqueueKeepsData ==
  ASSUME IInv, HooksAfterAck, NEW e \in Entry, NEW ok \in BOOLEAN, enqueue(e, ok)
  PROVE  TypeOK' /\ Structure' /\ DataKept /\ HooksStillDue' /\ HooksAfterAck'
<1>0. /\ TypeOK' /\ Only(e) /\ worker[e].pc = "idle"
      /\ claims' = claims /\ platform' = platform /\ hooks' = hooks /\ call' = call /\ faults <= faults'
      /\ \A f \in Entry : f # e => row'[f] = row[f]
      /\ row[e].status = "none" /\ row'[e].status \in {"none", "pending"}
      /\ row'[e].recoveryState = row[e].recoveryState
      /\ worker'[e].pc \in {"enqueued", "unit", "done"} /\ worker'[e].entry = e
      /\ worker'[e].unit = 1 /\ ~worker'[e].started
      /\ worker'[e].pc = "done" => row'[e].status = "none"
  BY Enqueue
<1>a. TypeOK /\ Structure /\ e \in Worker /\ worker[e].entry = e /\ worker[e].unit = 1
  BY IInvStructure, WorkersApart, SenderFacts, <1>0 DEF IInv
<1>1. Structure'
  BY <1>0, <1>a, EnqueueKeeps
<1>2. Grows
  BY <1>0, <1>a, GrowsByFrame
<1>3. Settling
  BY <1>0 DEF Settling, AckIsEarned
<1>4. LoopLeavesNone'
  <2>1. LeavesNone(e)'
    BY <1>0, <1>a, FreshLeaves
  <2> QED BY <1>0, <1>a, <1>2, <2>1, LeavesNoneByOne
<1>5. Replays
  BY <1>0, <1>a, SenderReplays
<1>6. Sends
  BY <1>0 DEF Sends
<1>7. LiveSendMarked'
  <2>1. ASSUME NEW f \in Entry
        PROVE  Marked(f)'
    <3>1. CASE f # e
      <4>1. worker'[f] = worker[f] /\ row'[f] = row[f] /\ platform'[f] = platform[f]
        BY <1>0, <3>1, WorkersApart DEF Only
      <4> QED BY <1>0, <1>2, <1>3, <4>1, MarkedByOthers
    <3>2. CASE f = e
      <4>1. Marked(e)
        BY MarkedAll DEF IInv
      <4>2. \A u \in 1 .. Units : platform[e].copies[u] = 0
        BY <4>1, <1>0, <1>a DEF Marked
      <4>3. platform[e].live = {}
        <5>1. platform[e].live \subseteq 1 .. Units
          BY <1>a DEF TypeOK, PlatformRecord
        <5> QED BY <5>1, <4>1, <4>2 DEF Marked
      <4> QED BY <1>0, <3>2, <4>2, <4>3 DEF Marked
    <3> QED BY <3>1, <3>2
  <2> QED BY <2>1 DEF LiveSendMarked, Marked
<1>8. HooksWait
  BY <1>0, <1>a, OnlyWaits
<1> QED BY <1>0, <1>1, <1>2, <1>3, <1>4, <1>5, <1>6, <1>7, <1>8, HooksWaiting DEF DataKept

(* The steps of a worker that goes on outside the loop.                    *)
LEMMA SteadyKeeps ==
  ASSUME IInv, TypeOK', HooksAfterAck, NEW w \in Worker, SteadyMove(w)
  PROVE  Structure' /\ DataKept /\ HooksStillDue' /\ HooksAfterAck'
<1> DEFINE e == worker[w].entry
<1>0. /\ TypeOK /\ Structure /\ Proceeds(w) /\ Only(w) /\ active(w) /\ worker[w].pc # "hooks"
      /\ platform' = platform /\ call' = call /\ hooks' = hooks /\ faults <= faults'
      /\ AckIsEarned(e) /\ e \in Entry /\ worker'[w].entry = e
  BY IInvStructure DEF SteadyMove, Steady, Proceeds, IInv, TypeOK, WorkerRecord
<1>1. Structure'
  BY <1>0, ProceedsKeeps
<1>2. Grows
  BY <1>0, GrowsByFrame
<1>3. RowMoves(e) /\ (row' = row \/ (owns(w) /\ RowMoves(e))) /\ (worker'[w].pc = "hooks" => owns(w))
  BY <1>0, RowUnchanged DEF Proceeds
<1>4. Settling
  BY <1>0, <1>3, SettlingByOne
<1>5. LoopLeavesNone'
  BY <1>0, <1>2, SteadyLeaves, LeavesNoneByOne
<1>6. Replays
  <2> SUFFICES ASSUME NEW p \in Pass, sending(p)'
               PROVE  LET f == worker[p].entry
                      IN  /\ worker'[p].entry = f /\ row[f].status = "pending"
                          /\ row'[f].recoveryState = row[f].recoveryState
                          /\ platform'[f].live = platform[f].live
                          /\ \/ sending(p)
                             \/ row[f].recoveryState = "none"
                             \/ /\ row[f].recoveryState = "send_attempt_started"
                                /\ out(f) = {} \/ call[f].lagging
    BY DEF Replays
  <2>0. p \in Worker
    BY WorkersApart
  <2>1. CASE p # w
    <3>1. worker'[p] = worker[p] /\ sending(p)
      BY <1>0, <2>0, <2>1 DEF Only, sending
    <3>2. owns(p) /\ row[worker[p].entry].status = "pending"
      BY <2>0, <3>1, LoopHolds, WorkersApart DEF owns
    <3>3. row'[worker[p].entry] = row[worker[p].entry]
      BY <1>0, <1>3, <2>0, <2>1, <3>2, OthersRows
    <3> QED BY <1>0, <3>1, <3>2, <3>3
  <2>2. CASE p = w
    <3>1. w \in Pass /\ w \notin Entry /\ worker'[w].pc \in {"unit", "calling", "committed"}
      BY <2>2, WorkersApart DEF sending
    <3>2. row[e].status = "pending"
      BY <1>0, <3>1 DEF Proceeds
    <3>3. /\ row' = row
          /\ \/ row[e].recoveryState = "none"
             \/ /\ row[e].recoveryState = "send_attempt_started"
                /\ out(e) = {} \/ call[e].lagging
      BY <3>1 DEF SteadyMove
    <3> QED BY <1>0, <2>2, <3>2, <3>3
  <2> QED BY <2>1, <2>2
<1>7. Sends
  BY <1>0, <1>3 DEF Sends, RowMoves
<1>8. LiveSendMarked'
  <2>1. ASSUME NEW f \in Entry
        PROVE  Marked(f)'
    <3>0. row[f].status = "none" => row'[f].status = "none"
      BY <1>3 DEF RowMoves
    <3>1. CASE f # w
      <4>1. worker'[f] = worker[f]
        BY <1>0, <3>1, WorkersApart DEF Only
      <4> QED BY <1>0, <1>2, <1>4, <3>0, <4>1, MarkedByOthers
    <3>2. CASE f = w
      <4>1. Marked(f) /\ w \in Entry /\ w \notin Pass /\ worker[w].pc # "done"
        BY <1>0, <3>2, MarkedAll, WorkersApart DEF IInv, active
      <4>2. /\ worker'[w].pc \in {"acking", "hooks"} /\ worker'[w].started = worker[w].started
            /\ worker'[w].durable = worker[w].durable
        BY <1>0, <4>1 DEF SteadyMove, Proceeds
      <4>3. assured(f)' => assured(f)
        BY <1>2, AssuredBefore
      <4>4. row[f].recoveryState # "none" => row'[f].recoveryState # "none"
        BY <1>4 DEF Settling
      <4> QED BY <1>0, <3>0, <3>2, <4>1, <4>2, <4>3, <4>4 DEF Marked
    <3> QED BY <3>1, <3>2
  <2> QED BY <2>1 DEF LiveSendMarked, Marked
<1>9. HooksWait
  <2>1. ASSUME NEW v \in Worker, worker'[v].pc = "hooks", worker'[v] # worker[v]
        PROVE  /\ worker'[v].entry = worker[v].entry /\ owns(v) /\ worker[v].pc # "hooks"
               /\ row'[worker[v].entry].status = "acked"
               /\ v \in Pass => row[worker[v].entry].status = "pending"
    <3>1. v = w
      BY <1>0, <2>1 DEF Only
    <3>2. owns(w) /\ worker[w].pc # "claimed" /\ row'[e].status = "acked"
      BY <1>3, <2>1, <3>1 DEF SteadyMove
    <3>3. w \in Pass => row[e].status = "pending"
      BY <1>0, <3>2, PassHas
    <3> QED BY <1>0, <3>1, <3>2, <3>3
  <2>2. \A f \in Entry : worker'[f].pc # "done" => worker[f].pc # "done"
    BY <1>0, WorkersApart DEF Only, active
  <2> QED BY <1>0, <2>1, <2>2 DEF HooksWait
<1> QED BY <1>1, <1>2, <1>4, <1>5, <1>6, <1>7, <1>8, <1>9, HooksWaiting DEF DataKept

(* The steps of the loop over the payloads.                                *)
LEMMA LoopFacts ==
  ASSUME IInv, TypeOK', NEW w \in Worker, LoopMove(w)
  PROVE  LET e == worker[w].entry
         IN  /\ Structure /\ TypeOK /\ e \in Entry /\ Proceeds(w) /\ Only(w) /\ active(w) /\ sending(w)
             /\ worker'[w].entry = e /\ worker'[w].durable = worker[w].durable
             /\ worker'[w].pc \in {"unit", "calling", "committed", "threw", "aborted"}
             /\ RowMoves(e) /\ (row' = row \/ (owns(w) /\ RowMoves(e)))
             /\ row[e].status \notin {"acked", "failed"}
             /\ w \in Entry => e = w /\ (row[w].status # "none" => worker[w].durable)
             /\ w \in Pass => worker[e].pc = "done"
<1> DEFINE e == worker[w].entry
<1>0. /\ Structure /\ TypeOK /\ e \in Entry /\ Proceeds(w) /\ Only(w) /\ active(w) /\ sending(w)
      /\ worker'[w].entry = e /\ worker'[w].durable = worker[w].durable
      /\ worker[w].pc # "hooks"
  BY IInvStructure DEF LoopMove, Proceeds, IInv, TypeOK, WorkerRecord
<1>1. worker'[w].pc \in {"unit", "calling", "committed", "threw", "aborted"} /\ RowMoves(e)
  BY DEF LoopMove
<1>2. row' = row \/ (owns(w) /\ RowMoves(e))
  BY <1>0 DEF Proceeds
<1>3. CASE w \in Entry
  <2>1. e = w /\ w \notin Pass
    BY <1>3, SenderFacts, WorkersApart DEF IInv
  <2>2. CASE worker[w].durable
    BY <1>0, <1>1, <1>2, <1>3, <2>1, <2>2, SenderHas
  <2>3. CASE ~worker[w].durable
    <3>1. row[w].status = "none"
      BY <1>0, <1>3, <2>3, SenderFacts DEF IInv
    <3> QED BY <1>0, <1>1, <1>2, <2>1, <3>1
  <2> QED BY <2>2, <2>3
<1>4. CASE w \notin Entry
  <2>1. w \in Pass
    BY <1>4, WorkersApart
  <2> QED BY <1>0, <1>1, <1>2, <1>4, <2>1, LoopHolds
<1> QED BY <1>3, <1>4

(* What the loop does to the platform, entry by entry.                     *)
LEMMA LoopPlatform ==
  ASSUME IInv, TypeOK', NEW w \in Worker, LoopMove(w), NEW f \in Entry
  PROVE  \/ platform'[f].copies = platform[f].copies /\ platform'[f].live = platform[f].live
         \/ /\ f = worker[w].entry /\ Puts(w) /\ worker'[w].pc = "committed"
            /\ worker[w].pc = "calling" /\ worker'[w].unit = worker[w].unit
            /\ worker'[w].started = worker[w].started
BY DEF LoopMove, Puts

LEMMA LoopReplays ==
  ASSUME IInv, TypeOK', NEW w \in Worker, LoopMove(w)
  PROVE  Replays
<1> SUFFICES ASSUME NEW p \in Pass, sending(p)'
             PROVE  /\ worker'[p].entry = worker[p].entry /\ sending(p)
                    /\ row[worker[p].entry].status = "pending"
                    /\ row'[worker[p].entry] = row[worker[p].entry]
                    /\ platform'[worker[p].entry].live = platform[worker[p].entry].live
  BY DEF Replays
<1>0. p \in Worker /\ p \notin Entry /\ worker[p].entry \in Entry
  BY WorkersApart DEF IInv, TypeOK, WorkerRecord
<1>1. /\ Structure /\ Only(w) /\ sending(w) /\ worker'[w].entry = worker[w].entry
      /\ row' = row \/ (owns(w) /\ RowMoves(worker[w].entry))
      /\ w \in Entry => worker[w].entry = w
  BY LoopFacts
<1>2. sending(p) /\ worker'[p].entry = worker[p].entry
  <2>1. CASE p = w
    BY <1>1, <2>1
  <2>2. CASE p # w
    BY <1>0, <1>1, <2>2 DEF Only, sending
  <2> QED BY <2>1, <2>2
<1>3. row[worker[p].entry].status = "pending" /\ worker[worker[p].entry].pc = "done" /\ owns(p)
  BY <1>0, <1>2, LoopHolds DEF owns
<1>4. row'[worker[p].entry] = row[worker[p].entry]
  <2>1. CASE p = w
    BY <2>1 DEF LoopMove
  <2>2. CASE p # w
    BY <1>0, <1>1, <1>3, <2>2, OthersRows
  <2> QED BY <2>1, <2>2
<1>5. platform'[worker[p].entry].live = platform[worker[p].entry].live
  <2>1. CASE w \in Entry
    <3>1. worker[p].entry # worker[w].entry
      BY <1>1, <1>3, <2>1 DEF sending
    <3> QED BY <1>0, <3>1, LoopPlatform
  <2>2. CASE w \notin Entry
    BY <1>0, <2>2, LoopPlatform DEF Puts
  <2> QED BY <2>1, <2>2
<1> QED BY <1>2, <1>3, <1>4, <1>5

LEMMA LoopSends ==
  ASSUME IInv, TypeOK', NEW w \in Worker, LoopMove(w)
  PROVE  Sends
<1> SUFFICES ASSUME NEW f \in Entry
             PROVE  \/ /\ platform'[f].copies = platform[f].copies /\ platform'[f].live = platform[f].live
                       /\ worker'[f].pc = "done" => (row'[f].status = "none" <=> row[f].status = "none")
                    \/ /\ row[f].status \notin {"acked", "failed"}
                       /\ worker'[f].pc # "done" \/ \E p \in Pass : sending(p)' /\ worker'[p].entry = f
  BY DEF Sends
<1>1. CASE platform'[f].copies = platform[f].copies /\ platform'[f].live = platform[f].live
  <2>1. row'[f].status = row[f].status
    BY DEF LoopMove
  <2> QED BY <1>1, <2>1
<1>2. CASE f = worker[w].entry /\ worker'[w].pc = "committed"
  <2>1. /\ row[f].status \notin {"acked", "failed"} /\ worker'[w].entry = f
        /\ w \in Entry => f = w
    BY <1>2, LoopFacts
  <2>2. CASE w \in Entry
    BY <1>2, <2>1, <2>2
  <2>3. CASE w \notin Entry
    <3>1. w \in Pass /\ sending(w)'
      BY <1>2, <2>3, WorkersApart DEF sending
    <3> QED BY <2>1, <3>1
  <2> QED BY <2>2, <2>3
<1> QED BY <1>1, <1>2, LoopPlatform

(* The markers of the sender that makes the step.                          *)
LEMMA LoopMarksOwn ==
  ASSUME IInv, TypeOK', NEW w \in Entry, LoopMove(w)
  PROVE  Marked(w)'
<1> DEFINE u == worker[w].unit
<1>0. /\ Marked(w) /\ w \in Worker /\ active(w) /\ worker[w].entry = w /\ w \notin Pass
      /\ worker[w].pc \in {"unit", "calling", "committed"} /\ u \in 1 .. Units + 1
      /\ worker'[w].durable = worker[w].durable
      /\ worker'[w].pc \in {"unit", "calling", "committed", "threw", "aborted"}
      /\ row[w].status # "none" => worker[w].durable
      /\ row'[w].status = row[w].status
  <2>0. w \in Worker /\ w \notin Pass
    BY WorkersApart
  <2>1. /\ active(w) /\ worker[w].entry = w /\ sending(w)
        /\ worker'[w].durable = worker[w].durable
        /\ worker'[w].pc \in {"unit", "calling", "committed", "threw", "aborted"}
        /\ row[w].status # "none" => worker[w].durable
    BY <2>0, LoopFacts
  <2>2. Marked(w) /\ u \in 1 .. Units + 1
    BY <2>0, MarkedAll DEF IInv, TypeOK, WorkerRecord
  <2>3. row'[w].status = row[w].status
    BY DEF LoopMove
  <2> QED BY <2>0, <2>1, <2>2, <2>3 DEF sending
<1>1. Grows
  BY <1>0, GrowsByLoop
<1>2. assured(w)' => assured(w)
  BY <1>1, AssuredBefore
<1>3. row[w].recoveryState # "none" => row'[w].recoveryState # "none"
  BY <1>0, LoopFacts DEF RowMoves
<1>p. \/ platform'[w].copies = platform[w].copies /\ platform'[w].live = platform[w].live
      \/ /\ Puts(w) /\ worker'[w].pc = "committed"
         /\ worker[w].pc = "calling" /\ worker'[w].unit = worker[w].unit
         /\ worker'[w].started = worker[w].started
  BY <1>0, LoopPlatform
<1>t. /\ platform[w].copies \in [1 .. Units -> 0 .. 2] /\ platform'[w].copies \in [1 .. Units -> 0 .. 2]
      /\ platform[w].live \subseteq 1 .. Units
  BY DEF IInv, TypeOK, PlatformRecord
<1>4. \A v \in platform'[w].live : platform'[w].copies[v] > 0
  <2>1. \A v \in platform[w].live : platform'[w].copies[v] > 0
    BY <1>0, <1>1, <1>t DEF Marked, Grows
  <2> QED BY <1>0, <1>p, <2>1 DEF Puts
<1>5. ASSUME NEW v \in 1 .. Units
      PROVE  /\ platform'[w].copies[v] <= 1
             /\ \/ worker'[w].pc \in {"idle", "enqueued", "unit", "calling"} /\ v >= worker'[w].unit
                \/ worker'[w].pc = "committed" /\ v > worker'[w].unit
                => platform'[w].copies[v] = 0
  <2>0. /\ platform[w].copies[v] <= 1
        /\ worker[w].pc \in {"unit", "calling"} /\ v >= u => platform[w].copies[v] = 0
        /\ worker[w].pc = "committed" /\ v > u => platform[w].copies[v] = 0
    BY <1>0 DEF Marked
  <2>1. CASE Puts(w) /\ worker'[w].pc = "committed" /\ worker[w].pc = "calling" /\ worker'[w].unit = u
    <3>1. CASE v = u
      <4>1. platform'[w].copies[v] = 1
        BY <1>0, <2>0, <2>1, <3>1 DEF Puts
      <4> QED BY <1>0, <2>1, <3>1, <4>1
    <3>2. CASE v # u
      <4>1. platform'[w].copies[v] = platform[w].copies[v]
        BY <1>0, <2>1, <3>2 DEF Puts
      <4>2. v > u => v >= u
        BY <1>0
      <4> QED BY <2>0, <2>1, <4>1, <4>2
    <3> QED BY <3>1, <3>2
  <2>2. CASE platform'[w].copies = platform[w].copies
    <3>1. CASE worker'[w].pc \in {"unit"} /\ worker'[w].unit = u + 1
      <4>1. v >= u + 1 => v > u /\ v >= u
        BY <1>0
      <4> QED BY <1>0, <2>0, <2>2, <3>1, <4>1
    <3>2. CASE worker'[w].pc \in {"threw", "aborted"}
      BY <2>0, <2>2, <3>2
    <3>3. CASE worker[w].pc = "unit" /\ worker'[w].pc = "calling" /\ worker'[w].unit = u
      BY <2>0, <2>2, <3>3
    <3>4. CASE Puts(w) /\ worker'[w].pc = "committed" /\ worker[w].pc = "calling" /\ worker'[w].unit = u
      BY <2>1, <3>4
    <3> QED BY <3>1, <3>2, <3>3, <3>4 DEF LoopMove
  <2> QED BY <1>p, <2>1, <2>2
<1>6. worker'[w].started => worker'[w].durable /\ row'[w].recoveryState # "none"
  BY <1>0, <1>3 DEF LoopMove, Marked
<1>7. worker'[w].durable /\ assured(w)' /\ worker'[w].pc \in {"calling", "committed"} => worker'[w].started
  <2>1. CASE worker'[w].pc = "calling"
    BY <1>0, <2>1 DEF LoopMove
  <2>2. CASE worker'[w].pc = "committed"
    <3>1. worker[w].pc = "calling" /\ worker'[w].started = worker[w].started
      BY <2>2 DEF LoopMove
    <3> QED BY <1>0, <1>2, <3>1 DEF Marked
  <2> QED BY <2>1, <2>2
<1>8. assured(w)' /\ row'[w].status # "none" /\ platform'[w].live # {} => row'[w].recoveryState # "none"
  <2>1. CASE platform'[w].live = platform[w].live
    BY <1>0, <1>2, <1>3, <2>1 DEF Marked
  <2>2. CASE worker[w].pc = "calling"
    BY <1>0, <1>2, <1>3, <2>2 DEF Marked
  <2> QED BY <1>p, <2>1, <2>2
<1> QED BY <1>4, <1>5, <1>6, <1>7, <1>8 DEF Marked

LEMMA LoopMarks ==
  ASSUME IInv, TypeOK', NEW w \in Worker, LoopMove(w), Grows, Settling
  PROVE  LiveSendMarked'
<1>1. ASSUME NEW f \in Entry
      PROVE  Marked(f)'
  <2>0. /\ Only(w) /\ (w \in Entry => worker[w].entry = w)
        /\ w \in Pass => worker[worker[w].entry].pc = "done"
        /\ f \in Worker /\ row'[f].status = row[f].status
    BY LoopFacts, WorkersApart DEF LoopMove
  <2>1. CASE f = w
    BY <2>1, LoopMarksOwn
  <2>2. CASE f # w
    <3>1. worker'[f] = worker[f]
      BY <2>0, <2>2 DEF Only
    <3>2. platform'[f].live = platform[f].live
      BY <2>0, <2>2, LoopPlatform DEF Puts
    <3>3. worker'[f].pc # "done" => platform'[f].copies = platform[f].copies
      BY <2>0, <2>2, <3>1, LoopPlatform, WorkersApart
    <3> QED BY <2>0, <3>1, <3>2, <3>3, MarkedByOthers
  <2> QED BY <2>1, <2>2
<1> QED BY <1>1 DEF LiveSendMarked, Marked

LEMMA LoopKeeps ==
  ASSUME IInv, TypeOK', HooksAfterAck, NEW w \in Worker, LoopMove(w)
  PROVE  Structure' /\ DataKept /\ HooksStillDue' /\ HooksAfterAck'
<1>0. /\ Structure /\ TypeOK /\ Proceeds(w) /\ Only(w) /\ RowMoves(worker[w].entry) /\ worker[w].entry \in Entry
      /\ worker'[w].pc # "hooks" /\ worker[w].pc # "done" /\ hooks' = hooks
      /\ AckIsEarned(worker[w].entry)
  BY LoopFacts DEF active, LoopMove, AckIsEarned
<1>1. Structure'
  BY <1>0, ProceedsKeeps
<1>2. Grows
  BY GrowsByLoop
<1>3. Settling
  BY <1>0, SettlingByOne
<1>4. LoopLeavesNone'
  BY <1>0, <1>2, LoopLeaves, LeavesNoneByOne
<1>5. LiveSendMarked'
  BY <1>2, <1>3, LoopMarks
<1>6. HooksWait
  BY <1>0, OnlyWaits
<1> QED BY <1>1, <1>2, <1>3, <1>4, <1>5, <1>6, LoopReplays, LoopSends, HooksWaiting DEF DataKept

-----------------------------------------------------------------------------
(* The inductive invariant of the specification: the queue's safety and    *)
(* that a live send is not repeated, which lean on each other.             *)
QueueInv == QueueSafe /\ LiveSendNotRepeated

LEMMA InitQueue == Init => QueueInv
<1> SUFFICES ASSUME Init PROVE QueueInv
  OBVIOUS
<1> DEFINE hand(w) == IF w \in Entry THEN w ELSE AnyEntry
<1>0. /\ row = [e \in Entry |-> NoRow] /\ claims = {}
      /\ worker = [w \in Worker |-> atRest(hand(w), "idle")]
      /\ platform = [e \in Entry |-> [copies |-> [u \in 1 .. Units |-> 0], live |-> {}, suppressed |-> {}]]
      /\ hooks = [e \in Entry |-> 0] /\ crashes = 0 /\ faults = 0
  BY DEF Init
<1>h. \A w \in Worker : hand(w) \in Entry
  BY AnyEntryIsEntry
<1>w. \A w \in Worker : /\ worker[w] \in WorkerRecord /\ worker[w].pc = "idle" /\ worker[w].entry = hand(w)
                        /\ worker[w].durable = FALSE /\ worker[w].todo = {} /\ worker[w].unit = 1
                        /\ worker[w].started = FALSE
  <2> HIDE DEF hand
  <2> SUFFICES ASSUME NEW w \in Worker
               PROVE  LET x == atRest(hand(w), "idle")
                      IN  /\ x \in WorkerRecord /\ x.pc = "idle" /\ x.entry = hand(w)
                          /\ x.durable = FALSE /\ x.todo = {} /\ x.unit = 1 /\ x.started = FALSE
    BY <1>0
  <2>1. hand(w) \in Entry
    BY <1>h
  <2>2. atRest(hand(w), "idle") \in WorkerRecord
    BY <2>1, AtRest
  <2> QED BY <2>2 DEF atRest
<1>e. \A e \in Entry : e \in Worker /\ worker[e].entry = e
  BY <1>w, WorkersApart
<1>r. \A e \in Entry : row[e] = NoRow /\ row[e].status = "none" /\ row[e].retryCount = 0
  BY <1>0 DEF NoRow
<1>p. \A e \in Entry : /\ platform[e] \in PlatformRecord /\ platform[e].live = {}
                       /\ \A u \in 1 .. Units : platform[e].copies[u] = 0
  BY <1>0 DEF PlatformRecord
<1>c. call \in [Entry -> CallRecord]
  <2>1. [bestEffort : BestEffort, queuePolicy : QueuePolicy, reconciles : Reconciles,
         lagging : Lagging, aborted : {FALSE}] \subseteq CallRecord
    BY DEF CallRecord
  <2> QED BY <2>1 DEF Init
<1>1. TypeOK
  <2>1. worker \in [Worker -> WorkerRecord]
    BY <1>0, <1>w
  <2>2. row \in [Entry -> RowRecord]
    BY <1>0, NoRowType
  <2>3. platform \in [Entry -> PlatformRecord]
    BY <1>0, <1>p
  <2>4. hooks \in [Entry -> 0 .. 2] /\ crashes \in 0 .. MaxCrashes /\ faults \in 0 .. MaxFaults
    BY <1>0
  <2> QED BY <1>0, <1>c, <2>1, <2>2, <2>3, <2>4 DEF TypeOK
<1> HIDE DEF hand
<1>a. \A w \in Worker : ~active(w) /\ ~owns(w) /\ ~sending(w)
  BY <1>w DEF active, owns, sending
<1>2. ClaimsOwned /\ ExclusiveOwner /\ OwnedRow
  BY <1>0, <1>a DEF ClaimsOwned, ExclusiveOwner, OwnedRow
<1>3. RetriesBounded
  BY <1>r DEF RetriesBounded
<1>4. SendersOwn
  BY <1>w, <1>e, <1>r, <1>a DEF SendersOwn
<1>5. PassesFollow
  BY <1>w, <1>a, WorkersApart DEF PassesFollow
<1>6. LoopLeavesNone
  BY <1>w DEF LoopLeavesNone, sending
<1>7. HooksStillDue /\ HooksAfterAck
  BY <1>0, <1>w DEF HooksStillDue, HooksAfterAck
<1>8. LiveSendMarked
  BY <1>e, <1>w, <1>a, <1>r, <1>p DEF LiveSendMarked
<1>9. ReplaysOnlyUnsent /\ EvidenceNotReplayed
  BY <1>a, WorkersApart DEF ReplaysOnlyUnsent, EvidenceNotReplayed
<1>10. AckedMeansDelivered /\ LiveSendNotRepeated
  BY <1>r DEF AckedMeansDelivered, LiveSendNotRepeated
<1> QED BY <1>1, <1>2, <1>3, <1>4, <1>5, <1>6, <1>7, <1>8, <1>9, <1>10 DEF QueueInv, QueueSafe, IInv

(* What every action leaves.                                               *)
LEMMA ActionKeeps ==
  ASSUME IInv, HooksAfterAck, Next
  PROVE  TypeOK' /\ Structure' /\ DataKept /\ HooksStillDue' /\ HooksAfterAck'
<1> DEFINE Kept == TypeOK' /\ Structure' /\ DataKept /\ HooksStillDue' /\ HooksAfterAck'
<1> HIDE DEF Kept
<1>1. ASSUME NEW w \in Worker, coreStep(w)
      PROVE  Kept
  <2>1. CASE commitHooks(w)
    BY <2>1, CommitHooks, ReturnsKeeps DEF Kept
  <2>2. CASE \/ throwIfAborted(w) \/ suppress(w) \/ startUnit(w) \/ accept(w) \/ unitFails(w)
             \/ \E ok \in BOOLEAN : markAndStartUnit(w, ok) \/ unitReturns(w, ok)
    <3>1. TypeOK' /\ LoopMove(w)
      BY <2>2, LoopMoves
    <3> QED BY <3>1, LoopKeeps DEF Kept
  <2> QED BY <1>1, <2>1, <2>2 DEF coreStep
<1>2. ASSUME NEW e \in Entry, liveStep(e)
      PROVE  Kept
  <2>0. e \in Worker
    BY WorkersApart
  <2>1. CASE liveClaim(e)
    <3>1. /\ TypeOK' /\ UNCHANGED <<row, call, platform, hooks, faults>>
          /\ \/ Leaves(e)
             \/ /\ Takes(e, e) /\ worker'[e].unit = worker[e].unit
                /\ worker'[e].started = worker[e].started
      BY <2>1, LiveClaim
    <3> QED BY <3>1, LeavesKeepsData, SenderTakesKeeps DEF Kept
  <2>2. ASSUME NEW ok \in BOOLEAN, enqueue(e, ok)
        PROVE  Kept
    BY <2>2, EnqueueKeepsData DEF Kept
  <2>3. CASE \/ directReturns(e) \/ directThrew(e)
             \/ \E ok \in BOOLEAN :
                  \/ partialFailure(e, ok) \/ markOutcomeUnknown(e, ok) \/ liveAck(e, ok) \/ liveAborted(e, ok)
                  \/ \E ok2 \in BOOLEAN : liveThrew(e, ok, ok2)
    <3>1. TypeOK' /\ (Returns(e) \/ SteadyMove(e))
      BY <2>3, LiveKinds
    <3> QED BY <2>0, <3>1, ReturnsKeeps, SteadyKeeps DEF Kept
  <2> QED BY <1>2, <2>1, <2>2, <2>3 DEF liveStep
<1>3. ASSUME NEW e \in Entry, abort(e) \/ backoffElapses(e)
      PROVE  Kept
  <2>0. TypeOK /\ faults \in Nat /\ faults <= faults
    BY DEF IInv, TypeOK
  <2>1. CASE abort(e)
    <3>1. /\ TypeOK' /\ Waits /\ UNCHANGED <<row, platform, hooks, faults>>
          /\ \A f \in Entry : /\ call'[f].bestEffort = call[f].bestEffort
                              /\ call'[f].queuePolicy = call[f].queuePolicy
                              /\ call'[f].lagging = call[f].lagging
                              /\ call[f].aborted => call'[f].aborted
      BY <2>1, Abort
    <3>2. Grows
      BY <2>0, <3>1 DEF Grows
    <3> QED BY <3>1, <3>2, WaitsKeepsData DEF Kept
  <2>2. CASE backoffElapses(e)
    <3>1. TypeOK' /\ Waits /\ UNCHANGED <<call, platform, hooks, faults>>
      BY <2>2, BackoffElapses
    <3>2. Grows
      BY <2>0, <3>1, GrowsByFrame
    <3> QED BY <3>1, <3>2, WaitsKeepsData DEF Kept
  <2> QED BY <1>3, <2>1, <2>2
<1>4. ASSUME NEW p \in Pass, beginPass(p) \/ passStep(p)
      PROVE  Kept
  <2>0. p \in Worker
    BY WorkersApart
  <2>1. /\ TypeOK'
        /\ \/ Returns(p) \/ SteadyMove(p) \/ Idles(p)
           \/ \E e \in Entry : /\ Takes(p, e) /\ worker'[p].unit = 1
                               /\ UNCHANGED <<row, call, platform, hooks, faults>>
    BY <1>4, PassKinds
  <2>2. CASE Returns(p)
    BY <2>0, <2>1, <2>2, ReturnsKeeps DEF Kept
  <2>3. CASE SteadyMove(p)
    BY <2>0, <2>1, <2>3, SteadyKeeps DEF Kept
  <2>4. CASE Idles(p)
    BY <2>1, <2>4, IdlesKeeps DEF Kept
  <2>5. ASSUME NEW e \in Entry, Takes(p, e), worker'[p].unit = 1,
               UNCHANGED <<row, call, platform, hooks, faults>>
        PROVE  Kept
    BY <2>1, <2>5, PassTakesKeeps DEF Kept
  <2> QED BY <2>1, <2>2, <2>3, <2>4, <2>5
<1>5. crash => Kept
  BY CrashKeepsData DEF Kept
<1>6. Kept
  BY <1>1, <1>2, <1>3, <1>4, <1>5 DEF Next
<1> QED BY <1>6 DEF Kept

LEMMA StepKeeps ==
  ASSUME QueueInv, Next
  PROVE  QueueInv'
<1>0. IInv /\ TypeOK /\ HooksAfterAck /\ AckedMeansDelivered /\ EvidenceNotReplayed /\ LiveSendNotRepeated
  BY DEF QueueInv, QueueSafe, IInv
<1>1. TypeOK' /\ Structure' /\ DataKept /\ HooksStillDue' /\ HooksAfterAck'
  BY <1>0, ActionKeeps
<1>2. Grows /\ Settling /\ Replays /\ Sends /\ LoopLeavesNone' /\ LiveSendMarked'
  BY <1>1 DEF DataKept
<1>3. ReplaysOnlyUnsent'
  BY <1>0, <1>1, <1>2, ReplaysKeep
<1>4. EvidenceNotReplayed'
  BY <1>0, <1>2, EvidenceKept
<1>5. AckedMeansDelivered'
  BY <1>0, <1>1, <1>2, AckedStaysDelivered
<1>6. LiveSendNotRepeated'
  BY <1>0, <1>1, <1>2, <1>3, NotRepeated
<1>7. IInv'
  BY <1>1, <1>2, <1>3 DEF IInv, Structure
<1> QED BY <1>1, <1>4, <1>5, <1>6, <1>7 DEF QueueInv, QueueSafe

LEMMA StutterKeeps ==
  ASSUME QueueInv, UNCHANGED vars
  PROVE  QueueInv'
BY DEF vars, QueueInv, QueueSafe, IInv, TypeOK, ClaimsOwned, ExclusiveOwner, OwnedRow, RetriesBounded,
  SendersOwn, PassesFollow, LoopLeavesNone, HooksStillDue, LiveSendMarked, ReplaysOnlyUnsent,
  AckedMeansDelivered, HooksAfterAck, EvidenceNotReplayed, LiveSendNotRepeated,
  owns, active, sending, assured, out

(* The inductive invariant holds for every number of deliveries, drains,   *)
(* payloads, retries, crashes and storage faults (deliver.ts,              *)
(* delivery-queue-recovery.ts): QueueSafe and LiveSendNotRepeated hold in  *)
(* every state, one by the other.                                          *)
THEOREM QueueInvariant == Spec => []QueueInv
<1>1. QueueInv /\ [Next]_vars => QueueInv'
  BY StepKeeps, StutterKeeps
<1> QED BY InitQueue, <1>1, PTL DEF Spec

(* At every crash, fault and overlap of live senders, startup pass and     *)
(* drains an entry has one owner, whose claim is given back, keeps to its  *)
(* retry budget, is acked only when it is out, was cancelled, aborted or   *)
(* sent with best effort, has its commit hooks run at most once and after  *)
(* the ack, and is not replayed over evidence that it is out               *)
(* (deliverOutboundPayloadsWithQueueCleanup, drainQueuedEntry).            *)
THEOREM QueueIsSafe == Spec => []QueueSafe
<1>1. QueueInv => QueueSafe
  BY DEF QueueInv
<1> QED BY QueueInvariant, <1>1, PTL

(* What a live sender put on the platform no recovery puts there again,    *)
(* given an adapter that finds what is out and the marker the required     *)
(* policy or a working storage assures                                     *)
(* (markQueuedPlatformSendAttemptStarted).                                 *)
THEOREM QueueLiveSendNotRepeated == Spec => []LiveSendNotRepeated
<1>1. QueueInv => LiveSendNotRepeated
  BY DEF QueueInv
<1> QED BY QueueInvariant, <1>1, PTL

(* An entry that was acked or moved to failed stays so, and nothing of it  *)
(* is sent from then on, whatever snapshots the passes still work off      *)
(* (loadPendingDelivery after the claim).                                  *)
THEOREM QueueSettledIsFinal == Spec => SettledIsFinal
<1> DEFINE Final == \A e \in Entry :
                      row[e].status \in {"acked", "failed"}
                      => row'[e].status = row[e].status /\ platform'[e].copies = platform[e].copies
<1>1. QueueInv /\ [Next]_vars => [Final]_vars
  <2> SUFFICES ASSUME QueueInv, Next PROVE Final
    OBVIOUS
  <2>1. DataKept
    BY ActionKeeps DEF QueueInv, QueueSafe
  <2>2. Settling /\ Sends
    BY <2>1 DEF DataKept
  <2> QED BY <2>2 DEF Settling, Sends
<1> QED BY QueueInvariant, <1>1, PTL DEF Spec, SettledIsFinal
=============================================================================
