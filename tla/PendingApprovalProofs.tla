----------------------- MODULE PendingApprovalProofs -----------------------
(***************************************************************************)
(* The approvals for any number of requests, operators, waiters and ids,   *)
(* whatever the requests' ids, routes and allowed decisions are.           *)
(*                                                                         *)
(* The invariant has five parts: the records and the map (RecordsOK), the  *)
(* request handlers (CallsOK), those who hold a record (HoldersOK), the    *)
(* forwarder (ForwarderOK) and what ties the forwarder to the records      *)
(* (LinksOK).  A step changes the records in one of few ways (settles,     *)
(* registers, sweeps, consumes), and the forwarder in one of few ways; the *)
(* lemmas are about those, and each action is a combination of them.       *)
(***************************************************************************)
EXTENDS PendingApproval, SequenceTheorems, TLAPS

USE ForwarderAssumption, ApprovalAssumption

-----------------------------------------------------------------------------
RecordsOK ==
  /\ pending \in [Id -> Request \cup {None}]
  /\ rec \in [Request -> Record]
  /\ used \in [Request -> [once: 0..MaxRuns, always: 0..MaxRuns, fallback: 0..MaxRuns]]
  /\ PendingOwned /\ MapNamesRecords /\ RecordTellsPromise
  /\ SettlerMayDecide /\ RunsAreRecorded

CallsOK ==
  /\ call \in [Request -> Handler]
  /\ HandlerOwnsRecord /\ HandlerIsSilent /\ NeverJoined /\ AbortedUnanswered

HoldersOK ==
  /\ op \in [Operator -> Resolver]
  /\ waiter \in [Waiter -> Waiting]
  /\ HoldersHoldRecords /\ ReplyTellsOutcome

ForwarderOK == ForwarderTypeOK /\ EntriesAreOpen /\ PromptComesFirst /\ NoLatePrompt

LinksOK == ClosedIsSettled /\ PromptIsHeld

(* ApprovalSafe is its five parts.                                         *)
LEMMA PartsOfSafe ==
  ApprovalSafe <=> RecordsOK /\ CallsOK /\ HoldersOK /\ ForwarderOK /\ LinksOK
BY DEF ApprovalSafe, IInv, TypeOK, RecordsOK, CallsOK, HoldersOK, ForwarderOK, LinksOK

-----------------------------------------------------------------------------
(* The ways a step changes the records.                                    *)

\* What the settlement of r left is still there.
Stands(r) == rec[r].promise # Unset =>
  /\ rec'[r].promise = rec[r].promise
  /\ rec'[r].by = rec[r].by
  /\ rec'[r].state = "resolved"
  /\ recorded(rec'[r]) = recorded(rec[r])

\* No record begins in this step, and settled ones stay as they are.
Kept == \A r \in Request :
  /\ Stands(r)
  /\ rec[r].state = "none" => rec'[r] = rec[r]
  /\ rec[r].state # "none" => rec'[r].state # "none"
  /\ rec'[r].state = "pending" => rec[r].state = "pending"

\* The record x is settled with d by `by'.
Settles(x, d, by) ==
  /\ x \in Request /\ pending[IdOf[x]] = x /\ rec[x].state = "pending"
  /\ d \in Verdict \cup {Null}
  /\ by \in Settler
  /\ d = "allow-once" => by \in Operator
  /\ by = "request-aborted" => d = "deny"
  /\ rec' = [rec EXCEPT ![x] = settled(rec[x], d, by)]
  /\ pending' = pending /\ used' = used

(* A step without a change of the records.                                 *)
LEMMA RecordsUnchanged ==
  ASSUME RecordsOK, UNCHANGED <<pending, rec, used>>
  PROVE  RecordsOK' /\ Kept
<1>1. RecordsOK'
  BY DEF RecordsOK, PendingOwned, MapNamesRecords, RecordTellsPromise, SettlerMayDecide,
         RunsAreRecorded
<1>2. Kept
  BY DEF Kept, Stands, RecordsOK, RecordTellsPromise
<1> QED BY <1>1, <1>2

(* A settlement keeps the records and stands from then on.                 *)
LEMMA SettlementKept ==
  ASSUME RecordsOK, NEW x, NEW d, NEW by, Settles(x, d, by)
  PROVE  RecordsOK' /\ Kept
<1> DEFINE y == settled(rec[x], d, by)
<1>1. /\ x \in Request /\ pending[IdOf[x]] = x /\ rec[x].state = "pending"
      /\ d \in Verdict \cup {Null} /\ by \in Settler
      /\ d = "allow-once" => by \in Operator
      /\ by = "request-aborted" => d = "deny"
      /\ rec' = [rec EXCEPT ![x] = y]
      /\ pending' = pending /\ used' = used
  BY DEF Settles
<1>2. /\ rec \in [Request -> Record] /\ pending \in [Id -> Request \cup {None}]
      /\ rec[x] \in Record
  BY <1>1 DEF RecordsOK
<1>3. /\ y \in Record /\ y.state = "resolved" /\ y.timer = FALSE /\ y.by = by /\ y.promise = d
      /\ y.decision = (IF d = Null THEN None ELSE d)
      /\ y.consumed = rec[x].consumed
  <2>1. rec[x] \in Record /\ d \in Verdict \cup {Null} /\ by \in Settler
    BY <1>1, <1>2
  <2> QED BY <2>1 DEF Record, settled, Verdict, Null
<1>4. rec[x].promise = Unset /\ rec[x].decision = None /\ rec[x].consumed = None
  <2>1. rec[x].promise = Unset
    BY <1>1 DEF RecordsOK, RecordTellsPromise
  <2> QED BY <1>1, <2>1 DEF RecordsOK, RecordTellsPromise, Verdict, Unset
<1> HIDE DEF y
<1>5. /\ rec' \in [Request -> Record] /\ rec'[x] = y
      /\ \A r \in Request : r # x => rec'[r] = rec[r]
  BY <1>1, <1>2, <1>3
<1>6. PendingOwned'
  BY <1>1, <1>3, <1>5 DEF RecordsOK, PendingOwned
<1>7. MapNamesRecords'
  BY <1>1, <1>2, <1>3, <1>5 DEF RecordsOK, MapNamesRecords
<1>8. RecordTellsPromise'
  <2> SUFFICES ASSUME NEW r \in Request
               PROVE  /\ (rec'[r].state = "resolved") <=> (rec'[r].promise # Unset)
                      /\ rec'[r].promise \in Verdict => recorded(rec'[r]) = rec'[r].promise
                      /\ rec'[r].promise \notin Verdict =>
                           rec'[r].decision = None /\ rec'[r].consumed = None
                      /\ rec'[r].consumed \in {None, "allow-once"}
    BY DEF RecordTellsPromise
  <2>1. CASE r # x
    BY <1>1, <1>5, <2>1 DEF RecordsOK, RecordTellsPromise
  <2>2. CASE r = x
    <3>1. d # Unset
      BY <1>1 DEF Verdict, Null, Unset
    <3>2. d \in Verdict => d # Null /\ d # None
      BY DEF Verdict, Null
    <3> QED BY <1>1, <1>3, <1>4, <1>5, <2>2, <3>1, <3>2 DEF recorded, Verdict, Null
  <2> QED BY <2>1, <2>2
<1>9. SettlerMayDecide'
  BY <1>1, <1>3, <1>5 DEF RecordsOK, SettlerMayDecide
<1>10. RunsAreRecorded'
  <2> SUFFICES ASSUME NEW r \in Request
               PROVE  /\ used[r].once <= 1
                      /\ used[r].once > 0 =>
                           rec'[r].consumed = "allow-once" /\ rec'[r].decision = None
                      /\ used[r].always > 0 => rec'[r].promise = "allow-always"
                      /\ used[r].fallback > 0 => rec'[r].promise = Null
    BY <1>1 DEF RunsAreRecorded
  <2>1. CASE r # x
    BY <1>5, <2>1 DEF RecordsOK, RunsAreRecorded
  <2>2. CASE r = x
    BY <1>4, <1>5, <2>2 DEF RecordsOK, RunsAreRecorded, Unset, Null
  <2> QED BY <2>1, <2>2
<1>11. Kept
  BY <1>1, <1>3, <1>4, <1>5 DEF Kept, Stands, RecordsOK, RecordTellsPromise
<1> QED BY <1>1, <1>2, <1>5, <1>6, <1>7, <1>8, <1>9, <1>10, <1>11 DEF RecordsOK

(* What resolve and expire do to the records: nothing, or one settlement   *)
(* of the record the id names.                                             *)
LEMMA SettleSettles ==
  ASSUME RecordsOK, NEW i \in Id, NEW d \in Verdict \cup {Null}, NEW by \in Settler,
         d = "allow-once" => by \in Operator,
         by = "request-aborted" => d = "deny",
         rec' = settle(pending, rec, i, d, by), UNCHANGED <<pending, used>>
  PROVE  /\ settles(pending, rec, i) => Settles(pending[i], d, by)
         /\ ~settles(pending, rec, i) => UNCHANGED <<pending, rec, used>>
<1>1. CASE settles(pending, rec, i)
  <2>1. /\ pending[i] \in Request /\ IdOf[pending[i]] = i
        /\ rec[pending[i]].state = "pending"
    BY <1>1 DEF settles, RecordsOK, MapNamesRecords
  <2> QED BY <1>1, <2>1 DEF settle, Settles
<1>2. CASE ~settles(pending, rec, i)
  BY <1>2 DEF settle
<1> QED BY <1>1, <1>2

(* The record's own timer settles the record it was armed for.             *)
LEMMA ExpirySettles ==
  ASSUME RecordsOK, NEW r \in Request, expire(r)
  PROVE  Settles(r, Null, None)
<1> DEFINE rc == [rec EXCEPT ![r].timer = FALSE]
<1>1. /\ rec[r].state = "pending" /\ pending[IdOf[r]] = r /\ rec \in [Request -> Record]
      /\ rec[r] \in Record
  BY DEF expire, RecordsOK, PendingOwned
<1>2. /\ rc \in [Request -> Record] /\ rc[r] = [rec[r] EXCEPT !.timer = FALSE]
      /\ rc[r].state = "pending"
      /\ \A q \in Request : q # r => rc[q] = rec[q]
  BY <1>1 DEF Record
<1>3. settled(rc[r], Null, None) = settled(rec[r], Null, None)
  <2>1. ASSUME NEW e \in Record
        PROVE  settled([e EXCEPT !.timer = FALSE], Null, None) = settled(e, Null, None)
    BY DEF settled, Record
  <2> QED BY <1>1, <1>2, <2>1
<1>4. rec' = [rc EXCEPT ![r] = settled(rc[r], Null, None)]
  BY <1>1, <1>2 DEF expire, settle, settles
<1>5. rec' = [rec EXCEPT ![r] = settled(rec[r], Null, None)]
  <2> HIDE DEF rc
  <2> QED BY <1>1, <1>2, <1>3, <1>4
<1> QED BY <1>1, <1>5 DEF Settles, Settler, Verdict, Null, expire

-----------------------------------------------------------------------------
NewPending == [NewRecord EXCEPT !.state = "pending", !.timer = TRUE]

\* r gets its record y under its own id.
Registers(r, y) ==
  /\ r \in Request /\ rec[r] = NewRecord /\ pending[IdOf[r]] = None
  /\ y \in {NewPending, settled(NewPending, Null, "no-approval-route")}
  /\ pending' = [pending EXCEPT ![IdOf[r]] = r]
  /\ rec' = [rec EXCEPT ![r] = y]
  /\ used' = used

(* A registration keeps the records, and touches no other one.             *)
LEMMA RegistrationKept ==
  ASSUME RecordsOK, NEW x, NEW y, Registers(x, y)
  PROVE  /\ RecordsOK'
         /\ rec'[x] = y /\ y.state # "none"
         /\ \A r \in Request : Stands(r)
         /\ \A r \in Request : r # x => rec'[r] = rec[r]
<1>1. /\ x \in Request /\ IdOf[x] \in Id /\ rec[x] = NewRecord /\ pending[IdOf[x]] = None
      /\ pending' = [pending EXCEPT ![IdOf[x]] = x]
      /\ rec' = [rec EXCEPT ![x] = y]
      /\ used' = used
      /\ rec \in [Request -> Record] /\ pending \in [Id -> Request \cup {None}]
  BY DEF Registers, RecordsOK
<1>2. /\ y \in Record /\ y.state # "none" /\ (y.timer <=> y.state = "pending")
      /\ (y.state = "resolved") <=> (y.promise # Unset)
      /\ y.promise \in {Unset, Null} /\ y.decision = None /\ y.consumed = None
      /\ y.by # "request-aborted"
  <2>1. CASE y = NewPending
    BY <2>1 DEF NewPending, NewRecord, Record, Unset, Settler
  <2>2. CASE y = settled(NewPending, Null, "no-approval-route")
    BY <2>2 DEF NewPending, NewRecord, settled, Record, Unset, Null, Settler
  <2> QED BY <2>1, <2>2 DEF Registers
<1>3. /\ rec' \in [Request -> Record] /\ rec'[x] = y
      /\ \A r \in Request : r # x => rec'[r] = rec[r]
      /\ pending' \in [Id -> Request \cup {None}] /\ pending'[IdOf[x]] = x
      /\ \A i \in Id : i # IdOf[x] => pending'[i] = pending[i]
  BY <1>1, <1>2
<1>4. rec[x].promise = Unset /\ rec[x].consumed = None
  BY <1>1 DEF NewRecord
<1>5. PendingOwned'
  BY <1>1, <1>2, <1>3 DEF RecordsOK, PendingOwned
<1>6. MapNamesRecords'
  BY <1>1, <1>2, <1>3 DEF RecordsOK, MapNamesRecords
<1>7. RecordTellsPromise'
  <2>1. y.promise \notin Verdict
    BY <1>2 DEF Verdict, Unset, Null
  <2> QED BY <1>2, <1>3, <2>1 DEF RecordsOK, RecordTellsPromise, recorded
<1>8. SettlerMayDecide'
  BY <1>2, <1>3 DEF RecordsOK, SettlerMayDecide, Unset, Null
<1>9. RunsAreRecorded'
  <2>1. used[x].once <= 1 /\ ~(used[x].once > 0) /\ ~(used[x].always > 0) /\ ~(used[x].fallback > 0)
    BY <1>1, <1>4 DEF RecordsOK, RunsAreRecorded, Unset, Null
  <2> QED BY <1>1, <1>3, <2>1 DEF RecordsOK, RunsAreRecorded
<1>10. \A r \in Request : Stands(r)
  BY <1>3, <1>4 DEF Stands, RecordsOK, RecordTellsPromise
<1> QED BY <1>1, <1>2, <1>3, <1>5, <1>6, <1>7, <1>8, <1>9, <1>10 DEF RecordsOK

(* The clean-up of a settled record.                                       *)
LEMMA SweepKept ==
  ASSUME RecordsOK, NEW x \in Request, sweep(x)
  PROVE  RecordsOK' /\ Kept
<1>1. /\ IdOf[x] \in Id /\ rec[x].state = "resolved"
      /\ rec' = [rec EXCEPT ![x].swept = TRUE]
      /\ pending' = IF pending[IdOf[x]] = x THEN [pending EXCEPT ![IdOf[x]] = None] ELSE pending
      /\ used' = used
      /\ rec \in [Request -> Record] /\ pending \in [Id -> Request \cup {None}]
  BY DEF sweep, sweepable, RecordsOK
<1>2. /\ rec' \in [Request -> Record]
      /\ \A r \in Request : r # x => rec'[r] = rec[r]
      /\ rec'[x].state = rec[x].state /\ rec'[x].promise = rec[x].promise
      /\ rec'[x].by = rec[x].by /\ rec'[x].decision = rec[x].decision
      /\ rec'[x].consumed = rec[x].consumed
  <2> DEFINE y == [rec[x] EXCEPT !.swept = TRUE]
  <2>0. rec[x] \in Record
    BY <1>1
  <2>1. y \in Record
    BY <2>0 DEF Record
  <2>2. /\ y.state = rec[x].state /\ y.promise = rec[x].promise
        /\ y.by = rec[x].by /\ y.decision = rec[x].decision
        /\ y.consumed = rec[x].consumed
    BY <2>0 DEF Record
  <2>3. rec' = [rec EXCEPT ![x] = y] /\ rec \in [Request -> Record]
    BY <1>1
  <2> HIDE DEF y
  <2> QED BY <2>1, <2>2, <2>3
<1>3. rec'[x].timer <=> rec[x].timer
  BY <1>1 DEF Record
<1>4. /\ pending' \in [Id -> Request \cup {None}]
      /\ \A i \in Id : pending'[i] = pending[i] \/ (pending[i] = x /\ pending'[i] = None)
  BY <1>1
<1>5. PendingOwned'
  BY <1>1, <1>2, <1>3, <1>4 DEF RecordsOK, PendingOwned
<1>6. MapNamesRecords'
  BY <1>1, <1>2, <1>4 DEF RecordsOK, MapNamesRecords
<1>7. RecordTellsPromise'
  BY <1>2 DEF RecordsOK, RecordTellsPromise, recorded
<1>8. SettlerMayDecide' /\ RunsAreRecorded'
  BY <1>1, <1>2 DEF RecordsOK, SettlerMayDecide, RunsAreRecorded
<1>9. Kept
  BY <1>1, <1>2 DEF Kept, Stands, recorded, RecordsOK, RecordTellsPromise
<1> QED BY <1>1, <1>2, <1>4, <1>5, <1>6, <1>7, <1>8, <1>9 DEF RecordsOK

(* A run on a node.                                                        *)
LEMMA NodeRunKept ==
  ASSUME RecordsOK, NEW i \in Id, nodeRun(i)
  PROVE  RecordsOK' /\ Kept
<1> DEFINE x == pending[i]
<1>1. /\ x \in Request /\ pending' = pending
      /\ pending \in [Id -> Request \cup {None}] /\ rec \in [Request -> Record]
      /\ rec[x] \in Record
  BY DEF nodeRun, getSnapshot, RecordsOK
<1>2. /\ used \in [Request -> [once: 0..MaxRuns, always: 0..MaxRuns, fallback: 0..MaxRuns]]
      /\ used[x].once \in 0..MaxRuns /\ used[x].always \in 0..MaxRuns
      /\ used[x].fallback \in 0..MaxRuns
  BY <1>1 DEF RecordsOK
<1>3. /\ used[x].once + 1 \in 0..MaxRuns /\ used[x].always + 1 \in 0..MaxRuns
      /\ used[x].fallback + 1 \in 0..MaxRuns
  BY <1>2 DEF nodeRun, getSnapshot
<1>4. /\ rec[x].state = "resolved" <=> rec[x].promise # Unset
      /\ rec[x].promise \in Verdict => recorded(rec[x]) = rec[x].promise
      /\ rec[x].promise \notin Verdict => rec[x].decision = None /\ rec[x].consumed = None
      /\ rec[x].consumed \in {None, "allow-once"}
      /\ rec[x].promise = "allow-once" => rec[x].by \in Operator
  BY <1>1 DEF RecordsOK, RecordTellsPromise, SettlerMayDecide
<1>5. /\ used[x].once <= 1
      /\ used[x].once > 0 => rec[x].consumed = "allow-once" /\ rec[x].decision = None
      /\ used[x].always > 0 => rec[x].promise = "allow-always"
      /\ used[x].fallback > 0 => rec[x].promise = Null
  BY <1>1 DEF RecordsOK, RunsAreRecorded
<1>6. rec[x].promise \in Verdict \cup {Null, Unset}
  BY <1>1 DEF Record
<1>7. CASE /\ rec[x].decision = "allow-once"
           /\ rec' = [rec EXCEPT ![x] = consumed(rec[x])]
           /\ used' = [used EXCEPT ![x].once = used[x].once + 1]
  <2> DEFINE y == consumed(rec[x])
             u == [used[x] EXCEPT !.once = used[x].once + 1]
  <2>1. rec[x].promise = "allow-once" /\ rec[x].state = "resolved"
    BY <1>4, <1>7 DEF recorded, Unset, Verdict
  <2>2. used[x].once = 0
    BY <1>2, <1>5, <1>7
  <2>3. /\ y \in Record /\ y.state = rec[x].state /\ y.promise = rec[x].promise
        /\ y.by = rec[x].by /\ y.decision = None /\ y.consumed = "allow-once"
    BY <1>1, <1>7 DEF consumed, Record, Verdict
  <2>4. y.timer <=> rec[x].timer
    BY <1>1 DEF consumed, Record
  <2>5. /\ u \in [once: 0..MaxRuns, always: 0..MaxRuns, fallback: 0..MaxRuns]
        /\ u.once = 1 /\ u.always = used[x].always /\ u.fallback = used[x].fallback
    BY <1>1, <1>2, <1>3, <2>2
  <2>6. rec' = [rec EXCEPT ![x] = y] /\ used' = [used EXCEPT ![x] = u]
    BY <1>7
  <2> HIDE DEF x, y, u
  <2>7. /\ rec' \in [Request -> Record] /\ rec'[x] = y
        /\ \A r \in Request : r # x => rec'[r] = rec[r]
    BY <1>1, <2>3, <2>6
  <2>8. /\ used' \in [Request -> [once: 0..MaxRuns, always: 0..MaxRuns, fallback: 0..MaxRuns]]
        /\ used'[x] = u
        /\ \A r \in Request : r # x => used'[r] = used[r]
    BY <1>1, <1>2, <2>5, <2>6
  <2>9. recorded(y) = "allow-once" /\ recorded(rec[x]) = "allow-once"
    BY <1>7, <2>3 DEF recorded
  <2>10. PendingOwned'
    BY <1>1, <2>3, <2>4, <2>7 DEF RecordsOK, PendingOwned
  <2>11. MapNamesRecords'
    BY <1>1, <2>1, <2>3, <2>7 DEF RecordsOK, MapNamesRecords
  <2>12. RecordTellsPromise'
    <3>1. /\ y.state = "resolved" /\ y.promise # Unset /\ y.promise \in Verdict
          /\ recorded(y) = y.promise /\ y.consumed \in {None, "allow-once"}
      BY <2>1, <2>3, <2>9 DEF Verdict, Unset
    <3> QED BY <2>7, <3>1 DEF RecordsOK, RecordTellsPromise
  <2>13. SettlerMayDecide'
    BY <2>3, <2>7 DEF RecordsOK, SettlerMayDecide
  <2>14. RunsAreRecorded'
    <3>1. /\ u.once <= 1 /\ y.consumed = "allow-once" /\ y.decision = None
          /\ u.always > 0 => y.promise = "allow-always"
          /\ u.fallback > 0 => y.promise = Null
      BY <1>5, <2>3, <2>5
    <3> QED BY <2>7, <2>8, <3>1 DEF RecordsOK, RunsAreRecorded
  <2>15. Kept
    BY <2>1, <2>3, <2>7, <2>9 DEF Kept, Stands, RecordsOK, RecordTellsPromise
  <2> QED BY <1>1, <2>7, <2>8, <2>10, <2>11, <2>12, <2>13, <2>14, <2>15 DEF RecordsOK
<1>8. CASE /\ rec[x].decision = "allow-always"
           /\ used' = [used EXCEPT ![x].always = used[x].always + 1]
           /\ UNCHANGED rec
  <2> DEFINE u == [used[x] EXCEPT !.always = used[x].always + 1]
  <2>1. rec[x].promise = "allow-always"
    BY <1>4, <1>8 DEF recorded, Verdict
  <2>2. /\ u \in [once: 0..MaxRuns, always: 0..MaxRuns, fallback: 0..MaxRuns]
        /\ u.once = used[x].once /\ u.fallback = used[x].fallback
    BY <1>1, <1>2, <1>3
  <2>3. used' = [used EXCEPT ![x] = u]
    BY <1>8
  <2> HIDE DEF x, u
  <2>4. /\ used' \in [Request -> [once: 0..MaxRuns, always: 0..MaxRuns, fallback: 0..MaxRuns]]
        /\ used'[x] = u
        /\ \A r \in Request : r # x => used'[r] = used[r]
    BY <1>1, <1>2, <2>2, <2>3
  <2>5. RunsAreRecorded'
    BY <1>5, <1>8, <2>1, <2>2, <2>4 DEF RecordsOK, RunsAreRecorded
  <2> QED BY <1>1, <1>8, <2>4, <2>5
          DEF RecordsOK, PendingOwned, MapNamesRecords, RecordTellsPromise, SettlerMayDecide,
              Kept, Stands
<1>9. CASE /\ timedOut(rec[x])
           /\ used' = [used EXCEPT ![x].fallback = used[x].fallback + 1]
           /\ UNCHANGED rec
  <2> DEFINE u == [used[x] EXCEPT !.fallback = used[x].fallback + 1]
  <2>1. rec[x].promise = Null
    <3>1. rec[x].promise \notin Verdict
      BY <1>4, <1>9 DEF timedOut, recorded, Verdict
    <3> QED BY <1>4, <1>6, <1>9, <3>1 DEF timedOut
  <2>2. /\ u \in [once: 0..MaxRuns, always: 0..MaxRuns, fallback: 0..MaxRuns]
        /\ u.once = used[x].once /\ u.always = used[x].always
    BY <1>1, <1>2, <1>3
  <2>3. used' = [used EXCEPT ![x] = u]
    BY <1>9
  <2> HIDE DEF x, u
  <2>4. /\ used' \in [Request -> [once: 0..MaxRuns, always: 0..MaxRuns, fallback: 0..MaxRuns]]
        /\ used'[x] = u
        /\ \A r \in Request : r # x => used'[r] = used[r]
    BY <1>1, <1>2, <2>2, <2>3
  <2>5. RunsAreRecorded'
    BY <1>5, <1>9, <2>1, <2>2, <2>4 DEF RecordsOK, RunsAreRecorded
  <2> QED BY <1>1, <1>9, <2>4, <2>5
          DEF RecordsOK, PendingOwned, MapNamesRecords, RecordTellsPromise, SettlerMayDecide,
              Kept, Stands
<1> QED BY <1>7, <1>8, <1>9 DEF nodeRun, getSnapshot

(* One use of a decision follows from the records.                         *)
LEMMA RecordsGiveOneUse ==
  RecordsOK => OneUse
<1> SUFFICES ASSUME RecordsOK, NEW r \in Request
             PROVE  /\ used[r].once <= 1
                    /\ used[r].once > 0 => rec[r].promise = "allow-once" /\ rec[r].by \in Operator
                    /\ used[r].always > 0 => rec[r].promise = "allow-always"
                    /\ used[r].fallback > 0 => rec[r].promise = Null /\ used[r].once = 0
  BY DEF OneUse
<1>1. /\ used[r].once <= 1
      /\ used[r].once > 0 => rec[r].consumed = "allow-once" /\ rec[r].decision = None
      /\ used[r].always > 0 => rec[r].promise = "allow-always"
      /\ used[r].fallback > 0 => rec[r].promise = Null
  BY DEF RecordsOK, RunsAreRecorded
<1>2. used[r].once > 0 => rec[r].promise = "allow-once"
  BY <1>1 DEF RecordsOK, RecordTellsPromise, recorded, Verdict
<1>3. used[r].once > 0 => rec[r].by \in Operator
  BY <1>2 DEF RecordsOK, SettlerMayDecide
<1>4. used[r].once \in 0..MaxRuns
  BY DEF RecordsOK
<1> QED BY <1>1, <1>2, <1>3, <1>4 DEF Null

-----------------------------------------------------------------------------
(* The handlers.                                                           *)

\* The handler c of the request r, whose record is e and whose note is n.
CallFits(r, c, e, n) ==
  /\ c \in Handler
  /\ c.pc \in {"new", "analysing"} => e = NewRecord /\ c.on = None /\ n = NewNote
  /\ c.pc \in {"delivering", "waiting"} => c.on \in Request
  /\ c.pc = "delivering" => e.state # "none"
  /\ c.pc \in {"new", "analysing", "delivering"} => ~c.ack /\ c.final = Unset
  /\ c.on \in {None, r}
  /\ c.resp = "aborted" =>
       /\ c.pc \in {"delivering", "closing", "done"}
       /\ ~c.ack
       /\ c.final = Unset
       /\ e.promise # Unset
       /\ e.promise # "deny" => e.by # "request-aborted"

\* What the handler of r relies on in a step that is not its own.
Undisturbed(r) ==
  /\ Stands(r)
  /\ rec[r].state = "none" => rec'[r] = rec[r]
  /\ rec[r].state # "none" => rec'[r].state # "none"
  /\ rec[r].state = "none" /\ note[r] = NewNote => note'[r] = NewNote

LEMMA CallsAreFit ==
  CallsOK <=> /\ call \in [Request -> Handler]
              /\ \A r \in Request : CallFits(r, call[r], rec[r], note[r])
<1>1. ASSUME CallsOK, NEW r \in Request PROVE CallFits(r, call[r], rec[r], note[r])
  <2>1. call[r] \in Handler
    BY <1>1 DEF CallsOK
  <2>2. /\ call[r].pc \in {"new", "analysing"} =>
             rec[r] = NewRecord /\ call[r].on = None /\ note[r] = NewNote
        /\ call[r].pc \in {"delivering", "waiting"} => call[r].on \in Request
        /\ call[r].pc = "delivering" => rec[r].state # "none"
    BY <1>1 DEF CallsOK, HandlerOwnsRecord
  <2>3. /\ call[r].pc \in {"new", "analysing", "delivering"} =>
             ~call[r].ack /\ call[r].final = Unset
        /\ call[r].resp = "aborted" => call[r].pc \in {"delivering", "closing", "done"}
        /\ call[r].on \in {None, r}
    BY <1>1 DEF CallsOK, HandlerIsSilent, NeverJoined
  <2>4. call[r].resp = "aborted" =>
          /\ ~call[r].ack
          /\ call[r].final = Unset
          /\ rec[r].promise # Unset
          /\ rec[r].promise # "deny" => rec[r].by # "request-aborted"
    BY <1>1 DEF CallsOK, AbortedUnanswered
  <2> QED BY <2>1, <2>2, <2>3, <2>4, Zenon DEF CallFits
<1>2. ASSUME call \in [Request -> Handler],
             \A r \in Request : CallFits(r, call[r], rec[r], note[r])
      PROVE  CallsOK
  <2>1. HandlerOwnsRecord
    BY <1>2, Zenon DEF CallFits, HandlerOwnsRecord
  <2>2. HandlerIsSilent /\ NeverJoined
    BY <1>2, Zenon DEF CallFits, HandlerIsSilent, NeverJoined
  <2>3. AbortedUnanswered
    BY <1>2, Zenon DEF CallFits, AbortedUnanswered
  <2> QED BY <1>2, <2>1, <2>2, <2>3 DEF CallsOK
<1>3. CallsOK => call \in [Request -> Handler]
  BY DEF CallsOK
<1> QED BY <1>1, <1>2, <1>3

(* A handler fits on in a step that is not its own.                        *)
LEMMA FitsOn ==
  ASSUME NEW r \in Request, NEW c, CallFits(r, c, rec[r], note[r]), Undisturbed(r)
  PROVE  CallFits(r, c, rec'[r], note'[r])
<1>1. rec[r] = NewRecord => rec[r].state = "none" /\ rec'[r] = NewRecord
  BY DEF Undisturbed, NewRecord
<1>2. rec[r].promise # Unset => rec'[r].promise = rec[r].promise /\ rec'[r].by = rec[r].by
  BY DEF Undisturbed, Stands
<1> QED BY <1>1, <1>2, Zenon DEF CallFits, Undisturbed

LEMMA CallsUnchanged ==
  ASSUME CallsOK, call' = call, \A r \in Request : Undisturbed(r)
  PROVE  CallsOK'
<1>1. ASSUME NEW r \in Request PROVE CallFits(r, call'[r], rec'[r], note'[r])
  <2>1. CallFits(r, call[r], rec[r], note[r])
    BY CallsAreFit
  <2> QED BY <2>1, FitsOn
<1>2. call' \in [Request -> Handler]
  BY DEF CallsOK
<1>3. (CallsOK <=> /\ call \in [Request -> Handler]
                   /\ \A r \in Request : CallFits(r, call[r], rec[r], note[r]))'
  BY CallsAreFit, PTL
<1> QED BY <1>1, <1>2, <1>3

(* The handler of x goes on as c.                                          *)
LEMMA OneCallStep ==
  ASSUME CallsOK, NEW x \in Request, NEW c, call' = [call EXCEPT ![x] = c],
         CallFits(x, c, rec'[x], note'[x]),
         \A r \in Request : r # x => Undisturbed(r)
  PROVE  CallsOK'
<1>0. call \in [Request -> Handler] /\ c \in Handler
  BY DEF CallsOK, CallFits
<1>1. ASSUME NEW r \in Request PROVE CallFits(r, call'[r], rec'[r], note'[r])
  <2>1. CallFits(r, call[r], rec[r], note[r])
    BY CallsAreFit
  <2>2. CASE r = x
    BY <1>0, <2>2
  <2>3. CASE r # x
    <3>1. CallFits(r, call[r], rec'[r], note'[r])
      BY <2>1, <2>3, FitsOn
    <3> QED BY <1>0, <2>3, <3>1
  <2> QED BY <2>2, <2>3
<1>2. call' \in [Request -> Handler]
  BY <1>0
<1>3. (CallsOK <=> /\ call \in [Request -> Handler]
                   /\ \A r \in Request : CallFits(r, call[r], rec[r], note[r]))'
  BY CallsAreFit, PTL
<1> QED BY <1>1, <1>2, <1>3

-----------------------------------------------------------------------------
(* Those who hold a record.                                                *)

LEMMA HoldersUnchanged ==
  ASSUME HoldersOK, UNCHANGED <<op, waiter>>, \A r \in Request : Stands(r)
  PROVE  HoldersOK'
<1>1. ASSUME NEW o \in Operator, op[o].pc = "following"
      PROVE  /\ op[o].on \in Request
             /\ rec'[op[o].on].promise = op[o].decision /\ op[o].decision # None
  <2>1. /\ op[o].on \in Request
        /\ rec[op[o].on].promise = op[o].decision /\ op[o].decision # None
    BY <1>1 DEF HoldersOK, HoldersHoldRecords
  <2>2. op[o].decision # Unset
    BY <2>1 DEF HoldersOK, Resolver, Verdict, Unset
  <2> QED BY <2>1, <2>2 DEF Stands
<1>2. ASSUME NEW o \in Operator, op[o].reply \in {"ok", "conflict"}
      PROVE  /\ op[o].on \in Request /\ rec'[op[o].on].promise # Unset
             /\ op[o].reply = "ok" => rec'[op[o].on].promise = op[o].decision
             /\ op[o].reply = "conflict" => rec'[op[o].on].promise # op[o].decision
  <2>1. op[o].on \in Request /\ rec[op[o].on].promise # Unset
    BY <1>2 DEF HoldersOK, HoldersHoldRecords
  <2> QED BY <2>1 DEF HoldersOK, ReplyTellsOutcome, Stands
<1>3. HoldersHoldRecords'
  BY <1>1, <1>2 DEF HoldersOK, HoldersHoldRecords
<1>4. ReplyTellsOutcome'
  BY <1>2 DEF ReplyTellsOutcome
<1> QED BY <1>3, <1>4 DEF HoldersOK

(* The resolve handler o goes on as p.                                     *)
LEMMA OneOperatorStep ==
  ASSUME HoldersOK, waiter' = waiter, \A r \in Request : Stands(r),
         NEW o \in Operator, NEW p \in Resolver, op' = [op EXCEPT ![o] = p],
         p.pc = "following" => /\ p.on \in Request
                               /\ rec'[p.on].promise = p.decision /\ p.decision # None,
         p.reply \in {"ok", "conflict"} => p.on \in Request /\ rec'[p.on].promise # Unset,
         p.reply = "ok" => rec'[p.on].promise = p.decision,
         p.reply = "conflict" => rec'[p.on].promise # p.decision
  PROVE  HoldersOK'
<1>0. /\ op \in [Operator -> Resolver] /\ op' \in [Operator -> Resolver]
      /\ op'[o] = p
      /\ \A q \in Operator : q # o => op'[q] = op[q]
  BY DEF HoldersOK
<1>1. ASSUME NEW q \in Operator, op'[q].pc = "following"
      PROVE  /\ op'[q].on \in Request
             /\ rec'[op'[q].on].promise = op'[q].decision /\ op'[q].decision # None
  <2>1. CASE q = o
    BY <1>0, <1>1, <2>1
  <2>2. CASE q # o
    <3>0. op'[q] = op[q] /\ op[q] \in Resolver
      BY <1>0, <2>2
    <3>1. /\ op[q].on \in Request
          /\ rec[op[q].on].promise = op[q].decision /\ op[q].decision # None
      BY <1>1, <3>0 DEF HoldersOK, HoldersHoldRecords
    <3>2. op[q].decision # Unset
      BY <3>0, <3>1 DEF Resolver, Verdict, Unset
    <3> QED BY <3>0, <3>1, <3>2 DEF Stands
  <2> QED BY <2>1, <2>2
<1>2. ASSUME NEW q \in Operator, op'[q].reply \in {"ok", "conflict"}
      PROVE  /\ op'[q].on \in Request /\ rec'[op'[q].on].promise # Unset
             /\ op'[q].reply = "ok" => rec'[op'[q].on].promise = op'[q].decision
             /\ op'[q].reply = "conflict" => rec'[op'[q].on].promise # op'[q].decision
  <2>1. CASE q = o
    BY <1>0, <1>2, <2>1
  <2>2. CASE q # o
    <3>0. op'[q] = op[q]
      BY <1>0, <2>2
    <3>1. op[q].on \in Request /\ rec[op[q].on].promise # Unset
      BY <1>2, <3>0 DEF HoldersOK, HoldersHoldRecords
    <3> QED BY <3>0, <3>1 DEF HoldersOK, ReplyTellsOutcome, Stands
  <2> QED BY <2>1, <2>2
<1>3. HoldersHoldRecords'
  BY <1>1, <1>2 DEF HoldersOK, HoldersHoldRecords
<1>4. ReplyTellsOutcome'
  BY <1>2 DEF ReplyTellsOutcome
<1> QED BY <1>0, <1>3, <1>4 DEF HoldersOK

(* The waitDecision handler w goes on as p.                                *)
LEMMA OneWaiterStep ==
  ASSUME HoldersOK, op' = op, \A r \in Request : Stands(r),
         NEW w \in Waiter, NEW p \in Waiting, waiter' = [waiter EXCEPT ![w] = p],
         p.pc \in {"waiting", "aborted"} => p.on \in Request
  PROVE  HoldersOK'
<1>1. /\ waiter \in [Waiter -> Waiting] /\ waiter' \in [Waiter -> Waiting]
      /\ \A q \in Waiter : waiter'[q].pc \in {"waiting", "aborted"} => waiter'[q].on \in Request
  BY DEF HoldersOK, HoldersHoldRecords
<1>2. ASSUME NEW o \in Operator, op[o].pc = "following"
      PROVE  /\ op[o].on \in Request
             /\ rec'[op[o].on].promise = op[o].decision /\ op[o].decision # None
  <2>1. /\ op[o].on \in Request
        /\ rec[op[o].on].promise = op[o].decision /\ op[o].decision # None
    BY <1>2 DEF HoldersOK, HoldersHoldRecords
  <2>2. op[o].decision # Unset
    BY <2>1 DEF HoldersOK, Resolver, Verdict, Unset
  <2> QED BY <2>1, <2>2 DEF Stands
<1>3. ASSUME NEW o \in Operator, op[o].reply \in {"ok", "conflict"}
      PROVE  /\ op[o].on \in Request /\ rec'[op[o].on].promise # Unset
             /\ op[o].reply = "ok" => rec'[op[o].on].promise = op[o].decision
             /\ op[o].reply = "conflict" => rec'[op[o].on].promise # op[o].decision
  <2>1. op[o].on \in Request /\ rec[op[o].on].promise # Unset
    BY <1>3 DEF HoldersOK, HoldersHoldRecords
  <2> QED BY <2>1 DEF HoldersOK, ReplyTellsOutcome, Stands
<1>4. HoldersHoldRecords'
  BY <1>1, <1>2, <1>3 DEF HoldersHoldRecords
<1>5. ReplyTellsOutcome'
  BY <1>3 DEF ReplyTellsOutcome
<1> QED BY <1>1, <1>4, <1>5 DEF HoldersOK

-----------------------------------------------------------------------------
(* The forwarder, one request at a time.                                   *)

NeverLate(n) == \A j \in 2..Len(n.thread) :
  n.thread[j] = "prompt" => n.expiry # "none" /\ n.thread[1] = "resolved"

\* The note n of the request r.
NoteFits(r, n) ==
  /\ n \in Note
  /\ n.route = "routing" => n.prompt = "none"
  /\ n.closing = "waiting" => n.entry \in Request
  /\ n.prompt # "done" =>
       /\ n.expiry # "done"
       /\ n.thread = << >> \/ (n.thread = <<"resolved">> /\ n.closing = "done")
  /\ n.prompt = "sending" /\ n.closing \in {"waiting", "rerouting", "done"} =>
       n.expiry # "none" \/ (n.closing = "waiting" /\ n.entry = r)
  /\ NeverLate(n)

LEMMA NotesAreFit ==
  ForwarderOK <=> /\ slot \in [Id -> Slot] /\ note \in [Request -> Note]
                  /\ clock \in [Request -> {"before", "at", "past"}]
                  /\ EntriesAreOpen
                  /\ \A r \in Request : NoteFits(r, note[r])
<1>1. ASSUME ForwarderOK, NEW r \in Request PROVE NoteFits(r, note[r])
  <2>1. note[r] \in Note
    BY <1>1 DEF ForwarderOK, ForwarderTypeOK
  <2>2. NeverLate(note[r])
    BY <1>1 DEF ForwarderOK, NoLatePrompt, NeverLate
  <2> QED BY <1>1, <2>1, <2>2 DEF ForwarderOK, PromptComesFirst, NoteFits
<1>2. ASSUME \A r \in Request : NoteFits(r, note[r]) PROVE PromptComesFirst /\ NoLatePrompt
  BY <1>2, Zenon DEF NoteFits, PromptComesFirst, NoLatePrompt, NeverLate
<1> QED BY <1>1, <1>2 DEF ForwarderOK, ForwarderTypeOK

(* What a field of a note may be set to.                                   *)
Closing == {"none", "gated", "waiting", "rerouting", "done"}
Ticking(n, c, e) == [n EXCEPT !.timer = TRUE, !.closing = c, !.entry = e]
Stopped(n, c, e) == [n EXCEPT !.timer = FALSE, !.closing = c, !.entry = e]

LEMMA NoteClosed ==
  ASSUME NEW n \in Note, NEW e \in Request \cup {None}, NEW c \in Closing
  PROVE  Ticking(n, c, e) \in Note /\ Stopped(n, c, e) \in Note
BY DEF Note, Closing, Ticking, Stopped

LEMMA NoteClosedFields ==
  ASSUME NEW n \in Note, NEW e \in Request \cup {None}, NEW c \in Closing
  PROVE  /\ Ticking(n, c, e).route = n.route /\ Ticking(n, c, e).prompt = n.prompt
         /\ Ticking(n, c, e).expiry = n.expiry /\ Ticking(n, c, e).thread = n.thread
         /\ Ticking(n, c, e).closing = c /\ Ticking(n, c, e).entry = e
         /\ Stopped(n, c, e).route = n.route /\ Stopped(n, c, e).prompt = n.prompt
         /\ Stopped(n, c, e).expiry = n.expiry /\ Stopped(n, c, e).thread = n.thread
         /\ Stopped(n, c, e).closing = c /\ Stopped(n, c, e).entry = e
<1>1. /\ Ticking(n, c, e).route = n.route /\ Ticking(n, c, e).prompt = n.prompt
      /\ Ticking(n, c, e).expiry = n.expiry /\ Ticking(n, c, e).thread = n.thread
      /\ Ticking(n, c, e).closing = c /\ Ticking(n, c, e).entry = e
  BY DEF Note, Closing, Ticking
<1>2. /\ Stopped(n, c, e).route = n.route /\ Stopped(n, c, e).prompt = n.prompt
      /\ Stopped(n, c, e).expiry = n.expiry /\ Stopped(n, c, e).thread = n.thread
      /\ Stopped(n, c, e).closing = c /\ Stopped(n, c, e).entry = e
  BY DEF Note, Closing, Stopped
<1> QED BY <1>1, <1>2

LEMMA NoteTimed ==
  ASSUME NEW r, NEW n, NoteFits(r, n), NEW y \in Note,
         y.route = n.route, y.prompt = n.prompt, y.thread = n.thread,
         y.closing = n.closing, y.entry = n.entry, y.expiry \in {n.expiry, "waiting"}
  PROVE  NoteFits(r, y)
BY DEF NoteFits, NeverLate

LEMMA NoteRouted ==
  ASSUME NEW r, NEW n, NoteFits(r, n), n.route = "routing"
  PROVE  /\ NoteFits(r, [n EXCEPT !.route = "forwarded", !.prompt = "queued", !.timer = TRUE])
         /\ NoteFits(r, [n EXCEPT !.route = "unrouted"])
<1> DEFINE y == [n EXCEPT !.route = "forwarded", !.prompt = "queued", !.timer = TRUE]
           z == [n EXCEPT !.route = "unrouted"]
<1>1. n \in Note
  BY DEF NoteFits
<1>2. y \in Note /\ z \in Note
  BY <1>1 DEF Note
<1>3. /\ y.route = "forwarded" /\ y.prompt = "queued" /\ y.expiry = n.expiry
      /\ y.thread = n.thread /\ y.closing = n.closing /\ y.entry = n.entry
  BY <1>1 DEF Note
<1>4. /\ z.route = "unrouted" /\ z.prompt = n.prompt /\ z.expiry = n.expiry
      /\ z.thread = n.thread /\ z.closing = n.closing /\ z.entry = n.entry
  BY <1>1 DEF Note
<1> HIDE DEF y, z
<1>5. NoteFits(r, y)
  BY <1>2, <1>3 DEF NoteFits, NeverLate
<1>6. NoteFits(r, z)
  BY <1>2, <1>4 DEF NoteFits, NeverLate
<1> QED BY <1>5, <1>6 DEF y, z

LEMMA NoteGated ==
  ASSUME NEW r, NEW n, NoteFits(r, n), n.closing = "none"
  PROVE  NoteFits(r, [n EXCEPT !.closing = "gated"])
<1> DEFINE y == [n EXCEPT !.closing = "gated"]
<1>1. n \in Note
  BY DEF NoteFits
<1>2. y \in Note
  BY <1>1 DEF Note
<1>3. /\ y.route = n.route /\ y.prompt = n.prompt /\ y.expiry = n.expiry /\ y.thread = n.thread
      /\ y.closing = "gated" /\ y.entry = n.entry
  BY <1>1 DEF Note
<1> HIDE DEF y
<1>4. NoteFits(r, y)
  BY <1>2, <1>3 DEF NoteFits, NeverLate
<1> QED BY <1>4 DEF y

LEMMA NoteStarted ==
  ASSUME NEW r, NEW n, NoteFits(r, n), n.prompt = "queued", NEW p \in {"sending", "done"},
         p = "sending" => n.closing \in {"none", "gated"}
  PROVE  NoteFits(r, [n EXCEPT !.prompt = p])
<1> DEFINE y == [n EXCEPT !.prompt = p]
<1>1. n \in Note
  BY DEF NoteFits
<1>2. y \in Note
  BY <1>1 DEF Note
<1>3. /\ y.route = n.route /\ y.prompt = p /\ y.expiry = n.expiry /\ y.thread = n.thread
      /\ y.closing = n.closing /\ y.entry = n.entry
  BY <1>1 DEF Note
<1> HIDE DEF y
<1>4. NoteFits(r, y)
  BY <1>2, <1>3 DEF NoteFits, NeverLate
<1> QED BY <1>4 DEF y

(* A thread that grows by something else than a prompt.                    *)
LEMMA PostKeepsOrder ==
  ASSUME NEW n \in Note, NeverLate(n), NEW m \in {"resolved", "expired"},
         NEW y, y.thread = Append(n.thread, m), n.expiry # "none" => y.expiry # "none"
  PROVE  NeverLate(y)
<1>1. n.thread \in Seq({"prompt", "resolved", "expired"}) /\ Len(n.thread) \in Nat
  BY DEF Note
<1>2. SUFFICES ASSUME NEW j \in 2..Len(y.thread), y.thread[j] = "prompt"
               PROVE  y.expiry # "none" /\ y.thread[1] = "resolved"
  BY DEF NeverLate
<1>3. Len(y.thread) = Len(n.thread) + 1 /\ y.thread[Len(n.thread) + 1] = m
  BY <1>1
<1>4. j \in 2..Len(n.thread)
  BY <1>1, <1>2, <1>3
<1>5. y.thread[j] = n.thread[j] /\ y.thread[1] = n.thread[1]
  BY <1>1, <1>4
<1> QED BY <1>2, <1>4, <1>5 DEF NeverLate

LEMMA NotePrompted ==
  ASSUME NEW r, NEW n, NoteFits(r, n), n.prompt = "sending"
  PROVE  NoteFits(r, [n EXCEPT !.prompt = "done", !.thread = Append(n.thread, "prompt")])
<1> DEFINE th == Append(n.thread, "prompt")
           y == [n EXCEPT !.prompt = "done", !.thread = th]
<1>1. /\ n \in Note /\ n.thread \in Seq({"prompt", "resolved", "expired"})
      /\ n.thread = << >> \/ (n.thread = <<"resolved">> /\ n.closing = "done")
      /\ n.closing = "done" => n.expiry # "none"
  BY DEF NoteFits, Note
<1>a. th \in Seq({"prompt", "resolved", "expired"})
  BY <1>1
<1> HIDE DEF th
<1>2. y \in Note
  BY <1>1, <1>a DEF Note
<1>3. /\ y.route = n.route /\ y.prompt = "done" /\ y.expiry = n.expiry
      /\ y.thread = th /\ y.closing = n.closing /\ y.entry = n.entry
  BY <1>1, <1>a DEF Note
<1> USE DEF th
<1> HIDE DEF y
<1>4. NeverLate(y)
  <2>1. CASE n.thread = << >>
    <3>1. Len(y.thread) = 1
      BY <1>3, <2>1
    <3> QED BY <3>1 DEF NeverLate
  <2>2. CASE n.thread = <<"resolved">> /\ n.closing = "done"
    <3>1. y.thread[1] = "resolved"
      BY <1>3, <2>2
    <3> QED BY <1>1, <1>3, <2>2, <3>1 DEF NeverLate
  <2> QED BY <1>1, <2>1, <2>2
<1>5. NoteFits(r, y)
  BY <1>2, <1>3, <1>4 DEF NoteFits
<1> QED BY <1>5 DEF y

LEMMA NoteExpired ==
  ASSUME NEW r, NEW n, NoteFits(r, n), n.prompt = "done", n.expiry = "waiting"
  PROVE  NoteFits(r, [n EXCEPT !.expiry = "done", !.thread = Append(n.thread, "expired")])
<1> DEFINE th == Append(n.thread, "expired")
           y == [n EXCEPT !.expiry = "done", !.thread = th]
<1>1. n \in Note /\ n.thread \in Seq({"prompt", "resolved", "expired"}) /\ NeverLate(n)
  BY DEF NoteFits, Note
<1>a. th \in Seq({"prompt", "resolved", "expired"})
  BY <1>1
<1> HIDE DEF th
<1>2. y \in Note
  BY <1>1, <1>a DEF Note
<1>3. /\ y.route = n.route /\ y.prompt = n.prompt /\ y.expiry = "done"
      /\ y.thread = th /\ y.closing = n.closing /\ y.entry = n.entry
  BY <1>1, <1>a DEF Note
<1> USE DEF th
<1> HIDE DEF y
<1>4. NeverLate(y)
  BY <1>1, <1>3, PostKeepsOrder
<1>5. NoteFits(r, y)
  BY <1>2, <1>3, <1>4 DEF NoteFits
<1> QED BY <1>5 DEF y

(* The outcome is posted, or found no target, or went to another chat.     *)
LEMMA NoteResolved ==
  ASSUME NEW r, NEW n, NoteFits(r, n), NEW y \in Note,
         y.route = n.route, y.prompt = n.prompt, y.expiry = n.expiry, y.entry = n.entry,
         y.thread \in {n.thread, Append(n.thread, "resolved")},
         y.closing \in {n.closing, "done"},
         n.closing \in {"none", "gated"} => y.closing = n.closing,
         n.prompt # "done" => \/ y.thread = n.thread
                              \/ n.closing = "rerouting" /\ y.closing = "done",
         n.prompt = "sending" /\ y.closing # n.closing /\ n.closing = "waiting" => n.entry # r
  PROVE  NoteFits(r, y)
<1>1. n \in Note /\ NeverLate(n)
  BY DEF NoteFits
<1>2. NeverLate(y)
  <2>1. CASE y.thread = n.thread
    BY <1>1, <2>1 DEF NeverLate
  <2>2. CASE y.thread = Append(n.thread, "resolved")
    BY <1>1, <2>2, PostKeepsOrder
  <2> QED BY <2>1, <2>2
<1>3. ASSUME n.prompt # "done"
      PROVE  y.thread = << >> \/ (y.thread = <<"resolved">> /\ y.closing = "done")
  <2>1. n.thread = << >> \/ (n.thread = <<"resolved">> /\ n.closing = "done")
    BY <1>3 DEF NoteFits
  <2>2. CASE y.thread = n.thread
    BY <2>1, <2>2
  <2>3. CASE /\ n.closing = "rerouting" /\ y.closing = "done"
             /\ y.thread = Append(n.thread, "resolved")
    <3>1. n.thread = << >>
      BY <2>1, <2>3
    <3> QED BY <2>3, <3>1
  <2> QED BY <1>3, <2>2, <2>3
<1>4. ASSUME n.prompt = "sending", y.closing \in {"waiting", "rerouting", "done"}
      PROVE  n.expiry # "none" \/ (y.closing = "waiting" /\ n.entry = r)
  <2>1. n.closing \in {"waiting", "rerouting", "done"}
    BY <1>1, <1>4 DEF Note
  <2> QED BY <1>4, <2>1 DEF NoteFits
<1> QED BY <1>2, <1>3, <1>4 DEF NoteFits

-----------------------------------------------------------------------------
(* The forwarder's steps.                                                  *)

(* A note that has not begun has no timer to clear.                        *)
LEMMA UntimedNewNote ==
  /\ [NewNote EXCEPT !.timer = FALSE, !.closing = NewNote.closing,
                     !.entry = NewNote.entry] = NewNote
  /\ [NewNote EXCEPT !.timer = FALSE, !.expiry = NewNote.expiry] = NewNote
<1>1. << >> \in Seq({"prompt", "resolved", "expired"})
  OBVIOUS
<1>2. ASSUME NEW n \in Note, n = NewNote
      PROVE  [n EXCEPT !.timer = FALSE, !.closing = n.closing, !.entry = n.entry] = NewNote
  BY <1>2 DEF NewNote, Note
<1>3. ASSUME NEW n \in Note, n = NewNote
      PROVE  [n EXCEPT !.timer = FALSE, !.expiry = n.expiry] = NewNote
  BY <1>3 DEF NewNote, Note
<1>4. NewNote \in Note
  BY <1>1 DEF NewNote, Note
<1> QED BY <1>2, <1>3, <1>4

\* No note begins in this step.
NotesKept == \A r \in Request :
  rec[r].state = "none" /\ note[r] = NewNote => note'[r] = NewNote

LEMMA NoteFitsAt ==
  ASSUME ForwarderOK, NEW r \in Request
  PROVE  NoteFits(r, note[r]) /\ note[r] \in Note /\ IdOf[r] \in Id /\ slot[IdOf[r]] \in Slot
<1>1. NoteFits(r, note[r]) /\ slot \in [Id -> Slot]
  BY NotesAreFit
<1> QED BY <1>1 DEF NoteFits

LEMMA ForwarderFromNotes ==
  ASSUME slot' \in [Id -> Slot], note' \in [Request -> Note],
         clock' \in [Request -> {"before", "at", "past"}],
         EntriesAreOpen', \A r \in Request : NoteFits(r, note'[r])
  PROVE  ForwarderOK'
<1>1. (ForwarderOK <=> /\ slot \in [Id -> Slot] /\ note \in [Request -> Note]
                       /\ clock \in [Request -> {"before", "at", "past"}]
                       /\ EntriesAreOpen
                       /\ \A r \in Request : NoteFits(r, note[r]))'
  BY NotesAreFit, PTL
<1> QED BY <1>1

(* The forwarder does nothing while a record may be settled, or begin for  *)
(* a request without a prompt.                                             *)
LEMMA ForwarderIdle ==
  ASSUME ForwarderOK, LinksOK, UNCHANGED <<slot, note>>,
         clock' \in [Request -> {"before", "at", "past"}],
         \A r \in Request : Stands(r),
         \A r \in Request : rec'[r].state = "pending" =>
                              rec[r].state = "pending" \/ note[r] = NewNote
  PROVE  ForwarderOK' /\ LinksOK' /\ NotesKept
<1>1. ForwarderOK'
  BY DEF ForwarderOK, ForwarderTypeOK, EntriesAreOpen, PromptComesFirst, NoLatePrompt
<1>2. ClosedIsSettled'
  BY DEF LinksOK, ClosedIsSettled, Stands
<1>3. PromptIsHeld'
  BY DEF LinksOK, PromptIsHeld, NewNote
<1>4. NotesKept
  BY DEF NotesKept
<1> QED BY <1>1, <1>2, <1>3, <1>4 DEF LinksOK

(* A request is forwarded with its registration.                           *)
LEMMA RequestForwarded ==
  ASSUME ForwarderOK, LinksOK, NEW x \in Request, handleRequested(x), clock' = clock,
         note[x] = NewNote, rec[x].promise = Unset,
         \A r \in Request : Stands(r),
         \A r \in Request : rec'[r].state = "pending" /\ r # x => rec[r].state = "pending",
         \A r \in Request : r # x /\ IdOf[r] = IdOf[x] => rec'[r].state # "pending" /\ r \notin Plugin
  PROVE  ForwarderOK' /\ LinksOK' /\ \A r \in Request : r # x => note'[r] = note[r]
<1> DEFINE y == [NewNote EXCEPT !.route = "routing"]
<1>1. /\ slot \in [Id -> Slot] /\ note \in [Request -> Note] /\ IdOf[x] \in Id
      /\ clock' \in [Request -> {"before", "at", "past"}]
      /\ slot' = [slot EXCEPT ![IdOf[x]] = Routing(x)]
      /\ note' = [note EXCEPT ![x] = y]
  BY NotesAreFit DEF handleRequested
<1>2. /\ y \in Note /\ y.route = "routing" /\ y.prompt = "none" /\ y.closing = "none"
      /\ y.expiry = "none" /\ y.thread = << >>
  <2>1. NewNote \in Note
    BY NoteFitsAt
  <2>2. y \in Note /\ y.route = "routing"
    BY <2>1 DEF Note
  <2>3. /\ y.prompt = NewNote.prompt /\ y.closing = NewNote.closing
        /\ y.expiry = NewNote.expiry /\ y.thread = NewNote.thread
    BY <2>1 DEF Note
  <2>4. /\ NewNote.prompt = "none" /\ NewNote.closing = "none"
        /\ NewNote.expiry = "none" /\ NewNote.thread = << >>
    BY DEF NewNote
  <2> HIDE DEF y
  <2> QED BY <2>2, <2>3, <2>4
<1>3. NoteFits(x, y)
  BY <1>2 DEF NoteFits, NeverLate
<1> HIDE DEF y
<1>4. /\ Routing(x) \in Slot /\ Routing(x).of = x /\ Routing(x).state = "routing"
      /\ Routing(x) # Ready(x)
  BY DEF Routing, Ready, Slot
<1>5. /\ note' \in [Request -> Note] /\ note'[x] = y
      /\ \A r \in Request : r # x => note'[r] = note[r]
  BY <1>1, <1>2
<1>6. /\ slot' \in [Id -> Slot] /\ slot'[IdOf[x]] = Routing(x)
      /\ \A i \in Id : i # IdOf[x] => slot'[i] = slot[i]
  BY <1>1, <1>4
<1>7. EntriesAreOpen'
  <2> SUFFICES ASSUME NEW i \in Id, slot'[i].state # "free"
               PROVE  /\ slot'[i].of \in Request /\ IdOf[slot'[i].of] = i
                      /\ note'[slot'[i].of].closing \in {"none", "gated"}
                      /\ slot'[i].state = "routing" => note'[slot'[i].of].route = "routing"
                      /\ slot'[i].state = "ready" => note'[slot'[i].of].route = "forwarded"
    BY DEF EntriesAreOpen
  <2>1. CASE i = IdOf[x]
    BY <1>2, <1>4, <1>5, <1>6, <2>1
  <2>2. CASE i # IdOf[x]
    <3>1. slot'[i] = slot[i]
      BY <1>6, <2>2
    <3>2. /\ slot[i].of \in Request /\ IdOf[slot[i].of] = i
          /\ note[slot[i].of].closing \in {"none", "gated"}
          /\ slot[i].state = "routing" => note[slot[i].of].route = "routing"
          /\ slot[i].state = "ready" => note[slot[i].of].route = "forwarded"
      BY <3>1 DEF ForwarderOK, EntriesAreOpen
    <3>3. slot[i].of # x
      BY <2>2, <3>2
    <3> QED BY <1>5, <3>1, <3>2, <3>3
  <2> QED BY <2>1, <2>2
<1>8. ForwarderOK'
  <2>1. ASSUME NEW r \in Request PROVE NoteFits(r, note'[r])
    BY <1>3, <1>5, NoteFitsAt
  <2> QED BY <1>1, <1>5, <1>6, <1>7, <2>1, ForwarderFromNotes
<1>9. ClosedIsSettled'
  BY <1>2, <1>5 DEF LinksOK, ClosedIsSettled, Stands
<1>10. PromptIsHeld'
  <2> SUFFICES ASSUME NEW r \in Request, note'[r].prompt \in {"queued", "sending"},
                      \/ rec'[r].state = "pending"
                      \/ r \in Plugin /\ note'[r].closing \in {"none", "gated"}
               PROVE  slot'[IdOf[r]] = Ready(r) \/ note'[r].expiry # "none"
    BY DEF PromptIsHeld
  <2>1. r # x
    BY <1>2, <1>5
  <2>2. IdOf[r] # IdOf[x]
    BY <2>1
  <2>3. slot'[IdOf[r]] = slot[IdOf[r]] /\ note'[r] = note[r]
    BY <1>5, <1>6, <2>1, <2>2
  <2> QED BY <2>1, <2>3 DEF LinksOK, PromptIsHeld
<1> QED BY <1>5, <1>8, <1>9, <1>10 DEF LinksOK

(* The forwarder is told the outcome of x, whose record is settled by now. *)
LEMMA OutcomeForwarded ==
  ASSUME ForwarderOK, LinksOK, NEW x \in Request, handleResolved(x), clock' = clock,
         note[x].closing \in {"none", "gated"},
         rec[x].state = "pending" \/ x \in Plugin,
         rec[x].state # "none",
         rec'[x].promise # Unset, rec'[x].state # "pending",
         \A r \in Request : Stands(r),
         \A r \in Request : rec'[r].state = "pending" => rec[r].state = "pending",
         \A r \in Request : r # x /\ IdOf[r] = IdOf[x] => rec'[r].state # "pending" /\ r \notin Plugin
  PROVE  ForwarderOK' /\ LinksOK' /\ NotesKept
<1> DEFINE e == slot[IdOf[x]]
           t(q) == note[q].timer /\ e # Ready(q)
           y(q) == [note[q] EXCEPT !.timer = t(q),
                                   !.closing = IF q = x THEN closingState(x) ELSE note[q].closing,
                                   !.entry = IF q = x THEN e.of ELSE note[q].entry]
<1>1. /\ slot \in [Id -> Slot] /\ note \in [Request -> Note] /\ IdOf[x] \in Id
      /\ clock' \in [Request -> {"before", "at", "past"}]
      /\ slot' = [slot EXCEPT ![IdOf[x]] = Free]
      /\ note' = [q \in Request |-> y(q)]
  BY NotesAreFit DEF handleResolved
<1>2. /\ e \in Slot /\ e.of \in Request \cup {None}
      /\ closingState(x) \in {"waiting", "rerouting"}
      /\ closingState(x) = "waiting" => e.of \in Request /\ e.state = "ready"
  <2>1. e \in Slot
    BY <1>1
  <2>2. e.state = "ready" => e.of \in Request
    BY <1>1 DEF ForwarderOK, EntriesAreOpen
  <2> QED BY <2>1, <2>2 DEF Slot, closingState
<1>3. e.state = "ready" /\ e.of = x => e = Ready(x)
  BY <1>2 DEF Slot, Ready
<1>4. Free \in Slot /\ Free.state = "free"
  BY DEF Free, Slot
<1>5. ASSUME NEW q \in Request
      PROVE  /\ y(q) \in Note
             /\ y(q).route = note[q].route /\ y(q).prompt = note[q].prompt
             /\ y(q).expiry = note[q].expiry /\ y(q).thread = note[q].thread
             /\ y(q).closing = (IF q = x THEN closingState(x) ELSE note[q].closing)
             /\ y(q).entry = (IF q = x THEN e.of ELSE note[q].entry)
  <2>1. note[q] \in Note /\ t(q) \in BOOLEAN
    BY <1>1
  <2> DEFINE c == IF q = x THEN closingState(x) ELSE note[q].closing
             en == IF q = x THEN e.of ELSE note[q].entry
  <2>2. c \in Closing /\ en \in Request \cup {None}
    <3>1. note[q].closing \in {"none", "gated", "waiting", "rerouting", "done"}
          /\ note[q].entry \in Request \cup {None}
      BY <2>1 DEF Note
    <3> QED BY <1>2, <3>1 DEF Closing
  <2>3. y(q) = Ticking(note[q], c, en) \/ y(q) = Stopped(note[q], c, en)
    <3>1. CASE t(q) = TRUE
      <4> HIDE DEF t, e
      <4> QED BY <3>1 DEF Ticking
    <3>2. CASE t(q) = FALSE
      <4> HIDE DEF t, e
      <4> QED BY <3>2 DEF Stopped
    <3> QED BY <2>1, <3>1, <3>2
  <2> HIDE DEF t, e, y, c, en
  <2>4. /\ y(q) \in Note
        /\ y(q).route = note[q].route /\ y(q).prompt = note[q].prompt
        /\ y(q).expiry = note[q].expiry /\ y(q).thread = note[q].thread
        /\ y(q).closing = c /\ y(q).entry = en
    <3>1. note[q] \in Note
      BY <2>1
    <3>2. Ticking(note[q], c, en) \in Note /\ Stopped(note[q], c, en) \in Note
      BY <2>2, <3>1, NoteClosed
    <3>3. \/ y(q) = Ticking(note[q], c, en) /\ y(q) \in Note
          \/ y(q) = Stopped(note[q], c, en) /\ y(q) \in Note
      BY <2>3, <3>2
    <3> QED BY <2>2, <3>1, <3>3, NoteClosedFields
  <2> QED BY <2>4 DEF c, en
<1>6. NoteFits(x, y(x))
  <2>1. note[x].prompt = "sending" =>
          note[x].expiry # "none" \/ (closingState(x) = "waiting" /\ e.of = x)
    <3>1. note[x].prompt = "sending" => e = Ready(x) \/ note[x].expiry # "none"
      BY DEF LinksOK, PromptIsHeld
    <3>2. e = Ready(x) => closingState(x) = "waiting" /\ e.of = x
      BY DEF closingState, Ready
    <3> QED BY <3>1, <3>2
  <2>2. NoteFits(x, note[x])
    BY NoteFitsAt
  <2>3. /\ y(x) \in Note
        /\ y(x).route = note[x].route /\ y(x).prompt = note[x].prompt
        /\ y(x).expiry = note[x].expiry /\ y(x).thread = note[x].thread
        /\ y(x).closing = closingState(x) /\ y(x).entry = e.of
    BY <1>5
  <2> HIDE DEF y, e
  <2> QED BY <1>2, <2>1, <2>2, <2>3 DEF NoteFits, NeverLate
<1>7. ASSUME NEW q \in Request, q # x PROVE NoteFits(q, y(q))
  <2>1. NoteFits(q, note[q])
    BY NoteFitsAt
  <2>2. /\ y(q) \in Note
        /\ y(q).route = note[q].route /\ y(q).prompt = note[q].prompt
        /\ y(q).expiry = note[q].expiry /\ y(q).thread = note[q].thread
        /\ y(q).closing = note[q].closing /\ y(q).entry = note[q].entry
    BY <1>5, <1>7
  <2> HIDE DEF y
  <2> QED BY <2>1, <2>2, NoteTimed
<1>8. ASSUME NEW q \in Request, q # x, note[q] = NewNote PROVE y(q) = NewNote
  <2>1. t(q) = FALSE
    BY <1>8 DEF NewNote
  <2>2. y(q) = [NewNote EXCEPT !.timer = FALSE, !.closing = NewNote.closing,
                               !.entry = NewNote.entry]
    <3> HIDE DEF t, e
    <3> QED BY <1>8, <2>1
  <2>3. [NewNote EXCEPT !.timer = FALSE, !.closing = NewNote.closing,
                        !.entry = NewNote.entry] = NewNote
    BY UntimedNewNote
  <2> HIDE DEF y
  <2> QED BY <2>2, <2>3
<1> HIDE DEF y
<1>9. note' \in [Request -> Note] /\ \A q \in Request : note'[q] = y(q)
  BY <1>1, <1>5
<1>10. /\ slot' \in [Id -> Slot] /\ slot'[IdOf[x]] = Free
       /\ \A i \in Id : i # IdOf[x] => slot'[i] = slot[i]
  BY <1>1, <1>4
<1>11. EntriesAreOpen'
  <2> SUFFICES ASSUME NEW i \in Id, slot'[i].state # "free"
               PROVE  /\ slot'[i].of \in Request /\ IdOf[slot'[i].of] = i
                      /\ note'[slot'[i].of].closing \in {"none", "gated"}
                      /\ slot'[i].state = "routing" => note'[slot'[i].of].route = "routing"
                      /\ slot'[i].state = "ready" => note'[slot'[i].of].route = "forwarded"
    BY DEF EntriesAreOpen
  <2>1. i # IdOf[x] /\ slot'[i] = slot[i]
    BY <1>4, <1>10
  <2>2. /\ slot[i].of \in Request /\ IdOf[slot[i].of] = i
        /\ note[slot[i].of].closing \in {"none", "gated"}
        /\ slot[i].state = "routing" => note[slot[i].of].route = "routing"
        /\ slot[i].state = "ready" => note[slot[i].of].route = "forwarded"
    BY <2>1 DEF ForwarderOK, EntriesAreOpen
  <2>3. slot[i].of # x
    BY <2>1, <2>2
  <2>4. /\ note'[slot[i].of].closing = note[slot[i].of].closing
        /\ note'[slot[i].of].route = note[slot[i].of].route
    BY <1>5, <1>9, <2>2, <2>3
  <2> QED BY <2>1, <2>2, <2>4
<1>12. ForwarderOK'
  <2>1. ASSUME NEW r \in Request PROVE NoteFits(r, note'[r])
    BY <1>6, <1>7, <1>9
  <2> QED BY <1>1, <1>9, <1>10, <1>11, <2>1, ForwarderFromNotes
<1>13. ClosedIsSettled'
  <2> SUFFICES ASSUME NEW r \in Request
               PROVE  /\ note'[r].closing # "none" => rec'[r].promise # Unset
                      /\ note'[r].closing = "gated" => r \in Plugin
    BY DEF ClosedIsSettled
  <2>1. CASE r = x
    BY <1>2, <1>5, <1>9, <2>1
  <2>2. CASE r # x
    BY <1>5, <1>9, <2>2 DEF LinksOK, ClosedIsSettled, Stands
  <2> QED BY <2>1, <2>2
<1>14. PromptIsHeld'
  <2> SUFFICES ASSUME NEW r \in Request, note'[r].prompt \in {"queued", "sending"},
                      \/ rec'[r].state = "pending"
                      \/ r \in Plugin /\ note'[r].closing \in {"none", "gated"}
               PROVE  slot'[IdOf[r]] = Ready(r) \/ note'[r].expiry # "none"
    BY DEF PromptIsHeld
  <2>1. r # x
    <3>1. note'[x].closing \in {"waiting", "rerouting"}
      BY <1>2, <1>5, <1>9
    <3> QED BY <3>1
  <2>2. IdOf[r] # IdOf[x]
    BY <2>1
  <2>3. /\ slot'[IdOf[r]] = slot[IdOf[r]] /\ note'[r].prompt = note[r].prompt
        /\ note'[r].closing = note[r].closing /\ note'[r].expiry = note[r].expiry
    BY <1>5, <1>9, <1>10, <2>1, <2>2
  <2> QED BY <2>3 DEF LinksOK, PromptIsHeld
<1> QED BY <1>8, <1>9, <1>12, <1>13, <1>14 DEF LinksOK, NotesKept

\* The note of r goes on in a step that leaves the map alone.
Advances(r) ==
  /\ NoteFits(r, note'[r])
  /\ \/ note'[r].route = note[r].route
     \/ slot[IdOf[r]].state # "free" => slot[IdOf[r]].of # r
  /\ note[r].closing \in {"none", "gated"} <=> note'[r].closing \in {"none", "gated"}
  /\ note'[r].closing # "none" => rec'[r].promise # Unset
  /\ note'[r].closing = "gated" => r \in Plugin
  /\ note'[r].prompt \in {"queued", "sending"} => note[r].prompt \in {"queued", "sending"}
  /\ note[r].expiry # "none" => note'[r].expiry # "none"
  /\ rec[r].state = "none" /\ note[r] = NewNote => note'[r] = NewNote

LEMMA NoteStays ==
  ASSUME ForwarderOK, LinksOK, NEW r \in Request, Stands(r), note'[r] = note[r]
  PROVE  Advances(r)
<1>1. NoteFits(r, note[r])
  BY NoteFitsAt
<1>2. /\ note[r].closing # "none" => rec'[r].promise # Unset
      /\ note[r].closing = "gated" => r \in Plugin
  BY DEF LinksOK, ClosedIsSettled, Stands
<1> QED BY <1>1, <1>2 DEF Advances

LEMMA NotesAdvance ==
  ASSUME ForwarderOK, LinksOK, UNCHANGED <<slot, clock>>,
         note' \in [Request -> Note], \A r \in Request : Advances(r),
         \A r \in Request : rec'[r].state = "pending" => rec[r].state = "pending"
  PROVE  ForwarderOK' /\ LinksOK' /\ NotesKept
<1>1. /\ slot' \in [Id -> Slot]
      /\ clock' \in [Request -> {"before", "at", "past"}]
  BY NotesAreFit
<1>2. EntriesAreOpen'
  <2> SUFFICES ASSUME NEW i \in Id, slot[i].state # "free"
               PROVE  /\ slot[i].of \in Request /\ IdOf[slot[i].of] = i
                      /\ note'[slot[i].of].closing \in {"none", "gated"}
                      /\ slot[i].state = "routing" => note'[slot[i].of].route = "routing"
                      /\ slot[i].state = "ready" => note'[slot[i].of].route = "forwarded"
    BY DEF EntriesAreOpen
  <2>1. /\ slot[i].of \in Request /\ IdOf[slot[i].of] = i
        /\ note[slot[i].of].closing \in {"none", "gated"}
        /\ slot[i].state = "routing" => note[slot[i].of].route = "routing"
        /\ slot[i].state = "ready" => note[slot[i].of].route = "forwarded"
    BY DEF ForwarderOK, EntriesAreOpen
  <2> QED BY <2>1 DEF Advances
<1>3. ForwarderOK'
  <2>1. ASSUME NEW r \in Request PROVE NoteFits(r, note'[r])
    BY DEF Advances
  <2> QED BY <1>1, <1>2, <2>1, ForwarderFromNotes
<1>4. ClosedIsSettled'
  BY DEF ClosedIsSettled, Advances
<1>5. PromptIsHeld'
  <2> SUFFICES ASSUME NEW r \in Request, note'[r].prompt \in {"queued", "sending"},
                      \/ rec'[r].state = "pending"
                      \/ r \in Plugin /\ note'[r].closing \in {"none", "gated"}
               PROVE  slot'[IdOf[r]] = Ready(r) \/ note'[r].expiry # "none"
    BY DEF PromptIsHeld
  <2>1. /\ note[r].prompt \in {"queued", "sending"}
        /\ note'[r].closing \in {"none", "gated"} => note[r].closing \in {"none", "gated"}
        /\ note[r].expiry # "none" => note'[r].expiry # "none"
    BY DEF Advances
  <2>2. slot[IdOf[r]] = Ready(r) \/ note[r].expiry # "none"
    BY <2>1 DEF LinksOK, PromptIsHeld
  <2> QED BY <2>1, <2>2
<1>6. NotesKept
  BY DEF NotesKept, Advances
<1> QED BY <1>3, <1>4, <1>5, <1>6 DEF LinksOK

(* The denial or decision of a plugin's request waits at the gate.         *)
LEMMA OutcomeGated ==
  ASSUME ForwarderOK, LinksOK, NEW x \in Request, x \in Plugin,
         note' = [note EXCEPT ![x].closing = "gated"], UNCHANGED <<slot, clock>>,
         note[x].closing = "none", rec'[x].promise # Unset, rec[x].state # "none",
         \A r \in Request : Stands(r),
         \A r \in Request : rec'[r].state = "pending" => rec[r].state = "pending"
  PROVE  ForwarderOK' /\ LinksOK' /\ NotesKept
<1> DEFINE y == [note[x] EXCEPT !.closing = "gated"]
<1>1. /\ note \in [Request -> Note] /\ note[x] \in Note /\ NoteFits(x, note[x])
      /\ note' = [note EXCEPT ![x] = y]
  BY NotesAreFit
<1>2. NoteFits(x, y) /\ y \in Note
  <2>1. NoteFits(x, y)
    BY <1>1, NoteGated
  <2> QED BY <2>1 DEF NoteFits
<1>3. /\ y.route = note[x].route /\ y.closing = "gated"
      /\ y.prompt = note[x].prompt /\ y.expiry = note[x].expiry
  BY <1>1 DEF Note
<1> HIDE DEF y
<1>4. /\ note' \in [Request -> Note] /\ note'[x] = y
      /\ \A r \in Request : r # x => note'[r] = note[r]
  BY <1>1, <1>2
<1>5. Advances(x)
  BY <1>2, <1>3, <1>4 DEF Advances
<1>6. ASSUME NEW r \in Request PROVE Advances(r)
  BY <1>4, <1>5, NoteStays
<1> QED BY <1>4, <1>6, NotesAdvance

\* The note of r while the slot i becomes s.
MovesWith(r, i, s) ==
  /\ NoteFits(r, note'[r])
  /\ note'[r].closing = note[r].closing
  /\ note[r].expiry # "none" => note'[r].expiry # "none"
  /\ note[r] = NewNote => note'[r] = NewNote
  /\ IdOf[r] # i => note'[r].route = note[r].route /\ note'[r].prompt = note[r].prompt
  /\ IdOf[r] = i /\ note'[r].prompt \in {"queued", "sending"} =>
       \/ s = Ready(r)
       \/ note'[r].expiry # "none"
       \/ note'[r].prompt = note[r].prompt /\ slot[i] # Ready(r)

EntryFits(i, s) == s.state # "free" =>
  /\ s.of \in Request /\ IdOf[s.of] = i
  /\ note[s.of].closing \in {"none", "gated"}
  /\ s.state = "ready" /\ note'[s.of].route = "forwarded"

(* A slot of the map is emptied, or goes from the lookup to its entry.     *)
LEMMA SlotMoves ==
  ASSUME ForwarderOK, LinksOK, rec' = rec, clock' = clock, NEW i \in Id, NEW s \in Slot,
         slot' = [slot EXCEPT ![i] = s],
         note' \in [Request -> Note],
         \A r \in Request : MovesWith(r, i, s), EntryFits(i, s)
  PROVE  ForwarderOK' /\ LinksOK' /\ NotesKept
<1>1. /\ slot \in [Id -> Slot] /\ slot' \in [Id -> Slot] /\ slot'[i] = s
      /\ \A j \in Id : j # i => slot'[j] = slot[j]
      /\ clock' \in [Request -> {"before", "at", "past"}]
  BY NotesAreFit
<1>2. EntriesAreOpen'
  <2> SUFFICES ASSUME NEW j \in Id, slot'[j].state # "free"
               PROVE  /\ slot'[j].of \in Request /\ IdOf[slot'[j].of] = j
                      /\ note'[slot'[j].of].closing \in {"none", "gated"}
                      /\ slot'[j].state = "routing" => note'[slot'[j].of].route = "routing"
                      /\ slot'[j].state = "ready" => note'[slot'[j].of].route = "forwarded"
    BY DEF EntriesAreOpen
  <2>1. CASE j = i
    BY <1>1, <2>1 DEF MovesWith, EntryFits
  <2>2. CASE j # i
    <3>1. slot'[j] = slot[j]
      BY <1>1, <2>2
    <3>2. /\ slot[j].of \in Request /\ IdOf[slot[j].of] = j
          /\ note[slot[j].of].closing \in {"none", "gated"}
          /\ slot[j].state = "routing" => note[slot[j].of].route = "routing"
          /\ slot[j].state = "ready" => note[slot[j].of].route = "forwarded"
      BY <3>1 DEF ForwarderOK, EntriesAreOpen
    <3>3. /\ note'[slot[j].of].closing = note[slot[j].of].closing
          /\ note'[slot[j].of].route = note[slot[j].of].route
      BY <2>2, <3>2 DEF MovesWith
    <3> QED BY <3>1, <3>2, <3>3
  <2> QED BY <2>1, <2>2
<1>3. ForwarderOK'
  <2>1. \A r \in Request : NoteFits(r, note'[r])
    BY DEF MovesWith
  <2> QED BY <1>1, <1>2, <2>1, ForwarderFromNotes
<1>4. ClosedIsSettled'
  BY DEF LinksOK, ClosedIsSettled, MovesWith
<1>5. PromptIsHeld'
  <2> SUFFICES ASSUME NEW r \in Request, note'[r].prompt \in {"queued", "sending"},
                      \/ rec'[r].state = "pending"
                      \/ r \in Plugin /\ note'[r].closing \in {"none", "gated"}
               PROVE  slot'[IdOf[r]] = Ready(r) \/ note'[r].expiry # "none"
    BY DEF PromptIsHeld
  <2>1. note[r].prompt = note'[r].prompt => slot[IdOf[r]] = Ready(r) \/ note[r].expiry # "none"
    BY DEF LinksOK, PromptIsHeld, MovesWith
  <2>2. CASE IdOf[r] = i
    BY <1>1, <2>1, <2>2 DEF MovesWith
  <2>3. CASE IdOf[r] # i
    <3>1. IdOf[r] \in Id /\ slot'[IdOf[r]] = slot[IdOf[r]]
      BY <1>1, <2>3
    <3> QED BY <2>1, <2>3, <3>1 DEF MovesWith
  <2> QED BY <2>2, <2>3
<1>6. NotesKept
  BY DEF NotesKept, MovesWith
<1> QED BY <1>3, <1>4, <1>5, <1>6 DEF LinksOK

(* The lookup of x returned.                                               *)
LEMMA RoutedKept ==
  ASSUME ForwarderOK, LinksOK, rec' = rec, NEW x \in Request, routed(x),
         \A r \in Request : Stands(r)
  PROVE  ForwarderOK' /\ LinksOK' /\ NotesKept
<1> DEFINE n == note[x]
           y == [n EXCEPT !.route = "forwarded", !.prompt = "queued", !.timer = TRUE]
           z == [n EXCEPT !.route = "unrouted"]
<1>1. /\ slot \in [Id -> Slot] /\ note \in [Request -> Note] /\ IdOf[x] \in Id
      /\ NoteFits(x, n) /\ n \in Note /\ n.route = "routing" /\ clock' = clock
      /\ n.prompt = "none"
  BY NotesAreFit DEF routed, NoteFits
<1>2. /\ NoteFits(x, y) /\ NoteFits(x, z)
  BY <1>1, NoteRouted
<1>3. /\ y.route = "forwarded" /\ y.closing = n.closing /\ y.expiry = n.expiry
      /\ z.route = "unrouted" /\ z.closing = n.closing /\ z.expiry = n.expiry
      /\ z.prompt = n.prompt
  BY <1>1 DEF Note
<1>4. n # NewNote
  BY <1>1 DEF NewNote
<1>5. /\ Routing(x) # Ready(x) /\ Ready(x) \in Slot /\ Ready(x).of = x /\ Ready(x).state = "ready"
      /\ Free \in Slot /\ Free.state = "free"
      /\ \A r : Routing(x) # Ready(r)
  BY DEF Routing, Ready, Slot, Free
<1>6. CASE /\ current(x)
           /\ slot' = [slot EXCEPT ![IdOf[x]] = Ready(x)]
           /\ note' = [note EXCEPT ![x] = y]
  <2> HIDE DEF y, z
  <2>1. /\ note' \in [Request -> Note] /\ note'[x] = y
        /\ \A r \in Request : r # x => note'[r] = note[r]
    BY <1>1, <1>2, <1>6 DEF NoteFits
  <2>2. ASSUME NEW r \in Request PROVE NoteFits(r, note'[r])
    BY <1>2, <2>1, NoteFitsAt
  <2>3. n.closing \in {"none", "gated"}
    <3>1. slot[IdOf[x]].state # "free" /\ slot[IdOf[x]].of = x
      BY <1>6 DEF current, Routing
    <3> QED BY <1>1, <3>1 DEF ForwarderOK, EntriesAreOpen
  <2>4. slot[IdOf[x]] = Routing(x)
    BY <1>6 DEF current
  <2>5. ASSUME NEW r \in Request PROVE MovesWith(r, IdOf[x], Ready(x))
    BY <1>3, <1>4, <1>5, <2>1, <2>2, <2>4 DEF MovesWith
  <2>6. EntryFits(IdOf[x], Ready(x))
    BY <1>3, <1>5, <2>1, <2>3 DEF EntryFits
  <2> QED BY <1>1, <1>5, <1>6, <2>1, <2>5, <2>6, SlotMoves
<1>7. CASE /\ current(x)
           /\ slot' = [slot EXCEPT ![IdOf[x]] = Free]
           /\ note' = [note EXCEPT ![x] = z]
  <2> HIDE DEF y, z
  <2>1. /\ note' \in [Request -> Note] /\ note'[x] = z
        /\ \A r \in Request : r # x => note'[r] = note[r]
    BY <1>1, <1>2, <1>7 DEF NoteFits
  <2>2. ASSUME NEW r \in Request PROVE NoteFits(r, note'[r])
    BY <1>2, <2>1, NoteFitsAt
  <2>4. slot[IdOf[x]] = Routing(x)
    BY <1>7 DEF current
  <2>5. ASSUME NEW r \in Request PROVE MovesWith(r, IdOf[x], Free)
    BY <1>3, <1>4, <1>5, <2>1, <2>2, <2>4 DEF MovesWith
  <2>6. EntryFits(IdOf[x], Free)
    BY <1>5 DEF EntryFits
  <2> QED BY <1>1, <1>5, <1>7, <2>1, <2>5, <2>6, SlotMoves
<1>8. CASE ~current(x) /\ slot' = slot /\ note' = [note EXCEPT ![x] = z]
  <2> HIDE DEF y, z
  <2>1. /\ note' \in [Request -> Note] /\ note'[x] = z
        /\ \A r \in Request : r # x => note'[r] = note[r]
    BY <1>1, <1>2, <1>8 DEF NoteFits
  <2>2. ASSUME NEW r \in Request PROVE NoteFits(r, note'[r])
    BY <1>2, <2>1, NoteFitsAt
  <2>3. slot[IdOf[x]].state # "free" => slot[IdOf[x]].of # x
    <3>1. slot[IdOf[x]] \in Slot
      BY <1>1
    <3>2. /\ slot[IdOf[x]].state = "ready" => slot[IdOf[x]].of # x
          /\ slot[IdOf[x]].state = "routing" => slot[IdOf[x]].of # x
      <4>1. slot[IdOf[x]].state = "ready" => note[slot[IdOf[x]].of].route = "forwarded"
        BY <1>1, Zenon DEF ForwarderOK, EntriesAreOpen
      <4>2. slot[IdOf[x]].state = "routing" /\ slot[IdOf[x]].of = x => slot[IdOf[x]] = Routing(x)
        BY <3>1 DEF Slot, Routing
      <4> QED BY <1>1, <1>8, <4>1, <4>2 DEF current
    <3> QED BY <3>1, <3>2 DEF Slot
  <2>4. Advances(x)
    <3>1. /\ n.closing # "none" => rec'[x].promise # Unset
          /\ n.closing = "gated" => x \in Plugin
      BY DEF LinksOK, ClosedIsSettled
    <3> QED BY <1>3, <1>4, <2>1, <2>2, <2>3, <3>1 DEF Advances
  <2>5. ASSUME NEW r \in Request PROVE Advances(r)
    BY <2>1, <2>4, NoteStays
  <2> QED BY <1>1, <1>8, <2>1, <2>5, NotesAdvance
<1> QED BY <1>6, <1>7, <1>8 DEF routed

\* The note n of x goes on as y.
GoesOn(x, n, y) ==
  /\ NoteFits(x, y)
  /\ y.route = n.route
  /\ n.closing \in {"none", "gated"} <=> y.closing \in {"none", "gated"}
  /\ y.closing = n.closing \/ n.closing \notin {"none", "gated"}
  /\ y.prompt \in {"queued", "sending"} => n.prompt \in {"queued", "sending"}
  /\ n.expiry # "none" => y.expiry # "none"
  /\ n # NewNote

LEMMA GoesOnAdvances ==
  ASSUME LinksOK, rec' = rec, NEW x \in Request, GoesOn(x, note[x], note'[x])
  PROVE  Advances(x)
<1>1. /\ note[x].closing # "none" => rec'[x].promise # Unset
      /\ note[x].closing = "gated" => x \in Plugin
  BY DEF LinksOK, ClosedIsSettled
<1> QED BY <1>1 DEF GoesOn, Advances

LEMMA OneNoteAdvances ==
  ASSUME ForwarderOK, LinksOK, rec' = rec, UNCHANGED <<slot, clock>>,
         \A r \in Request : Stands(r),
         NEW x \in Request, NEW y, GoesOn(x, note[x], y), note' = [note EXCEPT ![x] = y]
  PROVE  ForwarderOK' /\ LinksOK' /\ NotesKept
<1>1. note \in [Request -> Note] /\ y \in Note
  BY NotesAreFit DEF GoesOn, NoteFits
<1>2. /\ note' \in [Request -> Note] /\ note'[x] = y
      /\ \A r \in Request : r # x => note'[r] = note[r]
  BY <1>1
<1>3. Advances(x)
  BY <1>2, GoesOnAdvances
<1>4. ASSUME NEW r \in Request PROVE Advances(r)
  BY <1>2, <1>3, NoteStays
<1> QED BY <1>2, <1>4, NotesAdvance

(* The queued prompt of x is sent or dropped.                              *)
LEMMA StartPromptKept ==
  ASSUME ForwarderOK, LinksOK, rec' = rec, NEW x \in Request, startPrompt(x),
         \A r \in Request : Stands(r)
  PROVE  ForwarderOK' /\ LinksOK' /\ NotesKept
<1> DEFINE n == note[x]
           p == IF shouldSend(x) THEN "sending" ELSE "done"
           y == [n EXCEPT !.prompt = p]
<1>1. /\ NoteFits(x, n) /\ n \in Note /\ IdOf[x] \in Id /\ n.prompt = "queued"
      /\ note' = [note EXCEPT ![x] = y]
  BY NoteFitsAt DEF startPrompt
<1>2. p = "sending" => n.closing \in {"none", "gated"}
  <2>1. shouldSend(x) => slot[IdOf[x]].state # "free" /\ slot[IdOf[x]].of = x
    BY DEF shouldSend, Ready
  <2> QED BY <1>1, <2>1 DEF ForwarderOK, EntriesAreOpen
<1>3. p \in {"sending", "done"}
  OBVIOUS
<1> HIDE DEF p
<1>4. NoteFits(x, y)
  BY <1>1, <1>2, <1>3, NoteStarted
<1>5. /\ y.route = n.route /\ y.closing = n.closing /\ y.expiry = n.expiry
  BY <1>1 DEF Note
<1>6. n # NewNote
  BY <1>1 DEF NewNote
<1> HIDE DEF y
<1>7. GoesOn(x, note[x], y)
  BY <1>1, <1>4, <1>5, <1>6 DEF GoesOn
<1> QED BY <1>1, <1>7, OneNoteAdvances DEF startPrompt

(* The prompt of x is in the chat.                                         *)
LEMMA PromptSentKept ==
  ASSUME ForwarderOK, LinksOK, rec' = rec, NEW x \in Request, promptSent(x),
         \A r \in Request : Stands(r)
  PROVE  ForwarderOK' /\ LinksOK' /\ NotesKept
<1> DEFINE n == note[x]
           th == Append(n.thread, "prompt")
           y == [n EXCEPT !.prompt = "done", !.thread = th]
<1>1. /\ NoteFits(x, n) /\ n \in Note /\ n.prompt = "sending"
      /\ note' = [note EXCEPT ![x] = y]
  BY NoteFitsAt DEF promptSent, post
<1>2. NoteFits(x, y)
  BY <1>1, NotePrompted
<1>3. /\ y.route = n.route /\ y.closing = n.closing /\ y.expiry = n.expiry /\ y.prompt = "done"
  <2> HIDE DEF th
  <2> QED BY <1>1 DEF Note
<1>4. n # NewNote
  BY <1>1 DEF NewNote
<1> HIDE DEF y
<1>5. GoesOn(x, note[x], y)
  BY <1>2, <1>3, <1>4 DEF GoesOn
<1> QED BY <1>1, <1>5, OneNoteAdvances DEF promptSent

(* The expiry notice of x is in the chat.                                  *)
LEMMA ExpirySentKept ==
  ASSUME ForwarderOK, LinksOK, rec' = rec, NEW x \in Request, expirySent(x),
         \A r \in Request : Stands(r)
  PROVE  ForwarderOK' /\ LinksOK' /\ NotesKept
<1> DEFINE n == note[x]
           th == Append(n.thread, "expired")
           y == [n EXCEPT !.expiry = "done", !.thread = th]
<1>1. /\ NoteFits(x, n) /\ n \in Note /\ n.prompt = "done" /\ n.expiry = "waiting"
      /\ note' = [note EXCEPT ![x] = y]
  BY NoteFitsAt DEF expirySent, post
<1>2. NoteFits(x, y)
  BY <1>1, NoteExpired
<1>3. /\ y.route = n.route /\ y.closing = n.closing /\ y.expiry = "done" /\ y.prompt = n.prompt
  <2> HIDE DEF th
  <2> QED BY <1>1 DEF Note
<1>4. n # NewNote
  BY <1>1 DEF NewNote
<1> HIDE DEF y
<1>5. GoesOn(x, note[x], y)
  BY <1>2, <1>3, <1>4 DEF GoesOn
<1> QED BY <1>1, <1>5, OneNoteAdvances DEF expirySent

(* A note after an outcome was posted, or found no target.                 *)
Answer(n, c, th) == [n EXCEPT !.closing = c, !.thread = th]

Thread == Seq({"prompt", "resolved", "expired"})

LEMMA PostedThread ==
  ASSUME NEW s \in Thread
  PROVE  Append(s, "resolved") \in Thread
BY DEF Thread

LEMMA NoteAnswered ==
  ASSUME NEW n \in Note, NEW c \in Closing, NEW th \in Thread
  PROVE  /\ Answer(n, c, th).route = n.route /\ Answer(n, c, th).prompt = n.prompt
         /\ Answer(n, c, th).expiry = n.expiry /\ Answer(n, c, th).entry = n.entry
         /\ Answer(n, c, th).closing = c /\ Answer(n, c, th).thread = th
         /\ c = n.closing /\ th = n.thread => Answer(n, c, th) = n
<1>1. /\ Answer(n, c, th).route = n.route /\ Answer(n, c, th).prompt = n.prompt
      /\ Answer(n, c, th).expiry = n.expiry /\ Answer(n, c, th).entry = n.entry
      /\ Answer(n, c, th).closing = c /\ Answer(n, c, th).thread = th
  BY DEF Note, Closing, Answer, Thread
<1>2. c = n.closing /\ th = n.thread => Answer(n, c, th) = n
  BY DEF Note, Answer
<1> QED BY <1>1, <1>2

LEMMA AnswerTyped ==
  ASSUME NEW n \in Note, NEW c \in Closing, NEW th \in Thread
  PROVE  Answer(n, c, th) \in Note
BY DEF Note, Closing, Answer, Thread

\* The outcome of x goes to the chat of e.
Posts(x, e) ==
  /\ e = note[x].entry /\ note[x].closing = "waiting" /\ note[e].prompt = "done"
  /\ note' = [q \in Request |->
                Answer(note[q], IF q = x THEN "done" ELSE note[q].closing,
                       IF q = e THEN Append(note[e].thread, "resolved") ELSE note[q].thread)]

LEMMA OutcomePosted ==
  ASSUME ForwarderOK, LinksOK, rec' = rec, UNCHANGED <<slot, clock>>,
         NEW x \in Request, NEW e, Posts(x, e), \A r \in Request : Stands(r)
  PROVE  ForwarderOK' /\ LinksOK' /\ NotesKept
<1> DEFINE c(q) == IF q = x THEN "done" ELSE note[q].closing
           th(q) == IF q = e THEN Append(note[e].thread, "resolved") ELSE note[q].thread
           y(q) == Answer(note[q], c(q), th(q))
<1>1. /\ note \in [Request -> Note] /\ NoteFits(x, note[x])
      /\ e = note[x].entry /\ note[x].closing = "waiting" /\ note[e].prompt = "done"
      /\ note' = [q \in Request |-> y(q)]
  BY NoteFitsAt, NotesAreFit DEF Posts
<1>2. e \in Request
  BY <1>1 DEF NoteFits
<1>3. ASSUME NEW q \in Request
      PROVE  /\ note[q] \in Note /\ note[q].closing \in Closing /\ note[q].thread \in Thread
  BY <1>1 DEF Note, Closing, Thread
<1>4. ASSUME NEW q \in Request
      PROVE  c(q) \in Closing /\ th(q) \in Thread
  <2>1. Append(note[e].thread, "resolved") \in Thread
    BY <1>2, <1>3, PostedThread
  <2>2. "done" \in Closing
    BY DEF Closing
  <2> QED BY <1>3, <2>1, <2>2
<1>5. /\ c(x) = "done"
      /\ \A q \in Request : q # x => c(q) = note[q].closing
      /\ th(e) = Append(note[e].thread, "resolved")
      /\ \A q \in Request : q # e => th(q) = note[q].thread
  OBVIOUS
<1> HIDE DEF c, th
<1>6. ASSUME NEW q \in Request
      PROVE  /\ y(q).route = note[q].route /\ y(q).prompt = note[q].prompt
             /\ y(q).expiry = note[q].expiry /\ y(q).entry = note[q].entry
             /\ y(q).closing = c(q) /\ y(q).thread = th(q)
             /\ c(q) = note[q].closing /\ th(q) = note[q].thread => y(q) = note[q]
  BY <1>3, <1>4, NoteAnswered
<1>7. ASSUME NEW q \in Request PROVE y(q) \in Note
  BY <1>3, <1>4, AnswerTyped
<1> HIDE DEF y
<1>8. note' \in [Request -> Note] /\ \A q \in Request : note'[q] = y(q)
  BY <1>1, <1>7
<1>9. ASSUME NEW q \in Request, q \in {x, e} PROVE Advances(q)
  <2>1. NoteFits(q, note[q])
    BY NoteFitsAt
  <2>2. note[q] # NewNote
    BY <1>1, <1>9 DEF NewNote
  <2>3. NoteFits(q, y(q))
    <3>1. /\ y(q).thread \in {note[q].thread, Append(note[q].thread, "resolved")}
          /\ y(q).closing \in {note[q].closing, "done"}
      BY <1>5, <1>6
    <3>2. /\ note[q].closing \in {"none", "gated"} => y(q).closing = note[q].closing
          /\ note[q].prompt # "done" => y(q).thread = note[q].thread
      BY <1>1, <1>5, <1>6
    <3>3. note[q].prompt = "sending" /\ y(q).closing # note[q].closing
            /\ note[q].closing = "waiting" => note[q].entry # q
      BY <1>1, <1>5, <1>6
    <3> QED BY <1>6, <1>7, <2>1, <3>1, <3>2, <3>3, NoteResolved
  <2>4. GoesOn(q, note[q], note'[q])
    BY <1>1, <1>5, <1>6, <1>8, <2>2, <2>3 DEF GoesOn
  <2> QED BY <2>4, GoesOnAdvances
<1>10. ASSUME NEW q \in Request, q \notin {x, e} PROVE Advances(q)
  <2>1. note'[q] = note[q]
    BY <1>5, <1>6, <1>8, <1>10
  <2> QED BY <2>1, NoteStays
<1>11. \A q \in Request : Advances(q)
  BY <1>9, <1>10
<1> QED BY <1>8, <1>11, NotesAdvance

LEMMA ResolvedSentKept ==
  ASSUME ForwarderOK, LinksOK, rec' = rec, NEW x \in Request, resolvedSent(x),
         \A r \in Request : Stands(r)
  PROVE  ForwarderOK' /\ LinksOK' /\ NotesKept
<1> DEFINE n == note[x]
<1>1. NoteFits(x, n) /\ n \in Note /\ n.thread \in Thread /\ UNCHANGED <<slot, clock>>
  BY NoteFitsAt DEF Note, Thread, resolvedSent
<1>2. \/ Posts(x, n.entry)
      \/ /\ n.closing = "rerouting"
         /\ \E th \in {n.thread, Append(n.thread, "resolved")} :
              note' = [note EXCEPT ![x] = Answer(n, "done", th)]
  BY DEF resolvedSent, Posts, Answer, post
<1>3. CASE Posts(x, n.entry)
  BY <1>1, <1>3, OutcomePosted
<1>4. ASSUME n.closing = "rerouting", NEW th \in {n.thread, Append(n.thread, "resolved")},
             note' = [note EXCEPT ![x] = Answer(n, "done", th)]
      PROVE  ForwarderOK' /\ LinksOK' /\ NotesKept
  <2> DEFINE y == Answer(n, "done", th)
  <2>1. th \in Thread /\ "done" \in Closing
    <3>1. Append(n.thread, "resolved") \in Thread
      BY <1>1, PostedThread
    <3> QED BY <1>1, <3>1 DEF Closing
  <2>2. /\ y.route = n.route /\ y.prompt = n.prompt /\ y.expiry = n.expiry
        /\ y.entry = n.entry /\ y.closing = "done" /\ y.thread = th
    BY <1>1, <2>1, NoteAnswered
  <2>3. y \in Note
    BY <1>1, <2>1, AnswerTyped
  <2> HIDE DEF y
  <2>4. NoteFits(x, y)
    BY <1>1, <1>4, <2>2, <2>3, NoteResolved
  <2>5. n # NewNote
    BY <1>4 DEF NewNote
  <2>6. GoesOn(x, note[x], y)
    BY <1>4, <2>2, <2>4, <2>5 DEF GoesOn
  <2>7. note' = [note EXCEPT ![x] = y]
    BY <1>4 DEF y
  <2> QED BY <1>1, <2>6, <2>7, OneNoteAdvances
<1> QED BY <1>2, <1>3, <1>4

(* Every step of the forwarder's own.                                      *)
LEMMA ForwardsKept ==
  ASSUME ForwarderOK, LinksOK, rec' = rec, NEW x \in Request, forwards(x),
         \A r \in Request : Stands(r)
  PROVE  ForwarderOK' /\ LinksOK' /\ NotesKept
BY RoutedKept, StartPromptKept, PromptSentKept, ExpirySentKept, ResolvedSentKept DEF forwards

-----------------------------------------------------------------------------
(* The expiry timer of x fires: it takes the entry that stands, whosesoever*)
(* it is, and leaves a notice for its request.                             *)

Rung(n, v) == [n EXCEPT !.timer = TRUE, !.expiry = v]
Silenced(n, v) == [n EXCEPT !.timer = FALSE, !.expiry = v]

LEMMA RungFields ==
  ASSUME NEW n \in Note, NEW v \in {"none", "waiting", "done"}
  PROVE  /\ Rung(n, v).route = n.route /\ Rung(n, v).prompt = n.prompt
         /\ Rung(n, v).thread = n.thread /\ Rung(n, v).closing = n.closing
         /\ Rung(n, v).entry = n.entry /\ Rung(n, v).expiry = v
         /\ Silenced(n, v).route = n.route /\ Silenced(n, v).prompt = n.prompt
         /\ Silenced(n, v).thread = n.thread /\ Silenced(n, v).closing = n.closing
         /\ Silenced(n, v).entry = n.entry /\ Silenced(n, v).expiry = v
<1>1. /\ Rung(n, v).route = n.route /\ Rung(n, v).prompt = n.prompt
      /\ Rung(n, v).thread = n.thread /\ Rung(n, v).closing = n.closing
      /\ Rung(n, v).entry = n.entry /\ Rung(n, v).expiry = v
  BY DEF Note, Rung
<1>2. /\ Silenced(n, v).route = n.route /\ Silenced(n, v).prompt = n.prompt
      /\ Silenced(n, v).thread = n.thread /\ Silenced(n, v).closing = n.closing
      /\ Silenced(n, v).entry = n.entry /\ Silenced(n, v).expiry = v
  BY DEF Note, Silenced
<1> QED BY <1>1, <1>2

LEMMA RungTyped ==
  ASSUME NEW n \in Note, NEW v \in {"none", "waiting", "done"}
  PROVE  Rung(n, v) \in Note /\ Silenced(n, v) \in Note
BY DEF Note, Rung, Silenced

LEMMA ExpiryDueKept ==
  ASSUME ForwarderOK, LinksOK, rec' = rec, NEW x \in Request, expiryDue(x),
         \A r \in Request : Stands(r)
  PROVE  ForwarderOK' /\ LinksOK' /\ NotesKept
<1> DEFINE e == slot[IdOf[x]]
           live == e.state = "ready"
           v(q) == IF live /\ q = e.of THEN "waiting" ELSE note[q].expiry
           t(q) == note[q].timer /\ q # x
           y(q) == [note[q] EXCEPT !.timer = t(q), !.expiry = v(q)]
<1>1. /\ slot \in [Id -> Slot] /\ note \in [Request -> Note] /\ IdOf[x] \in Id
      /\ clock' = clock
      /\ slot' = IF live THEN [slot EXCEPT ![IdOf[x]] = Free] ELSE slot
      /\ note' = [q \in Request |-> y(q)]
  BY NotesAreFit DEF expiryDue, noticeOf
<1>2. live => /\ e.of \in Request /\ IdOf[e.of] = IdOf[x]
              /\ note[e.of].route = "forwarded"
  BY <1>1 DEF ForwarderOK, EntriesAreOpen
<1>3. live /\ e.of \in Request => e = Ready(e.of)
  BY <1>1 DEF Slot, Ready
<1>4. ASSUME NEW q \in Request
      PROVE  note[q] \in Note /\ v(q) \in {"none", "waiting", "done"} /\ t(q) \in BOOLEAN
  BY <1>1 DEF Note
<1>5. /\ \A q \in Request : v(q) \in {note[q].expiry, "waiting"}
      /\ live => v(e.of) = "waiting"
      /\ \A q \in Request : ~live \/ q # e.of => v(q) = note[q].expiry
  OBVIOUS
<1>6. ASSUME NEW q \in Request
      PROVE  \/ t(q) = TRUE /\ y(q) = Rung(note[q], v(q))
             \/ t(q) = FALSE /\ y(q) = Silenced(note[q], v(q))
  <2> HIDE DEF t, v
  <2>1. CASE t(q) = TRUE
    BY <2>1 DEF Rung
  <2>2. CASE t(q) = FALSE
    BY <2>2 DEF Silenced
  <2> QED BY <1>4, <2>1, <2>2
<1>7. ASSUME NEW q \in Request, note[q] = NewNote, v(q) = note[q].expiry
      PROVE  y(q) = NewNote
  <2>1. t(q) = FALSE
    BY <1>7 DEF NewNote
  <2>2. y(q) = [NewNote EXCEPT !.timer = FALSE, !.expiry = NewNote.expiry]
    <3> HIDE DEF t, v
    <3> QED BY <1>7, <2>1
  <2>3. [NewNote EXCEPT !.timer = FALSE, !.expiry = NewNote.expiry] = NewNote
    BY UntimedNewNote
  <2> HIDE DEF y
  <2> QED BY <2>2, <2>3
<1> HIDE DEF t, v, y
<1>8. ASSUME NEW q \in Request PROVE y(q) \in Note
  <2>1. Rung(note[q], v(q)) \in Note /\ Silenced(note[q], v(q)) \in Note
    BY <1>4, RungTyped
  <2> QED BY <1>6, <2>1
<1>9. ASSUME NEW q \in Request
      PROVE  /\ y(q).route = note[q].route /\ y(q).prompt = note[q].prompt
             /\ y(q).thread = note[q].thread /\ y(q).closing = note[q].closing
             /\ y(q).entry = note[q].entry /\ y(q).expiry = v(q)
  <2>1. CASE y(q) = Rung(note[q], v(q))
    BY <1>4, <2>1, RungFields
  <2>2. CASE y(q) = Silenced(note[q], v(q))
    BY <1>4, <2>2, RungFields
  <2> QED BY <1>6, <2>1, <2>2
<1>10. note' \in [Request -> Note] /\ \A q \in Request : note'[q] = y(q)
  BY <1>1, <1>8
<1>11. ASSUME NEW q \in Request PROVE NoteFits(q, y(q))
  <2>1. NoteFits(q, note[q])
    BY NoteFitsAt
  <2>2. y(q).expiry \in {note[q].expiry, "waiting"}
    BY <1>5, <1>9
  <2> QED BY <1>8, <1>9, <2>1, <2>2, NoteTimed
<1>12. ASSUME NEW q \in Request, note[q] = NewNote PROVE note'[q] = NewNote
  <2>1. ~(live /\ q = e.of)
    BY <1>2, <1>12 DEF NewNote
  <2>2. v(q) = note[q].expiry
    BY <1>5, <2>1
  <2> QED BY <1>7, <1>10, <1>12, <2>2
<1>13. ASSUME NEW q \in Request, note[q].expiry # "none" PROVE note'[q].expiry # "none"
  <2>1. note'[q].expiry \in {note[q].expiry, "waiting"}
    BY <1>5, <1>9, <1>10
  <2> QED BY <1>13, <2>1
<1>14. CASE live
  <2>1. Free \in Slot /\ Free.state = "free"
    BY DEF Free, Slot
  <2>2. note'[e.of].expiry = "waiting"
    BY <1>2, <1>5, <1>9, <1>10, <1>14
  <2>3. ASSUME NEW q \in Request PROVE MovesWith(q, IdOf[x], Free)
    <3>1. IdOf[q] = IdOf[x] => note'[q].expiry # "none" \/ slot[IdOf[x]] # Ready(q)
      <4>1. q = e.of => note'[q].expiry # "none"
        BY <2>2
      <4>2. q # e.of => slot[IdOf[x]] # Ready(q)
        BY DEF Ready
      <4> QED BY <4>1, <4>2
    <3> HIDE DEF e, live
    <3> QED BY <1>9, <1>10, <1>11, <1>12, <1>13, <3>1 DEF MovesWith
  <2>4. EntryFits(IdOf[x], Free)
    BY <2>1 DEF EntryFits
  <2>5. slot' = [slot EXCEPT ![IdOf[x]] = Free]
    BY <1>1, <1>14
  <2> HIDE DEF e, live
  <2> QED BY <1>1, <1>10, <2>1, <2>3, <2>4, <2>5, SlotMoves
<1>15. CASE ~live
  <2>1. slot' = slot
    BY <1>1, <1>15
  <2> HIDE DEF e, live
  <2>2. ASSUME NEW q \in Request PROVE Advances(q)
    <3>1. /\ note[q].closing # "none" => rec'[q].promise # Unset
          /\ note[q].closing = "gated" => q \in Plugin
      BY DEF LinksOK, ClosedIsSettled
    <3> QED BY <1>9, <1>10, <1>11, <1>12, <1>13, <3>1 DEF Advances
  <2> QED BY <1>1, <1>10, <2>1, <2>2, NotesAdvance
<1> QED BY <1>14, <1>15

-----------------------------------------------------------------------------
(* The actions.                                                            *)

Good == RecordsOK /\ CallsOK /\ HoldersOK /\ ForwarderOK /\ LinksOK

Preserved == /\ RecordsOK' /\ CallsOK' /\ HoldersOK' /\ ForwarderOK' /\ LinksOK'
             /\ \A r \in Request : Stands(r)

LEMMA KeptUndisturbed ==
  ASSUME Kept, NotesKept
  PROVE  \A r \in Request : Stands(r) /\ Undisturbed(r)
BY DEF Kept, NotesKept, Undisturbed

LEMMA IdleWhileKept ==
  ASSUME Good, Kept, UNCHANGED fwdVars
  PROVE  ForwarderOK' /\ LinksOK' /\ NotesKept
<1>1. clock' \in [Request -> {"before", "at", "past"}]
  BY DEF Good, ForwarderOK, ForwarderTypeOK, fwdVars
<1> QED BY <1>1, ForwarderIdle DEF Good, Kept, fwdVars

(* A step that leaves the handlers and the holders alone.                  *)
LEMMA QuietStep ==
  ASSUME Good, RecordsOK', Kept, ForwarderOK', LinksOK', NotesKept,
         UNCHANGED <<call, op, waiter>>
  PROVE  Preserved
<1>1. \A r \in Request : Stands(r) /\ Undisturbed(r)
  BY KeptUndisturbed
<1>2. CallsOK' /\ HoldersOK'
  BY <1>1, CallsUnchanged, HoldersUnchanged DEF Good
<1> QED BY <1>1, <1>2 DEF Preserved

(* A step of one request's handler.                                        *)
LEMMA HandlerStep ==
  ASSUME Good, RecordsOK', Kept, ForwarderOK', LinksOK', NotesKept,
         UNCHANGED <<op, waiter>>,
         NEW x \in Request, NEW c, call' = [call EXCEPT ![x] = c],
         CallFits(x, c, rec'[x], note'[x])
  PROVE  Preserved
<1>1. \A r \in Request : Stands(r) /\ Undisturbed(r)
  BY KeptUndisturbed
<1>2. CallsOK'
  BY <1>1, OneCallStep DEF Good
<1>3. HoldersOK'
  BY <1>1, HoldersUnchanged DEF Good
<1> QED BY <1>1, <1>2, <1>3 DEF Preserved

(* A step of one request's handler and nothing else.                       *)
LEMMA HandlerOnly ==
  ASSUME Good, UNCHANGED <<pending, rec, op, waiter, used, fwdVars>>,
         NEW x \in Request, NEW c, call' = [call EXCEPT ![x] = c],
         CallFits(x, c, rec[x], note[x])
  PROVE  Preserved
<1>1. RecordsOK' /\ Kept
  BY RecordsUnchanged DEF Good
<1>2. ForwarderOK' /\ LinksOK' /\ NotesKept
  BY <1>1, IdleWhileKept
<1>3. CallFits(x, c, rec'[x], note'[x])
  BY DEF fwdVars
<1> QED BY <1>1, <1>2, <1>3, HandlerStep

LEMMA CallAt ==
  ASSUME Good, NEW r \in Request
  PROVE  call[r] \in Handler /\ CallFits(r, call[r], rec[r], note[r])
BY CallsAreFit DEF Good

LEMMA ExecRequestOK ==
  ASSUME Good, NEW x \in Request, execRequest(x)
  PROVE  Preserved
<1> DEFINE c == [call[x] EXCEPT !.pc = "analysing"]
<1>1. call[x] \in Handler /\ CallFits(x, call[x], rec[x], note[x]) /\ call[x].pc = "new"
  BY CallAt DEF execRequest
<1>2. /\ c \in Handler /\ c.pc = "analysing" /\ c.on = call[x].on /\ c.ack = call[x].ack
      /\ c.final = call[x].final /\ c.resp = call[x].resp
  BY <1>1 DEF Handler
<1>3. call' = [call EXCEPT ![x] = c]
  BY DEF execRequest
<1> HIDE DEF c
<1>4. CallFits(x, c, rec[x], note[x])
  BY <1>1, <1>2 DEF CallFits
<1> QED BY <1>3, <1>4, HandlerOnly DEF execRequest

LEMMA RefuseOK ==
  ASSUME Good, NEW x \in Request, call[x].pc \in {"new", "analysing"}, refuse(x)
  PROVE  Preserved
<1> DEFINE c == [call[x] EXCEPT !.pc = "done", !.final = "error"]
<1>1. call[x] \in Handler /\ CallFits(x, call[x], rec[x], note[x])
  BY CallAt
<1>2. /\ c \in Handler /\ c.pc = "done" /\ c.on = call[x].on
      /\ c.resp = call[x].resp
  BY <1>1 DEF Handler
<1>3. call' = [call EXCEPT ![x] = c]
  BY DEF refuse
<1> HIDE DEF c
<1>4. CallFits(x, c, rec[x], note[x])
  BY <1>1, <1>2 DEF CallFits
<1> QED BY <1>3, <1>4, HandlerOnly DEF refuse

LEMMA HandlerEnds ==
  ASSUME Good, NEW x \in Request, call[x].pc \in {"new", "closing"},
         call' = [call EXCEPT ![x].pc = "done"],
         UNCHANGED <<pending, rec, op, waiter, used, fwdVars>>
  PROVE  Preserved
<1> DEFINE c == [call[x] EXCEPT !.pc = "done"]
<1>1. call[x] \in Handler /\ CallFits(x, call[x], rec[x], note[x])
  BY CallAt
<1>2. /\ c \in Handler /\ c.pc = "done" /\ c.on = call[x].on
      /\ c.final = call[x].final /\ c.resp = call[x].resp
  BY <1>1 DEF Handler
<1>2a. c.ack <=> call[x].ack
  BY <1>1 DEF Handler
<1>3. call' = [call EXCEPT ![x] = c]
  OBVIOUS
<1> HIDE DEF c
<1>4. CallFits(x, c, rec[x], note[x])
  BY <1>1, <1>2, <1>2a DEF CallFits
<1> QED BY <1>3, <1>4, HandlerOnly

LEMMA DecidedOK ==
  ASSUME Good, NEW x \in Request, decided(x)
  PROVE  Preserved
<1> DEFINE p == rec[call[x].on].promise
           c == [call[x] EXCEPT !.pc = "done", !.final = p]
<1>1. /\ call[x] \in Handler /\ CallFits(x, call[x], rec[x], note[x])
      /\ call[x].pc = "waiting"
  BY CallAt DEF decided
<1>2. call[x].on \in Request /\ p \in Verdict \cup {Null, Unset}
  <2>1. call[x].on \in Request
    BY <1>1 DEF CallFits
  <2>2. rec[call[x].on] \in Record
    BY <2>1 DEF Good, RecordsOK
  <2> QED BY <2>1, <2>2 DEF Record
<1>3. call' = [call EXCEPT ![x] = c]
  BY DEF decided
<1> HIDE DEF p
<1>4. /\ c \in Handler /\ c.pc = "done" /\ c.on = call[x].on /\ c.resp = call[x].resp
  BY <1>1, <1>2 DEF Handler
<1> HIDE DEF c
<1>5. CallFits(x, c, rec[x], note[x])
  BY <1>1, <1>4 DEF CallFits
<1> QED BY <1>3, <1>5, HandlerOnly DEF decided

(* A handler whose request's route is known answers or waits.              *)
LEMMA RoutedCallFits ==
  ASSUME NEW x \in Request, NEW c \in Handler, c.on = x, c.resp # "aborted",
         NEW lost, NEW e, NEW n
  PROVE  CallFits(x, routedCall(c, x, lost), e, n)
<1> DEFINE a == [c EXCEPT !.pc = "done", !.settled = TRUE, !.final = Null, !.clients = FALSE]
           b == [c EXCEPT !.pc = "waiting", !.settled = TRUE, !.ack = x \in TwoPhase,
                          !.resp = "acknowledged", !.clients = FALSE]
<1>1. CallFits(x, a, e, n)
  <2>1. a \in Handler /\ a.pc = "done" /\ a.on = c.on /\ a.resp = c.resp
    BY DEF Handler, Null
  <2> HIDE DEF a
  <2> QED BY <2>1 DEF CallFits
<1>2. CallFits(x, b, e, n)
  <2>1. b \in Handler /\ b.pc = "waiting" /\ b.on = c.on /\ b.resp = "acknowledged"
    <3>1. CASE x \in TwoPhase
      <4> DEFINE d == [c EXCEPT !.pc = "waiting", !.settled = TRUE, !.ack = TRUE,
                                !.resp = "acknowledged", !.clients = FALSE]
      <4>1. d \in Handler /\ d.pc = "waiting" /\ d.on = c.on /\ d.resp = "acknowledged"
        BY DEF Handler
      <4>2. (x \in TwoPhase) = TRUE
        BY <3>1
      <4>3. b = d
        BY <4>2, Zenon
      <4> HIDE DEF d, b
      <4> QED BY <4>1, <4>3
    <3>2. CASE x \notin TwoPhase
      <4> DEFINE d == [c EXCEPT !.pc = "waiting", !.settled = TRUE, !.ack = FALSE,
                                !.resp = "acknowledged", !.clients = FALSE]
      <4>1. d \in Handler /\ d.pc = "waiting" /\ d.on = c.on /\ d.resp = "acknowledged"
        BY DEF Handler
      <4>2. (x \in TwoPhase) = FALSE
        BY <3>2
      <4>3. b = d
        BY <4>2, Zenon
      <4> HIDE DEF d, b
      <4> QED BY <4>1, <4>3
    <3> QED BY <3>1, <3>2
  <2> HIDE DEF b
  <2> QED BY <2>1 DEF CallFits
<1>3. routedCall(c, x, lost) = IF lost THEN a ELSE b
  BY DEF routedCall
<1> HIDE DEF a, b
<1> QED BY <1>1, <1>2, <1>3

(* Without a route the record that the id names expires at once.           *)
LEMMA LostRouteKept ==
  ASSUME Good, NEW x \in Request, NEW lost,
         rec' = routedRecords(pending, rec, x, lost), UNCHANGED <<pending, used>>
  PROVE  RecordsOK' /\ Kept
<1>1. CASE ~lost
  BY <1>1, RecordsUnchanged DEF routedRecords, Good
<1>2. CASE lost
  <2>1. /\ rec' = settle(pending, rec, IdOf[x], Null, "no-approval-route")
        /\ IdOf[x] \in Id /\ Null \in Verdict \cup {Null} /\ "no-approval-route" \in Settler
        /\ Null # "allow-once" /\ "no-approval-route" # "request-aborted"
    BY <1>2 DEF routedRecords, Settler, Null
  <2>2. /\ settles(pending, rec, IdOf[x]) =>
             Settles(pending[IdOf[x]], Null, "no-approval-route")
        /\ ~settles(pending, rec, IdOf[x]) => UNCHANGED <<pending, rec, used>>
    BY <2>1, SettleSettles DEF Good
  <2> QED BY <2>2, SettlementKept, RecordsUnchanged DEF Good
<1> QED BY <1>1, <1>2

LEMMA DeliverySettledOK ==
  ASSUME Good, NEW x \in Request, deliverySettled(x)
  PROVE  Preserved
<1>1. /\ call[x] \in Handler /\ CallFits(x, call[x], rec[x], note[x])
      /\ call[x].pc = "delivering" /\ call[x].on = x
  BY CallAt DEF deliverySettled, CallFits
<1>2. CASE abandoned(x)
  <2> DEFINE c == [call[x] EXCEPT !.pc = "closing", !.settled = TRUE, !.clients = FALSE]
  <2>1. /\ c \in Handler /\ c.pc = "closing" /\ c.on = call[x].on
        /\ c.final = call[x].final /\ c.resp = call[x].resp
    BY <1>1 DEF Handler
  <2>2. c.ack <=> call[x].ack
    BY <1>1 DEF Handler
  <2>3. call' = [call EXCEPT ![x] = c]
    BY <1>2 DEF deliverySettled
  <2> HIDE DEF c
  <2>4. CallFits(x, c, rec[x], note[x])
    BY <1>1, <2>1, <2>2 DEF CallFits
  <2> QED BY <1>2, <2>3, <2>4, HandlerOnly DEF deliverySettled
<1>3. CASE ~abandoned(x)
  <2>1. PICK lost : /\ rec' = routedRecords(pending, rec, x, lost)
                    /\ call' = [call EXCEPT ![x] = routedCall(call[x], x, lost)]
    BY <1>3 DEF deliverySettled
  <2>2. RecordsOK' /\ Kept
    BY <2>1, LostRouteKept DEF deliverySettled
  <2>3. ForwarderOK' /\ LinksOK' /\ NotesKept
    BY <2>2, IdleWhileKept DEF deliverySettled
  <2>4. CallFits(x, routedCall(call[x], x, lost), rec'[x], note'[x])
    BY <1>1, <1>3, RoutedCallFits DEF abandoned
  <2> QED BY <2>1, <2>2, <2>3, <2>4, HandlerStep DEF deliverySettled
<1> QED BY <1>2, <1>3

(* A registration finds its id free.                                       *)
LEMMA RegistersAlone ==
  ASSUME Good, NEW x \in Request, call[x].pc \in {"new", "analysing"},
         x \in Plugin \/ ~taken(x)
  PROVE  /\ pending[IdOf[x]] = None /\ rec[x] = NewRecord /\ note[x] = NewNote
         /\ call[x].on = None /\ call[x].resp # "aborted"
         /\ ~throws(x)
<1>1. /\ rec[x] = NewRecord /\ note[x] = NewNote /\ call[x].on = None
      /\ call[x].resp # "aborted"
  BY CallAt DEF CallFits
<1>2. pending[IdOf[x]] = None
  <2>1. CASE ~taken(x)
    BY <2>1 DEF taken, getSnapshot
  <2>2. CASE x \in Plugin
    <3>1. SUFFICES ASSUME pending[IdOf[x]] # None PROVE FALSE
      OBVIOUS
    <3>2. /\ IdOf[x] \in Id /\ pending[IdOf[x]] \in Request
          /\ IdOf[pending[IdOf[x]]] = IdOf[x] /\ rec[pending[IdOf[x]]].state # "none"
      BY <3>1 DEF Good, RecordsOK, MapNamesRecords
    <3>3. pending[IdOf[x]] = x
      BY <2>2, <3>2
    <3> QED BY <1>1, <3>2, <3>3 DEF NewRecord
  <2> QED BY <2>1, <2>2
<1> QED BY <1>1, <1>2 DEF throws

(* The records after a registration.                                       *)
LEMMA RegistrationRecords ==
  ASSUME RecordsOK, NEW x \in Request, NEW pm, NEW rc, NEW lost,
         pm = [pending EXCEPT ![IdOf[x]] = x], rc = [rec EXCEPT ![x] = NewPending]
  PROVE  \E y \in {NewPending, settled(NewPending, Null, "no-approval-route")} :
            routedRecords(pm, rc, x, lost) = [rec EXCEPT ![x] = y]
<1>1. /\ rec \in [Request -> Record] /\ pending \in [Id -> Request \cup {None}]
      /\ IdOf[x] \in Id
  BY DEF RecordsOK
<1>2. CASE ~lost
  BY <1>2 DEF routedRecords
<1>3. CASE lost
  <2>1. pm[IdOf[x]] = x /\ x # None /\ rc[x] = NewPending
    BY <1>1
  <2>2. NewPending.state = "pending"
    BY DEF NewPending, NewRecord
  <2>3. routedRecords(pm, rc, x, lost) =
          [rc EXCEPT ![x] = settled(NewPending, Null, "no-approval-route")]
    BY <1>3, <2>1, <2>2 DEF routedRecords, settle, settles
  <2> DEFINE y == settled(NewPending, Null, "no-approval-route")
  <2>4. [rc EXCEPT ![x] = y] = [rec EXCEPT ![x] = y]
    <3> HIDE DEF y
    <3> QED BY <1>1
  <2> QED BY <2>3, <2>4
<1> QED BY <1>2, <1>3

\* The handler's own registration, with its record y.
LEMMA RegisteredOK ==
  ASSUME Good, NEW x \in Request, call[x].pc \in {"new", "analysing"},
         x \in Plugin \/ ~taken(x), registered(x)
  PROVE  Preserved
<1> DEFINE pm == [pending EXCEPT ![IdOf[x]] = x]
           rc == [rec EXCEPT ![x] = NewPending]
           c == [call[x] EXCEPT !.on = x]
<1>1. /\ pending[IdOf[x]] = None /\ rec[x] = NewRecord /\ note[x] = NewNote
      /\ call[x].on = None /\ call[x].resp # "aborted"
  BY RegistersAlone
<1>2. /\ pending \in [Id -> Request \cup {None}] /\ IdOf[x] \in Id /\ pm[IdOf[x]] = x
      /\ call[x] \in Handler /\ CallFits(x, call[x], rec[x], note[x])
  BY CallAt DEF Good, RecordsOK
<1>3. /\ c \in Handler /\ c.on = x /\ c.resp = call[x].resp /\ c.final = call[x].final
      /\ c.pc = call[x].pc
  BY <1>2 DEF Handler
<1>4. c.ack <=> call[x].ack
  BY <1>2 DEF Handler
<1>5. /\ pending' = pm /\ UNCHANGED <<op, waiter, used, clock>>
      /\ \/ /\ \E lost : /\ rec' = routedRecords(pm, rc, x, lost)
                         /\ call' = [call EXCEPT ![x] = routedCall(c, x, lost)]
            /\ UNCHANGED <<slot, note>>
         \/ /\ \E clients \in BOOLEAN :
                 call' = [call EXCEPT ![x] = [c EXCEPT !.pc = "delivering",
                                                       !.clients = clients]]
            /\ rec' = rc
            /\ handleRequested(x)
  <2>1. /\ (pending[IdOf[x]] = None) = TRUE
        /\ [call[x] EXCEPT !.on = pm[IdOf[x]]] = c
    BY <1>1, <1>2
  <2> QED BY <1>1, <1>2, <2>1 DEF registered, NewPending
<1>6. \E y : Registers(x, y)
  <2>1. CASE rec' = rc
    BY <1>1, <1>5, <2>1 DEF Registers
  <2>2. CASE \E lost : rec' = routedRecords(pm, rc, x, lost)
    <3>1. PICK lost : rec' = routedRecords(pm, rc, x, lost)
      BY <2>2
    <3>2. \E y \in {NewPending, settled(NewPending, Null, "no-approval-route")} :
            routedRecords(pm, rc, x, lost) = [rec EXCEPT ![x] = y]
      BY RegistrationRecords DEF Good
    <3> HIDE DEF rc
    <3> QED BY <1>1, <1>5, <3>1, <3>2 DEF Registers
  <2> QED BY <1>5, <2>1, <2>2
<1>7. /\ RecordsOK' /\ rec'[x].state # "none"
      /\ \A r \in Request : Stands(r)
      /\ \A r \in Request : r # x => rec'[r] = rec[r]
  BY <1>6, RegistrationKept DEF Good
<1>8. \A r \in Request : r # x /\ IdOf[r] = IdOf[x] => rec'[r].state # "pending" /\ r \notin Plugin
  BY <1>1, <1>7 DEF Good, RecordsOK, PendingOwned
<1>9. HoldersOK'
  BY <1>5, <1>7, HoldersUnchanged DEF Good
<1> HIDE DEF pm, rc
<1>10. ASSUME UNCHANGED <<slot, note>>, NEW lost,
              call' = [call EXCEPT ![x] = routedCall(c, x, lost)]
       PROVE  Preserved
  <2>1. clock' \in [Request -> {"before", "at", "past"}]
    BY <1>5 DEF Good, ForwarderOK, ForwarderTypeOK
  <2>2. \A r \in Request : rec'[r].state = "pending" =>
                             rec[r].state = "pending" \/ note[r] = NewNote
    BY <1>1, <1>7
  <2>3. ForwarderOK' /\ LinksOK'
    BY <1>7, <1>10, <2>1, <2>2, ForwarderIdle DEF Good
  <2> HIDE DEF c
  <2>4. CallFits(x, routedCall(c, x, lost), rec'[x], note'[x])
    BY <1>1, <1>3, RoutedCallFits
  <2>5. \A r \in Request : r # x => Undisturbed(r)
    BY <1>7, <1>10 DEF Undisturbed
  <2>6. CallsOK'
    BY <1>10, <2>4, <2>5, OneCallStep DEF Good
  <2> QED BY <1>7, <1>9, <2>3, <2>6 DEF Preserved
<1>11. ASSUME handleRequested(x), NEW clients \in BOOLEAN,
              call' = [call EXCEPT ![x] = [c EXCEPT !.pc = "delivering", !.clients = clients]]
       PROVE  Preserved
  <2>1. rec[x].promise = Unset
    BY <1>1 DEF NewRecord
  <2>2. /\ ForwarderOK' /\ LinksOK'
        /\ \A r \in Request : r # x => note'[r] = note[r]
    <3>1. clock' = clock /\ ForwarderOK /\ LinksOK
      BY <1>5 DEF Good
    <3>2. \A r \in Request : rec'[r].state = "pending" /\ r # x => rec[r].state = "pending"
      BY <1>7
    <3> HIDE DEF c
    <3> QED BY <1>1, <1>7, <1>8, <1>11, <2>1, <3>1, <3>2, RequestForwarded
  <2> DEFINE d == [c EXCEPT !.pc = "delivering", !.clients = clients]
  <2> HIDE DEF c
  <2>3. /\ d \in Handler /\ d.pc = "delivering" /\ d.on = c.on /\ d.resp = c.resp
        /\ d.final = c.final
    BY <1>3 DEF Handler
  <2>4. d.ack <=> c.ack
    BY <1>3 DEF Handler
  <2>5. call' = [call EXCEPT ![x] = d]
    BY <1>11
  <2> HIDE DEF d
  <2>6. ~call[x].ack /\ call[x].final = Unset
    BY <1>2 DEF CallFits
  <2>7. CallFits(x, d, rec'[x], note'[x])
    BY <1>1, <1>3, <1>4, <1>7, <2>3, <2>4, <2>6 DEF CallFits
  <2>8. \A r \in Request : r # x => Undisturbed(r)
    BY <1>7, <2>2 DEF Undisturbed
  <2>9. CallsOK'
    BY <2>5, <2>7, <2>8, OneCallStep DEF Good
  <2> QED BY <1>7, <1>9, <2>2, <2>9 DEF Preserved
<1> QED BY <1>5, <1>10, <1>11

LEMMA ExecRegisterOK ==
  ASSUME Good, NEW x \in Request, execRegister(x)
  PROVE  Preserved
<1>1. CASE taken(x)
  BY <1>1, RefuseOK DEF execRegister
<1>2. CASE ~taken(x)
  <2>1. ~throws(x)
    BY <1>2, RegistersAlone DEF execRegister
  <2> QED BY <1>2, <2>1, RegisteredOK DEF execRegister, register
<1> QED BY <1>1, <1>2

LEMMA PluginRequestOK ==
  ASSUME Good, NEW x \in Request, pluginRequest(x)
  PROVE  Preserved
<1>1. CASE register(x)
  <2>1. ~throws(x)
    BY RegistersAlone DEF pluginRequest
  <2> QED BY <1>1, <2>1, RegisteredOK DEF pluginRequest, register
<1>2. CASE /\ call' = [call EXCEPT ![x].pc = "done"]
           /\ UNCHANGED <<pending, rec, op, waiter, used, fwdVars>>
  BY <1>2, HandlerEnds DEF pluginRequest
<1> QED BY <1>1, <1>2 DEF pluginRequest

LEMMA CleanupReturnsOK ==
  ASSUME Good, NEW x \in Request, cleanupReturns(x)
  PROVE  Preserved
BY HandlerEnds DEF cleanupReturns

-----------------------------------------------------------------------------
(* A settlement tells the forwarder.                                       *)
LEMMA OutcomeTold ==
  ASSUME Good, NEW x, NEW d, NEW by, Settles(x, d, by), forwardResolved(x), clock' = clock
  PROVE  RecordsOK' /\ Kept /\ ForwarderOK' /\ LinksOK' /\ NotesKept
<1>1. RecordsOK' /\ Kept
  BY SettlementKept DEF Good
<1>2. /\ x \in Request /\ pending[IdOf[x]] = x /\ rec[x].state = "pending"
      /\ pending' = pending
  BY DEF Settles
<1>3. rec'[x].state = "resolved"
  <2>1. rec \in [Request -> Record] /\ rec[x] \in Record
    BY <1>2 DEF Good, RecordsOK
  <2>2. rec'[x] = settled(rec[x], d, by)
    BY <1>2, <2>1 DEF Settles
  <2> QED BY <2>1, <2>2 DEF settled, Record
<1>4. rec'[x].promise # Unset
  BY <1>1, <1>2, <1>3 DEF RecordsOK, RecordTellsPromise
<1>5. note[x].closing = "none"
  BY <1>2 DEF Good, LinksOK, ClosedIsSettled, RecordsOK, RecordTellsPromise
<1>6. /\ \A r \in Request : Stands(r)
      /\ \A r \in Request : rec'[r].state = "pending" => rec[r].state = "pending"
  BY <1>1 DEF Kept
<1>7. ForwarderOK /\ LinksOK
  BY DEF Good
<1>8. CASE x \in Plugin
  <2>1. note' = [note EXCEPT ![x].closing = "gated"] /\ slot' = slot
    BY <1>8 DEF forwardResolved
  <2>2. rec[x].state # "none"
    BY <1>2
  <2> QED BY <1>1, <1>2, <1>4, <1>5, <1>6, <1>7, <1>8, <2>1, <2>2, OutcomeGated
<1>9. CASE x \notin Plugin
  <2>1. handleResolved(x)
    BY <1>9 DEF forwardResolved
  <2>2. \A r \in Request : r # x /\ IdOf[r] = IdOf[x] =>
          rec'[r].state # "pending" /\ r \notin Plugin
    BY <1>2, <1>6 DEF Good, RecordsOK, PendingOwned
  <2>3. /\ note[x].closing \in {"none", "gated"}
        /\ rec[x].state = "pending" \/ x \in Plugin
        /\ rec[x].state # "none" /\ rec'[x].state # "pending"
    BY <1>2, <1>3, <1>5
  <2> QED BY <1>1, <1>2, <1>4, <1>6, <1>7, <2>1, <2>2, <2>3, OutcomeForwarded
<1> QED BY <1>8, <1>9

(* The denial of an aborted turn.                                          *)
LEMMA DenialKept ==
  ASSUME Good, NEW i \in Id, denyAborted(i), UNCHANGED <<pending, used, clock>>
  PROVE  /\ RecordsOK' /\ Kept /\ ForwarderOK' /\ LinksOK' /\ NotesKept
         /\ pending[i] # None => rec'[pending[i]].promise # Unset
<1>1. CASE settles(pending, rec, i)
  <2>1. /\ rec' = settle(pending, rec, i, "deny", "request-aborted")
        /\ forwardResolved(pending[i])
        /\ "deny" \in Verdict \cup {Null} /\ "request-aborted" \in Settler
    BY <1>1 DEF denyAborted, Verdict, Settler
  <2>2. Settles(pending[i], "deny", "request-aborted")
    BY <1>1, <2>1, SettleSettles DEF Good
  <2>3. RecordsOK' /\ Kept /\ ForwarderOK' /\ LinksOK' /\ NotesKept
    BY <2>1, <2>2, OutcomeTold
  <2>4. rec'[pending[i]].promise # Unset
    <3>1. pending[i] \in Request
      BY <2>2 DEF Settles
    <3>2. rec \in [Request -> Record] /\ rec[pending[i]] \in Record
      BY <3>1 DEF Good, RecordsOK
    <3>3. rec'[pending[i]] = settled(rec[pending[i]], "deny", "request-aborted")
      BY <2>2, <3>1, <3>2 DEF Settles
    <3> QED BY <3>2, <3>3 DEF settled, Record, Unset
  <2> QED BY <2>3, <2>4
<1>2. CASE ~settles(pending, rec, i)
  <2>1. UNCHANGED <<pending, rec, used, fwdVars>>
    BY <1>2 DEF denyAborted, fwdVars
  <2>2. RecordsOK' /\ Kept
    BY <2>1, RecordsUnchanged DEF Good
  <2>3. ForwarderOK' /\ LinksOK' /\ NotesKept
    BY <2>1, <2>2, IdleWhileKept
  <2>4. ASSUME pending[i] # None PROVE rec'[pending[i]].promise # Unset
    <3>1. pending[i] \in Request /\ rec[pending[i]].state \notin {"none", "pending"}
      BY <1>2, <2>4 DEF settles, Good, RecordsOK, MapNamesRecords
    <3>2. rec[pending[i]].state = "resolved"
      BY <3>1 DEF Good, RecordsOK, Record
    <3> QED BY <2>1, <3>1, <3>2 DEF Good, RecordsOK, RecordTellsPromise
  <2> QED BY <2>2, <2>3, <2>4
<1> QED BY <1>1, <1>2

LEMMA AbortRequestOK ==
  ASSUME Good, NEW x \in Request, abortRequest(x)
  PROVE  Preserved
<1> DEFINE c == [call[x] EXCEPT !.resp = "aborted"]
<1>1. /\ call[x] \in Handler /\ CallFits(x, call[x], rec[x], note[x])
      /\ call[x].pc = "delivering" /\ IdOf[x] \in Id
  BY CallAt DEF abortRequest
<1>2. /\ RecordsOK' /\ Kept /\ ForwarderOK' /\ LinksOK' /\ NotesKept
      /\ pending[IdOf[x]] # None => rec'[pending[IdOf[x]]].promise # Unset
  BY <1>1, DenialKept DEF abortRequest
<1>3. rec'[x].promise # Unset
  <2>1. rec[x].state # "none" /\ rec[x] \in Record
    BY <1>1 DEF CallFits, Good, RecordsOK
  <2>2. CASE rec[x].state = "pending"
    <3>1. pending[IdOf[x]] = x
      BY <2>2 DEF Good, RecordsOK, PendingOwned
    <3> QED BY <1>2, <3>1
  <2>3. CASE rec[x].state = "resolved"
    <3>1. rec[x].promise # Unset
      BY <2>3 DEF Good, RecordsOK, RecordTellsPromise
    <3> QED BY <1>2, <3>1 DEF Kept, Stands
  <2> QED BY <2>1, <2>2, <2>3 DEF Record
<1>4. rec'[x].promise # "deny" => rec'[x].by # "request-aborted"
  BY <1>2 DEF RecordsOK, SettlerMayDecide
<1>5. rec'[x].state # "none"
  BY <1>1, <1>2 DEF Kept, CallFits
<1>6. /\ c \in Handler /\ c.pc = "delivering" /\ c.on = call[x].on /\ c.final = call[x].final
  BY <1>1 DEF Handler
<1>7. c.ack <=> call[x].ack
  BY <1>1 DEF Handler
<1>8. call' = [call EXCEPT ![x] = c]
  BY DEF abortRequest
<1> HIDE DEF c
<1>9. CallFits(x, c, rec'[x], note'[x])
  BY <1>1, <1>3, <1>4, <1>5, <1>6, <1>7 DEF CallFits
<1> QED BY <1>2, <1>8, <1>9, HandlerStep DEF abortRequest

LEMMA OpenGateOK ==
  ASSUME Good, NEW x \in Request, openGate(x)
  PROVE  Preserved
<1>1. RecordsOK' /\ Kept /\ rec' = rec
  BY RecordsUnchanged DEF Good, openGate
<1>2. x \in Plugin /\ rec[x].promise # Unset /\ note[x].closing = "gated"
  BY DEF openGate, Good, LinksOK, ClosedIsSettled
<1>3. rec[x].state = "resolved"
  BY <1>2 DEF Good, RecordsOK, RecordTellsPromise
<1>4. /\ \A r \in Request : Stands(r)
      /\ \A r \in Request : rec'[r].state = "pending" => rec[r].state = "pending"
  BY <1>1 DEF Kept
<1>5. \A r \in Request : r # x /\ IdOf[r] = IdOf[x] =>
        rec'[r].state # "pending" /\ r \notin Plugin
  BY <1>2
<1>6. /\ note[x].closing \in {"none", "gated"}
      /\ rec[x].state = "pending" \/ x \in Plugin
      /\ rec[x].state # "none" /\ rec'[x].state # "pending" /\ rec'[x].promise # Unset
  BY <1>1, <1>2, <1>3
<1>7. ForwarderOK' /\ LinksOK' /\ NotesKept
  BY <1>4, <1>5, <1>6, OutcomeForwarded DEF Good, openGate
<1> QED BY <1>1, <1>7, QuietStep DEF openGate

-----------------------------------------------------------------------------
(* Timers, the node and the forwarder.                                     *)

LEMMA ExpireOK ==
  ASSUME Good, NEW x \in Request, expire(x)
  PROVE  Preserved
<1>1. Settles(x, Null, None)
  BY ExpirySettles DEF Good
<1>2. RecordsOK' /\ Kept
  BY <1>1, SettlementKept DEF Good
<1>3. ForwarderOK' /\ LinksOK' /\ NotesKept
  BY <1>2, IdleWhileKept DEF expire
<1> QED BY <1>2, <1>3, QuietStep DEF expire

LEMMA SweepOK ==
  ASSUME Good, NEW x \in Request, sweep(x)
  PROVE  Preserved
<1>1. RecordsOK' /\ Kept
  BY SweepKept DEF Good
<1>2. ForwarderOK' /\ LinksOK' /\ NotesKept
  BY <1>1, IdleWhileKept DEF sweep
<1> QED BY <1>1, <1>2, QuietStep DEF sweep

LEMMA NodeRunOK ==
  ASSUME Good, NEW i \in Id, nodeRun(i)
  PROVE  Preserved
<1>1. RecordsOK' /\ Kept
  BY NodeRunKept DEF Good
<1>2. ForwarderOK' /\ LinksOK' /\ NotesKept
  BY <1>1, IdleWhileKept DEF nodeRun
<1> QED BY <1>1, <1>2, QuietStep DEF nodeRun

LEMMA ForwarderStepOK ==
  ASSUME Good, NEW x \in Request, forwarderStep(x)
  PROVE  Preserved
<1>1. RecordsOK' /\ Kept /\ rec' = rec
  BY RecordsUnchanged DEF Good, forwarderStep
<1>2. ForwarderOK' /\ LinksOK' /\ NotesKept
  BY <1>1, ForwardsKept DEF Good, forwarderStep, Kept
<1> QED BY <1>1, <1>2, QuietStep DEF forwarderStep

LEMMA ExpiryNoticeOK ==
  ASSUME Good, NEW x \in Request, expiryNotice(x)
  PROVE  Preserved
<1>1. RecordsOK' /\ Kept /\ rec' = rec
  BY RecordsUnchanged DEF Good, expiryNotice
<1>2. ForwarderOK' /\ LinksOK' /\ NotesKept
  BY <1>1, ExpiryDueKept DEF Good, expiryNotice, Kept
<1> QED BY <1>1, <1>2, QuietStep DEF expiryNotice

LEMMA TimePassesOK ==
  ASSUME Good, NEW x \in Request, timePasses(x)
  PROVE  Preserved
<1>1. RecordsOK' /\ Kept
  BY RecordsUnchanged DEF Good, timePasses
<1>2. clock' \in [Request -> {"before", "at", "past"}]
  BY DEF Good, ForwarderOK, ForwarderTypeOK, timePasses, tick
<1>3. UNCHANGED <<slot, note>>
  BY DEF timePasses, tick
<1>4. ForwarderOK' /\ LinksOK' /\ NotesKept
  BY <1>1, <1>2, <1>3, ForwarderIdle DEF Good, Kept
<1> QED BY <1>1, <1>4, QuietStep DEF timePasses

-----------------------------------------------------------------------------
(* Operators and waiters.                                                  *)

\* What the resolve handler o may go on as.
OperatorFits(p) ==
  /\ p \in Resolver
  /\ p.pc = "following" => /\ p.on \in Request
                           /\ rec'[p.on].promise = p.decision /\ p.decision # None
  /\ p.reply \in {"ok", "conflict"} => p.on \in Request /\ rec'[p.on].promise # Unset
  /\ p.reply = "ok" => rec'[p.on].promise = p.decision
  /\ p.reply = "conflict" => rec'[p.on].promise # p.decision

LEMMA OperatorStep ==
  ASSUME Good, RecordsOK', Kept, ForwarderOK', LinksOK', NotesKept,
         UNCHANGED <<call, waiter>>,
         NEW o \in Operator, NEW p, op' = [op EXCEPT ![o] = p], OperatorFits(p)
  PROVE  Preserved
<1>1. \A r \in Request : Stands(r) /\ Undisturbed(r)
  BY KeptUndisturbed
<1>2. CallsOK'
  BY <1>1, CallsUnchanged DEF Good
<1>3. HoldersOK'
  BY <1>1, OneOperatorStep DEF Good, OperatorFits
<1> QED BY <1>1, <1>2, <1>3 DEF Preserved

LEMMA WaiterStep ==
  ASSUME Good, RecordsOK', Kept, ForwarderOK', LinksOK', NotesKept,
         UNCHANGED <<call, op>>,
         NEW w \in Waiter, NEW p \in Waiting, waiter' = [waiter EXCEPT ![w] = p],
         p.pc \in {"waiting", "aborted"} => p.on \in Request
  PROVE  Preserved
<1>1. \A r \in Request : Stands(r) /\ Undisturbed(r)
  BY KeptUndisturbed
<1>2. CallsOK'
  BY <1>1, CallsUnchanged DEF Good
<1>3. HoldersOK'
  BY <1>1, OneWaiterStep DEF Good
<1> QED BY <1>1, <1>2, <1>3 DEF Preserved

LEMMA WaitDecisionOK ==
  ASSUME Good, NEW w \in Waiter, NEW i \in Id, waitDecision(w, i)
  PROVE  Preserved
<1> DEFINE p == IF getSnapshot(i) = None
                THEN [pc |-> "done", on |-> None, answer |-> "error"]
                ELSE [pc |-> "waiting", on |-> getSnapshot(i), answer |-> Unset]
<1>1. RecordsOK' /\ Kept
  BY RecordsUnchanged DEF Good, waitDecision
<1>2. ForwarderOK' /\ LinksOK' /\ NotesKept
  BY <1>1, IdleWhileKept DEF waitDecision
<1>3. pending[i] \in Request \cup {None}
  BY DEF Good, RecordsOK
<1>4. p \in Waiting /\ (p.pc \in {"waiting", "aborted"} => p.on \in Request)
  BY <1>3 DEF Waiting, getSnapshot
<1>5. waiter' = [waiter EXCEPT ![w] = p] /\ UNCHANGED <<call, op>>
  BY DEF waitDecision
<1> HIDE DEF p
<1> QED BY <1>1, <1>2, <1>4, <1>5, WaiterStep

LEMMA AbortWaitOK ==
  ASSUME Good, NEW w \in Waiter, abortWait(w)
  PROVE  Preserved
<1> DEFINE p == [waiter[w] EXCEPT !.pc = "aborted"]
<1>1. waiter[w] \in Waiting /\ waiter[w].on \in Request /\ IdOf[waiter[w].on] \in Id
  BY DEF abortWait, Good, HoldersOK, HoldersHoldRecords
<1>2. RecordsOK' /\ Kept /\ ForwarderOK' /\ LinksOK' /\ NotesKept
  BY <1>1, DenialKept DEF abortWait
<1>3. p \in Waiting /\ p.on \in Request
  BY <1>1 DEF Waiting
<1>4. waiter' = [waiter EXCEPT ![w] = p] /\ UNCHANGED <<call, op>>
  BY DEF abortWait
<1> HIDE DEF p
<1> QED BY <1>2, <1>3, <1>4, WaiterStep

LEMMA WaitReturnsOK ==
  ASSUME Good, NEW w \in Waiter, waitReturns(w)
  PROVE  Preserved
<1> DEFINE a == IF waiter[w].pc = "waiting" THEN rec[waiter[w].on].promise ELSE waiter[w].answer
           p == [waiter[w] EXCEPT !.pc = "done", !.answer = a]
<1>1. waiter[w] \in Waiting /\ waiter[w].on \in Request
  BY DEF waitReturns, Good, HoldersOK, HoldersHoldRecords
<1>2. a \in Verdict \cup {Null, Unset, "error"}
  <2>1. rec[waiter[w].on] \in Record
    BY <1>1 DEF Good, RecordsOK
  <2> QED BY <1>1, <2>1 DEF Record, Waiting
<1>3. waiter' = [waiter EXCEPT ![w] = p] /\ UNCHANGED <<call, op>>
  BY DEF waitReturns
<1> HIDE DEF a
<1>4. p \in Waiting /\ p.pc = "done"
  BY <1>1, <1>2 DEF Waiting
<1> HIDE DEF p
<1>5. RecordsOK' /\ Kept
  BY RecordsUnchanged DEF Good, waitReturns
<1>6. ForwarderOK' /\ LinksOK' /\ NotesKept
  BY <1>5, IdleWhileKept DEF waitReturns
<1> QED BY <1>3, <1>4, <1>5, <1>6, WaiterStep

LEMMA ResolveReturnsOK ==
  ASSUME Good, NEW o \in Operator, resolveReturns(o)
  PROVE  Preserved
<1> DEFINE p == [op[o] EXCEPT !.pc = "done", !.reply = "ok"]
<1>1. /\ op[o] \in Resolver /\ op[o].on \in Request
      /\ rec[op[o].on].promise = op[o].decision /\ op[o].decision # None
  BY DEF resolveReturns, Good, HoldersOK, HoldersHoldRecords
<1>2. op[o].decision # Unset
  BY <1>1 DEF Resolver, Verdict, Unset
<1>3. RecordsOK' /\ Kept /\ rec' = rec
  BY RecordsUnchanged DEF Good, resolveReturns
<1>4. ForwarderOK' /\ LinksOK' /\ NotesKept
  BY <1>3, IdleWhileKept DEF resolveReturns
<1>5. /\ p \in Resolver /\ p.pc = "done" /\ p.on = op[o].on /\ p.decision = op[o].decision
      /\ p.reply = "ok"
  BY <1>1 DEF Resolver
<1>6. op' = [op EXCEPT ![o] = p] /\ UNCHANGED <<call, waiter>>
  BY DEF resolveReturns
<1> HIDE DEF p
<1>7. OperatorFits(p)
  BY <1>1, <1>2, <1>3, <1>5 DEF OperatorFits
<1> QED BY <1>3, <1>4, <1>6, <1>7, OperatorStep

LEMMA ResolveOK ==
  ASSUME Good, NEW o \in Operator, NEW i \in Id, NEW d \in Decisions, resolve(o, i, d)
  PROVE  Preserved
<1> DEFINE e == pending[i]
           answer(m) == [pc |-> "done", on |-> e, decision |-> d, reply |-> m]
           start == [pc |-> "following", on |-> e, decision |-> d, reply |-> "none"]
<1>1. /\ d \in Verdict /\ e \in Request \cup {None}
      /\ UNCHANGED <<pending, call, waiter, used, clock>>
  BY DEF resolve, Verdict, Good, RecordsOK
<1>2. e # None => e \in Request /\ rec[e] \in Record
  BY <1>1 DEF Good, RecordsOK
<1>3. ASSUME NEW m \in {"ok", "conflict", "unavailable", "unknown"}
      PROVE  /\ answer(m) \in Resolver /\ answer(m).pc = "done" /\ answer(m).on = e
             /\ answer(m).decision = d /\ answer(m).reply = m
  BY <1>1 DEF Resolver
<1>4. ASSUME NEW m \in {"ok", "conflict", "unavailable", "unknown"},
             op' = [op EXCEPT ![o] = answer(m)], UNCHANGED <<rec, slot, note>>,
             m \in {"ok", "conflict"} => e \in Request /\ rec[e].promise # Unset,
             m = "ok" => rec[e].promise = d, m = "conflict" => rec[e].promise # d
      PROVE  Preserved
  <2>1. RecordsOK' /\ Kept
    BY <1>1, <1>4, RecordsUnchanged DEF Good
  <2>2. ForwarderOK' /\ LinksOK' /\ NotesKept
    BY <1>1, <1>4, <2>1, IdleWhileKept DEF fwdVars
  <2>3. OperatorFits(answer(m))
    <3>1. /\ answer(m) \in Resolver /\ answer(m).pc = "done" /\ answer(m).on = e
          /\ answer(m).decision = d /\ answer(m).reply = m
      BY <1>3, <1>4
    <3> HIDE DEF answer
    <3> QED BY <1>4, <3>1 DEF OperatorFits
  <2> HIDE DEF answer
  <2> QED BY <1>1, <1>4, <2>1, <2>2, <2>3, OperatorStep
<1>5. CASE /\ e = None
           /\ op' = [op EXCEPT ![o] = answer("unknown")] /\ UNCHANGED <<rec, slot, note>>
  BY <1>4, <1>5
<1>6. CASE /\ e # None /\ rec[e].state = "resolved"
           /\ op' = [op EXCEPT ![o] = answer(IF repeats(rec[e], d) THEN "ok" ELSE "conflict")]
           /\ UNCHANGED <<rec, slot, note>>
  <2>1. /\ e \in Request /\ rec[e] \in Record /\ rec[e].promise # Unset
        /\ rec[e].promise \in Verdict => recorded(rec[e]) = rec[e].promise
        /\ rec[e].promise \notin Verdict => rec[e].decision = None /\ rec[e].consumed = None
    BY <1>2, <1>6 DEF Good, RecordsOK, RecordTellsPromise
  <2>2. d # None
    BY <1>1 DEF Verdict
  <2>3. repeats(rec[e], d) <=> rec[e].promise = d
    BY <1>1, <2>1, <2>2 DEF repeats, recorded
  <2>4. CASE repeats(rec[e], d)
    <3>1. op' = [op EXCEPT ![o] = answer("ok")] /\ rec[e].promise = d
      BY <1>6, <2>3, <2>4
    <3> QED BY <1>4, <1>6, <2>1, <3>1
  <2>5. CASE ~repeats(rec[e], d)
    <3>1. op' = [op EXCEPT ![o] = answer("conflict")] /\ rec[e].promise # d
      BY <1>6, <2>3, <2>5
    <3> QED BY <1>4, <1>6, <2>1, <3>1
  <2> QED BY <2>4, <2>5
<1>7. CASE op' = [op EXCEPT ![o] = answer("unavailable")] /\ UNCHANGED <<rec, slot, note>>
  BY <1>4, <1>7
<1>8. CASE /\ e # None /\ rec[e].state = "pending"
           /\ rec' = settle(pending, rec, i, d, o)
           /\ op' = [op EXCEPT ![o] = start]
           /\ forwardResolved(e)
  <2>1. o \in Settler /\ o # "request-aborted" /\ d \in Verdict \cup {Null}
    BY <1>1 DEF Settler
  <2>2. settles(pending, rec, i)
    BY <1>8 DEF settles
  <2>3. Settles(e, d, o)
    BY <1>1, <1>8, <2>1, <2>2, SettleSettles DEF Good
  <2>4. RecordsOK' /\ Kept /\ ForwarderOK' /\ LinksOK' /\ NotesKept
    BY <1>1, <1>8, <2>3, OutcomeTold
  <2>5. e \in Request /\ rec'[e].promise = d
    <3>1. rec \in [Request -> Record] /\ e \in Request /\ rec[e] \in Record
      BY <1>2, <1>8 DEF Good, RecordsOK
    <3>2. rec'[e] = settled(rec[e], d, o)
      BY <2>3, <3>1 DEF Settles
    <3> QED BY <3>1, <3>2 DEF settled, Record
  <2>6. /\ start \in Resolver /\ start.pc = "following" /\ start.on = e
        /\ start.decision = d /\ start.reply = "none" /\ d # None
    BY <1>1 DEF Resolver, Verdict
  <2> HIDE DEF start
  <2>7. OperatorFits(start)
    BY <2>5, <2>6 DEF OperatorFits
  <2> QED BY <1>1, <1>8, <2>4, <2>7, OperatorStep
<1> QED BY <1>5, <1>6, <1>7, <1>8 DEF resolve

-----------------------------------------------------------------------------
(* The approvals begin safe: nothing is registered, asked or posted.       *)
LEMMA InitOK ==
  Init => ApprovalSafe
<1> SUFFICES ASSUME Init PROVE RecordsOK /\ CallsOK /\ HoldersOK /\ ForwarderOK /\ LinksOK
  BY PartsOfSafe
<1>1. /\ slot = [i \in Id |-> Free] /\ note = [r \in Request |-> NewNote]
      /\ clock = [r \in Request |-> "before"]
      /\ pending = [i \in Id |-> None] /\ rec = [r \in Request |-> NewRecord]
      /\ used = [r \in Request |-> [once |-> 0, always |-> 0, fallback |-> 0]]
  BY DEF Init, ForwarderInit
<1>2. NewRecord \in Record /\ NewNote \in Note /\ Free \in Slot
  <2>1. << >> \in Seq({"prompt", "resolved", "expired"})
    OBVIOUS
  <2> QED BY <2>1 DEF NewRecord, Record, NewNote, Note, Free, Slot, Settler
<1>3. /\ NewRecord.state = "none" /\ NewRecord.timer = FALSE /\ NewRecord.promise = Unset
      /\ NewRecord.decision = None /\ NewRecord.consumed = None /\ NewRecord.by = None
      /\ Unset \notin Verdict /\ Unset # Null
  BY DEF NewRecord, Verdict, Unset, Null
<1>4. /\ NewNote.route = "none" /\ NewNote.prompt = "none" /\ NewNote.closing = "none"
      /\ NewNote.expiry = "none" /\ NewNote.thread = << >> /\ Free.state = "free"
  BY DEF NewNote, Free
<1>5. RecordsOK
  <2>1. /\ pending \in [Id -> Request \cup {None}] /\ rec \in [Request -> Record]
        /\ used \in [Request -> [once: 0..MaxRuns, always: 0..MaxRuns, fallback: 0..MaxRuns]]
    BY <1>1, <1>2
  <2>2. \A r \in Request : rec[r] = NewRecord
    BY <1>1
  <2>3. PendingOwned
    BY <1>3, <2>2 DEF PendingOwned
  <2>4. MapNamesRecords
    BY <1>1 DEF MapNamesRecords
  <2>5. RecordTellsPromise
    BY <1>3, <2>2 DEF RecordTellsPromise
  <2>6. SettlerMayDecide
    BY <1>3, <2>2 DEF SettlerMayDecide, Unset
  <2>7. RunsAreRecorded
    BY <1>1 DEF RunsAreRecorded
  <2> QED BY <2>1, <2>3, <2>4, <2>5, <2>6, <2>7 DEF RecordsOK
<1>6. CallsOK
  <2> DEFINE a(r) == IF abortable(r) THEN "pending" ELSE "acknowledged"
             c(r) == [pc |-> "new", on |-> None, clients |-> FALSE, settled |-> FALSE,
                      resp |-> a(r), ack |-> FALSE, final |-> Unset]
  <2>1. call = [r \in Request |-> c(r)]
    BY DEF Init
  <2>2. ASSUME NEW r \in Request
        PROVE  /\ c(r) \in Handler /\ c(r).pc = "new" /\ c(r).on = None
               /\ c(r).resp # "aborted" /\ ~c(r).ack /\ c(r).final = Unset
    BY DEF Handler
  <2> HIDE DEF c
  <2>3. call \in [Request -> Handler]
    BY <2>1, <2>2
  <2>4. ASSUME NEW r \in Request PROVE CallFits(r, call[r], rec[r], note[r])
    BY <1>1, <2>1, <2>2 DEF CallFits
  <2> QED BY <2>3, <2>4, CallsAreFit
<1>7. HoldersOK
  <2>1. /\ op \in [Operator -> Resolver] /\ waiter \in [Waiter -> Waiting]
        /\ \A o \in Operator : op[o].pc = "idle" /\ op[o].reply = "none"
        /\ \A w \in Waiter : waiter[w].pc = "idle"
    BY DEF Init, Resolver, Waiting
  <2> QED BY <2>1 DEF HoldersOK, HoldersHoldRecords, ReplyTellsOutcome
<1>8. ForwarderOK
  <2>1. /\ slot \in [Id -> Slot] /\ note \in [Request -> Note]
        /\ clock \in [Request -> {"before", "at", "past"}]
    BY <1>1, <1>2
  <2>2. EntriesAreOpen
    BY <1>1, <1>4 DEF EntriesAreOpen
  <2>3. ASSUME NEW r \in Request PROVE NoteFits(r, note[r])
    BY <1>1, <1>2, <1>4 DEF NoteFits, NeverLate
  <2> QED BY <2>1, <2>2, <2>3, NotesAreFit
<1>9. LinksOK
  BY <1>1, <1>4 DEF LinksOK, ClosedIsSettled, PromptIsHeld
<1> QED BY <1>5, <1>6, <1>7, <1>8, <1>9

(* Every step keeps the approvals safe and what was settled as it was.     *)
LEMMA NextOK ==
  ASSUME ApprovalSafe, [Next]_vars
  PROVE  ApprovalSafe' /\ \A r \in Request : Stands(r)
<1>1. Good
  BY PartsOfSafe DEF Good
<1>2. ASSUME NEW r \in Request,
             \/ execRequest(r) \/ execRegister(r) \/ pluginRequest(r) \/ deliverySettled(r)
             \/ decided(r) \/ cleanupReturns(r) \/ abortRequest(r) \/ openGate(r) \/ expire(r)
             \/ sweep(r) \/ forwarderStep(r) \/ expiryNotice(r) \/ timePasses(r)
      PROVE  Preserved
  <2>1. CASE execRequest(r) \/ execRegister(r) \/ pluginRequest(r)
    BY <1>1, <2>1, ExecRequestOK, ExecRegisterOK, PluginRequestOK
  <2>2. CASE deliverySettled(r) \/ decided(r) \/ cleanupReturns(r)
    BY <1>1, <2>2, DeliverySettledOK, DecidedOK, CleanupReturnsOK
  <2>3. CASE abortRequest(r) \/ openGate(r)
    BY <1>1, <2>3, AbortRequestOK, OpenGateOK
  <2>4. CASE expire(r) \/ sweep(r)
    BY <1>1, <2>4, ExpireOK, SweepOK
  <2>5. CASE forwarderStep(r) \/ expiryNotice(r) \/ timePasses(r)
    BY <1>1, <2>5, ForwarderStepOK, ExpiryNoticeOK, TimePassesOK
  <2> QED BY <1>2, <2>1, <2>2, <2>3, <2>4, <2>5
<1>3. ASSUME NEW o \in Operator, NEW i \in Id, NEW d \in Decisions, resolve(o, i, d)
      PROVE  Preserved
  BY <1>1, <1>3, ResolveOK
<1>4. ASSUME NEW o \in Operator, resolveReturns(o) PROVE Preserved
  BY <1>1, <1>4, ResolveReturnsOK
<1>5. ASSUME NEW w \in Waiter, NEW i \in Id, waitDecision(w, i) PROVE Preserved
  BY <1>1, <1>5, WaitDecisionOK
<1>6. ASSUME NEW w \in Waiter, abortWait(w) \/ waitReturns(w) PROVE Preserved
  BY <1>1, <1>6, AbortWaitOK, WaitReturnsOK
<1>7. ASSUME NEW i \in Id, nodeRun(i) PROVE Preserved
  BY <1>1, <1>7, NodeRunOK
<1>8. ASSUME UNCHANGED vars PROVE Preserved
  <2>1. UNCHANGED <<pending, rec, call, op, waiter, used, fwdVars>>
    BY <1>8 DEF vars
  <2>2. RecordsOK' /\ Kept
    BY <1>1, <2>1, RecordsUnchanged DEF Good
  <2>3. ForwarderOK' /\ LinksOK' /\ NotesKept
    BY <1>1, <2>1, <2>2, IdleWhileKept
  <2> QED BY <1>1, <2>1, <2>2, <2>3, QuietStep
<1>9. Preserved
  BY <1>2, <1>3, <1>4, <1>5, <1>6, <1>7, <1>8 DEF Next
<1>10. (ApprovalSafe <=> RecordsOK /\ CallsOK /\ HoldersOK /\ ForwarderOK /\ LinksOK)'
  BY PartsOfSafe, PTL
<1> QED BY <1>9, <1>10 DEF Preserved

-----------------------------------------------------------------------------
(***************************************************************************)
(* Approvals are safe for any number of requests that share ids, operators *)
(* that retry, waiters that are aborted and timers that fire late          *)
(* (exec-approval-manager.ts, approval-shared.ts,                          *)
(* exec-approval-forwarder.ts): an unsettled record is the one its id      *)
(* names and its timer is armed, no two requests share a decision, an      *)
(* operator is told what stands, an aborted request is not answered, and   *)
(* no prompt is posted below its outcome.  The invariant is inductive.     *)
(***************************************************************************)
THEOREM ApprovalsAreSafe == Spec => []ApprovalSafe
<1>1. Init => ApprovalSafe
  BY InitOK
<1>2. ApprovalSafe /\ [Next]_vars => ApprovalSafe'
  BY NextOK
<1> QED BY <1>1, <1>2, PTL DEF Spec

(***************************************************************************)
(* An allow-once lets one run through and is then gone, and the fallback   *)
(* for a timed-out approval only serves records that nobody decided        *)
(* (node-invoke-system-run-approval.ts, consumeAllowOnce), whatever ids    *)
(* come back and however often a decision is sent again.                   *)
(***************************************************************************)
THEOREM ApprovalsUsedOnce == Spec => []OneUse
<1>1. ApprovalSafe => OneUse
  BY PartsOfSafe, RecordsGiveOneUse
<1> QED BY <1>1, ApprovalsAreSafe, PTL

(***************************************************************************)
(* The first settlement of a record stands: who settled it and how does    *)
(* not change by a later resolve, expiry, missing route, abort, run or     *)
(* clean-up (exec-approval-manager.ts, resolve and expire).                *)
(***************************************************************************)
THEOREM SettlementsStand == Spec => FirstSettlementStands
<1>1. ApprovalSafe /\ [Next]_vars =>
        [\A r \in Request : rec[r].promise # Unset =>
           /\ rec'[r].promise = rec[r].promise
           /\ rec'[r].by = rec[r].by
           /\ rec'[r].state = "resolved"
           /\ recorded(rec'[r]) = recorded(rec[r])]_vars
  BY NextOK DEF Stands
<1> QED BY <1>1, ApprovalsAreSafe, PTL DEF Spec, FirstSettlementStands
=============================================================================
