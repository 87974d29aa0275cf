--------------------------- MODULE ToolGateProofs ---------------------------
(***************************************************************************)
(* The gate for any number of calls, steps, parameters, policies and       *)
(* executions under the run id.                                            *)
(*                                                                         *)
(* Calls share the registry and nothing else, so the invariant is one      *)
(* statement about each call: CallOK about its record, Ledger about which  *)
(* execution its trail is written into and how many entries of each sort   *)
(* it has, Tally about those numbers.  Each action of the gate gives the   *)
(* record and the trail it leaves its call with, and that these satisfy    *)
(* the statement in the registry as it is; the runs that register, end or  *)
(* move meanwhile change nothing it relies on.                             *)
(***************************************************************************)
EXTENDS ToolGate, FiniteSetTheorems, SequenceTheorems, TLAPS

USE GateAssumption

-----------------------------------------------------------------------------
(* Counting the entries of a trail.                                        *)
Places(t, kinds) == {i \in 1 .. Len(t) : t[i].kind \in kinds}

LEMMA CountIsNat ==
  ASSUME NEW t \in Seq(Written), NEW kinds
  PROVE  IsFiniteSet(Places(t, kinds)) /\ Count(t, kinds) \in Nat
<1>1. Len(t) \in Nat
  OBVIOUS
<1>2. IsFiniteSet(1 .. Len(t))
  BY <1>1, FS_Interval
<1>3. IsFiniteSet(Places(t, kinds))
  BY <1>2, FS_Subset DEF Places
<1> QED BY <1>3, FS_CardinalityType DEF Count, Places

LEMMA CountJoin ==
  ASSUME NEW s \in Seq(Written), NEW t \in Seq(Written), NEW kinds
  PROVE  Count(s \o t, kinds) = Count(s, kinds) + Count(t, kinds)
<1> DEFINE n == Len(s)
           shifted == {i + n : i \in Places(t, kinds)}
           f == [i \in Places(t, kinds) |-> i + n]
<1>1. n \in Nat /\ Len(t) \in Nat /\ Len(s \o t) = n + Len(t)
  OBVIOUS
<1>2. \A i \in 1 .. n : (s \o t)[i] = s[i]
  BY <1>1
<1>3. \A i \in 1 .. Len(t) : (s \o t)[i + n] = t[i]
  BY <1>1
<1> HIDE DEF n
<1>4. Places(s \o t, kinds) = Places(s, kinds) \cup shifted
  <2>1. ASSUME NEW i \in Places(s \o t, kinds) PROVE i \in Places(s, kinds) \cup shifted
    <3>1. CASE i <= n
      BY <1>1, <1>2, <2>1, <3>1 DEF Places, n
    <3>2. CASE i > n
      <4>1. i - n \in 1 .. Len(t) /\ (i - n) + n = i
        BY <1>1, <2>1, <3>2 DEF Places
      <4>2. i - n \in Places(t, kinds)
        BY <1>3, <2>1, <4>1 DEF Places
      <4> QED BY <4>1, <4>2
    <3> QED BY <1>1, <2>1, <3>1, <3>2 DEF Places
  <2>2. ASSUME NEW i \in Places(s, kinds) PROVE i \in Places(s \o t, kinds)
    BY <1>1, <1>2, <2>2 DEF Places, n
  <2>3. ASSUME NEW i \in Places(t, kinds) PROVE i + n \in Places(s \o t, kinds)
    BY <1>1, <1>3, <2>3 DEF Places
  <2> QED BY <2>1, <2>2, <2>3
<1>5. IsFiniteSet(Places(s, kinds)) /\ IsFiniteSet(Places(t, kinds))
  BY CountIsNat
<1>6. f \in Bijection(Places(t, kinds), shifted)
  <2>1. \A i \in Places(t, kinds) : i \in Int
    BY <1>1 DEF Places
  <2>2. \A i, j \in Places(t, kinds) : i + n = j + n => i = j
    BY <1>1, <2>1
  <2> QED BY <2>2 DEF Bijection, Injection, Surjection, IsInjective
<1>7. IsFiniteSet(shifted) /\ Cardinality(shifted) = Cardinality(Places(t, kinds))
  BY <1>5, <1>6, FS_Bijection DEF ExistsBijection
<1>8. Places(s, kinds) \cap shifted = {}
  BY <1>1 DEF Places, n
<1>9. /\ Cardinality(Places(s, kinds)) \in Nat /\ Cardinality(shifted) \in Nat
      /\ Cardinality(Places(s, kinds) \cup shifted)
           = Cardinality(Places(s, kinds)) + Cardinality(shifted) - Cardinality({})
  BY <1>5, <1>7, <1>8, FS_Union, FS_CardinalityType
<1>10. Cardinality({}) = 0
  BY FS_EmptySet
<1>11. Cardinality(Places(s \o t, kinds)) = Cardinality(Places(s, kinds)) + Cardinality(Places(t, kinds))
  BY <1>4, <1>7, <1>9, <1>10
<1> QED BY <1>11 DEF Count, Places

LEMMA CountNone ==
  ASSUME NEW kinds
  PROVE  Count(<<>>, kinds) = 0
<1>1. Places(<<>>, kinds) = {}
  BY DEF Places
<1> QED BY <1>1, FS_EmptySet DEF Count, Places

LEMMA CountOne ==
  ASSUME NEW w, NEW kinds
  PROVE  Count(<<w>>, kinds) = IF w.kind \in kinds THEN 1 ELSE 0
<1>1. CASE w.kind \in kinds
  <2>1. Places(<<w>>, kinds) = {1}
    BY <1>1 DEF Places
  <2> QED BY <1>1, <2>1, FS_Singleton DEF Count, Places
<1>2. CASE w.kind \notin kinds
  <2>1. Places(<<w>>, kinds) = {}
    BY <1>2 DEF Places
  <2> QED BY <1>2, <2>1, FS_EmptySet DEF Count, Places
<1> QED BY <1>1, <1>2

-----------------------------------------------------------------------------
(* t is written into execution e alone, with d decisions, v outcomes of an *)
(* approval and k dispatches.                                              *)
Ledger(e, t, d, v, k) ==
  /\ t \in Seq(Written)
  /\ \A i \in 1 .. Len(t) : t[i].execution = e /\ e # 0
  /\ d \in Nat /\ v \in Nat /\ k \in Nat
  /\ Count(t, {"decision"}) = d
  /\ Count(t, {"approved", "denied"}) = v
  /\ Count(t, {"dispatched"}) = k

LEMMA LedgerNone ==
  ASSUME NEW e
  PROVE  Ledger(e, <<>>, 0, 0, 0)
BY CountNone DEF Ledger

LEMMA LedgerOne ==
  ASSUME TypeOK, active # 0,
         NEW kind \in {"decision", "denial", "fault", "approved", "denied", "dispatched"}
  PROVE  Ledger(active, wrote(kind), IF kind = "decision" THEN 1 ELSE 0,
                IF kind \in {"approved", "denied"} THEN 1 ELSE 0,
                IF kind = "dispatched" THEN 1 ELSE 0)
<1> DEFINE w == [execution |-> active, kind |-> kind]
<1>1. w \in Written /\ w.execution = active /\ w.kind = kind
  BY DEF TypeOK, Written
<1>2. wrote(kind) = <<w>>
  BY DEF wrote
<1> HIDE DEF w
<1>3. /\ Count(<<w>>, {"decision"}) = IF kind \in {"decision"} THEN 1 ELSE 0
      /\ Count(<<w>>, {"approved", "denied"}) = IF kind \in {"approved", "denied"} THEN 1 ELSE 0
      /\ Count(<<w>>, {"dispatched"}) = IF kind \in {"dispatched"} THEN 1 ELSE 0
  BY <1>1, CountOne
<1>4. <<w>> \in Seq(Written) /\ \A i \in 1 .. Len(<<w>>) : <<w>>[i].execution = active
  BY <1>1
<1> QED BY <1>2, <1>3, <1>4 DEF Ledger

LEMMA LedgerJoin ==
  ASSUME NEW e, NEW s, NEW t, NEW d1, NEW v1, NEW k1, NEW d2, NEW v2, NEW k2,
         Ledger(e, s, d1, v1, k1), Ledger(e, t, d2, v2, k2)
  PROVE  Ledger(e, s \o t, d1 + d2, v1 + v2, k1 + k2)
<1>1. s \in Seq(Written) /\ t \in Seq(Written)
  BY DEF Ledger
<1>2. \A kinds : Count(s \o t, kinds) = Count(s, kinds) + Count(t, kinds)
  BY <1>1, CountJoin
<1>3. s \o t \in Seq(Written)
  BY <1>1
<1>4. ASSUME NEW i \in 1 .. Len(s \o t) PROVE (s \o t)[i].execution = e /\ e # 0
  <2>1. CASE i \in 1 .. Len(s)
    <3>1. (s \o t)[i] = s[i]
      BY <1>1, <2>1
    <3> QED BY <2>1, <3>1 DEF Ledger
  <2>2. CASE i \notin 1 .. Len(s)
    <3>1. i - Len(s) \in 1 .. Len(t) /\ (s \o t)[i] = t[i - Len(s)]
      BY <1>1, <1>4, <2>2
    <3> QED BY <3>1 DEF Ledger
  <2> QED BY <2>1, <2>2
<1> QED BY <1>2, <1>3, <1>4 DEF Ledger

(* A call that began without a run writes nothing.                         *)
LEMMA LedgerEmpty ==
  ASSUME NEW t, NEW d, NEW v, NEW k, Ledger(0, t, d, v, k)
  PROVE  d = 0 /\ v = 0 /\ k = 0
<1>1. t \in Seq(Written) /\ Len(t) \in Nat /\ Len(t) = 0
  BY DEF Ledger
<1>2. t = <<>>
  BY <1>1
<1> QED BY <1>2, CountNone DEF Ledger

-----------------------------------------------------------------------------
Flag(b) == IF b THEN 1 ELSE 0

(* What an evaluation writes: a decision only where it is recorded and     *)
(* does not wait for an approval, a dispatch only where it releases.       *)
LEMMA EvaluationLedger ==
  ASSUME TypeOK, NEW p \in Params, NEW record \in BOOLEAN, NEW released \in BOOLEAN
  PROVE  \E d \in {0, 1} :
           /\ Ledger(active, evaluationWrites(p, record, released), d, 0,
                     Flag(released /\ dispatches(p)))
           /\ d = 1 => record /\ ~requiresApproval(p)
<1>1. CASE active = 0
  <2>1. evaluationWrites(p, record, released) = <<>> /\ ~dispatches(p)
    BY <1>1 DEF evaluationWrites, dispatches
  <2>2. Ledger(active, <<>>, 0, 0, 0)
    BY LedgerNone
  <2> QED BY <2>1, <2>2 DEF Flag
<1>2. CASE active # 0
  <2> DEFINE judging == IF refuses(p) THEN wrote("denial")
                        ELSE IF effect(p) = "fault" THEN wrote("fault")
                        ELSE IF record /\ effect(p) # "silent" /\ ~requiresApproval(p)
                             THEN wrote("decision") ELSE <<>>
             releasing == IF released /\ dispatches(p) THEN wrote("dispatched") ELSE <<>>
  <2>1. evaluationWrites(p, record, released) = judging \o releasing
    BY <1>2 DEF evaluationWrites
  <2>2. /\ Ledger(active, <<>>, 0, 0, 0)
        /\ Ledger(active, wrote("denial"), 0, 0, 0)
        /\ Ledger(active, wrote("fault"), 0, 0, 0)
        /\ Ledger(active, wrote("decision"), 1, 0, 0)
        /\ Ledger(active, wrote("dispatched"), 0, 0, 1)
    <3>1. Ledger(active, <<>>, 0, 0, 0)
      BY LedgerNone
    <3>2. Ledger(active, wrote("denial"), 0, 0, 0)
      BY <1>2, LedgerOne
    <3>3. Ledger(active, wrote("fault"), 0, 0, 0)
      BY <1>2, LedgerOne
    <3>4. Ledger(active, wrote("decision"), 1, 0, 0)
      BY <1>2, LedgerOne
    <3>5. Ledger(active, wrote("dispatched"), 0, 0, 1)
      BY <1>2, LedgerOne
    <3> QED BY <3>1, <3>2, <3>3, <3>4, <3>5
  <2>3. \E d \in {0, 1} : Ledger(active, judging, d, 0, 0) /\ (d = 1 => record /\ ~requiresApproval(p))
    BY <2>2
  <2>4. Ledger(active, releasing, 0, 0, Flag(released /\ dispatches(p)))
    BY <2>2 DEF Flag
  <2> HIDE DEF judging, releasing
  <2>5. PICK d \in {0, 1} : Ledger(active, judging, d, 0, 0) /\ (d = 1 => record /\ ~requiresApproval(p))
    BY <2>3
  <2>6. Ledger(active, judging \o releasing, d + 0, 0 + 0, 0 + Flag(released /\ dispatches(p)))
    BY <2>4, <2>5, LedgerJoin
  <2>7. d + 0 = d /\ 0 + Flag(released /\ dispatches(p)) = Flag(released /\ dispatches(p))
    BY DEF Flag
  <2> QED BY <2>1, <2>5, <2>6, <2>7
<1> QED BY <1>1, <1>2

(* What the approval's callback writes.                                    *)
LEMMA ResolutionLedger ==
  ASSUME TypeOK, NEW x, isCurrent(x), active # 0, NEW a \in {"approved", "denied"}
  PROVE  Ledger(active, resolutionWrites(x, a), 0, 1,
                Flag(a = "approved" /\ ~Native(x) /\ outwardVerdict(x)))
<1> DEFINE more == IF a = "approved" /\ ~Native(x) /\ outwardVerdict(x)
                   THEN wrote("dispatched") ELSE <<>>
           k == Flag(a = "approved" /\ ~Native(x) /\ outwardVerdict(x))
<1>1. Ledger(active, wrote(a), 0, 1, 0)
  BY LedgerOne
<1>2. Ledger(active, <<>>, 0, 0, 0)
  BY LedgerNone
<1>3. Ledger(active, wrote("dispatched"), 0, 0, 1)
  BY LedgerOne
<1>4. Ledger(active, more, 0, 0, k)
  BY <1>2, <1>3 DEF Flag
<1>5. resolutionWrites(x, a) = wrote(a) \o more
  BY DEF resolutionWrites
<1>6. k \in Nat
  BY DEF Flag
<1> HIDE DEF more, k
<1>7. Ledger(active, wrote(a) \o more, 0 + 0, 1 + 0, 0 + k)
  BY <1>1, <1>4, LedgerJoin
<1>8. 0 + k = k
  BY <1>6
<1>9. Ledger(active, wrote(a) \o more, 0, 1, k)
  BY <1>7, <1>8
<1> QED BY <1>5, <1>9 DEF k

-----------------------------------------------------------------------------
(* The statement about one call.                                           *)
governs(x) == x.execution # 0 /\ run[x.execution].mode = "enforce"

Tally(x, d, v, k) ==
  /\ d <= 1 /\ v <= 1
  /\ x.pc \in {"idle", "loop"} => d = 0 /\ v = 0 /\ k = 0
  /\ x.pc \in {"chain", "approval"} => d = 0 /\ v = 0
  /\ x.pc \in {"chain", "approval", "held"} => k = 0
  /\ x.pc = "answered" =>
       /\ Native(x) \/ x.answer # "approved" => k = 0
       /\ ~Native(x) /\ x.answer = "approved" /\ isCurrent(x) => k = Flag(outwardVerdict(x))
  /\ x.pc \in {"answered", "held"} /\ x.deferral # "none" => d = 0 /\ v = 0
  /\ x.pc = "blocked" /\ isCurrent(x) => k = 0

Kept(x, t) ==
  /\ CallOK(x)
  /\ x.pc \in {"idle", "loop"} => t = <<>>
  /\ x.pc \in {"released", "blocked"} => x.notified = x.asked
  /\ \E d, v, k \in Nat : Ledger(x.execution, t, d, v, k) /\ Tally(x, d, v, k)

EachKept == \A c \in Call : Kept(call[c], trail[c])

(* The invariant, call by call.                                            *)
LEMMA CallByCall == TypeOK /\ RegistryOK => (IInv <=> EachKept)
<1> SUFFICES ASSUME TypeOK, RegistryOK PROVE IInv <=> EachKept
  OBVIOUS
<1> DEFINE D(c) == Count(trail[c], {"decision"})
           V(c) == Count(trail[c], {"approved", "denied"})
           K(c) == Count(trail[c], {"dispatched"})
<1>1. ASSUME NEW c \in Call PROVE trail[c] \in Seq(Written) /\ D(c) \in Nat /\ V(c) \in Nat /\ K(c) \in Nat
  <2>1. trail[c] \in Seq(Written)
    BY DEF TypeOK
  <2> QED BY <2>1, CountIsNat
<1>2. ASSUME IInv, NEW c \in Call PROVE Kept(call[c], trail[c])
  <2>1. Ledger(call[c].execution, trail[c], D(c), V(c), K(c))
    BY <1>1, <1>2 DEF IInv, OwnTrail, Ledger
  <2>2. call[c].pc \in {"idle", "loop"} => D(c) = 0 /\ V(c) = 0 /\ K(c) = 0
    BY <1>2, CountNone DEF IInv, TrailOK
  <2>3. Tally(call[c], D(c), V(c), K(c))
    <3>1. D(c) <= 1 /\ V(c) <= 1
      BY <1>2 DEF IInv, JudgedOnce
    <3>2. call[c].pc = "blocked" /\ isCurrent(call[c]) => K(c) = 0
      BY <1>2 DEF IInv, BlockedNotAttested, isCurrent
    <3>3. TrailOK(call[c], trail[c])
      BY <1>2 DEF IInv
    <3> QED BY <2>2, <3>1, <3>2, <3>3 DEF TrailOK, Tally, Flag
  <2>4. CallOK(call[c]) /\ (call[c].pc \in {"idle", "loop"} => trail[c] = <<>>)
    BY <1>2 DEF IInv, TrailOK
  <2>5. call[c].pc \in {"released", "blocked"} => call[c].notified = call[c].asked
    BY <1>2 DEF IInv, CallbackOnce, Ended
  <2> HIDE DEF D, V, K
  <2> QED BY <1>1, <2>1, <2>3, <2>4, <2>5 DEF Kept
<1>3. ASSUME \A c \in Call : Kept(call[c], trail[c]) PROVE IInv
  <2>1. ASSUME NEW c \in Call
        PROVE  Ledger(call[c].execution, trail[c], D(c), V(c), K(c)) /\ Tally(call[c], D(c), V(c), K(c))
    <3>1. PICK d, v, k \in Nat : Ledger(call[c].execution, trail[c], d, v, k) /\ Tally(call[c], d, v, k)
      BY <1>3 DEF Kept
    <3>2. d = D(c) /\ v = V(c) /\ k = K(c)
      BY <3>1 DEF Ledger
    <3> HIDE DEF D, V, K
    <3> QED BY <3>1, <3>2
  <2>2. ASSUME NEW c \in Call PROVE CallOK(call[c])
    BY <1>3 DEF Kept
  <2>3. OwnTrail
    BY <2>1 DEF OwnTrail, Ledger
  <2>4. CallbackOnce
    BY <1>3, <2>2 DEF CallbackOnce, CallOK, Kept, Ended
  <2>5. BlockedNotAttested
    BY <2>1 DEF BlockedNotAttested, Tally, isCurrent
  <2>6. JudgedOnce
    BY <2>1 DEF JudgedOnce, Tally
  <2>7. ASSUME NEW c \in Call PROVE TrailOK(call[c], trail[c])
    <3>1. Tally(call[c], D(c), V(c), K(c))
      BY <2>1
    <3>2. call[c].pc \in {"idle", "loop"} => trail[c] = <<>>
      BY <1>3 DEF Kept
    <3> QED BY <3>1, <3>2 DEF Tally, TrailOK, Flag
  <2> QED BY <2>2, <2>3, <2>4, <2>5, <2>6, <2>7 DEF IInv
<1> QED BY <1>2, <1>3 DEF EachKept

-----------------------------------------------------------------------------
(* What a release of y, the call that was x, with k dispatches in its      *)
(* trail has to satisfy.                                                   *)
ReleaseOK(x, y, k) ==
  y.pc = "released" =>
    /\ governs(x) =>
         /\ isCurrent(x)
         /\ effect(y.params) \notin {"deny", "fault"}
         /\ effect(y.params) = "approve" =>
              /\ y.node = run[active].node
              /\ \/ y.answer = "approved"
                 \/ y.answer = "deferred" /\ y.lifecycle = "settled"
    /\ x.execution # 0 /\ isCurrent(x) =>
         k = Flag(/\ <<run[active].node, y.params>> \in Outward
                  /\ effect(y.params) \notin {"deny", "fault"})

(* The step leaves call c as y with trail t, and that is sound in the      *)
(* registry as it is.                                                      *)
Sound(c, y, t) ==
  /\ y \in CallRecord /\ y.execution <= started /\ Kept(y, t)
  /\ call[c].pc = "idle" \/ y.execution = call[c].execution
  /\ t \in Seq(Written) /\ ReleaseOK(call[c], y, Count(t, {"dispatched"}))

Leaves(c, y, t) ==
  /\ call' = [call EXCEPT ![c] = y] /\ trail' = [trail EXCEPT ![c] = t]
  /\ active' = active /\ started' = started /\ run' = run

Moves(c) == \E y, t : Sound(c, y, t) /\ Leaves(c, y, t)

(* How Sound follows from the numbers.                                     *)
LEMMA SoundFrom ==
  ASSUME NEW c, NEW y \in CallRecord, NEW t, NEW d \in Nat, NEW v \in Nat, NEW k \in Nat,
         y.execution <= started, CallOK(y),
         y.pc \in {"idle", "loop"} => t = <<>>,
         y.pc \in {"released", "blocked"} => y.notified = y.asked,
         Ledger(y.execution, t, d, v, k), Tally(y, d, v, k),
         call[c].pc = "idle" \/ y.execution = call[c].execution,
         ReleaseOK(call[c], y, k)
  PROVE  Sound(c, y, t)
<1>1. Kept(y, t)
  BY DEF Kept
<1>2. t \in Seq(Written) /\ Count(t, {"dispatched"}) = k
  BY DEF Ledger
<1> QED BY <1>1, <1>2 DEF Sound

(* A sound step of one call keeps the invariant.                           *)
LEMMA MovesKeeps ==
  ASSUME IInv, NEW c \in Call, Moves(c)
  PROVE  IInv'
<1>1. PICK y, t : Sound(c, y, t) /\ Leaves(c, y, t)
  BY DEF Moves
<1>2. TypeOK /\ RegistryOK
  BY DEF IInv
<1>3. TypeOK'
  BY <1>1, <1>2 DEF TypeOK, Sound, Leaves
<1>4. RegistryOK'
  BY <1>1, <1>2 DEF RegistryOK, Sound, Leaves, TypeOK
<1>5. \A b \in Call : Kept(call[b], trail[b])
  BY <1>2, CallByCall DEF EachKept
<1>6. ASSUME NEW b \in Call PROVE Kept(call[b], trail[b])'
  <2>1. \E x, s : call'[b] = x /\ trail'[b] = s /\ Kept(x, s)
    <3>1. CASE b = c
      <4>1. call'[b] = y /\ trail'[b] = t /\ Kept(y, t)
        BY <1>1, <1>2, <3>1 DEF Leaves, Sound, TypeOK
      <4> QED BY <4>1
    <3>2. CASE b # c
      <4>1. call'[b] = call[b] /\ trail'[b] = trail[b] /\ Kept(call[b], trail[b])
        BY <1>1, <1>2, <1>5, <3>2 DEF Leaves, TypeOK
      <4> QED BY <4>1
    <3> QED BY <3>1, <3>2
  <2>2. PICK x, s : call'[b] = x /\ trail'[b] = s /\ Kept(x, s)
    BY <2>1
  <2>3. active' = active /\ run' = run
    BY <1>1 DEF Leaves
  <2>4. CallOK(x)' <=> CallOK(x)
    BY <2>3 DEF CallOK, isCurrent
  <2>5. \A d, v, k : Tally(x, d, v, k)' <=> Tally(x, d, v, k)
    BY <2>3 DEF Tally, isCurrent
  <2>6. Kept(x, s)'
    BY <2>2, <2>4, <2>5 DEF Kept
  <2> QED BY <2>2, <2>6
<1>7. EachKept'
  BY <1>6 DEF EachKept
<1> QED BY <1>3, <1>4, <1>7, CallByCall, PTL

-----------------------------------------------------------------------------
(* The registry changes while calls are in the gate.                       *)
LEMMA InitKeeps == Init => IInv
<1> SUFFICES ASSUME Init PROVE IInv
  OBVIOUS
<1> DEFINE n0 == CHOOSE n \in Node : TRUE
           q0 == CHOOSE q \in Policies : TRUE
<1>1. n0 \in Node /\ q0 \in Policies /\ AnyParams \in Params
  BY DEF AnyParams
<1> HIDE DEF n0, q0
<1>2. TypeOK
  <2>1. [mode |-> "observe", policy |-> q0, node |-> n0] \in RunRecord
    BY <1>1 DEF RunRecord
  <2>2. run \in [1 .. MaxExecution -> RunRecord]
    BY <2>1 DEF Init, n0, q0
  <2>3. call \in [Call -> CallRecord]
    <3>1. 0 \in 0 .. MaxExecution
      OBVIOUS
    <3> QED BY <1>1, <3>1 DEF Init, CallRecord, Callers, n0
  <2>4. active \in 0 .. MaxExecution /\ started \in 0 .. MaxExecution
    BY DEF Init
  <2>5. trail \in [Call -> Seq(Written)]
    <3>1. <<>> \in Seq(Written)
      OBVIOUS
    <3> QED BY <3>1 DEF Init
  <2> QED BY <2>2, <2>3, <2>4, <2>5 DEF TypeOK
<1>3. RegistryOK
  BY DEF Init, RegistryOK
<1>4. ASSUME NEW c \in Call PROVE Kept(call[c], trail[c])
  <2>1. /\ call[c].pc = "idle" /\ call[c].gate = "none" /\ call[c].deferral = "none"
        /\ call[c].asked = 0 /\ call[c].notified = 0 /\ call[c].answer = "none"
        /\ call[c].finalizer = "none" /\ ~call[c].gated /\ call[c].lifecycle = "pending"
        /\ trail[c] = <<>>
    BY DEF Init
  <2>2. CallOK(call[c])
    BY <2>1 DEF CallOK
  <2>3. Ledger(call[c].execution, trail[c], 0, 0, 0)
    BY <2>1, LedgerNone
  <2>4. Tally(call[c], 0, 0, 0)
    BY <2>1 DEF Tally
  <2> QED BY <2>1, <2>2, <2>3, <2>4 DEF Kept
<1>5. EachKept
  BY <1>4 DEF EachKept
<1> QED BY <1>2, <1>3, <1>5, CallByCall

(* A call keeps its statement where its own execution keeps mode and       *)
(* policies, and the step it was approved at while it is current.          *)
LEMMA RegistryMoves ==
  ASSUME NEW x \in CallRecord, NEW t, Kept(x, t),
         x.execution # 0 =>
           /\ run'[x.execution].mode = run[x.execution].mode
           /\ run'[x.execution].policy = run[x.execution].policy,
         x.execution = active' => x.execution = active \/ x.execution = 0,
         x.execution = active' /\ x.execution # 0 =>
           run'[active'].node = run[active].node \/ ~InGate(x) \/ Native(x)
  PROVE  Kept(x, t)'
<1>1. PICK d, v, k \in Nat : Ledger(x.execution, t, d, v, k) /\ Tally(x, d, v, k)
  BY DEF Kept
<1>2. x.execution = 0 => d = 0 /\ v = 0 /\ k = 0
  BY <1>1, LedgerEmpty
<1>3. x.pc \in {"approval", "answered"} => x.execution # 0
  BY DEF Kept, CallOK
<1>4. Tally(x, d, v, k)'
  BY <1>1, <1>2, <1>3 DEF Tally, isCurrent, Flag
<1>5. CallOK(x)'
  <2>1. CallOK(x)
    BY DEF Kept
  <2> QED BY <1>3, <2>1 DEF CallOK, isCurrent, InGate
<1> QED BY <1>1, <1>4, <1>5 DEF Kept, Ledger

LEMMA RegistryKeeps ==
  ASSUME IInv, UNCHANGED <<call, trail>>, TypeOK', RegistryOK',
         \A c \in Call : Kept(call[c], trail[c]) =>
           \A x, t : call[c] = x /\ trail[c] = t => Kept(x, t)'
  PROVE  IInv'
<1>1. EachKept
  BY CallByCall DEF IInv
<1>2. ASSUME NEW c \in Call PROVE Kept(call[c], trail[c])'
  <2>1. PICK x, t : call[c] = x /\ trail[c] = t
    OBVIOUS
  <2>2. Kept(x, t)'
    BY <1>1, <2>1 DEF EachKept
  <2>3. call'[c] = x /\ trail'[c] = t
    BY <2>1
  <2> QED BY <2>2, <2>3
<1>3. EachKept'
  BY <1>2 DEF EachKept
<1> QED BY <1>3, CallByCall, PTL

LEMMA registerRunKeeps ==
  ASSUME IInv, NEW mode \in {"observe", "enforce"}, NEW q \in Policies, NEW n \in Node,
         registerRun(mode, q, n)
  PROVE  IInv'
<1>1. TypeOK /\ RegistryOK
  BY DEF IInv
<1>2. TypeOK'
  BY <1>1 DEF TypeOK, registerRun, RunRecord
<1>3. RegistryOK'
  <2>1. \A c \in Call : call[c].execution \in 0 .. MaxExecution /\ call[c].execution <= started
    BY <1>1 DEF TypeOK, RegistryOK, CallRecord
  <2>2. started \in Nat /\ started' = started + 1 /\ active' = started + 1 /\ call' = call
    BY <1>1 DEF TypeOK, registerRun
  <2>3. \A c \in Call : call[c].execution <= started + 1
    BY <2>1, <2>2
  <2> QED BY <2>2, <2>3 DEF RegistryOK
<1>4. ASSUME NEW c \in Call, NEW x, NEW t, call[c] = x, trail[c] = t, Kept(x, t)
      PROVE  Kept(x, t)'
  <2>1. x \in CallRecord /\ x.execution \in 0 .. MaxExecution /\ x.execution <= started
    BY <1>1, <1>4 DEF TypeOK, RegistryOK, CallRecord
  <2>2. x.execution # started + 1 /\ x.execution # active'
    BY <1>1, <2>1 DEF registerRun, TypeOK
  <2>3. x.execution # 0 => run'[x.execution] = run[x.execution]
    BY <1>1, <2>1, <2>2 DEF registerRun, TypeOK
  <2> QED BY <1>4, <2>1, <2>2, <2>3, RegistryMoves
<1> QED BY <1>2, <1>3, <1>4, RegistryKeeps DEF registerRun

LEMMA endRunKeeps ==
  ASSUME IInv, endRun
  PROVE  IInv'
<1>1. TypeOK /\ RegistryOK
  BY DEF IInv
<1>2. TypeOK' /\ RegistryOK'
  BY <1>1 DEF TypeOK, endRun, RegistryOK
<1>3. ASSUME NEW c \in Call, NEW x, NEW t, call[c] = x, trail[c] = t, Kept(x, t)
      PROVE  Kept(x, t)'
  <2>1. x \in CallRecord
    BY <1>1, <1>3 DEF TypeOK
  <2>2. run' = run /\ active' = 0
    BY DEF endRun
  <2> QED BY <1>3, <2>1, <2>2, RegistryMoves
<1> QED BY <1>2, <1>3, RegistryKeeps DEF endRun

LEMMA moveStepKeeps ==
  ASSUME IInv, NEW n \in Node, moveStep(n)
  PROVE  IInv'
<1>1. TypeOK /\ RegistryOK
  BY DEF IInv
<1>2. active \in 1 .. MaxExecution /\ run[active] \in RunRecord
  BY <1>1 DEF moveStep, TypeOK
<1>3. [run[active] EXCEPT !.node = n] \in RunRecord
  BY <1>2 DEF RunRecord
<1>4. run' = [run EXCEPT ![active] = [run[active] EXCEPT !.node = n]]
  BY <1>1, <1>2 DEF moveStep, TypeOK
<1>5. TypeOK' /\ RegistryOK'
  BY <1>1, <1>3, <1>4 DEF TypeOK, moveStep, RegistryOK
<1>6. ASSUME NEW c \in Call, NEW x, NEW t, call[c] = x, trail[c] = t, Kept(x, t)
      PROVE  Kept(x, t)'
  <2>1. x \in CallRecord /\ x.execution \in 0 .. MaxExecution
    BY <1>1, <1>6 DEF TypeOK, CallRecord
  <2>2. x.execution # 0 => /\ run'[x.execution].mode = run[x.execution].mode
                           /\ run'[x.execution].policy = run[x.execution].policy
    BY <1>1, <1>2, <1>4, <2>1 DEF TypeOK, RunRecord
  <2>3. active' = active /\ (InGate(x) => Native(x))
    BY <1>6 DEF moveStep
  <2> QED BY <1>6, <2>1, <2>2, <2>3, RegistryMoves
<1> QED BY <1>5, <1>6, RegistryKeeps DEF moveStep

-----------------------------------------------------------------------------
(* What the actions of the gate start from.                                *)
LEMMA InPlace ==
  ASSUME IInv, NEW c \in Call
  PROVE  /\ TypeOK
         /\ call[c] \in CallRecord /\ call[c].execution <= started
         /\ trail[c] \in Seq(Written) /\ Kept(call[c], trail[c])
<1>1. EachKept
  BY CallByCall DEF IInv
<1> QED BY <1>1 DEF IInv, TypeOK, RegistryOK, EachKept

LEMMA SameTrail ==
  ASSUME IInv, NEW c \in Call, UNCHANGED trail
  PROVE  trail' = [trail EXCEPT ![c] = trail[c]]
BY DEF IInv, TypeOK

(* A blocked call asks for little.                                         *)
LEMMA SoundBlocked ==
  ASSUME NEW c, NEW y \in CallRecord, NEW t, NEW d \in Nat, NEW v \in Nat, NEW k \in Nat,
         y.pc = "blocked", y.notified = y.asked, y.asked <= 1,
         y.execution = call[c].execution, y.execution <= started,
         Ledger(y.execution, t, d, v, k), d <= 1, v <= 1, y.execution = active => k = 0
  PROVE  Sound(c, y, t)
<1>1. y.notified \in Nat /\ y.asked \in Nat
  BY DEF CallRecord
<1>2. CallOK(y)
  BY <1>1 DEF CallOK
<1>3. Tally(y, d, v, k)
  BY DEF Tally, isCurrent
<1>4. ReleaseOK(call[c], y, k)
  BY DEF ReleaseOK
<1> QED BY <1>2, <1>3, <1>4, SoundFrom

(* refusal leaves no approval open.                                        *)
LEMMA Refused ==
  ASSUME NEW x \in CallRecord, x.lifecycle = "pending", x.asked <= 1,
         x.deferral = "none" => x.notified = x.asked,
         x.deferral # "none" => x.notified = 0 /\ x.asked = 1
  PROVE  /\ refusal(x) \in CallRecord /\ refusal(x).pc = "blocked"
         /\ refusal(x).execution = x.execution
         /\ refusal(x).notified = refusal(x).asked /\ refusal(x).asked <= 1
<1>1. x.asked \in Nat /\ x.notified \in Nat
  BY DEF CallRecord
<1>2. CASE x.deferral = "none"
  <2>1. refusal(x) = [x EXCEPT !.pc = "blocked"]
    BY <1>2 DEF refusal, blocked, cancelled
  <2> QED BY <1>2, <2>1 DEF CallRecord
<1>3. CASE x.deferral # "none"
  <2> DEFINE n == x.notified + 1
  <2>1. refusal(x) = [x EXCEPT !.lifecycle = "cancelled", !.notified = n, !.pc = "blocked"]
    BY <1>3 DEF refusal, blocked, cancelled, CallRecord
  <2>2. n \in Nat /\ n = x.asked
    BY <1>1, <1>3
  <2> HIDE DEF n
  <2> QED BY <2>1, <2>2 DEF CallRecord
<1> QED BY <1>2, <1>3

LEMMA beginMoves ==
  ASSUME IInv, NEW c \in Call, NEW caller \in Callers, NEW p \in Params, begin(c, caller, p)
  PROVE  Moves(c)
<1> DEFINE x == call[c]
           y == [x EXCEPT !.pc = "loop", !.caller = caller, !.execution = active,
                          !.original = p, !.params = p, !.approved = p]
<1>1. TypeOK /\ RegistryOK /\ x \in CallRecord /\ Kept(x, trail[c])
  BY InPlace DEF IInv
<1>2. y \in CallRecord /\ y.pc = "loop" /\ y.execution = active
  BY <1>1 DEF CallRecord, TypeOK
<1>3. /\ y.gate = x.gate /\ y.deferral = x.deferral /\ y.asked = x.asked /\ y.notified = x.notified
      /\ y.answer = x.answer /\ y.finalizer = x.finalizer /\ y.gated = x.gated
      /\ y.lifecycle = x.lifecycle
  BY <1>1 DEF CallRecord
<1>4. x.pc = "idle" /\ trail[c] = <<>> /\ CallOK(x)
  BY <1>1 DEF begin, Kept
<1>5. Leaves(c, y, trail[c])
  BY SameTrail DEF begin, Leaves
<1> HIDE DEF y
<1>6. CallOK(y)
  BY <1>2, <1>3, <1>4 DEF CallOK
<1>7. Ledger(y.execution, trail[c], 0, 0, 0) /\ Tally(y, 0, 0, 0) /\ ReleaseOK(x, y, 0)
  BY <1>2, <1>4, LedgerNone DEF Tally, ReleaseOK
<1>8. active <= started
  BY <1>1 DEF RegistryOK
<1>9. Sound(c, y, trail[c])
  BY <1>2, <1>4, <1>6, <1>7, <1>8, SoundFrom
<1> QED BY <1>5, <1>9 DEF Moves

LEMMA loopVetoMoves ==
  ASSUME IInv, NEW c \in Call, loopVeto(c)
  PROVE  Moves(c)
<1> DEFINE x == call[c]
           y == blocked(x)
<1>1. TypeOK /\ x \in CallRecord /\ x.execution <= started /\ Kept(x, trail[c])
  BY InPlace
<1>2. y \in CallRecord /\ y.pc = "blocked" /\ y.execution = x.execution
      /\ y.notified = x.notified /\ y.asked = x.asked
  BY <1>1 DEF CallRecord, blocked
<1>3. x.pc = "loop" /\ trail[c] = <<>> /\ x.asked = 0 /\ x.notified = 0
  BY <1>1 DEF loopVeto, Kept, CallOK
<1>4. Leaves(c, y, trail[c])
  BY SameTrail DEF loopVeto, Leaves
<1>5. Ledger(y.execution, trail[c], 0, 0, 0)
  BY <1>3, LedgerNone
<1>6. y.notified = y.asked /\ y.asked <= 1 /\ y.execution <= started
  BY <1>1, <1>2, <1>3
<1> HIDE DEF y
<1>7. Sound(c, y, trail[c])
  BY <1>2, <1>5, <1>6, SoundBlocked
<1> QED BY <1>4, <1>7 DEF Moves

(* The first verdict records nothing but a refusal or a fault.             *)
LEMMA firstGateMoves ==
  ASSUME IInv, NEW c \in Call, firstGate(c)
  PROVE  Moves(c)
<1> DEFINE x == call[c]
           w == IF isCurrent(x) THEN evaluationWrites(x.params, FALSE, FALSE) ELSE <<>>
           t == trail[c] \o w
           g == IF isCurrent(x) /\ active # 0 THEN run[active].mode ELSE x.gate
           through == [x EXCEPT !.pc = "chain", !.gate = g]
<1>1. TypeOK /\ x \in CallRecord /\ x.execution <= started /\ Kept(x, trail[c]) /\ trail[c] \in Seq(Written)
  BY InPlace
<1>2. x.pc = "loop" /\ trail[c] = <<>> /\ x.gate = "none" /\ x.asked = 0 /\ x.notified = 0
      /\ x.deferral = "none" /\ x.answer = "none" /\ x.finalizer = "none" /\ ~x.gated
      /\ x.lifecycle = "pending"
  BY <1>1 DEF firstGate, Kept, CallOK
<1>3. x.params \in Params /\ x.execution \in 0 .. MaxExecution
  BY <1>1 DEF CallRecord
<1>4. Ledger(x.execution, t, 0, 0, 0)
  <2>1. Ledger(x.execution, w, 0, 0, 0)
    <3>1. CASE isCurrent(x)
      <4>1. PICK d \in {0, 1} : Ledger(active, w, d, 0, Flag(FALSE /\ dispatches(x.params)))
                                /\ (d = 1 => FALSE /\ ~requiresApproval(x.params))
        BY <1>1, <1>3, <3>1, EvaluationLedger
      <4>2. d = 0 /\ Flag(FALSE /\ dispatches(x.params)) = 0
        BY <4>1 DEF Flag
      <4> HIDE DEF w
      <4> QED BY <3>1, <4>1, <4>2 DEF isCurrent
    <3>2. CASE ~isCurrent(x)
      BY <3>2, LedgerNone
    <3> QED BY <3>1, <3>2
  <2>2. t = w
    <3>1. w \in Seq(Written)
      BY <2>1 DEF Ledger
    <3> HIDE DEF w
    <3> QED BY <1>2, <3>1
  <2> HIDE DEF t, w
  <2> QED BY <2>1, <2>2
<1>5. g \in {"none", "observe", "enforce"} /\ (governs(x) /\ isCurrent(x) => g = "enforce")
      /\ (g = "enforce" => governs(x))
  BY <1>1, <1>2, <1>3 DEF TypeOK, RunRecord, governs, isCurrent
<1>6. \/ Leaves(c, blocked(x), t)
      \/ Leaves(c, through, t) /\ (governs(x) => isCurrent(x))
  <2>1. CASE isCurrent(x)
    <3>1. trail' = [trail EXCEPT ![c] = t]
      BY <2>1 DEF firstGate
    <3>2. call' = [call EXCEPT ![c] = blocked(x)] \/ call' = [call EXCEPT ![c] = through]
      BY <1>2, <2>1 DEF firstGate
    <3> HIDE DEF t, through
    <3> QED BY <2>1, <3>1, <3>2 DEF firstGate, Leaves
  <2>2. CASE ~isCurrent(x)
    <3>1. t = trail[c]
      BY <1>1, <2>2
    <3>2. trail' = [trail EXCEPT ![c] = t]
      BY <2>2, <3>1, SameTrail DEF firstGate
    <3>3. through = [x EXCEPT !.pc = "chain"]
      BY <1>1, <2>2 DEF CallRecord
    <3>4. \/ call' = [call EXCEPT ![c] = blocked(x)]
          \/ call' = [call EXCEPT ![c] = through] /\ ~governs(x)
      BY <2>2, <3>3 DEF firstGate, governs
    <3> HIDE DEF t, through
    <3> QED BY <2>2, <3>2, <3>4 DEF firstGate, Leaves
  <2> QED BY <2>1, <2>2
<1> HIDE DEF t, w
<1>7. Sound(c, blocked(x), t)
  <2>1. blocked(x) \in CallRecord /\ blocked(x).pc = "blocked" /\ blocked(x).execution = x.execution
        /\ blocked(x).notified = x.notified /\ blocked(x).asked = x.asked
    BY <1>1 DEF CallRecord, blocked
  <2>2. Ledger(blocked(x).execution, t, 0, 0, 0)
    BY <1>4, <2>1
  <2> QED BY <1>1, <1>2, <2>1, <2>2, SoundBlocked
<1>8. ASSUME governs(x) => isCurrent(x) PROVE Sound(c, through, t)
  <2>1. /\ through \in CallRecord /\ through.pc = "chain" /\ through.execution = x.execution
        /\ through.gate = g /\ through.deferral = "none" /\ through.asked = 0 /\ through.notified = 0
        /\ through.answer = "none" /\ through.finalizer = "none" /\ through.lifecycle = "pending"
    BY <1>1, <1>2, <1>5 DEF CallRecord
  <2>2. ~through.gated
    BY <1>1, <1>2 DEF CallRecord
  <2> HIDE DEF through, g
  <2>3. CallOK(through)
    BY <1>5, <1>8, <2>1, <2>2 DEF CallOK, governs
  <2>4. Tally(through, 0, 0, 0) /\ ReleaseOK(x, through, 0)
    BY <2>1 DEF Tally, ReleaseOK
  <2> QED BY <1>1, <1>4, <2>1, <2>3, <2>4, SoundFrom
<1> QED BY <1>6, <1>7, <1>8 DEF Moves

-----------------------------------------------------------------------------
(* The call as the chain returns it.                                       *)
Returned(x, y, o, p, q) ==
  /\ y \in CallRecord /\ y.pc = "chain" /\ y.caller = x.caller
  /\ y.execution = x.execution /\ y.gate = x.gate
  /\ y.params = p /\ y.approved = q /\ y.lifecycle = "pending"
  /\ y.finalizer = "none" /\ y.answer = "none" /\ ~y.gated /\ y.notified = 0
  /\ o = "deferred" => y.deferral = "plugin" /\ y.asked = 1 /\ y.caller = "defer"
  /\ o # "deferred" => y.deferral = "none" /\ y.asked = 0

LEMMA AfterChain ==
  ASSUME NEW x \in CallRecord, NEW t, Kept(x, t), NEW o, NEW p \in Params, NEW q \in Params,
         chainCanAnswer(x, o, p, q)
  PROVE  Returned(x, chainAnswer(x, o, p, q), o, p, q)
<1>1. CallOK(x) /\ x.pc = "chain"
  BY DEF Kept, chainCanAnswer
<1>2. /\ x.deferral = "none" /\ x.asked = 0 /\ x.notified = 0 /\ x.answer = "none"
      /\ x.finalizer = "none" /\ ~x.gated /\ x.lifecycle = "pending"
  BY <1>1 DEF CallOK
<1> DEFINE f == IF o = "deferred" THEN "plugin" ELSE "none"
           n == IF o = "deferred" THEN x.asked + 1 ELSE x.asked
           y == [x EXCEPT !.params = p, !.approved = q, !.deferral = f, !.asked = n]
<1>3. n \in Nat /\ (o = "deferred" => n = 1) /\ (o # "deferred" => n = 0)
  BY <1>2
<1>4. f \in {"none", "plugin"} /\ (o = "deferred" => f = "plugin") /\ (o # "deferred" => f = "none")
  OBVIOUS
<1>5. chainAnswer(x, o, p, q) = y
  BY DEF chainAnswer
<1> HIDE DEF f, n
<1>6. y \in CallRecord
  BY <1>3, <1>4 DEF CallRecord
<1>7. /\ y.pc = "chain" /\ y.caller = x.caller /\ y.execution = x.execution /\ y.gate = x.gate
      /\ y.params = p /\ y.approved = q /\ y.lifecycle = "pending"
      /\ y.finalizer = "none" /\ y.answer = "none" /\ y.notified = 0
      /\ y.deferral = f /\ y.asked = n
  BY <1>1, <1>2 DEF CallRecord
<1>8. ~y.gated
  BY <1>2 DEF CallRecord
<1>9. o = "deferred" => x.caller = "defer"
  BY DEF chainCanAnswer
<1> HIDE DEF y
<1>10. Returned(x, y, o, p, q)
  BY <1>3, <1>4, <1>6, <1>7, <1>8, <1>9 DEF Returned
<1> QED BY <1>5, <1>10

revisedTrail(c, o, p, q, more) ==
  trail[c] \o evaluationWrites(p, recordsRevised(o), releasesNow(o, chainAnswer(call[c], o, p, q))) \o more

(* What the revised verdict leaves in the trail.                           *)
RevisedLedger(c, o, p, t, d, v) ==
  /\ d \in {0, 1} /\ (d = 1 => o # "deferred" /\ ~requiresApproval(p))
  /\ Ledger(call[c].execution, t, d, v, Flag(o = "ok" /\ ~Native(call[c]) /\ dispatches(p)))

LEMMA Revised ==
  ASSUME IInv, NEW c \in Call, NEW o, NEW p \in Params, NEW q \in Params, NEW more, NEW v \in Nat,
         Ledger(active, more, 0, v, 0), revise(c, o, p, q, more)
  PROVE  /\ call[c].pc = "chain" /\ isCurrent(call[c])
         /\ Returned(call[c], chainAnswer(call[c], o, p, q), o, p, q)
         /\ trail' = [trail EXCEPT ![c] = revisedTrail(c, o, p, q, more)]
         /\ active' = active /\ started' = started /\ run' = run
         /\ \E d : RevisedLedger(c, o, p, revisedTrail(c, o, p, q, more), d, v)
<1> DEFINE x == call[c]
           y == chainAnswer(x, o, p, q)
           w == evaluationWrites(p, recordsRevised(o), releasesNow(o, y))
           k == Flag(releasesNow(o, y) /\ dispatches(p))
<1>1. TypeOK /\ x \in CallRecord /\ Kept(x, trail[c])
  BY InPlace
<1>2. chainCanAnswer(x, o, p, q) /\ ~outlived(y)
  BY DEF revise
<1>3. Returned(x, y, o, p, q)
  BY <1>1, <1>2, AfterChain
<1>4. x.pc = "chain" /\ isCurrent(x)
  BY <1>2, <1>3 DEF chainCanAnswer, outlived, isCurrent, Returned
<1>5. /\ trail' = [trail EXCEPT ![c] = revisedTrail(c, o, p, q, more)]
      /\ active' = active /\ started' = started /\ run' = run
  BY DEF revise, revisedTrail
<1>6. Native(y) <=> Native(x)
  BY <1>3 DEF Returned, Native
<1>7. recordsRevised(o) \in BOOLEAN /\ releasesNow(o, y) \in BOOLEAN
  BY DEF recordsRevised, releasesNow, Native
<1>8. PICK d \in {0, 1} : Ledger(active, w, d, 0, k) /\ (d = 1 => recordsRevised(o) /\ ~requiresApproval(p))
  BY <1>1, <1>7, EvaluationLedger
<1>9. Ledger(active, trail[c], 0, 0, 0)
  <2>1. PICK d0, v0, k0 \in Nat : Ledger(x.execution, trail[c], d0, v0, k0) /\ Tally(x, d0, v0, k0)
    BY <1>1 DEF Kept
  <2>2. d0 = 0 /\ v0 = 0 /\ k0 = 0
    BY <1>4, <2>1 DEF Tally
  <2> QED BY <1>4, <2>1, <2>2 DEF isCurrent
<1>10. k \in Nat
  BY DEF Flag
<1> HIDE DEF w, k
<1>11. Ledger(active, trail[c] \o w, 0 + d, 0 + 0, 0 + k)
  BY <1>8, <1>9, LedgerJoin
<1>12. Ledger(active, trail[c] \o w \o more, 0 + d + 0, 0 + 0 + v, 0 + k + 0)
  BY <1>11, LedgerJoin
<1>13. 0 + d + 0 = d /\ 0 + 0 + v = v /\ 0 + k + 0 = k
  BY <1>10
<1>14. Ledger(active, trail[c] \o w \o more, d, v, k)
  BY <1>12, <1>13
<1>15. k = Flag(o = "ok" /\ ~Native(x) /\ dispatches(p))
  BY <1>6 DEF k, Flag, releasesNow
<1>16. active = x.execution /\ revisedTrail(c, o, p, q, more) = trail[c] \o w \o more
  BY <1>4 DEF isCurrent, revisedTrail, w
<1>17. d = 1 => o # "deferred" /\ ~requiresApproval(p)
  BY <1>8 DEF recordsRevised
<1>18. RevisedLedger(c, o, p, revisedTrail(c, o, p, q, more), d, v)
  BY <1>8, <1>14, <1>15, <1>16, <1>17 DEF RevisedLedger
<1> QED BY <1>3, <1>4, <1>5, <1>18

(* A refusal after the revised verdict.                                    *)
LEMMA RevisedRefusal ==
  ASSUME IInv, NEW c \in Call, NEW o, NEW p \in Params, NEW q \in Params, NEW more, NEW v \in {0, 1},
         Ledger(active, more, 0, v, 0), revise(c, o, p, q, more),
         call' = [call EXCEPT ![c] = refusal(chainAnswer(call[c], o, p, q))],
         ~(o = "ok" /\ dispatches(p))
  PROVE  Moves(c)
<1> DEFINE x == call[c]
           y == chainAnswer(x, o, p, q)
           t == revisedTrail(c, o, p, q, more)
<1>1. x.execution <= started /\ x.execution = active
  BY InPlace, Revised DEF isCurrent
<1>2. Returned(x, y, o, p, q)
  BY Revised
<1>3. /\ trail' = [trail EXCEPT ![c] = t] /\ active' = active /\ started' = started /\ run' = run
  BY Revised
<1>4. PICK d : RevisedLedger(c, o, p, t, d, v)
  <2>1. v \in Nat
    OBVIOUS
  <2> QED BY <2>1, Revised
<1> HIDE DEF t, y
<1>5. /\ y \in CallRecord /\ y.lifecycle = "pending" /\ y.asked <= 1
      /\ (y.deferral = "none" => y.notified = y.asked)
      /\ (y.deferral # "none" => y.notified = 0 /\ y.asked = 1)
  BY <1>2 DEF Returned
<1>6. /\ refusal(y) \in CallRecord /\ refusal(y).pc = "blocked"
      /\ refusal(y).execution = y.execution
      /\ refusal(y).notified = refusal(y).asked /\ refusal(y).asked <= 1
  BY <1>5, Refused
<1>7. y.execution = x.execution
  BY <1>2 DEF Returned
<1>8. d \in {0, 1} /\ Ledger(x.execution, t, d, v, 0)
  BY <1>4 DEF RevisedLedger, Flag
<1>9. Sound(c, refusal(y), t)
  <2>1. d \in Nat /\ v \in Nat /\ 0 \in Nat /\ d <= 1 /\ v <= 1
    BY <1>8
  <2>2. Ledger(refusal(y).execution, t, d, v, 0) /\ refusal(y).execution <= started
    BY <1>1, <1>6, <1>7, <1>8
  <2> QED BY <1>6, <1>7, <2>1, <2>2, SoundBlocked
<1>10. Leaves(c, refusal(y), t)
  BY <1>3 DEF Leaves, y
<1> QED BY <1>9, <1>10 DEF Moves

LEMMA chainBlocksMoves ==
  ASSUME IInv, NEW c \in Call, NEW p \in Params, chainBlocks(c, p)
  PROVE  Moves(c)
<1>1. revise(c, "blocked", p, p, <<>>) /\ Ledger(active, <<>>, 0, 0, 0)
  BY LedgerNone DEF chainBlocks
<1>2. Returned(call[c], chainAnswer(call[c], "blocked", p, p), "blocked", p, p)
  BY <1>1, Revised
<1>3. refusal(chainAnswer(call[c], "blocked", p, p)) = blocked(chainAnswer(call[c], "blocked", p, p))
  BY <1>2 DEF Returned, refusal, cancelled
<1>4. call' = [call EXCEPT ![c] = refusal(chainAnswer(call[c], "blocked", p, p))]
  BY <1>3 DEF chainBlocks
<1>5. 0 \in {0, 1} /\ ~("blocked" = "ok" /\ dispatches(p))
  OBVIOUS
<1> QED BY <1>1, <1>4, <1>5, RevisedRefusal

LEMMA revisedRefusesMoves ==
  ASSUME IInv, NEW c \in Call, NEW o, NEW p \in Params, NEW q \in Params, revisedRefuses(c, o, p, q)
  PROVE  Moves(c)
<1>1. revise(c, o, p, q, <<>>) /\ Ledger(active, <<>>, 0, 0, 0)
  BY LedgerNone DEF revisedRefuses
<1>2. ~dispatches(p)
  BY DEF revisedRefuses, refuses, dispatches
<1> QED BY <1>1, <1>2, RevisedRefusal DEF revisedRefuses

LEMMA approvalConflictMoves ==
  ASSUME IInv, NEW c \in Call, NEW p \in Params, NEW q \in Params, approvalConflict(c, p, q)
  PROVE  Moves(c)
<1>1. TypeOK /\ active # 0
  BY InPlace DEF approvalConflict, requiresApproval, enforcing
<1>2. Ledger(active, wrote("denied"), 0, 1, 0)
  BY <1>1, LedgerOne
<1>3. /\ revise(c, "deferred", p, q, wrote("denied"))
      /\ call' = [call EXCEPT ![c] = refusal(chainAnswer(call[c], "deferred", p, q))]
  BY DEF approvalConflict
<1>4. 1 \in {0, 1} /\ ~("deferred" = "ok" /\ dispatches(p))
  OBVIOUS
<1> QED BY <1>2, <1>3, <1>4, RevisedRefusal

-----------------------------------------------------------------------------
(* y is z but for its place in the gate: held by a native caller, released *)
(* by another.                                                             *)
Handed(z, y) ==
  /\ y \in CallRecord /\ y.caller = z.caller /\ (Native(y) <=> Native(z))
  /\ Native(z) => y.pc = "held"
  /\ ~Native(z) => y.pc = "released"
  /\ y.execution = z.execution /\ y.params = z.params /\ y.node = z.node /\ y.gate = z.gate
  /\ y.deferral = z.deferral /\ y.lifecycle = z.lifecycle /\ y.finalizer = z.finalizer
  /\ y.answer = z.answer /\ y.asked = z.asked /\ y.notified = z.notified
  /\ (y.gated <=> z.gated)

LEMMA returnedHands ==
  ASSUME NEW z \in CallRecord
  PROVE  Handed(z, returned(z))
<1> DEFINE s == IF Native(z) THEN "held" ELSE "released"
           y == [z EXCEPT !.pc = s]
<1>1. s \in {"held", "released"} /\ (Native(z) => s = "held") /\ (~Native(z) => s = "released")
  OBVIOUS
<1>2. returned(z) = y
  BY DEF returned
<1> HIDE DEF s
<1>3. y \in CallRecord /\ y.pc = s
  BY <1>1 DEF CallRecord
<1>4. /\ y.caller = z.caller /\ y.execution = z.execution /\ y.params = z.params /\ y.node = z.node
      /\ y.gate = z.gate /\ y.deferral = z.deferral /\ y.lifecycle = z.lifecycle
      /\ y.finalizer = z.finalizer /\ y.answer = z.answer /\ y.asked = z.asked
      /\ y.notified = z.notified /\ y.gated = z.gated
  BY DEF CallRecord
<1> HIDE DEF y
<1>5. Native(y) <=> Native(z)
  BY <1>4 DEF Native
<1>6. Handed(z, y)
  BY <1>1, <1>3, <1>4, <1>5 DEF Handed
<1> QED BY <1>2, <1>6

(* What the numbers of a call at the chain are.                            *)
LEMMA AtChain ==
  ASSUME NEW x, NEW t, Kept(x, t), x.pc = "chain"
  PROVE  Ledger(x.execution, t, 0, 0, 0) /\ (governs(x) <=> x.gate = "enforce")
<1>1. PICK d, v, k \in Nat : Ledger(x.execution, t, d, v, k) /\ Tally(x, d, v, k)
  BY DEF Kept
<1>2. d = 0 /\ v = 0 /\ k = 0
  BY <1>1 DEF Tally
<1> QED BY <1>1, <1>2 DEF Kept, CallOK, governs

LEMMA chainOutlivesRunMoves ==
  ASSUME IInv, NEW c \in Call, NEW o, NEW p \in Params, NEW q \in Params,
         chainOutlivesRun(c, o, p, q)
  PROVE  Moves(c)
<1> DEFINE x == call[c]
           z == chainAnswer(x, o, p, q)
           t == trail[c]
<1>1. TypeOK /\ x \in CallRecord /\ x.execution <= started /\ Kept(x, t)
  BY InPlace
<1>2. Returned(x, z, o, p, q) /\ x.pc = "chain"
  BY <1>1, AfterChain DEF chainOutlivesRun, chainCanAnswer
<1>3. Ledger(x.execution, t, 0, 0, 0) /\ (governs(x) <=> x.gate = "enforce")
  BY <1>1, <1>2, AtChain
<1>4. x.execution # active
  BY <1>2 DEF chainOutlivesRun, outlived, isCurrent, Returned
<1>5. trail' = [trail EXCEPT ![c] = t] /\ active' = active /\ started' = started /\ run' = run
  BY SameTrail DEF chainOutlivesRun
<1>6. \/ call' = [call EXCEPT ![c] = refusal(z)]
      \/ call' = [call EXCEPT ![c] = returned(z)] /\ z.gate # "enforce"
  BY DEF chainOutlivesRun, refusal
<1> HIDE DEF z, t
<1>7. /\ z \in CallRecord /\ z.lifecycle = "pending" /\ z.asked <= 1 /\ z.execution = x.execution
      /\ (z.deferral = "none" => z.notified = z.asked)
      /\ (z.deferral # "none" => z.notified = 0 /\ z.asked = 1)
  BY <1>2 DEF Returned
<1>8. Sound(c, refusal(z), t)
  <2>1. /\ refusal(z) \in CallRecord /\ refusal(z).pc = "blocked"
        /\ refusal(z).execution = z.execution
        /\ refusal(z).notified = refusal(z).asked /\ refusal(z).asked <= 1
    BY <1>7, Refused
  <2>2. Ledger(refusal(z).execution, t, 0, 0, 0) /\ refusal(z).execution <= started
    BY <1>1, <1>3, <1>7, <2>1
  <2> QED BY <1>7, <2>1, <2>2, SoundBlocked
<1>9. ASSUME z.gate # "enforce" PROVE Sound(c, returned(z), t)
  <2>1. PICK y : y = returned(z)
    OBVIOUS
  <2>2. Handed(z, y)
    BY <1>7, <2>1, returnedHands
  <2>3. y.execution = x.execution /\ y.asked \in Nat /\ y.notified \in Nat /\ y \in CallRecord
    BY <1>7, <2>2 DEF Handed, CallRecord
  <2>4. ~governs(x)
    BY <1>2, <1>3, <1>9 DEF Returned
  <2>5. y.pc \in {"held", "released"} /\ y.asked <= 1 /\ y.notified <= y.asked
        /\ (y.pc = "held" => Native(y))
    BY <1>7, <2>2, <2>3 DEF Handed
  <2>6. CallOK(y)
    <3>1. /\ y.finalizer = "none" /\ ~y.gated /\ y.deferral # "enterprise"
          /\ y.lifecycle = "pending"
          /\ (y.deferral = "none" => y.notified = y.asked)
          /\ (y.deferral # "none" => y.notified = 0 /\ y.asked = 1)
      BY <1>2, <1>7, <2>2 DEF Handed, Returned
    <3> QED BY <1>4, <2>3, <2>4, <2>5, <3>1 DEF CallOK, governs, isCurrent
  <2>7. y.pc = "released" => y.notified = y.asked
    BY <1>2, <2>2, <2>5 DEF Handed, Returned, Native
  <2>8. Tally(y, 0, 0, 0)
    BY <2>5 DEF Tally
  <2>9. ReleaseOK(x, y, 0)
    BY <1>4, <2>4 DEF ReleaseOK, isCurrent
  <2>10. Ledger(y.execution, t, 0, 0, 0) /\ y.execution <= started
    BY <1>1, <1>3, <2>3
  <2>11. Sound(c, y, t)
    BY <2>3, <2>5, <2>6, <2>7, <2>8, <2>9, <2>10, SoundFrom
  <2> QED BY <2>1, <2>11
<1> QED BY <1>5, <1>6, <1>8, <1>9 DEF Moves, Leaves

(* The record revisedAllows hands over under a run.                        *)
allowed(z) == [z EXCEPT !.finalizer = IF Native(z) THEN "evaluate" ELSE "none",
                        !.gated = z.deferral # "none", !.node = run[active].node]

LEMMA AllowedFields ==
  ASSUME TypeOK, active # 0, NEW z \in CallRecord
  PROVE  LET y == allowed(z)
         IN  /\ y \in CallRecord /\ y.pc = z.pc /\ y.caller = z.caller
             /\ y.execution = z.execution /\ y.params = z.params
             /\ y.deferral = z.deferral /\ y.lifecycle = z.lifecycle
             /\ y.asked = z.asked /\ y.notified = z.notified
             /\ (Native(y) => y.finalizer = "evaluate")
<1> DEFINE f == IF Native(z) THEN "evaluate" ELSE "none"
           b == z.deferral # "none"
           n == run[active].node
           y == [z EXCEPT !.finalizer = f, !.gated = b, !.node = n]
<1>1. f \in {"none", "evaluate"} /\ (Native(z) => f = "evaluate") /\ b \in BOOLEAN
  OBVIOUS
<1>2. n \in Node
  <2>1. active \in 1 .. MaxExecution
    BY DEF TypeOK
  <2> QED BY <2>1 DEF TypeOK, RunRecord
<1>3. allowed(z) = y
  BY DEF allowed
<1> HIDE DEF f, b, n
<1>4. y \in CallRecord
  BY <1>1, <1>2 DEF CallRecord
<1>5. /\ y.pc = z.pc /\ y.caller = z.caller /\ y.execution = z.execution /\ y.params = z.params
      /\ y.deferral = z.deferral /\ y.lifecycle = z.lifecycle
      /\ y.asked = z.asked /\ y.notified = z.notified /\ y.finalizer = f
  BY DEF CallRecord
<1>6. Native(y) => f = "evaluate"
  BY <1>1, <1>5 DEF Native
<1> HIDE DEF y
<1> QED BY <1>3, <1>4, <1>5, <1>6

LEMMA revisedAllowsMoves ==
  ASSUME IInv, NEW c \in Call, NEW o, NEW p \in Params, NEW q \in Params,
         o \in {"ok", "deferred", "blocked"}, revisedAllows(c, o, p, q)
  PROVE  Moves(c)
<1> DEFINE x == call[c]
           z == chainAnswer(x, o, p, q)
           t == revisedTrail(c, o, p, q, <<>>)
           k == Flag(o = "ok" /\ ~Native(x) /\ dispatches(p))
<1>1. TypeOK /\ x \in CallRecord /\ x.execution <= started /\ Kept(x, trail[c])
  BY InPlace
<1>2. o \in {"ok", "deferred"} /\ ~refuses(p) /\ ~requiresApproval(p)
  BY DEF revisedAllows
<1>3. revise(c, o, p, q, <<>>) /\ Ledger(active, <<>>, 0, 0, 0)
  BY LedgerNone DEF revisedAllows
<1>4. x.pc = "chain" /\ x.execution = active /\ Returned(x, z, o, p, q)
  BY <1>3, Revised DEF isCurrent
<1>5. trail' = [trail EXCEPT ![c] = t] /\ active' = active /\ started' = started /\ run' = run
  BY <1>3, Revised
<1>6. PICK d : RevisedLedger(c, o, p, t, d, 0)
  BY <1>3, Revised
<1>7. governs(x) <=> x.gate = "enforce"
  BY <1>1, <1>4, AtChain
<1>8. /\ d \in {0, 1} /\ (o = "deferred" => d = 0) /\ Ledger(x.execution, t, d, 0, k)
  BY <1>6 DEF RevisedLedger
<1>9. k \in Nat /\ (Native(x) => k = 0) /\ (o = "ok" /\ ~Native(x) => k = Flag(dispatches(p)))
  BY DEF Flag
<1>10. \/ active = 0 /\ call' = [call EXCEPT ![c] = returned(z)]
       \/ active # 0 /\ call' = [call EXCEPT ![c] = returned(allowed(z))]
  <2>1. active = 0 => z.gate # "enforce"
    BY <1>4, <1>7 DEF governs, Returned
  <2> QED BY <2>1 DEF revisedAllows, allowed
<1> HIDE DEF z, t, k
<1>11. z \in CallRecord
  BY <1>4 DEF Returned
<1>12. \E m \in CallRecord :
         /\ call' = [call EXCEPT ![c] = returned(m)]
         /\ m.caller = x.caller /\ m.execution = x.execution /\ m.params = p
         /\ m.deferral = z.deferral /\ m.lifecycle = "pending"
         /\ m.asked = z.asked /\ m.notified = 0
         /\ m.finalizer # "approval" /\ (m.finalizer # "none" => active # 0)
         /\ (m.gated => active # 0) /\ (Native(m) /\ active # 0 => m.finalizer # "none")
  <2>1. CASE active = 0
    BY <1>4, <1>10, <1>11, <2>1 DEF Returned
  <2>2. CASE active # 0
    <3>1. PICK m : m = allowed(z)
      OBVIOUS
    <3>2. /\ m \in CallRecord /\ m.caller = z.caller
          /\ m.execution = z.execution /\ m.params = z.params
          /\ m.deferral = z.deferral /\ m.lifecycle = z.lifecycle
          /\ m.asked = z.asked /\ m.notified = z.notified
          /\ (Native(m) => m.finalizer = "evaluate")
      BY <1>1, <1>11, <2>2, <3>1, AllowedFields
    <3>3. m.finalizer # "approval"
      BY <1>11, <3>1 DEF allowed, CallRecord
    <3> QED BY <1>4, <1>10, <2>2, <3>1, <3>2, <3>3 DEF Returned
  <2> QED BY <2>1, <2>2
<1>13. PICK m \in CallRecord :
         /\ call' = [call EXCEPT ![c] = returned(m)]
         /\ m.caller = x.caller /\ m.execution = x.execution /\ m.params = p
         /\ m.deferral = z.deferral /\ m.lifecycle = "pending"
         /\ m.asked = z.asked /\ m.notified = 0
         /\ m.finalizer # "approval" /\ (m.finalizer # "none" => active # 0)
         /\ (m.gated => active # 0) /\ (Native(m) /\ active # 0 => m.finalizer # "none")
  BY <1>12
<1>14. PICK y : y = returned(m)
  OBVIOUS
<1>15. Handed(m, y)
  BY <1>14, returnedHands
<1>16. /\ y \in CallRecord /\ y.execution = active /\ y.params = p /\ y.lifecycle = "pending"
       /\ y.notified = 0 /\ y.asked \in {0, 1} /\ y.deferral # "enterprise"
       /\ (y.deferral = "none" => y.asked = 0) /\ (y.deferral # "none" => y.asked = 1 /\ Native(y))
       /\ (y.deferral # "none" => o = "deferred")
       /\ y.pc \in {"held", "released"} /\ (y.pc = "held" <=> Native(y))
       /\ (Native(y) <=> Native(x))
  BY <1>2, <1>4, <1>13, <1>15 DEF Handed, Returned, Native
<1>17. /\ y.finalizer # "approval" /\ (y.finalizer # "none" => active # 0)
       /\ (y.gated => active # 0) /\ (Native(y) /\ active # 0 => y.finalizer # "none")
  BY <1>13, <1>15 DEF Handed
<1>18. CallOK(y)
  BY <1>16, <1>17 DEF CallOK, isCurrent
<1>19. Tally(y, d, 0, k)
  BY <1>8, <1>9, <1>16 DEF Tally
<1>20. ReleaseOK(x, y, k)
  <2>1. SUFFICES ASSUME y.pc = "released"
                 PROVE  /\ governs(x) => effect(p) \notin {"deny", "fault", "approve"}
                        /\ x.execution # 0 => k = Flag(/\ <<run[active].node, p>> \in Outward
                                                       /\ effect(p) \notin {"deny", "fault"})
    BY <1>4, <1>16 DEF ReleaseOK, isCurrent
  <2>2. o = "ok" /\ ~Native(x)
    BY <1>2, <1>4, <1>16, <2>1 DEF Returned, Native
  <2>3. governs(x) => enforcing
    BY <1>4 DEF governs, enforcing
  <2>4. active # 0 => (dispatches(p) <=> /\ <<run[active].node, p>> \in Outward
                                         /\ effect(p) \notin {"deny", "fault"})
    BY <1>2 DEF dispatches
  <2> QED BY <1>2, <1>4, <1>9, <2>2, <2>3, <2>4 DEF refuses, requiresApproval, Flag
<1>21. Ledger(y.execution, t, d, 0, k) /\ y.execution <= started /\ y.execution = x.execution
  BY <1>1, <1>4, <1>8, <1>16
<1>22. y.pc \in {"released", "blocked"} => y.notified = y.asked
  BY <1>16
<1>23. Sound(c, y, t)
  <2>1. d \in Nat /\ 0 \in Nat /\ y.pc \notin {"idle", "loop"}
    BY <1>8, <1>16
  <2> QED BY <1>9, <1>16, <1>18, <1>19, <1>20, <1>21, <1>22, <2>1, SoundFrom
<1> QED BY <1>5, <1>13, <1>14, <1>23 DEF Moves, Leaves

-----------------------------------------------------------------------------
(* The approval: what is common to the three ways it opens.                *)
Opened(x, y, p) ==
  /\ y \in CallRecord /\ y.caller = x.caller /\ y.execution = x.execution /\ y.params = p
  /\ y.node = run[active].node /\ y.lifecycle = "pending" /\ y.asked = 1

LEMMA OpenedFields ==
  ASSUME TypeOK, active # 0, NEW x \in CallRecord, x.asked = 0,
         NEW z, NEW p, Returned(x, z, "ok", p, p)
  PROVE  LET y == [z EXCEPT !.asked = x.asked + 1, !.node = run[active].node]
         IN  /\ Opened(x, y, p) /\ y.deferral = "none" /\ y.notified = 0
             /\ y.answer = "none" /\ y.finalizer = "none"
<1> DEFINE a == x.asked + 1
           n == run[active].node
           y == [z EXCEPT !.asked = a, !.node = n]
<1>1. a = 1
  OBVIOUS
<1>2. n \in Node
  <2>1. active \in 1 .. MaxExecution
    BY DEF TypeOK
  <2> QED BY <2>1 DEF TypeOK, RunRecord
<1>3. z \in CallRecord
  BY DEF Returned
<1> HIDE DEF a, n
<1>4. y \in CallRecord /\ y.asked = 1 /\ y.node = n
  BY <1>1, <1>2, <1>3 DEF CallRecord
<1>5. /\ y.caller = z.caller /\ y.execution = z.execution /\ y.params = z.params
      /\ y.lifecycle = z.lifecycle /\ y.deferral = z.deferral /\ y.notified = z.notified
      /\ y.answer = z.answer /\ y.finalizer = z.finalizer
  BY <1>3 DEF CallRecord
<1> HIDE DEF y
<1>6. Opened(x, y, p) /\ y.deferral = "none" /\ y.notified = 0 /\ y.answer = "none" /\ y.finalizer = "none"
  BY <1>4, <1>5 DEF Opened, Returned, n
<1> QED BY <1>6 DEF y, a, n

LEMMA openApprovalMoves ==
  ASSUME IInv, NEW c \in Call, NEW p \in Params, openApproval(c, p)
  PROVE  Moves(c)
<1> DEFINE x == call[c]
           z == chainAnswer(x, "ok", p, p)
           m == [z EXCEPT !.asked = x.asked + 1, !.node = run[active].node]
           more == IF x.caller = "report" THEN wrote("denied") ELSE <<>>
           t == revisedTrail(c, "ok", p, p, more)
           v == Flag(x.caller = "report")
<1>1. TypeOK /\ x \in CallRecord /\ x.execution <= started /\ Kept(x, trail[c])
  BY InPlace
<1>2. requiresApproval(p) /\ active # 0 /\ run[active].mode = "enforce" /\ effect(p) = "approve"
  BY DEF openApproval, requiresApproval, enforcing
<1>3. Ledger(active, more, 0, v, 0) /\ v \in Nat /\ v <= 1
  <2>1. Ledger(active, wrote("denied"), 0, 1, 0)
    BY <1>1, <1>2, LedgerOne
  <2>2. Ledger(active, <<>>, 0, 0, 0)
    BY LedgerNone
  <2> QED BY <2>1, <2>2 DEF Flag
<1>4. revise(c, "ok", p, p, more)
  <2>1. [z EXCEPT !.asked = x.asked + 1, !.node = run[active].node].caller = x.caller
    BY <1>1 DEF chainAnswer, CallRecord
  <2> QED BY <2>1 DEF openApproval
<1> HIDE DEF more, v
<1>5. x.pc = "chain" /\ x.execution = active /\ Returned(x, z, "ok", p, p)
  BY <1>3, <1>4, Revised DEF isCurrent
<1>6. trail' = [trail EXCEPT ![c] = t] /\ active' = active /\ started' = started /\ run' = run
  BY <1>3, <1>4, Revised
<1>7. PICK d : RevisedLedger(c, "ok", p, t, d, v)
  BY <1>3, <1>4, Revised
<1>8. Ledger(x.execution, t, 0, v, 0)
  <2>1. ~dispatches(p)
    BY <1>2 DEF dispatches
  <2>2. d = 0 /\ Flag("ok" = "ok" /\ ~Native(x) /\ dispatches(p)) = 0
    BY <1>2, <1>7, <2>1 DEF RevisedLedger, Flag
  <2> HIDE DEF t
  <2> QED BY <1>7, <2>2 DEF RevisedLedger
<1>9. x.asked = 0
  BY <1>1, <1>5 DEF Kept, CallOK
<1>10. Opened(x, m, p) /\ m.deferral = "none" /\ m.notified = 0 /\ m.answer = "none" /\ m.finalizer = "none"
  BY <1>1, <1>2, <1>5, <1>9, OpenedFields
<1>11. m.caller = x.caller /\ m \in CallRecord
  BY <1>10 DEF Opened
<1>12. call' = [call EXCEPT ![c] =
           IF m.caller = "report"
           THEN [m EXCEPT !.pc = "answered", !.answer = "denied", !.notified = m.notified + 1]
           ELSE IF m.caller = "defer"
           THEN [m EXCEPT !.pc = "answered", !.answer = "deferred",
                          !.deferral = "enterprise", !.gated = TRUE]
           ELSE [m EXCEPT !.pc = "approval"]]
  BY DEF openApproval
<1> HIDE DEF z, m, t
<1>13. \E y : /\ call' = [call EXCEPT ![c] = y] /\ Opened(x, y, p)
              /\ \/ /\ x.caller = "report" /\ y.pc = "answered" /\ y.answer = "denied"
                    /\ y.notified = 1 /\ y.deferral = "none"
                 \/ /\ x.caller = "defer" /\ y.pc = "answered" /\ y.answer = "deferred"
                    /\ y.notified = 0 /\ y.deferral = "enterprise"
                 \/ /\ x.caller \notin {"report", "defer"} /\ y.pc = "approval"
                    /\ y.notified = 0 /\ y.deferral = "none"
  <2>1. CASE x.caller = "report"
    <3> DEFINE n == m.notified + 1
               y == [m EXCEPT !.pc = "answered", !.answer = "denied", !.notified = n]
    <3>1. n = 1
      BY <1>10
    <3>2. call' = [call EXCEPT ![c] = y]
      BY <1>11, <1>12, <2>1
    <3> HIDE DEF n
    <3>3. Opened(x, y, p) /\ y.pc = "answered" /\ y.answer = "denied" /\ y.notified = 1 /\ y.deferral = "none"
      BY <1>10, <1>11, <3>1 DEF Opened, CallRecord
    <3> QED BY <2>1, <3>2, <3>3
  <2>2. CASE x.caller = "defer"
    <3> DEFINE y == [m EXCEPT !.pc = "answered", !.answer = "deferred",
                              !.deferral = "enterprise", !.gated = TRUE]
    <3>1. call' = [call EXCEPT ![c] = y]
      BY <1>11, <1>12, <2>2
    <3>2. y \in CallRecord
      BY <1>11 DEF CallRecord
    <3>3. Opened(x, y, p) /\ y.pc = "answered" /\ y.answer = "deferred" /\ y.notified = 0
          /\ y.deferral = "enterprise"
      BY <1>10, <1>11, <3>2 DEF Opened, CallRecord
    <3> QED BY <2>2, <3>1, <3>3
  <2>3. CASE x.caller \notin {"report", "defer"}
    <3> DEFINE y == [m EXCEPT !.pc = "approval"]
    <3>1. call' = [call EXCEPT ![c] = y]
      BY <1>11, <1>12, <2>3
    <3>2. Opened(x, y, p) /\ y.pc = "approval" /\ y.notified = 0 /\ y.deferral = "none"
      BY <1>10, <1>11 DEF Opened, CallRecord
    <3> QED BY <2>3, <3>1, <3>2
  <2> QED BY <2>1, <2>2, <2>3
<1>14. PICK y : /\ call' = [call EXCEPT ![c] = y] /\ Opened(x, y, p)
                /\ \/ /\ x.caller = "report" /\ y.pc = "answered" /\ y.answer = "denied"
                      /\ y.notified = 1 /\ y.deferral = "none"
                   \/ /\ x.caller = "defer" /\ y.pc = "answered" /\ y.answer = "deferred"
                      /\ y.notified = 0 /\ y.deferral = "enterprise"
                   \/ /\ x.caller \notin {"report", "defer"} /\ y.pc = "approval"
                      /\ y.notified = 0 /\ y.deferral = "none"
  BY <1>13
<1>15. /\ y \in CallRecord /\ y.caller = x.caller /\ y.execution = active /\ y.params = p
       /\ y.node = run[active].node /\ y.lifecycle = "pending" /\ y.asked = 1
  BY <1>5, <1>14 DEF Opened
<1>16. y.execution # 0 /\ run[y.execution].mode = "enforce"
       /\ run[y.execution].policy[<<y.node, y.params>>] = "approve"
  BY <1>2, <1>15 DEF effect
<1>17. CallOK(y)
  BY <1>14, <1>15, <1>16 DEF CallOK
<1>18. Tally(y, 0, v, 0)
  BY <1>3, <1>14 DEF Tally, Flag, v
<1>19. ReleaseOK(x, y, 0)
  BY <1>14 DEF ReleaseOK
<1>20. Ledger(y.execution, t, 0, v, 0) /\ y.execution <= started /\ y.execution = x.execution
       /\ y.pc \notin {"idle", "loop", "released", "blocked"}
  BY <1>1, <1>5, <1>8, <1>14, <1>15
<1>21. Sound(c, y, t)
  BY <1>3, <1>15, <1>17, <1>18, <1>19, <1>20, SoundFrom
<1> QED BY <1>6, <1>14, <1>21 DEF Moves, Leaves

LEMMA gatewayAnswersMoves ==
  ASSUME IInv, NEW c \in Call, NEW a \in {"approved", "denied"}, gatewayAnswers(c, a)
  PROVE  Moves(c)
<1> DEFINE x == call[c]
           n == x.notified + 1
           y == [x EXCEPT !.pc = "answered", !.answer = a, !.notified = n]
           w == resolutionWrites(x, a)
           t == trail[c] \o w
           k == Flag(isCurrent(x) /\ a = "approved" /\ ~Native(x) /\ outwardVerdict(x))
           v == Flag(isCurrent(x))
<1>1. TypeOK /\ x \in CallRecord /\ x.execution <= started /\ Kept(x, trail[c])
  BY InPlace
<1>2. x.pc = "approval" /\ CallOK(x)
  BY <1>1 DEF gatewayAnswers, Kept
<1>3. /\ x.execution # 0 /\ x.deferral = "none" /\ x.asked = 1 /\ x.notified = 0 /\ x.lifecycle = "pending"
  BY <1>2 DEF CallOK
<1>4. k \in Nat /\ v \in Nat /\ v <= 1
  BY DEF Flag
<1>5. Ledger(x.execution, w, 0, v, k)
  <2>1. CASE isCurrent(x)
    <3>1. Ledger(active, w, 0, 1, Flag(a = "approved" /\ ~Native(x) /\ outwardVerdict(x)))
      BY <1>1, <1>3, <2>1, ResolutionLedger DEF isCurrent
    <3>2. k = Flag(a = "approved" /\ ~Native(x) /\ outwardVerdict(x)) /\ v = 1 /\ active = x.execution
      BY <2>1 DEF Flag, isCurrent
    <3> HIDE DEF w, k, v
    <3> QED BY <3>1, <3>2
  <2>2. CASE ~isCurrent(x)
    <3>1. w = <<>> /\ k = 0 /\ v = 0
      BY <2>2 DEF resolutionWrites, Flag
    <3>2. Ledger(x.execution, <<>>, 0, 0, 0)
      BY LedgerNone
    <3> HIDE DEF w, k, v
    <3> QED BY <3>1, <3>2
  <2> QED BY <2>1, <2>2
<1>6. Ledger(x.execution, trail[c], 0, 0, 0)
  <2>1. PICK d0, v0, k0 \in Nat : Ledger(x.execution, trail[c], d0, v0, k0) /\ Tally(x, d0, v0, k0)
    BY <1>1 DEF Kept
  <2>2. d0 = 0 /\ v0 = 0 /\ k0 = 0
    BY <1>2, <2>1 DEF Tally
  <2> QED BY <2>1, <2>2
<1>7. Ledger(x.execution, t, 0, v, k)
  <2> HIDE DEF w, k, v
  <2>1. Ledger(x.execution, trail[c] \o w, 0 + 0, 0 + v, 0 + k)
    BY <1>5, <1>6, LedgerJoin
  <2>2. 0 + v = v /\ 0 + k = k
    BY <1>4
  <2> QED BY <2>1, <2>2
<1>8. n = 1
  BY <1>3
<1>9. Leaves(c, y, t)
  BY DEF gatewayAnswers, Leaves
<1> HIDE DEF n, t, k, v, w
<1>10. /\ y \in CallRecord /\ y.pc = "answered" /\ y.answer = a /\ y.notified = 1
  BY <1>1, <1>8 DEF CallRecord
<1>11. /\ y.caller = x.caller /\ y.execution = x.execution /\ y.params = x.params /\ y.node = x.node
       /\ y.deferral = x.deferral /\ y.lifecycle = x.lifecycle /\ y.asked = x.asked
  BY <1>1 DEF CallRecord
<1> HIDE DEF y
<1>12. CallOK(y)
  BY <1>2, <1>3, <1>10, <1>11 DEF CallOK, Native, isCurrent
<1>13. Tally(y, 0, v, k)
  BY <1>3, <1>4, <1>10, <1>11 DEF Tally, Native, isCurrent, outwardVerdict, k, Flag
<1>14. ReleaseOK(x, y, k)
  BY <1>10 DEF ReleaseOK
<1>15. Ledger(y.execution, t, 0, v, k) /\ y.execution <= started
  BY <1>1, <1>7, <1>11
<1>16. Sound(c, y, t)
  BY <1>4, <1>10, <1>11, <1>12, <1>13, <1>14, <1>15, SoundFrom
<1> QED BY <1>9, <1>16 DEF Moves

(* The answer stands only for the run that asked, and an approval of a     *)
(* call that runs in the gate only at the step that asked.                 *)
LEMMA afterApprovalMoves ==
  ASSUME IInv, NEW c \in Call, afterApproval(c)
  PROVE  Moves(c)
<1> DEFINE x == call[c]
           t == trail[c]
           f == IF Native(x) THEN "approval" ELSE "none"
           z == [x EXCEPT !.finalizer = f]
<1>1. TypeOK /\ x \in CallRecord /\ x.execution <= started /\ Kept(x, t)
  BY InPlace
<1>2. x.pc = "answered" /\ CallOK(x)
  BY <1>1 DEF afterApproval, Kept
<1>3. PICK d, v, k \in Nat : Ledger(x.execution, t, d, v, k) /\ Tally(x, d, v, k)
  BY <1>1 DEF Kept
<1>4. trail' = [trail EXCEPT ![c] = t] /\ active' = active /\ started' = started /\ run' = run
  BY SameTrail DEF afterApproval
<1>5. \/ answerStands(x) /\ call' = [call EXCEPT ![c] = returned(z)]
      \/ ~answerStands(x) /\ call' = [call EXCEPT ![c] = refusal(x)]
  BY DEF afterApproval
<1>6. /\ x.execution # 0 /\ run[x.execution].mode = "enforce"
      /\ run[x.execution].policy[<<x.node, x.params>>] = "approve"
      /\ x.answer # "none" /\ x.asked = 1 /\ x.deferral # "plugin" /\ x.lifecycle = "pending"
      /\ (x.answer = "deferred" => x.deferral = "enterprise" /\ x.notified = 0 /\ x.caller = "defer")
      /\ (x.answer # "deferred" => x.deferral # "enterprise" /\ x.notified = 1)
      /\ (~Native(x) /\ isCurrent(x) => run[active].node = x.node)
  BY <1>2 DEF CallOK
<1>7. x.answer \in {"approved", "denied", "deferred"} /\ x.deferral \in {"none", "enterprise"}
  BY <1>1, <1>6 DEF CallRecord
<1> HIDE DEF t
<1>8. ASSUME ~answerStands(x) PROVE Sound(c, refusal(x), t)
  <2>1. /\ refusal(x) \in CallRecord /\ refusal(x).pc = "blocked"
        /\ refusal(x).execution = x.execution
        /\ refusal(x).notified = refusal(x).asked /\ refusal(x).asked <= 1
    <3>1. /\ x.asked <= 1 /\ (x.deferral = "none" => x.notified = x.asked)
          /\ (x.deferral # "none" => x.notified = 0 /\ x.asked = 1)
      BY <1>6, <1>7
    <3> QED BY <1>1, <1>6, <3>1, Refused
  <2>2. d <= 1 /\ v <= 1 /\ (x.execution = active => k = 0)
    BY <1>2, <1>3, <1>8 DEF Tally, answerStands, isCurrent
  <2>3. Ledger(refusal(x).execution, t, d, v, k) /\ refusal(x).execution <= started
        /\ (refusal(x).execution = active => k = 0)
    BY <1>1, <1>3, <2>1, <2>2
  <2> QED BY <2>1, <2>2, <2>3, SoundBlocked
<1>9. ASSUME answerStands(x) PROVE Sound(c, returned(z), t)
  <2>1. PICK y : y = returned(z)
    OBVIOUS
  <2>2. f \in {"none", "approval"} /\ (Native(x) => f = "approval")
    OBVIOUS
  <2> HIDE DEF f
  <2>3. /\ z \in CallRecord /\ z.caller = x.caller /\ z.execution = x.execution /\ z.params = x.params
        /\ z.node = x.node /\ z.deferral = x.deferral /\ z.lifecycle = x.lifecycle
        /\ z.answer = x.answer /\ z.asked = x.asked /\ z.notified = x.notified /\ z.finalizer = f
    BY <1>1, <2>2 DEF CallRecord
  <2> HIDE DEF z
  <2>4. Handed(z, y)
    BY <2>1, <2>3, returnedHands
  <2>5. x.execution = active /\ x.answer \in {"approved", "deferred"}
    BY <1>7, <1>9 DEF answerStands, isCurrent
  <2>6. Native(z) <=> Native(x)
    BY <2>3 DEF Native
  <2>7. /\ y \in CallRecord /\ y.execution = x.execution /\ y.params = x.params /\ y.node = x.node
        /\ y.deferral = x.deferral /\ y.lifecycle = x.lifecycle /\ y.answer = x.answer
        /\ y.asked = 1 /\ y.notified = x.notified
        /\ (Native(y) <=> Native(x)) /\ (Native(x) => y.pc = "held" /\ y.finalizer = "approval")
        /\ (~Native(x) => y.pc = "released")
    BY <1>6, <2>2, <2>3, <2>4, <2>6 DEF Handed
  <2>8. ~Native(x) => x.answer = "approved" /\ x.deferral = "none" /\ x.notified = 1
                      /\ run[active].node = x.node /\ k = Flag(outwardVerdict(x))
    BY <1>2, <1>3, <1>6, <1>7, <2>5 DEF Native, Tally, isCurrent
  <2>9. CallOK(y)
    BY <1>6, <1>7, <2>5, <2>7, <2>8 DEF CallOK
  <2>10. Tally(y, d, v, k)
    BY <1>2, <1>3, <2>7 DEF Tally
  <2>11. ReleaseOK(x, y, k)
    <3>1. CASE Native(x)
      BY <2>7, <3>1 DEF ReleaseOK
    <3>2. CASE ~Native(x)
      <4>1. effect(y.params) = "approve"
        BY <1>6, <2>5, <2>7, <2>8, <3>2 DEF effect
      <4>2. outwardVerdict(x) <=> <<run[active].node, y.params>> \in Outward
        BY <2>7, <2>8, <3>2 DEF outwardVerdict
      <4>3. y.node = run[active].node /\ y.answer = "approved" /\ k = Flag(outwardVerdict(x))
        BY <2>7, <2>8, <3>2
      <4> QED BY <2>5, <4>1, <4>2, <4>3 DEF ReleaseOK, isCurrent, Flag
    <3> QED BY <3>1, <3>2
  <2>12. /\ Ledger(y.execution, t, d, v, k) /\ y.execution <= started
         /\ y.pc \notin {"idle", "loop", "blocked"}
         /\ (y.pc = "released" => y.notified = y.asked)
    BY <1>1, <1>3, <2>7, <2>8
  <2>13. Sound(c, y, t)
    BY <2>7, <2>9, <2>10, <2>11, <2>12, SoundFrom
  <2> QED BY <2>1, <2>13
<1> QED BY <1>4, <1>5, <1>8, <1>9 DEF Moves, Leaves

-----------------------------------------------------------------------------
(* A held call: its numbers, and what its record says.                     *)
LEMMA AtHold ==
  ASSUME NEW x \in CallRecord, NEW t, Kept(x, t), x.pc = "held"
  PROVE  /\ \E d, v \in {0, 1} : /\ Ledger(x.execution, t, d, v, 0)
                                 /\ x.deferral # "none" => d = 0 /\ v = 0
         /\ Native(x) /\ x.lifecycle = "pending"
         /\ x.asked \in {0, 1}
         /\ (x.deferral = "none" => x.notified = x.asked)
         /\ (x.deferral # "none" => x.notified = 0 /\ x.asked = 1)
         /\ (governs(x) => x.finalizer # "none")
         /\ (isCurrent(x) /\ x.execution # 0 => x.finalizer # "none")
         /\ (x.finalizer # "none" => x.execution # 0) /\ (x.gated => x.execution # 0)
         /\ (x.deferral = "enterprise" => x.finalizer = "approval")
         /\ (x.finalizer = "approval" =>
               /\ governs(x) /\ run[x.execution].policy[<<x.node, x.params>>] = "approve"
               /\ (x.deferral = "enterprise" => x.answer = "deferred")
               /\ (x.deferral # "enterprise" => x.answer = "approved"))
<1>1. PICK d, v, k \in Nat : Ledger(x.execution, t, d, v, k) /\ Tally(x, d, v, k)
  BY DEF Kept
<1>2. k = 0 /\ d \in {0, 1} /\ v \in {0, 1} /\ (x.deferral # "none" => d = 0 /\ v = 0)
  BY <1>1 DEF Tally
<1>3. \E d1, v1 \in {0, 1} : /\ Ledger(x.execution, t, d1, v1, 0)
                             /\ x.deferral # "none" => d1 = 0 /\ v1 = 0
  BY <1>1, <1>2
<1>4. x.asked \in Nat /\ CallOK(x)
  BY DEF CallRecord, Kept
<1>5. x.asked \in {0, 1} /\ x.lifecycle = "pending"
  BY <1>4 DEF CallOK
<1> QED BY <1>3, <1>4, <1>5 DEF CallOK, governs

LEMMA FinalizeLedger ==
  ASSUME TypeOK, NEW x, x.gated => x.execution # 0, NEW p \in Params
  PROVE  \E d, v \in {0, 1} : /\ Ledger(x.execution, finalizeWrites(x, p), d, v, 0)
                              /\ x.deferral # "plugin" => d = 0 /\ v = 0
<1>1. CASE x.deferral = "plugin" /\ x.gated /\ isCurrent(x)
  <2> DEFINE w == evaluationWrites(p, TRUE, FALSE)
             u == IF requiresApproval(p) THEN wrote("denied") ELSE <<>>
             v == Flag(requiresApproval(p))
  <2>1. active = x.execution /\ active # 0
    BY <1>1 DEF isCurrent
  <2>2. PICK d \in {0, 1} : Ledger(active, w, d, 0, Flag(FALSE /\ dispatches(p)))
    BY EvaluationLedger
  <2>3. Ledger(active, u, 0, v, 0)
    <3>1. Ledger(active, wrote("denied"), 0, 1, 0)
      BY <2>1, LedgerOne
    <3>2. Ledger(active, <<>>, 0, 0, 0)
      BY LedgerNone
    <3> QED BY <3>1, <3>2 DEF Flag
  <2>4. finalizeWrites(x, p) = w \o u
    BY <1>1 DEF finalizeWrites
  <2>5. Flag(FALSE /\ dispatches(p)) = 0 /\ v \in {0, 1}
    BY DEF Flag
  <2> HIDE DEF w, u, v
  <2>6. Ledger(active, w, d, 0, 0)
    BY <2>2, <2>5
  <2>7. Ledger(active, w \o u, d + 0, 0 + v, 0 + 0)
    BY <2>3, <2>6, LedgerJoin
  <2>8. d + 0 = d /\ 0 + v = v
    BY <2>5
  <2>9. Ledger(x.execution, finalizeWrites(x, p), d, v, 0)
    BY <2>1, <2>4, <2>7, <2>8
  <2> QED BY <1>1, <2>5, <2>9
<1>2. CASE ~(x.deferral = "plugin" /\ x.gated /\ isCurrent(x))
  <2>1. finalizeWrites(x, p) = <<>>
    BY <1>2 DEF finalizeWrites
  <2>2. Ledger(x.execution, <<>>, 0, 0, 0)
    BY LedgerNone
  <2> QED BY <2>1, <2>2
<1> QED BY <1>1, <1>2

LEMMA NotifyLedger ==
  ASSUME TypeOK, NEW x, Native(x), x.deferral = "enterprise" => x.execution # 0,
         NEW a \in {"approved", "denied"}
  PROVE  \E v \in {0, 1} : /\ Ledger(x.execution, notifyWrites(x, a), 0, v, 0)
                           /\ x.deferral # "enterprise" => v = 0
<1>1. CASE x.deferral = "enterprise" /\ isCurrent(x)
  <2>1. active = x.execution /\ active # 0
    BY <1>1 DEF isCurrent
  <2>2. Ledger(active, resolutionWrites(x, a), 0, 1, Flag(a = "approved" /\ ~Native(x) /\ outwardVerdict(x)))
    BY <1>1, <2>1, ResolutionLedger
  <2>3. Flag(a = "approved" /\ ~Native(x) /\ outwardVerdict(x)) = 0
    BY DEF Flag
  <2>4. notifyWrites(x, a) = resolutionWrites(x, a)
    BY <1>1 DEF notifyWrites
  <2> QED BY <1>1, <2>1, <2>2, <2>3, <2>4
<1>2. CASE ~(x.deferral = "enterprise" /\ isCurrent(x))
  <2>1. notifyWrites(x, a) = <<>>
    BY <1>2 DEF notifyWrites, resolutionWrites
  <2>2. Ledger(x.execution, <<>>, 0, 0, 0)
    BY LedgerNone
  <2> QED BY <2>1, <2>2
<1> QED BY <1>1, <1>2

(* Whether the release finalizer attests a dispatch.                       *)
attests(x) ==
  \/ x.finalizer = "evaluate" /\ isCurrent(x) /\ dispatches(x.params)
  \/ x.finalizer = "approval" /\ approvalHolds(x) /\ outwardVerdict(x)

LEMMA FinalizerLedger ==
  ASSUME TypeOK, NEW x \in CallRecord, x.finalizer # "none" => x.execution # 0
  PROVE  Ledger(x.execution, finalizerWrites(x), 0, 0, Flag(attests(x)))
<1>1. CASE x.finalizer = "evaluate" /\ isCurrent(x)
  <2> DEFINE w == evaluationWrites(x.params, FALSE, TRUE)
  <2>1. x.params \in Params /\ active = x.execution
    BY <1>1 DEF CallRecord, isCurrent
  <2>2. PICK d \in {0, 1} : Ledger(active, w, d, 0, Flag(TRUE /\ dispatches(x.params)))
                            /\ (d = 1 => FALSE /\ ~requiresApproval(x.params))
    BY <2>1, EvaluationLedger
  <2>3. d = 0 /\ Flag(TRUE /\ dispatches(x.params)) = Flag(attests(x))
    BY <1>1, <2>2 DEF Flag, attests
  <2>4. finalizerWrites(x) = w
    BY <1>1 DEF finalizerWrites
  <2> HIDE DEF w
  <2> QED BY <2>1, <2>2, <2>3, <2>4
<1>2. CASE x.finalizer = "approval" /\ approvalHolds(x) /\ outwardVerdict(x)
  <2>1. active = x.execution /\ active # 0
    BY <1>2 DEF approvalHolds, isCurrent
  <2>2. Ledger(active, wrote("dispatched"), 0, 0, 1)
    BY <2>1, LedgerOne
  <2>3. finalizerWrites(x) = wrote("dispatched") /\ Flag(attests(x)) = 1
    BY <1>2 DEF finalizerWrites, Flag, attests
  <2> QED BY <2>1, <2>2, <2>3
<1>3. CASE /\ ~(x.finalizer = "evaluate" /\ isCurrent(x))
           /\ ~(x.finalizer = "approval" /\ approvalHolds(x) /\ outwardVerdict(x))
  <2>1. finalizerWrites(x) = <<>> /\ Flag(attests(x)) = 0
    BY <1>3 DEF finalizerWrites, Flag, attests
  <2>2. Ledger(x.execution, <<>>, 0, 0, 0)
    BY LedgerNone
  <2> QED BY <2>1, <2>2
<1> QED BY <1>1, <1>2, <1>3

(* The settled record.                                                     *)
Settled(x, y) ==
  /\ y \in CallRecord /\ y.notified = y.asked /\ y.asked <= 1
  /\ y.execution = x.execution /\ y.params = x.params /\ y.node = x.node /\ y.answer = x.answer
  /\ x.deferral # "none" => y.lifecycle = "settled"

LEMMA SettledFields ==
  ASSUME NEW x \in CallRecord, NEW s \in {"released", "blocked"},
         x.asked \in {0, 1}, x.deferral = "none" => x.notified = x.asked,
         x.deferral # "none" => x.notified = 0 /\ x.asked = 1
  PROVE  Settled(x, [settledDeferral(x) EXCEPT !.pc = s])
         /\ [settledDeferral(x) EXCEPT !.pc = s].pc = s
<1>1. CASE x.deferral = "none"
  <2>1. settledDeferral(x) = x
    BY <1>1 DEF settledDeferral
  <2> QED BY <1>1, <2>1 DEF Settled, CallRecord
<1>2. CASE x.deferral # "none"
  <2> DEFINE n == x.notified + 1
             y == [x EXCEPT !.lifecycle = "settled", !.notified = n, !.pc = s]
  <2>1. n = 1 /\ n \in Nat
    BY <1>2
  <2>2. [settledDeferral(x) EXCEPT !.pc = s] = y
    BY <1>2 DEF settledDeferral, CallRecord
  <2> HIDE DEF n
  <2>3. y \in CallRecord
    BY <2>1 DEF CallRecord
  <2>4. /\ y.notified = n /\ y.asked = x.asked /\ y.execution = x.execution /\ y.params = x.params
        /\ y.node = x.node /\ y.answer = x.answer /\ y.lifecycle = "settled" /\ y.pc = s
    BY DEF CallRecord
  <2> HIDE DEF y
  <2>5. Settled(x, y) /\ y.pc = s
    BY <1>2, <2>1, <2>3, <2>4 DEF Settled
  <2> QED BY <2>2, <2>5
<1> QED BY <1>1, <1>2

LEMMA settleApprovedMoves ==
  ASSUME IInv, NEW c \in Call, settleApproved(c)
  PROVE  Moves(c)
<1> DEFINE x == call[c]
           lets == deferralLets(x) /\ finalizerLets(x)
           s == IF lets THEN "released" ELSE "blocked"
           a == IF lets THEN "approved" ELSE "denied"
           y == [settledDeferral(x) EXCEPT !.pc = s]
           fw == finalizeWrites(x, x.approved)
           rw == IF deferralLets(x) THEN finalizerWrites(x) ELSE <<>>
           nw == notifyWrites(x, a)
           t == trail[c] \o fw \o rw \o nw
           k == Flag(deferralLets(x) /\ attests(x))
<1>1. TypeOK /\ x \in CallRecord /\ x.execution <= started /\ Kept(x, trail[c]) /\ x.pc = "held"
  BY InPlace DEF settleApproved
<1>2. PICK d0, v0 \in {0, 1} : /\ Ledger(x.execution, trail[c], d0, v0, 0)
                               /\ x.deferral # "none" => d0 = 0 /\ v0 = 0
  BY <1>1, AtHold
<1>3. /\ Native(x) /\ x.lifecycle = "pending" /\ x.asked \in {0, 1}
      /\ (x.deferral = "none" => x.notified = x.asked)
      /\ (x.deferral # "none" => x.notified = 0 /\ x.asked = 1)
      /\ (governs(x) => x.finalizer # "none")
      /\ (isCurrent(x) /\ x.execution # 0 => x.finalizer # "none")
      /\ (x.finalizer # "none" => x.execution # 0) /\ (x.gated => x.execution # 0)
      /\ (x.deferral = "enterprise" => x.finalizer = "approval")
      /\ (x.finalizer = "approval" =>
            /\ governs(x) /\ run[x.execution].policy[<<x.node, x.params>>] = "approve"
            /\ (x.deferral = "enterprise" => x.answer = "deferred")
            /\ (x.deferral # "enterprise" => x.answer = "approved"))
  BY <1>1, AtHold
<1>4. s \in {"released", "blocked"} /\ a \in {"approved", "denied"} /\ (s = "released" <=> lets)
  OBVIOUS
<1>5. Leaves(c, y, t)
  BY DEF settleApproved, Leaves
<1>6. x.approved \in Params /\ x.finalizer \in {"none", "evaluate", "approval"}
  BY <1>1 DEF CallRecord
<1>7. PICK d1, v1 \in {0, 1} : Ledger(x.execution, fw, d1, v1, 0) /\ (x.deferral # "plugin" => d1 = 0 /\ v1 = 0)
  BY <1>1, <1>3, <1>6, FinalizeLedger
<1>8. Ledger(x.execution, rw, 0, 0, k) /\ k \in Nat
  <2>1. Ledger(x.execution, finalizerWrites(x), 0, 0, Flag(attests(x)))
    BY <1>1, <1>3, FinalizerLedger
  <2>2. Ledger(x.execution, <<>>, 0, 0, 0)
    BY LedgerNone
  <2> QED BY <2>1, <2>2 DEF Flag
<1>9. PICK v2 \in {0, 1} : Ledger(x.execution, nw, 0, v2, 0) /\ (x.deferral # "enterprise" => v2 = 0)
  <2> HIDE DEF a
  <2> QED BY <1>1, <1>3, <1>4, NotifyLedger
<1>10. Settled(x, y) /\ y.pc = s
  BY <1>1, <1>3, <1>4, SettledFields
<1> HIDE DEF s, a, y, fw, rw, nw, k
<1>11. \E d, v \in {0, 1} : Ledger(x.execution, t, d, v, k)
  <2>1. Ledger(x.execution, trail[c] \o fw, d0 + d1, v0 + v1, 0 + 0)
    <3>1. Ledger(x.execution, trail[c], d0, v0, 0)
      BY <1>2
    <3>2. Ledger(x.execution, fw, d1, v1, 0)
      BY <1>7
    <3> QED BY <3>1, <3>2, LedgerJoin
  <2>2. Ledger(x.execution, trail[c] \o fw \o rw, d0 + d1 + 0, v0 + v1 + 0, 0 + 0 + k)
    BY <1>8, <2>1, LedgerJoin
  <2>3. Ledger(x.execution, t, d0 + d1 + 0 + 0, v0 + v1 + 0 + v2, 0 + 0 + k + 0)
    BY <1>9, <2>2, LedgerJoin
  <2>4. d0 + d1 + 0 + 0 \in {0, 1} /\ v0 + v1 + 0 + v2 \in {0, 1} /\ 0 + 0 + k + 0 = k
    BY <1>2, <1>7, <1>8, <1>9
  <2> HIDE DEF t
  <2> QED BY <2>3, <2>4
<1>12. PICK d, v \in {0, 1} : Ledger(x.execution, t, d, v, k)
  BY <1>11
<1>13. /\ y \in CallRecord /\ y.notified = y.asked /\ y.asked <= 1 /\ y.execution = x.execution
       /\ y.params = x.params /\ y.node = x.node /\ y.answer = x.answer
       /\ (x.deferral # "none" => y.lifecycle = "settled")
  BY <1>10 DEF Settled
<1>14. d \in Nat /\ v \in Nat /\ d <= 1 /\ v <= 1
  OBVIOUS
<1>15. Ledger(y.execution, t, d, v, k) /\ y.execution <= started
  BY <1>1, <1>12, <1>13
<1> HIDE DEF t
<1>16. CASE ~lets
  <2>1. y.pc = "blocked"
    BY <1>4, <1>10, <1>16
  <2>2. y.execution = active => k = 0
    <3>1. ASSUME deferralLets(x), attests(x) PROVE FALSE
      BY <1>6, <1>16, <3>1 DEF attests, finalizerLets, judged, dispatches, refuses
    <3> QED BY <3>1 DEF k, Flag
  <2>3. Sound(c, y, t)
    BY <1>8, <1>13, <1>14, <1>15, <2>1, <2>2, SoundBlocked
  <2> QED BY <1>5, <2>3 DEF Moves
<1>17. CASE lets
  <2>1. y.pc = "released" /\ deferralLets(x) /\ finalizerLets(x)
    BY <1>4, <1>10, <1>17
  <2>2. y.asked \in Nat
    BY <1>13 DEF CallRecord
  <2>3. CallOK(y)
    BY <1>13, <2>1, <2>2 DEF CallOK
  <2>4. Tally(y, d, v, k)
    BY <1>14, <2>1 DEF Tally
  <2>5. x.finalizer = "evaluate" => isCurrent(x) /\ ~refuses(x.params) /\ ~requiresApproval(x.params)
    BY <2>1 DEF finalizerLets, judged
  <2>6. x.finalizer = "approval" => /\ isCurrent(x) /\ run[active].node = x.node
                                    /\ effect(x.params) = "approve"
                                    /\ \/ x.answer = "approved"
                                       \/ x.answer = "deferred" /\ y.lifecycle = "settled"
    BY <1>3, <1>13, <2>1 DEF finalizerLets, approvalHolds, effect, isCurrent
  <2>7. governs(x) => /\ isCurrent(x) /\ effect(y.params) \notin {"deny", "fault"}
                      /\ effect(y.params) = "approve" =>
                           /\ y.node = run[active].node
                           /\ \/ y.answer = "approved"
                              \/ y.answer = "deferred" /\ y.lifecycle = "settled"
    <3> SUFFICES ASSUME governs(x)
                 PROVE  /\ isCurrent(x) /\ effect(y.params) \notin {"deny", "fault"}
                        /\ effect(y.params) = "approve" =>
                             /\ y.node = run[active].node
                             /\ \/ y.answer = "approved"
                                \/ y.answer = "deferred" /\ y.lifecycle = "settled"
      OBVIOUS
    <3>1. CASE x.finalizer = "evaluate"
      <4>1. enforcing
        BY <2>5, <3>1 DEF governs, enforcing, isCurrent
      <4> QED BY <1>13, <2>5, <3>1, <4>1 DEF refuses, requiresApproval
    <3>2. CASE x.finalizer = "approval"
      BY <1>13, <2>6, <3>2
    <3> QED BY <1>3, <1>6, <3>1, <3>2
  <2>8. x.execution # 0 /\ isCurrent(x) =>
          k = Flag(/\ <<run[active].node, y.params>> \in Outward
                   /\ effect(y.params) \notin {"deny", "fault"})
    <3> SUFFICES ASSUME x.execution # 0, isCurrent(x)
                 PROVE  attests(x) <=> /\ <<run[active].node, x.params>> \in Outward
                                       /\ effect(x.params) \notin {"deny", "fault"}
      BY <1>13, <2>1 DEF k, Flag
    <3>1. CASE x.finalizer = "evaluate"
      BY <2>5, <3>1 DEF attests, dispatches, isCurrent
    <3>2. CASE x.finalizer = "approval"
      BY <2>6, <3>2 DEF attests, approvalHolds, outwardVerdict
    <3> QED BY <1>3, <1>6, <3>1, <3>2
  <2>9. ReleaseOK(x, y, k)
    BY <2>7, <2>8 DEF ReleaseOK
  <2>10. y.pc \notin {"idle", "loop"}
    BY <2>1
  <2>11. Sound(c, y, t)
    BY <1>8, <1>13, <1>14, <1>15, <2>3, <2>4, <2>9, <2>10, SoundFrom
  <2> QED BY <1>5, <2>11 DEF Moves
<1> QED BY <1>16, <1>17

LEMMA settleDeniedMoves ==
  ASSUME IInv, NEW c \in Call, settleDenied(c)
  PROVE  Moves(c)
<1> DEFINE x == call[c]
           y == [settledDeferral(x) EXCEPT !.pc = "blocked"]
           fw == finalizeWrites(x, x.params)
           nw == notifyWrites(x, "denied")
           t == trail[c] \o fw \o nw
<1>1. TypeOK /\ x \in CallRecord /\ x.execution <= started /\ Kept(x, trail[c]) /\ x.pc = "held"
  BY InPlace DEF settleDenied
<1>2. PICK d0, v0 \in {0, 1} : /\ Ledger(x.execution, trail[c], d0, v0, 0)
                               /\ x.deferral # "none" => d0 = 0 /\ v0 = 0
  BY <1>1, AtHold
<1>3. /\ Native(x) /\ x.asked \in {0, 1}
      /\ (x.deferral = "none" => x.notified = x.asked)
      /\ (x.deferral # "none" => x.notified = 0 /\ x.asked = 1)
      /\ (x.gated => x.execution # 0) /\ (x.deferral = "enterprise" => x.execution # 0)
      /\ x.params \in Params
  BY <1>1, AtHold DEF CallRecord
<1>4. Leaves(c, y, t)
  BY DEF settleDenied, Leaves, blocked
<1>5. PICK d1, v1 \in {0, 1} : Ledger(x.execution, fw, d1, v1, 0) /\ (x.deferral # "plugin" => d1 = 0 /\ v1 = 0)
  BY <1>1, <1>3, FinalizeLedger
<1>6. PICK v2 \in {0, 1} : Ledger(x.execution, nw, 0, v2, 0) /\ (x.deferral # "enterprise" => v2 = 0)
  BY <1>1, <1>3, NotifyLedger
<1>7. Settled(x, y) /\ y.pc = "blocked"
  BY <1>1, <1>3, SettledFields
<1> HIDE DEF y, fw, nw
<1>8. \E d, v \in {0, 1} : Ledger(x.execution, t, d, v, 0)
  <2>1. Ledger(x.execution, trail[c] \o fw, d0 + d1, v0 + v1, 0 + 0)
    <3>1. Ledger(x.execution, trail[c], d0, v0, 0)
      BY <1>2
    <3>2. Ledger(x.execution, fw, d1, v1, 0)
      BY <1>5
    <3> QED BY <3>1, <3>2, LedgerJoin
  <2>2. Ledger(x.execution, t, d0 + d1 + 0, v0 + v1 + v2, 0 + 0 + 0)
    BY <1>6, <2>1, LedgerJoin
  <2>3. d0 + d1 + 0 \in {0, 1} /\ v0 + v1 + v2 \in {0, 1} /\ 0 + 0 + 0 = 0
    BY <1>2, <1>5, <1>6
  <2> HIDE DEF t
  <2> QED BY <2>2, <2>3
<1>9. PICK d, v \in {0, 1} : Ledger(x.execution, t, d, v, 0)
  BY <1>8
<1>10. /\ y \in CallRecord /\ y.notified = y.asked /\ y.asked <= 1 /\ y.execution = x.execution
  BY <1>7 DEF Settled
<1>11. d \in Nat /\ v \in Nat /\ 0 \in Nat /\ d <= 1 /\ v <= 1
  OBVIOUS
<1>12. Ledger(y.execution, t, d, v, 0) /\ y.execution <= started
  BY <1>1, <1>9, <1>10
<1> HIDE DEF t
<1>13. Sound(c, y, t)
  BY <1>7, <1>10, <1>11, <1>12, SoundBlocked
<1> QED BY <1>4, <1>13 DEF Moves

-----------------------------------------------------------------------------
LEMMA gateStepMoves ==
  ASSUME IInv, NEW c \in Call, gateStep(c)
  PROVE  Moves(c)
<1>1. ASSUME NEW caller \in Callers, NEW p \in Params, begin(c, caller, p) PROVE Moves(c)
  BY <1>1, beginMoves
<1>2. CASE loopVeto(c)
  BY <1>2, loopVetoMoves
<1>3. CASE firstGate(c)
  BY <1>3, firstGateMoves
<1>4. ASSUME NEW p \in Params, chainBlocks(c, p) PROVE Moves(c)
  BY <1>4, chainBlocksMoves
<1>5. ASSUME NEW p \in Params, openApproval(c, p) PROVE Moves(c)
  BY <1>5, openApprovalMoves
<1>6. ASSUME NEW p \in Params, NEW q \in Params, approvalConflict(c, p, q) PROVE Moves(c)
  BY <1>6, approvalConflictMoves
<1>7. ASSUME NEW p \in Params, NEW q \in Params, NEW o \in {"ok", "deferred", "blocked"},
             chainOutlivesRun(c, o, p, q)
      PROVE  Moves(c)
  BY <1>7, chainOutlivesRunMoves
<1>8. ASSUME NEW p \in Params, NEW q \in Params, NEW o \in {"ok", "deferred", "blocked"},
             revisedRefuses(c, o, p, q)
      PROVE  Moves(c)
  BY <1>8, revisedRefusesMoves
<1>9. ASSUME NEW p \in Params, NEW q \in Params, NEW o \in {"ok", "deferred", "blocked"},
             revisedAllows(c, o, p, q)
      PROVE  Moves(c)
  BY <1>9, revisedAllowsMoves
<1>10. ASSUME NEW a \in {"approved", "denied"}, gatewayAnswers(c, a) PROVE Moves(c)
  BY <1>10, gatewayAnswersMoves
<1>11. CASE afterApproval(c)
  BY <1>11, afterApprovalMoves
<1>12. CASE settleApproved(c)
  BY <1>12, settleApprovedMoves
<1>13. CASE settleDenied(c)
  BY <1>13, settleDeniedMoves
<1> QED BY <1>1, <1>2, <1>3, <1>4, <1>5, <1>6, <1>7, <1>8, <1>9, <1>10, <1>11, <1>12, <1>13 DEF gateStep

LEMMA NextKeeps ==
  ASSUME IInv, [Next]_vars
  PROVE  IInv'
<1>1. ASSUME NEW mode \in {"observe", "enforce"}, NEW q \in Policies, NEW n \in Node,
             registerRun(mode, q, n)
      PROVE  IInv'
  BY <1>1, registerRunKeeps
<1>2. CASE endRun
  BY <1>2, endRunKeeps
<1>3. ASSUME NEW n \in Node, moveStep(n) PROVE IInv'
  BY <1>3, moveStepKeeps
<1>4. ASSUME NEW c \in Call, gateStep(c) PROVE IInv'
  BY <1>4, gateStepMoves, MovesKeeps
<1>5. CASE UNCHANGED vars
  <2>1. TypeOK' /\ RegistryOK'
    BY <1>5 DEF vars, IInv, TypeOK, RegistryOK
  <2>2. ASSUME NEW c \in Call, NEW x, NEW t, call[c] = x, trail[c] = t, Kept(x, t)
        PROVE  Kept(x, t)'
    <3>1. x \in CallRecord
      BY <2>2 DEF IInv, TypeOK
    <3>2. active' = active /\ run' = run
      BY <1>5 DEF vars
    <3> QED BY <2>2, <3>1, <3>2, RegistryMoves
  <2>3. UNCHANGED <<call, trail>>
    BY <1>5 DEF vars
  <2> QED BY <2>1, <2>2, <2>3, RegistryKeeps
<1> QED BY <1>1, <1>2, <1>3, <1>4, <1>5 DEF Next

(* A release is a step of the call's own.                                  *)
LEMMA ReleaseIsSound ==
  ASSUME IInv, [Next]_vars, NEW c \in Call, Releases(c)
  PROVE  \E y, t : /\ call'[c] = y /\ trail'[c] = t /\ y.pc = "released"
                   /\ ReleaseOK(call[c], y, Count(t, {"dispatched"}))
<1>1. call' # call
  BY DEF Releases
<1>2. PICK b \in Call : gateStep(b)
  BY <1>1 DEF Next, registerRun, endRun, moveStep, vars
<1>3. PICK y, t : Sound(b, y, t) /\ Leaves(b, y, t)
  BY <1>2, gateStepMoves DEF Moves
<1>4. call \in [Call -> CallRecord] /\ trail \in [Call -> Seq(Written)]
  BY DEF IInv, TypeOK
<1>5. b = c
  BY <1>3, <1>4 DEF Releases, Leaves
<1>6. call'[c] = y /\ trail'[c] = t
  BY <1>3, <1>4, <1>5 DEF Leaves
<1> QED BY <1>3, <1>5, <1>6 DEF Releases, Sound

(* However runs register, end and move while a call is in its hooks and    *)
(* approvals, its trail stays in its own execution, its approval is        *)
(* resolved once, and a blocked call claims no dispatch                    *)
(* (runBeforeToolCallHook).                                                *)
THEOREM GateInvariant == Spec => []IInv
<1>1. Init => IInv
  BY InitKeeps
<1>2. IInv /\ [Next]_vars => IInv'
  BY NextKeeps
<1> QED BY <1>1, <1>2, PTL DEF Spec

(* A call that began under an enforced run is released only while that     *)
(* very execution is registered (enterpriseRunIsCurrent after the chain,   *)
(* after the approval and at release).                                     *)
THEOREM GateReleasesUnderOwnRun == Spec => ReleasedUnderOwnRun
<1>1. ASSUME IInv, [Next]_vars, NEW c \in Call, Releases(c), Governed(c)
      PROVE  active = call[c].execution
  <2>1. PICK y, t : call'[c] = y /\ y.pc = "released" /\ ReleaseOK(call[c], y, Count(t, {"dispatched"}))
    BY <1>1, ReleaseIsSound
  <2> QED BY <1>1, <2>1 DEF ReleaseOK, Governed, governs, isCurrent
<1>2. IInv /\ [Next]_vars =>
        [\A c \in Call : Releases(c) /\ Governed(c) => active = call[c].execution]_vars
  BY <1>1
<1> QED BY <1>2, GateInvariant, PTL DEF Spec, ReleasedUnderOwnRun

(* What is released under an enforced run is what the policy of the step   *)
(* active at that moment lets through, with a human's approval of these    *)
(* parameters at this step where it asks for one (the revised verdict,     *)
(* applyEnterpriseApproval and the release finalizers).                    *)
THEOREM GateObeysPolicy == Spec => ReleaseObeysPolicy
<1> DEFINE A(c) ==
      Releases(c) /\ Governed(c) =>
        LET x == call'[c]
            e == effect(x.params)
        IN  /\ e \notin {"deny", "fault"}
            /\ e = "approve" => /\ x.node = run[active].node
                                /\ \/ x.answer = "approved"
                                   \/ x.answer = "deferred" /\ x.lifecycle = "settled"
<1>1. ASSUME IInv, [Next]_vars, NEW c \in Call PROVE A(c)
  <2> SUFFICES ASSUME Releases(c), Governed(c) PROVE A(c)
    OBVIOUS
  <2>1. PICK y, t : call'[c] = y /\ y.pc = "released" /\ ReleaseOK(call[c], y, Count(t, {"dispatched"}))
    BY <1>1, ReleaseIsSound
  <2>2. /\ effect(y.params) \notin {"deny", "fault"}
        /\ effect(y.params) = "approve" =>
             /\ y.node = run[active].node
             /\ \/ y.answer = "approved"
                \/ y.answer = "deferred" /\ y.lifecycle = "settled"
    BY <2>1 DEF ReleaseOK, Governed, governs
  <2> QED BY <2>1, <2>2
<1>2. IInv /\ [Next]_vars => [\A c \in Call : A(c)]_vars
  <2> HIDE DEF A
  <2> QED BY <1>1
<1> QED BY <1>2, GateInvariant, PTL DEF Spec, ReleaseObeysPolicy

(* An outward call released under its own run is attested exactly once,    *)
(* and no other release is (released && !finalizeRelease, record: false).  *)
THEOREM GateAttestsReleases == Spec => ReleaseAttested
<1> DEFINE A(c) ==
      Releases(c) /\ call[c].execution # 0 /\ active = call[c].execution =>
        Count(trail'[c], {"dispatched"}) =
          IF /\ <<run[active].node, call'[c].params>> \in Outward
             /\ effect(call'[c].params) \notin {"deny", "fault"}
          THEN 1 ELSE 0
<1>1. ASSUME IInv, [Next]_vars, NEW c \in Call PROVE A(c)
  <2> SUFFICES ASSUME Releases(c), call[c].execution # 0, active = call[c].execution PROVE A(c)
    OBVIOUS
  <2>1. PICK y, t : /\ call'[c] = y /\ trail'[c] = t /\ y.pc = "released"
                    /\ ReleaseOK(call[c], y, Count(t, {"dispatched"}))
    BY <1>1, ReleaseIsSound
  <2>2. Count(t, {"dispatched"}) = Flag(/\ <<run[active].node, y.params>> \in Outward
                                        /\ effect(y.params) \notin {"deny", "fault"})
    BY <2>1 DEF ReleaseOK, isCurrent
  <2> QED BY <2>1, <2>2 DEF Flag
<1>2. IInv /\ [Next]_vars => [\A c \in Call : A(c)]_vars
  <2> HIDE DEF A
  <2> QED BY <1>1
<1> QED BY <1>2, GateInvariant, PTL DEF Spec, ReleaseAttested

=============================================================================
