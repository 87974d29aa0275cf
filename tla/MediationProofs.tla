-------------------------- MODULE MediationProofs --------------------------
(***************************************************************************)
(* What mediates a run.                                                    *)
(*                                                                         *)
(* RunMediation, for every number of turns, run ids, sessions and lanes:   *)
(* the session index only names live runs on their own transcript, a late  *)
(* end never orphans a successor, and an open trace row is always the      *)
(* active one of its run id.                                               *)
(*                                                                         *)
(* Governance, for every list of policies, every tree's permissions and    *)
(* every call: the strictest matching policy decides, what is unreadable   *)
(* or left out fails closed, and a call that names no action is judged no  *)
(* more strictly than one that does.  The two components share no state;   *)
(* the second half begins at the line "Governance".                        *)
(***************************************************************************)
EXTENDS RunMediation, Governance, WellFoundedInduction, TLAPS


LEMMA InitIInv == Init => IInv
BY TurnAssumption
   DEF Init, IInv, TypeOK, LinkSound, SuccessorKeepsLink, OpenRowIsActive,
       PendingIsAwaiting, OpenHasSession, RunningStages, AwaitingStages

(* Registry is the part of the invariant about the registry proper; it     *)
(* depends on five variables only.                                         *)
Registry == LinkSound /\ SuccessorKeepsLink /\ OpenRowIsActive /\ OpenHasSession
registryVars == <<active, sessionId, link, row, lastLinked>>

LEMMA RegistryUnchanged ==
  ASSUME Registry, UNCHANGED registryVars
  PROVE  Registry'
BY DEF Registry, registryVars, LinkSound, SuccessorKeepsLink, OpenRowIsActive, OpenHasSession

(* Answering leaves every other turn awaiting as it was, and forgets the   *)
(* begin of t.                                                             *)
LEMMA AnswerEffect ==
  ASSUME TypeOK, PendingIsAwaiting, NEW t \in Turn, stage[t] \in AwaitingStages,
         NEW v \in {"mediated", "off", "answered"}, Answer(t, v)
  PROVE  /\ stage' \in [Turn -> {"idle", "returned", "done"} \cup RunningStages]
         /\ verdict' \in [Turn -> {"none", "mediated", "off", "answered"}]
         /\ pending' = [pending EXCEPT ![runOf[t]] = NoTurn]
         /\ stage'[t] \notin AwaitingStages
         /\ \A u \in Turn : u # t => (stage'[u] \in AwaitingStages <=> stage[u] \in AwaitingStages)
<1>1. \A u \in Turn : stage'[u] \in {"idle", "returned", "done"} \cup RunningStages
  BY DEF Answer, TypeOK, RunningStages, AwaitingStages
<1>2. stage' \in [Turn -> {"idle", "returned", "done"} \cup RunningStages]
  BY <1>1 DEF Answer
<1>3. verdict' \in [Turn -> {"none", "mediated", "off", "answered"}]
  BY DEF Answer, TypeOK
<1>4. stage'[t] \notin AwaitingStages
  BY DEF Answer, AwaitingStages
<1>5. ASSUME NEW u \in Turn, u # t
      PROVE  stage'[u] \in AwaitingStages <=> stage[u] \in AwaitingStages
  BY <1>5 DEF Answer, AwaitingStages
<1> QED
  BY <1>2, <1>3, <1>4, <1>5 DEF Answer

(* Answering keeps the bookkeeping of begins in flight, as long as it      *)
(* registers nothing but possibly t itself.                                *)
LEMMA AnswerKeepsPending ==
  ASSUME TypeOK, PendingIsAwaiting, NEW t \in Turn, stage[t] \in AwaitingStages,
         NEW v \in {"mediated", "off", "answered"}, Answer(t, v),
         \A r \in RunId : r # runOf[t] => active'[r] = active[r]
  PROVE  PendingIsAwaiting' /\ pending' \in [RunId -> Turn \cup {NoTurn}]
<1>1. /\ pending' = [pending EXCEPT ![runOf[t]] = NoTurn]
      /\ stage'[t] \notin AwaitingStages
      /\ \A u \in Turn : u # t => (stage'[u] \in AwaitingStages <=> stage[u] \in AwaitingStages)
  BY AnswerEffect
<1>2. pending[runOf[t]] = t /\ runOf[t] \in RunId /\ t # NoTurn
  BY TurnAssumption DEF PendingIsAwaiting
<1>3. ASSUME NEW u \in Turn, stage'[u] \in AwaitingStages
      PROVE  pending'[runOf[u]] = u
  <2>1. u # t /\ stage[u] \in AwaitingStages
    BY <1>1, <1>3
  <2>2. pending[runOf[u]] = u /\ runOf[u] \in RunId
    BY <2>1, TurnAssumption DEF PendingIsAwaiting
  <2> QED BY <1>1, <1>2, <2>1, <2>2 DEF TypeOK
<1>4. ASSUME NEW r \in RunId, pending'[r] # NoTurn
      PROVE  /\ stage'[pending'[r]] \in AwaitingStages
             /\ runOf[pending'[r]] = r /\ active'[r] = NoTurn
  <2>1. r # runOf[t] /\ pending'[r] = pending[r] /\ pending[r] \in Turn
    BY <1>1, <1>2, <1>4 DEF TypeOK
  <2>2. pending[r] # t
    BY <2>1, <1>4 DEF PendingIsAwaiting
  <2> QED BY <1>1, <1>4, <2>1, <2>2 DEF PendingIsAwaiting
<1> QED
  BY <1>1, <1>3, <1>4 DEF PendingIsAwaiting, TypeOK

(* Ending the run of r keeps the registry's invariant, whoever calls it.   *)
LEMMA EndKeepsRegistry ==
  ASSUME TypeOK, Registry, NEW r \in RunId, endEnterpriseRun(r), UNCHANGED <<sessionId, lastLinked>>
  PROVE  /\ Registry'
         /\ active' \in [RunId -> Turn \cup {NoTurn}]
         /\ link' \in [Session -> RunId \cup {NoRun}]
         /\ row' \in [Turn -> {"none", "running", "ended"}]
         /\ \A q \in RunId : active'[q] \in {active[q], NoTurn}
<1>1. CASE active[r] = NoTurn
  BY <1>1, RegistryUnchanged DEF endEnterpriseRun, registryVars, TypeOK
<1>2. CASE active[r] # NoTurn
  <2> DEFINE e == active[r]
  <2>1. /\ e \in Turn /\ e # NoTurn /\ runOf[e] = r /\ row[e] = "running"
        /\ active' = [active EXCEPT ![r] = NoTurn]
        /\ link' = [q \in Session |-> IF q = sessionId[e] /\ link[q] = r THEN NoRun ELSE link[q]]
        /\ row' = [row EXCEPT ![e] = "ended"]
        /\ sessionId' = sessionId /\ lastLinked' = lastLinked
        /\ r # NoRun
    BY <1>2, TurnAssumption
       DEF endEnterpriseRun, linkWithout, TypeOK, Registry, OpenRowIsActive
  <2> HIDE DEF e
  <2>2. /\ active' \in [RunId -> Turn \cup {NoTurn}]
        /\ link' \in [Session -> RunId \cup {NoRun}]
        /\ row' \in [Turn -> {"none", "running", "ended"}]
        /\ \A q \in RunId : active'[q] \in {active[q], NoTurn}
    BY <2>1 DEF TypeOK
  <2>3. LinkSound'
    <3> SUFFICES ASSUME NEW s \in Session, link'[s] # NoRun
                 PROVE  active'[link'[s]] # NoTurn /\ sessionId[active'[link'[s]]] = s
      BY <2>1 DEF LinkSound
    <3>1. link'[s] = link[s] /\ link[s] \in RunId
      BY <2>1 DEF TypeOK
    <3>2. active[link[s]] # NoTurn /\ sessionId[active[link[s]]] = s
      BY <3>1 DEF Registry, LinkSound
    <3>3. link[s] # r
      BY <2>1, <3>1, <3>2 DEF e
    <3> QED BY <2>1, <3>1, <3>2, <3>3 DEF TypeOK
  <2>4. SuccessorKeepsLink'
    <3> SUFFICES ASSUME NEW s \in Session, lastLinked[s] # NoRun,
                        active'[lastLinked[s]] # NoTurn,
                        sessionId[active'[lastLinked[s]]] = s
                 PROVE  link'[s] = lastLinked[s]
      BY <2>1 DEF SuccessorKeepsLink
    <3>1. lastLinked[s] \in RunId /\ lastLinked[s] # r
      BY <2>1 DEF TypeOK
    <3>2. active'[lastLinked[s]] = active[lastLinked[s]]
      BY <2>1, <3>1 DEF TypeOK
    <3>3. link[s] = lastLinked[s]
      BY <3>2 DEF Registry, SuccessorKeepsLink
    <3> QED BY <2>1, <3>1, <3>3
  <2>5. OpenRowIsActive'
    <3>1. ASSUME NEW t \in Turn, row'[t] = "running" PROVE active'[runOf[t]] = t
      <4>1. t # e /\ row[t] = "running"
        BY <2>1, <3>1 DEF TypeOK
      <4>2. active[runOf[t]] = t /\ runOf[t] \in RunId
        BY <4>1, TurnAssumption DEF Registry, OpenRowIsActive
      <4>3. runOf[t] # r
        BY <4>1, <4>2 DEF e
      <4> QED BY <2>1, <4>2, <4>3 DEF TypeOK
    <3>2. ASSUME NEW q \in RunId, active'[q] # NoTurn
          PROVE  row'[active'[q]] = "running" /\ runOf[active'[q]] = q
      <4>1. q # r /\ active'[q] = active[q]
        BY <2>1, <3>2 DEF TypeOK
      <4>2. row[active[q]] = "running" /\ runOf[active[q]] = q /\ active[q] \in Turn
        BY <3>2, <4>1 DEF Registry, OpenRowIsActive, TypeOK
      <4>3. active[q] # e
        BY <2>1, <4>1, <4>2
      <4> QED BY <2>1, <4>1, <4>2, <4>3 DEF TypeOK
    <3> QED BY <3>1, <3>2 DEF OpenRowIsActive
  <2>6. OpenHasSession'
    BY <2>1, <2>2 DEF Registry, OpenHasSession, TypeOK
  <2> QED
    BY <2>2, <2>3, <2>4, <2>5, <2>6 DEF Registry
<1> QED
  BY <1>1, <1>2

(* Registering the execution of t, whose run id is free, keeps it.         *)
LEMMA RegisterKeepsRegistry ==
  ASSUME TypeOK, Registry, NEW t \in Turn, NEW s \in Session, active[runOf[t]] = NoTurn,
         registerEnterpriseActiveRun(t, s), row' = [row EXCEPT ![t] = "running"]
  PROVE  /\ Registry'
         /\ active' \in [RunId -> Turn \cup {NoTurn}]
         /\ sessionId' \in [Turn -> Session \cup {NoSession}]
         /\ link' \in [Session -> RunId \cup {NoRun}]
         /\ lastLinked' \in [Session -> RunId \cup {NoRun}]
         /\ row' \in [Turn -> {"none", "running", "ended"}]
<1> DEFINE r == runOf[t]
<1>1. /\ r \in RunId /\ r # NoRun /\ t # NoTurn /\ active[r] = NoTurn
      /\ active' = [active EXCEPT ![r] = t]
      /\ sessionId' = [sessionId EXCEPT ![t] = s]
      /\ link' = [link EXCEPT ![s] = r]
      /\ lastLinked' = [lastLinked EXCEPT ![s] = r]
      /\ row' = [row EXCEPT ![t] = "running"]
  BY TurnAssumption DEF registerEnterpriseActiveRun
<1>2. runOf[t] = r
  OBVIOUS
<1> HIDE DEF r
<1>3. /\ active' \in [RunId -> Turn \cup {NoTurn}]
      /\ sessionId' \in [Turn -> Session \cup {NoSession}]
      /\ link' \in [Session -> RunId \cup {NoRun}]
      /\ lastLinked' \in [Session -> RunId \cup {NoRun}]
      /\ row' \in [Turn -> {"none", "running", "ended"}]
  BY <1>1 DEF TypeOK
(* The other executions keep their run id and their session.               *)
<1>4. ASSUME NEW q \in RunId, q # r, active[q] # NoTurn
      PROVE  /\ active'[q] = active[q] /\ active[q] \in Turn /\ active[q] # t
             /\ sessionId'[active[q]] = sessionId[active[q]]
             /\ row'[active[q]] = row[active[q]]
  <2>1. active'[q] = active[q] /\ active[q] \in Turn
    BY <1>1, <1>4 DEF TypeOK
  <2>2. active[q] # t
    BY <1>2, <1>4 DEF Registry, OpenRowIsActive
  <2> QED BY <1>1, <2>1, <2>2 DEF TypeOK
<1>5. active'[r] = t /\ sessionId'[t] = s /\ row'[t] = "running"
  BY <1>1 DEF TypeOK
<1>6. LinkSound'
  <2> SUFFICES ASSUME NEW q \in Session, link'[q] # NoRun
               PROVE  active'[link'[q]] # NoTurn /\ sessionId'[active'[link'[q]]] = q
    BY DEF LinkSound
  <2>1. CASE q = s
    BY <1>1, <1>5, <2>1 DEF TypeOK
  <2>2. CASE q # s
    <3>1. link'[q] = link[q] /\ link[q] \in RunId
      BY <1>1, <2>2 DEF TypeOK
    <3>2. active[link[q]] # NoTurn /\ sessionId[active[link[q]]] = q
      BY <3>1 DEF Registry, LinkSound
    <3> QED BY <1>1, <1>4, <3>1, <3>2
  <2> QED BY <2>1, <2>2
<1>7. SuccessorKeepsLink'
  <2> SUFFICES ASSUME NEW q \in Session, lastLinked'[q] # NoRun,
                      active'[lastLinked'[q]] # NoTurn,
                      sessionId'[active'[lastLinked'[q]]] = q
               PROVE  link'[q] = lastLinked'[q]
    BY DEF SuccessorKeepsLink
  <2>1. CASE q = s
    BY <1>1, <2>1 DEF TypeOK
  <2>2. CASE q # s
    <3>1. lastLinked'[q] = lastLinked[q] /\ lastLinked[q] \in RunId /\ link'[q] = link[q]
      BY <1>1, <2>2 DEF TypeOK
    <3>2. lastLinked[q] # r
      BY <1>5, <2>2, <3>1
    <3>3. active[lastLinked[q]] # NoTurn
      BY <1>1, <3>1, <3>2 DEF TypeOK
    <3>4. sessionId[active[lastLinked[q]]] = q
      BY <1>4, <3>1, <3>2, <3>3
    <3> QED BY <3>1, <3>3, <3>4 DEF Registry, SuccessorKeepsLink
  <2> QED BY <2>1, <2>2
<1>8. OpenRowIsActive'
  <2>1. ASSUME NEW u \in Turn, row'[u] = "running" PROVE active'[runOf[u]] = u
    <3>1. CASE u = t
      BY <1>2, <1>5, <3>1
    <3>2. CASE u # t
      <4>0. row[u] = "running"
        BY <1>1, <2>1, <3>2 DEF TypeOK
      <4>1. active[runOf[u]] = u /\ runOf[u] \in RunId /\ u # NoTurn
        BY <4>0, TurnAssumption DEF Registry, OpenRowIsActive
      <4> QED BY <1>1, <4>1 DEF TypeOK
    <3> QED BY <3>1, <3>2
  <2>2. ASSUME NEW q \in RunId, active'[q] # NoTurn
        PROVE  row'[active'[q]] = "running" /\ runOf[active'[q]] = q
    <3>1. CASE q = r
      BY <1>2, <1>5, <3>1
    <3>2. CASE q # r
      <4>1. active[q] # NoTurn
        BY <1>1, <2>2, <3>2 DEF TypeOK
      <4> QED BY <1>4, <3>2, <4>1 DEF Registry, OpenRowIsActive
    <3> QED BY <3>1, <3>2
  <2> QED BY <2>1, <2>2 DEF OpenRowIsActive
<1>9. OpenHasSession'
  <2> SUFFICES ASSUME NEW q \in RunId, active'[q] # NoTurn
               PROVE  sessionId'[active'[q]] \in Session
    BY DEF OpenHasSession
  <2>1. CASE q = r
    BY <1>5, <2>1
  <2>2. CASE q # r
    <3>1. active[q] # NoTurn
      BY <1>1, <2>2 DEF TypeOK
    <3> QED BY <1>4, <2>2, <3>1 DEF Registry, OpenHasSession
  <2> QED BY <2>1, <2>2
<1> QED
  BY <1>3, <1>6, <1>7, <1>8, <1>9 DEF Registry

(* So does following a rotated transcript, whatever transcript it is.      *)
LEMMA AdoptKeepsRegistry ==
  ASSUME TypeOK, Registry, NEW r \in RunId, NEW s \in Session,
         adoptEnterpriseActiveRunSessionId(r, s), UNCHANGED <<active, row>>
  PROVE  /\ Registry'
         /\ sessionId' \in [Turn -> Session \cup {NoSession}]
         /\ link' \in [Session -> RunId \cup {NoRun}]
         /\ lastLinked' \in [Session -> RunId \cup {NoRun}]
<1>1. CASE active[r] = NoTurn \/ sessionId[active[r]] = s
  BY <1>1, RegistryUnchanged DEF adoptEnterpriseActiveRunSessionId, registryVars, TypeOK
<1>2. CASE ~(active[r] = NoTurn \/ sessionId[active[r]] = s)
  <2> DEFINE e == active[r]
  <2>1. /\ e \in Turn /\ e # NoTurn /\ runOf[e] = r /\ r # NoRun
        /\ sessionId' = [sessionId EXCEPT ![e] = s]
        /\ link' = [[q \in Session |-> IF q = sessionId[e] /\ link[q] = r
                                       THEN NoRun ELSE link[q]] EXCEPT ![s] = r]
        /\ lastLinked' = [lastLinked EXCEPT ![s] = r]
        /\ active' = active /\ row' = row
    BY <1>2, TurnAssumption
       DEF adoptEnterpriseActiveRunSessionId, linkWithout, TypeOK, Registry, OpenRowIsActive
  <2>2. active[r] = e
    OBVIOUS
  <2> HIDE DEF e
  <2>3. /\ sessionId' \in [Turn -> Session \cup {NoSession}]
        /\ link' \in [Session -> RunId \cup {NoRun}]
        /\ lastLinked' \in [Session -> RunId \cup {NoRun}]
    BY <2>1 DEF TypeOK
  <2>4. sessionId'[e] = s
    BY <2>1 DEF TypeOK
  <2>5. ASSUME NEW q \in RunId, q # r, active[q] # NoTurn
        PROVE  active[q] # e /\ sessionId'[active[q]] = sessionId[active[q]]
    <3>1. active[q] \in Turn /\ runOf[active[q]] = q
      BY <2>5 DEF TypeOK, Registry, OpenRowIsActive
    <3>2. active[q] # e
      BY <2>1, <2>5, <3>1
    <3> QED BY <2>1, <3>1, <3>2 DEF TypeOK
  <2>6. LinkSound'
    <3> SUFFICES ASSUME NEW q \in Session, link'[q] # NoRun
                 PROVE  active[link'[q]] # NoTurn /\ sessionId'[active[link'[q]]] = q
      BY <2>1 DEF LinkSound
    <3>1. CASE q = s
      BY <2>1, <2>2, <2>4, <3>1 DEF TypeOK
    <3>2. CASE q # s
      <4>1. link'[q] = link[q] /\ link[q] \in RunId /\ ~(q = sessionId[e] /\ link[q] = r)
        BY <2>1, <3>2 DEF TypeOK
      <4>2. active[link[q]] # NoTurn /\ sessionId[active[link[q]]] = q
        BY <4>1 DEF Registry, LinkSound
      <4>3. link[q] # r
        BY <2>2, <4>1, <4>2
      <4> QED BY <2>5, <4>1, <4>2, <4>3
    <3> QED BY <3>1, <3>2
  <2>7. SuccessorKeepsLink'
    <3> SUFFICES ASSUME NEW q \in Session, lastLinked'[q] # NoRun,
                        active[lastLinked'[q]] # NoTurn,
                        sessionId'[active[lastLinked'[q]]] = q
                 PROVE  link'[q] = lastLinked'[q]
      BY <2>1 DEF SuccessorKeepsLink
    <3>1. CASE q = s
      BY <2>1, <3>1 DEF TypeOK
    <3>2. CASE q # s
      <4>1. lastLinked'[q] = lastLinked[q] /\ lastLinked[q] \in RunId
        BY <2>1, <3>2 DEF TypeOK
      <4>2. lastLinked[q] # r
        BY <2>2, <2>4, <3>2, <4>1
      <4>3. sessionId[active[lastLinked[q]]] = q
        BY <2>5, <4>1, <4>2
      <4>4. link[q] = lastLinked[q]
        BY <4>1, <4>3 DEF Registry, SuccessorKeepsLink
      <4> QED BY <2>1, <3>2, <4>1, <4>2, <4>4 DEF TypeOK
    <3> QED BY <3>1, <3>2
  <2>8. OpenRowIsActive'
    BY <2>1 DEF Registry, OpenRowIsActive
  <2>9. OpenHasSession'
    BY <2>1, <2>2, <2>4, <2>5 DEF Registry, OpenHasSession
  <2> QED BY <2>3, <2>6, <2>7, <2>8, <2>9 DEF Registry
<1> QED
  BY <1>1, <1>2

(* Steps that start, answer or end no begin keep the bookkeeping of begins *)
(* in flight when they register nothing.                                   *)
LEMMA PendingKept ==
  ASSUME TypeOK, PendingIsAwaiting, pending' = pending,
         \A t \in Turn : stage'[t] \in AwaitingStages <=> stage[t] \in AwaitingStages,
         \A r \in RunId : active'[r] \in {active[r], NoTurn}
  PROVE  PendingIsAwaiting'
BY DEF PendingIsAwaiting, TypeOK

(* Every step keeps the invariant: one case per action.                    *)
LEMMA StepIInv == IInv /\ [Next]_vars => IInv'
<1> SUFFICES ASSUME IInv, [Next]_vars PROVE IInv'
  OBVIOUS
<1>0. TypeOK /\ Registry /\ PendingIsAwaiting
  BY DEF IInv, Registry
<1> SUFFICES TypeOK' /\ Registry' /\ PendingIsAwaiting'
  BY DEF IInv, Registry
<1>1. ASSUME NEW t \in Turn, beginEnterpriseRun(t) PROVE TypeOK' /\ Registry' /\ PendingIsAwaiting'
  <2>1. Registry'
    BY <1>0, <1>1, RegistryUnchanged DEF beginEnterpriseRun, registryVars
  <2>2. stage[t] = "idle" /\ runOf[t] \in RunId /\ t # NoTurn
    BY <1>1, TurnAssumption DEF beginEnterpriseRun, Admitted
  <2>3. CASE stage' = [stage EXCEPT ![t] = "planning"] /\ pending' = [pending EXCEPT ![runOf[t]] = t]
    <3>1. pending[runOf[t]] = NoTurn /\ active[runOf[t]] = NoTurn
      BY <1>0, <1>1, <2>2, <2>3 DEF beginEnterpriseRun, joinsPendingBegin, TypeOK
    <3>2. TypeOK'
      BY <1>0, <1>1, <2>2, <2>3 DEF beginEnterpriseRun, TypeOK, RunningStages, AwaitingStages
    <3>3. ASSUME NEW u \in Turn, stage'[u] \in AwaitingStages PROVE pending'[runOf[u]] = u
      <4>1. CASE u = t
        BY <1>0, <2>2, <2>3, <4>1 DEF TypeOK
      <4>2. CASE u # t
        <5>0. stage[u] \in AwaitingStages
          BY <1>0, <2>3, <3>3, <4>2 DEF TypeOK
        <5>1. pending[runOf[u]] = u /\ runOf[u] \in RunId /\ u # NoTurn
          BY <1>0, <5>0, TurnAssumption DEF PendingIsAwaiting
        <5> QED BY <1>0, <2>3, <3>1, <5>1 DEF TypeOK
      <4> QED BY <4>1, <4>2
    <3>4. ASSUME NEW r \in RunId, pending'[r] # NoTurn
          PROVE  /\ stage'[pending'[r]] \in AwaitingStages
                 /\ runOf[pending'[r]] = r /\ active'[r] = NoTurn
      <4>0. active' = active
        BY <1>1 DEF beginEnterpriseRun
      <4>1. CASE r = runOf[t]
        BY <1>0, <2>2, <2>3, <3>1, <4>0, <4>1 DEF TypeOK, AwaitingStages
      <4>2. CASE r # runOf[t]
        <5>1. pending'[r] = pending[r] /\ pending[r] \in Turn
          BY <1>0, <2>3, <3>4, <4>2 DEF TypeOK
        <5>2. pending[r] # t
          BY <1>0, <3>4, <4>2, <5>1 DEF PendingIsAwaiting
        <5> QED BY <1>0, <2>3, <3>4, <4>0, <5>1, <5>2 DEF TypeOK, PendingIsAwaiting
      <4> QED BY <4>1, <4>2
    <3> QED BY <2>1, <3>2, <3>3, <3>4 DEF PendingIsAwaiting
  <2>4. CASE pending' = pending /\ stage' \in {[stage EXCEPT ![t] = "joined"], [stage EXCEPT ![t] = "live"]}
    <3>1. TypeOK'
      BY <1>0, <1>1, <2>2, <2>4 DEF beginEnterpriseRun, TypeOK, RunningStages, AwaitingStages
    <3>2. \A u \in Turn : stage'[u] \in AwaitingStages <=> stage[u] \in AwaitingStages
      BY <1>0, <2>2, <2>4 DEF TypeOK, AwaitingStages
    <3>3. active' = active
      BY <1>1 DEF beginEnterpriseRun
    <3> QED BY <1>0, <2>1, <2>4, <3>1, <3>2, <3>3, PendingKept
  <2> QED BY <1>1, <2>3, <2>4 DEF beginEnterpriseRun
<1>2. ASSUME NEW t \in Turn, NEW v \in {"mediated", "off", "answered"}, stage[t] \in AwaitingStages,
             Answer(t, v), UNCHANGED <<aborted, settled, active, sessionId, link, transcript, lastLinked>>,
             row' = row
      PROVE  TypeOK' /\ Registry' /\ PendingIsAwaiting'
  <2>1. Registry'
    BY <1>0, <1>2, RegistryUnchanged DEF registryVars
  <2>2. PendingIsAwaiting' /\ pending' \in [RunId -> Turn \cup {NoTurn}]
    BY <1>0, <1>2, AnswerKeepsPending
  <2>3. TypeOK'
    BY <1>0, <1>2, <2>2, AnswerEffect DEF TypeOK
  <2> QED BY <2>1, <2>2, <2>3
<1>3. ASSUME NEW t \in Turn, planningReturns(t) PROVE TypeOK' /\ Registry' /\ PendingIsAwaiting'
  <2>1. CASE Answer(t, "off")
    BY <1>2, <1>3, <2>1 DEF planningReturns, AwaitingStages
  <2>2. CASE stage' = [stage EXCEPT ![t] = "reading"] /\ UNCHANGED <<verdict, pending>>
    <3>1. Registry'
      BY <1>0, <1>3, RegistryUnchanged DEF planningReturns, registryVars
    <3>2. TypeOK'
      BY <1>0, <1>3, <2>2 DEF planningReturns, TypeOK, RunningStages, AwaitingStages
    <3>3. \A u \in Turn : stage'[u] \in AwaitingStages <=> stage[u] \in AwaitingStages
      BY <1>0, <1>3, <2>2 DEF planningReturns, TypeOK, AwaitingStages
    <3>4. active' = active
      BY <1>3 DEF planningReturns
    <3> QED BY <1>0, <2>2, <3>1, <3>2, <3>3, <3>4, PendingKept
  <2> QED BY <1>3, <2>1, <2>2 DEF planningReturns
<1>4. ASSUME NEW t \in Turn, planningRefuses(t) PROVE TypeOK' /\ Registry' /\ PendingIsAwaiting'
  BY <1>2, <1>4 DEF planningRefuses, AwaitingStages
<1>5. ASSUME NEW t \in Turn, runStartBlocked(t) PROVE TypeOK' /\ Registry' /\ PendingIsAwaiting'
  <2>1. stage[t] \in AwaitingStages /\ Answer(t, "answered") /\ row' = [row EXCEPT ![t] = "ended"]
    BY <1>5 DEF runStartBlocked, AwaitingStages
  <2>2. PendingIsAwaiting' /\ pending' \in [RunId -> Turn \cup {NoTurn}]
    BY <1>0, <1>5, <2>1, AnswerKeepsPending DEF runStartBlocked
  <2>3. TypeOK'
    BY <1>0, <1>5, <2>1, <2>2, AnswerEffect DEF TypeOK, runStartBlocked
  (* t's begin is in flight, so its run id has no execution to lose.       *)
  <2>4. active[runOf[t]] = NoTurn
    BY <1>0, <2>1, TurnAssumption DEF PendingIsAwaiting
  <2>5. OpenRowIsActive'
    <3>1. active' = active
      BY <1>5 DEF runStartBlocked
    <3>2. ASSUME NEW r \in RunId, active[r] # NoTurn PROVE active[r] \in Turn /\ active[r] # t
      BY <1>0, <2>4, <3>2 DEF TypeOK, Registry, OpenRowIsActive
    <3> QED BY <1>0, <2>1, <3>1, <3>2 DEF TypeOK, Registry, OpenRowIsActive
  <2>6. LinkSound' /\ SuccessorKeepsLink' /\ OpenHasSession'
    BY <1>0, <1>5 DEF runStartBlocked, Registry, LinkSound, SuccessorKeepsLink, OpenHasSession
  <2> QED BY <2>2, <2>3, <2>5, <2>6 DEF Registry
<1>6. ASSUME NEW t \in Turn, skillsRead(t) PROVE TypeOK' /\ Registry' /\ PendingIsAwaiting'
  <2>0. stage[t] \in AwaitingStages
    BY <1>6 DEF skillsRead, AwaitingStages
  <2>1. CASE Answer(t, "off") /\ UNCHANGED <<active, sessionId, link, row, lastLinked>>
    BY <1>2, <1>6, <2>0, <2>1 DEF skillsRead
  <2>2. CASE /\ Answer(t, "mediated")
             /\ registerEnterpriseActiveRun(t, transcript[laneOf[t]])
             /\ row' = [row EXCEPT ![t] = "running"]
    <3>1. active[runOf[t]] = NoTurn /\ transcript[laneOf[t]] \in Session /\ runOf[t] \in RunId
      BY <1>0, <2>0, TurnAssumption DEF PendingIsAwaiting, TypeOK
    <3>2. /\ Registry'
          /\ active' \in [RunId -> Turn \cup {NoTurn}]
          /\ sessionId' \in [Turn -> Session \cup {NoSession}]
          /\ link' \in [Session -> RunId \cup {NoRun}]
          /\ lastLinked' \in [Session -> RunId \cup {NoRun}]
          /\ row' \in [Turn -> {"none", "running", "ended"}]
      BY <1>0, <2>2, <3>1, RegisterKeepsRegistry
    <3>3. \A r \in RunId : r # runOf[t] => active'[r] = active[r]
      BY <1>0, <2>2 DEF registerEnterpriseActiveRun, TypeOK
    <3>4. PendingIsAwaiting' /\ pending' \in [RunId -> Turn \cup {NoTurn}]
      BY <1>0, <2>0, <2>2, <3>3, AnswerKeepsPending
    <3>5. TypeOK'
      BY <1>0, <1>6, <2>0, <2>2, <3>2, <3>4, AnswerEffect DEF TypeOK, skillsRead
    <3> QED BY <3>2, <3>4, <3>5
  <2> QED BY <1>6, <2>1, <2>2 DEF skillsRead
<1>7. ASSUME NEW t \in Turn, NEW s \in Session, compact(t, s)
      PROVE  TypeOK' /\ Registry' /\ PendingIsAwaiting'
  <2>1. runOf[t] \in RunId /\ laneOf[t] \in Lane
    BY TurnAssumption
  <2>2. /\ Registry'
        /\ sessionId' \in [Turn -> Session \cup {NoSession}]
        /\ link' \in [Session -> RunId \cup {NoRun}]
        /\ lastLinked' \in [Session -> RunId \cup {NoRun}]
    BY <1>0, <1>7, <2>1, AdoptKeepsRegistry DEF compact
  <2>3. TypeOK'
    BY <1>0, <1>7, <2>1, <2>2 DEF compact, TypeOK
  <2>4. PendingIsAwaiting'
    BY <1>0, <1>7, PendingKept DEF compact
  <2> QED BY <2>2, <2>3, <2>4
<1>8. ASSUME NEW l \in Lane, NEW s \in Session, resetTranscript(l, s)
      PROVE  TypeOK' /\ Registry' /\ PendingIsAwaiting'
  <2>1. Registry'
    BY <1>0, <1>8, RegistryUnchanged DEF resetTranscript, registryVars
  <2>2. TypeOK'
    BY <1>0, <1>8 DEF resetTranscript, TypeOK
  <2>3. PendingIsAwaiting'
    BY <1>0, <1>8, PendingKept DEF resetTranscript
  <2> QED BY <2>1, <2>2, <2>3
<1>9. ASSUME NEW t \in Turn, turnReturns(t) PROVE TypeOK' /\ Registry' /\ PendingIsAwaiting'
  <2>1. Registry'
    BY <1>0, <1>9, RegistryUnchanged DEF turnReturns, registryVars
  <2>2. TypeOK'
    BY <1>0, <1>9 DEF turnReturns, TypeOK, RunningStages, AwaitingStages
  <2>3. \A u \in Turn : stage'[u] \in AwaitingStages <=> stage[u] \in AwaitingStages
    BY <1>0, <1>9 DEF turnReturns, TypeOK, AwaitingStages
  <2>4. PendingIsAwaiting'
    BY <1>0, <1>9, <2>3, PendingKept DEF turnReturns
  <2> QED BY <2>1, <2>2, <2>4
<1>10. ASSUME NEW t \in Turn, finishEnterpriseMediation(t) PROVE TypeOK' /\ Registry' /\ PendingIsAwaiting'
  <2>1. runOf[t] \in RunId
    BY TurnAssumption
  <2>2. /\ Registry'
        /\ active' \in [RunId -> Turn \cup {NoTurn}]
        /\ link' \in [Session -> RunId \cup {NoRun}]
        /\ row' \in [Turn -> {"none", "running", "ended"}]
        /\ \A q \in RunId : active'[q] \in {active[q], NoTurn}
    BY <1>0, <1>10, <2>1, EndKeepsRegistry DEF finishEnterpriseMediation
  <2>3. TypeOK'
    BY <1>0, <1>10, <2>2 DEF finishEnterpriseMediation, TypeOK, RunningStages, AwaitingStages
  <2>4. \A u \in Turn : stage'[u] \in AwaitingStages <=> stage[u] \in AwaitingStages
    BY <1>0, <1>10 DEF finishEnterpriseMediation, TypeOK, AwaitingStages
  <2>5. PendingIsAwaiting'
    BY <1>0, <1>10, <2>2, <2>4, PendingKept DEF finishEnterpriseMediation
  <2> QED BY <2>2, <2>3, <2>5
<1>11. ASSUME NEW t \in Turn, watchdogRejects(t) PROVE TypeOK' /\ Registry' /\ PendingIsAwaiting'
  <2>1. runOf[t] \in RunId
    BY TurnAssumption
  <2>2. /\ Registry'
        /\ active' \in [RunId -> Turn \cup {NoTurn}]
        /\ link' \in [Session -> RunId \cup {NoRun}]
        /\ row' \in [Turn -> {"none", "running", "ended"}]
        /\ \A q \in RunId : active'[q] \in {active[q], NoTurn}
    BY <1>0, <1>11, <2>1, EndKeepsRegistry DEF watchdogRejects
  <2>3. TypeOK'
    BY <1>0, <1>11, <2>2 DEF watchdogRejects, cancelOnTimeout, TypeOK
  <2>4. PendingIsAwaiting'
    BY <1>0, <1>11, <2>2, PendingKept DEF watchdogRejects
  <2> QED BY <2>2, <2>3, <2>4
<1>12. ASSUME NEW t \in Turn, stop(t) PROVE TypeOK' /\ Registry' /\ PendingIsAwaiting'
  <2>1. Registry'
    BY <1>0, <1>12, RegistryUnchanged DEF stop, registryVars
  <2>2. TypeOK'
    BY <1>0, <1>12 DEF stop, TypeOK
  <2>3. PendingIsAwaiting'
    BY <1>0, <1>12, PendingKept DEF stop
  <2> QED BY <2>1, <2>2, <2>3
<1>13. CASE UNCHANGED vars
  <2>1. Registry'
    BY <1>0, <1>13, RegistryUnchanged DEF vars, registryVars
  <2>2. TypeOK' /\ PendingIsAwaiting'
    BY <1>0, <1>13 DEF vars, TypeOK, PendingIsAwaiting
  <2> QED BY <2>1, <2>2
<1> QED
  BY <1>1, <1>3, <1>4, <1>5, <1>6, <1>7, <1>8, <1>9, <1>10, <1>11, <1>12, <1>13 DEF Next

(* The registry's inductive invariant, for any interleaving of turns,      *)
(* compactions, resets, stops and watchdog timeouts.                       *)
THEOREM MediationInvariant == Spec => []IInv
BY InitIInv, StepIInv, PTL DEF Spec

(* The session index never resolves to a finished run, nor to one that has *)
(* moved to another transcript (active-runs.ts).                           *)
THEOREM MediationLinkSound == Spec => []LinkSound
<1>1. IInv => LinkSound
  BY DEF IInv
<1> QED BY <1>1, MediationInvariant, PTL

(* A late end (unregisterEnterpriseActiveRun) or rotation never orphans    *)
(* the run that linked the session after it.                               *)
THEOREM MediationSuccessorKeepsLink == Spec => []SuccessorKeepsLink
<1>1. IInv => SuccessorKeepsLink
  BY DEF IInv
<1> QED BY <1>1, MediationInvariant, PTL

(* A trace row is open exactly while its run id maps to its execution.     *)
THEOREM MediationOpenRowIsActive == Spec => []OpenRowIsActive
<1>1. IInv => OpenRowIsActive
  BY DEF IInv
<1> QED BY <1>1, MediationInvariant, PTL

-----------------------------------------------------------------------------
(* The end of t's run leaves no execution of t in the registry, and adds   *)
(* none: what was true of the registry stays true with t settled.          *)
LEMMA EndKeepsCurrent ==
  ASSUME TypeOK, OpenRowIsActive, RegistryHoldsCurrent, NEW t \in Turn,
         endEnterpriseRun(runOf[t]), settled' = settled \cup {t}
  PROVE  RegistryHoldsCurrent'
<1>1. runOf[t] \in RunId /\ NoTurn \notin Supervised
  BY TurnAssumption DEF Supervised
<1> SUFFICES ASSUME NEW r \in RunId, active'[r] \in Supervised
             PROVE  active'[r] \notin settled'
  BY DEF RegistryHoldsCurrent
<1>2. r # runOf[t] /\ active'[r] = active[r]
  BY <1>1 DEF endEnterpriseRun, TypeOK
<1>3. active[r] # t
  BY <1>1, <1>2 DEF OpenRowIsActive
<1> QED BY <1>2, <1>3 DEF RegistryHoldsCurrent

(* The answer of t's begin, whatever it is: the turns that go on without   *)
(* mediation joined it, and nobody is left waiting for it.                 *)
LEMMA AnswerKeepsMatch ==
  ASSUME IInv, MediationMatchesTurn, NEW t \in Turn, stage[t] \in AwaitingStages,
         NEW v \in {"mediated", "off", "answered"}, Answer(t, v),
         v = "off" => t \in aborted, UNCHANGED <<aborted, settled>>
  PROVE  /\ UnmediatedOnlyByJoin' /\ GivenUpIsCancelled'
         /\ SettledHasBegun' /\ JoinedBehindGivenUp'
<1> DEFINE hears == {t} \cup {u \in Turn : stage[u] = "joined" /\ runOf[u] = runOf[t]}
<1>1. /\ verdict' = [u \in Turn |-> IF u \in hears THEN v ELSE verdict[u]]
      /\ stage' = [u \in Turn |-> IF u \notin hears THEN stage[u]
                                  ELSE IF goesOn(u, v) THEN "live"
                                  ELSE IF u \in settled THEN "done" ELSE "returned"]
      /\ pending' = [pending EXCEPT ![runOf[t]] = NoTurn]
  BY DEF Answer
<1>2. \A u \in hears : u \in Turn /\ runOf[u] = runOf[t] /\ stage[u] \in RunningStages
  BY DEF RunningStages, AwaitingStages
<1>3. \A u \in Turn : stage[u] = "joined" /\ runOf[u] = runOf[t] => u \in hears
  OBVIOUS
<1>4. \A u \in hears : u # t => stage[u] = "joined"
  OBVIOUS
<1>5. pending[runOf[t]] = t /\ runOf[t] \in RunId
  BY TurnAssumption DEF IInv, PendingIsAwaiting
<1> HIDE DEF hears
<1>6. UnmediatedOnlyByJoin'
  <2> SUFFICES ASSUME NEW u \in Turn, stage'[u] = "live", verdict'[u] = "off"
               PROVE  \E w \in Turn \ {u} : runOf[w] = runOf[u] /\ w \in aborted /\ w \in settled
    BY DEF UnmediatedOnlyByJoin
  <2>1. CASE u \in hears
    <3>1. v = "off" /\ u \notin aborted
      BY <1>1, <2>1 DEF goesOn
    <3>2. u # t /\ stage[u] = "joined" /\ runOf[u] = runOf[t]
      BY <1>2, <1>4, <2>1, <3>1
    <3>3. t \in settled
      BY <1>5, <3>2 DEF MediationMatchesTurn, JoinedBehindGivenUp
    <3> QED BY <3>1, <3>2, <3>3
  <2>2. CASE u \notin hears
    <3>1. stage[u] = "live" /\ verdict[u] = "off"
      BY <1>1, <2>2
    <3> QED BY <3>1 DEF MediationMatchesTurn, UnmediatedOnlyByJoin
  <2> QED BY <2>1, <2>2
<1>7. GivenUpIsCancelled'
  <2> SUFFICES ASSUME NEW u \in Supervised, u \in settled, stage'[u] \in RunningStages
               PROVE  u \in aborted
    BY DEF GivenUpIsCancelled
  <2>1. u \in Turn
    BY TurnAssumption DEF Supervised
  <2>2. stage[u] \in RunningStages
    BY <1>1, <1>2, <2>1
  <2> QED BY <2>2 DEF MediationMatchesTurn, GivenUpIsCancelled
<1>8. JoinedBehindGivenUp'
  <2> SUFFICES ASSUME NEW u \in Turn, stage'[u] = "joined"
               PROVE  pending'[runOf[u]] \in settled
    BY DEF JoinedBehindGivenUp
  <2>1. u \notin hears /\ stage[u] = "joined"
    BY <1>1
  <2>2. runOf[u] # runOf[t] /\ runOf[u] \in RunId
    BY <1>3, <2>1, TurnAssumption
  <2>3. pending'[runOf[u]] = pending[runOf[u]]
    BY <1>1, <1>5, <2>2 DEF IInv, TypeOK
  <2> QED BY <2>1, <2>3 DEF MediationMatchesTurn, JoinedBehindGivenUp
<1>9. SettledHasBegun'
  BY <1>1 DEF IInv, TypeOK, MediationMatchesTurn, SettledHasBegun
<1> QED BY <1>6, <1>7, <1>8, <1>9

(* What a step may do to the stage of a turn without any need to look at   *)
(* the other turns.                                                        *)
NotFurther(t) ==
  /\ (stage'[t] = "live" /\ verdict'[t] = "off") => (stage[t] = "live" /\ verdict[t] = "off")
  /\ stage'[t] \in RunningStages => stage[t] \in RunningStages
  /\ stage'[t] = "joined" => stage[t] = "joined"
  /\ stage'[t] = "idle" => stage[t] = "idle"

(* Such steps keep the match when they finalize nothing, register nothing  *)
(* and leave the begins in flight alone.                                   *)
LEMMA MatchKept ==
  ASSUME TypeOK, MediationMatchesTurn,
         settled' = settled, aborted \subseteq aborted', pending' = pending,
         \A r \in RunId : active'[r] \in {active[r], NoTurn},
         \A t \in Turn : NotFurther(t)
  PROVE  MediationMatchesTurn'
<1>1. RegistryHoldsCurrent'
  BY TurnAssumption DEF MediationMatchesTurn, RegistryHoldsCurrent, Supervised, NotFurther
<1>2. UnmediatedOnlyByJoin'
  BY DEF MediationMatchesTurn, UnmediatedOnlyByJoin, NotFurther
<1>3. GivenUpIsCancelled'
  BY TurnAssumption DEF MediationMatchesTurn, GivenUpIsCancelled, Supervised, NotFurther
<1>4. JoinedBehindGivenUp'
  BY DEF MediationMatchesTurn, JoinedBehindGivenUp, NotFurther
<1>5. SettledHasBegun'
  BY DEF TypeOK, MediationMatchesTurn, SettledHasBegun, NotFurther
<1> QED BY <1>1, <1>2, <1>3, <1>4, <1>5 DEF MediationMatchesTurn

(* Every step keeps the match.                                             *)
LEMMA StepMatch == IInv /\ MediationMatchesTurn /\ [Next]_vars => MediationMatchesTurn'
<1> SUFFICES ASSUME IInv, MediationMatchesTurn, [Next]_vars
             PROVE  MediationMatchesTurn'
  OBVIOUS
<1>0. TypeOK /\ OpenRowIsActive /\ PendingIsAwaiting
  BY DEF IInv
<1>1. ASSUME NEW t \in Turn, beginEnterpriseRun(t) PROVE MediationMatchesTurn'
  <2>1. /\ stage[t] = "idle" /\ active' = active /\ settled' = settled /\ aborted' = aborted
        /\ runOf[t] \in RunId
    BY <1>1, TurnAssumption DEF beginEnterpriseRun, Admitted
  <2>2. RegistryHoldsCurrent'
    BY <2>1 DEF MediationMatchesTurn, RegistryHoldsCurrent
  <2>3. \A u \in Turn : u # t => stage'[u] = stage[u] /\ verdict'[u] = verdict[u]
    BY <1>0, <1>1 DEF beginEnterpriseRun, TypeOK
  <2>4. /\ stage'[t] \in {"joined", "live", "planning"}
        /\ stage'[t] = "live" => verdict'[t] = "mediated"
        /\ stage'[t] = "joined" => pending[runOf[t]] # NoTurn /\ pending' = pending
        /\ stage'[t] # "planning" => pending' = pending
        /\ stage'[t] = "planning" => /\ pending[runOf[t]] = NoTurn
                                     /\ pending' = [pending EXCEPT ![runOf[t]] = t]
    BY <1>0, <1>1 DEF beginEnterpriseRun, joinsPendingBegin, TypeOK
  <2>5. UnmediatedOnlyByJoin'
    BY <2>1, <2>3, <2>4 DEF MediationMatchesTurn, UnmediatedOnlyByJoin
  <2>6. JoinedBehindGivenUp'
    <3> SUFFICES ASSUME NEW u \in Turn, stage'[u] = "joined"
                 PROVE  pending'[runOf[u]] \in settled
      BY <2>1 DEF JoinedBehindGivenUp
    <3>1. CASE u = t
      <4>1. pending[runOf[t]] \in Turn /\ pending' = pending
        BY <1>0, <2>1, <2>4, <3>1 DEF TypeOK
      <4>2. /\ stage[pending[runOf[t]]] \in AwaitingStages
            /\ runOf[pending[runOf[t]]] = runOf[t]
        BY <1>0, <2>1, <2>4, <3>1 DEF PendingIsAwaiting
      <4>3. pending[runOf[t]] # t /\ stage[pending[runOf[t]]] # "idle"
        BY <2>1, <4>2 DEF AwaitingStages
      <4>4. pending[runOf[t]] \in settled
        BY <1>1, <4>1, <4>2, <4>3 DEF beginEnterpriseRun, Admitted
      <4> QED BY <3>1, <4>1, <4>4
    <3>2. CASE u # t
      <4>1. stage[u] = "joined"
        BY <2>3, <3>2
      <4>2. pending[runOf[u]] \in settled
        BY <4>1 DEF MediationMatchesTurn, JoinedBehindGivenUp
      <4>3. pending[runOf[u]] # NoTurn /\ runOf[u] \in RunId
        BY <1>0, <4>2, TurnAssumption DEF TypeOK
      <4> QED BY <1>0, <2>1, <2>4, <4>2, <4>3 DEF TypeOK
    <3> QED BY <3>1, <3>2
  (* Its runner has not finalized a turn that has yet to begin.            *)
  <2>7. t \notin settled
    BY <1>0, <1>1, <2>1 DEF MediationMatchesTurn, SettledHasBegun
  <2>8. GivenUpIsCancelled'
    BY <2>1, <2>3, <2>7, TurnAssumption DEF MediationMatchesTurn, GivenUpIsCancelled, Supervised
  <2>9. SettledHasBegun'
    BY <1>0, <2>1, <2>3, <2>7 DEF TypeOK, MediationMatchesTurn, SettledHasBegun
  <2> QED BY <2>2, <2>5, <2>6, <2>8, <2>9 DEF MediationMatchesTurn
(* A begin that answers without registering an execution.                  *)
<1>2. ASSUME NEW t \in Turn, NEW v \in {"off", "answered"}, stage[t] \in AwaitingStages,
             Answer(t, v), v = "off" => t \in aborted, UNCHANGED <<aborted, settled, active>>
      PROVE  MediationMatchesTurn'
  <2>1. RegistryHoldsCurrent'
    BY <1>2 DEF MediationMatchesTurn, RegistryHoldsCurrent
  <2> QED BY <1>2, <2>1, AnswerKeepsMatch DEF MediationMatchesTurn
<1>3. ASSUME NEW t \in Turn, planningReturns(t) PROVE MediationMatchesTurn'
  <2>1. CASE Answer(t, "off") /\ t \in aborted
    BY <1>2, <1>3, <2>1 DEF planningReturns, AwaitingStages
  <2>2. CASE stage' = [stage EXCEPT ![t] = "reading"] /\ UNCHANGED <<verdict, pending>>
    <3>1. \A u \in Turn : NotFurther(u)
      BY <1>0, <1>3, <2>2 DEF planningReturns, TypeOK, RunningStages, AwaitingStages,
             NotFurther
    <3> QED BY <1>0, <1>3, <2>2, <3>1, MatchKept DEF planningReturns
  <2> QED BY <1>3, <2>1, <2>2 DEF planningReturns, cancelledInFlight
<1>4. ASSUME NEW t \in Turn, planningRefuses(t) PROVE MediationMatchesTurn'
  BY <1>2, <1>4 DEF planningRefuses, AwaitingStages
<1>5. ASSUME NEW t \in Turn, runStartBlocked(t) PROVE MediationMatchesTurn'
  BY <1>2, <1>5 DEF runStartBlocked, AwaitingStages
<1>6. ASSUME NEW t \in Turn, skillsRead(t) PROVE MediationMatchesTurn'
  <2>0. stage[t] \in AwaitingStages
    BY <1>6 DEF skillsRead, AwaitingStages
  <2>1. CASE Answer(t, "off") /\ t \in aborted /\ UNCHANGED active
    BY <1>2, <1>6, <2>0, <2>1 DEF skillsRead
  <2>2. CASE /\ Answer(t, "mediated") /\ t \notin aborted
             /\ registerEnterpriseActiveRun(t, transcript[laneOf[t]])
    (* A supervised turn that was given up on has been cancelled.          *)
    <3>1. t \in Supervised => t \notin settled
      BY <2>0, <2>2 DEF MediationMatchesTurn, GivenUpIsCancelled, RunningStages
    <3>2. RegistryHoldsCurrent'
      BY <1>0, <1>6, <2>2, <3>1, TurnAssumption
         DEF skillsRead, registerEnterpriseActiveRun, TypeOK, MediationMatchesTurn,
             RegistryHoldsCurrent
    <3> QED BY <1>6, <2>0, <2>2, <3>2, AnswerKeepsMatch DEF MediationMatchesTurn, skillsRead
  <2> QED BY <1>6, <2>1, <2>2 DEF skillsRead, cancelledInFlight
<1>7. ASSUME NEW t \in Turn, turnReturns(t) PROVE MediationMatchesTurn'
  <2>1. \A u \in Turn : NotFurther(u)
    BY <1>0, <1>7 DEF turnReturns, TypeOK, RunningStages, AwaitingStages, NotFurther
  <2> QED BY <1>0, <1>7, <2>1, MatchKept DEF turnReturns
<1>8. ASSUME NEW t \in Turn, finishEnterpriseMediation(t) PROVE MediationMatchesTurn'
  <2>1. /\ stage[t] = "returned" /\ stage' = [stage EXCEPT ![t] = "done"]
        /\ settled' = settled \cup {t} /\ endEnterpriseRun(runOf[t])
        /\ verdict' = verdict /\ aborted' = aborted /\ pending' = pending
    BY <1>8 DEF finishEnterpriseMediation
  <2>2. RegistryHoldsCurrent'
    BY <1>0, <2>1, EndKeepsCurrent DEF MediationMatchesTurn
  <2>3. UnmediatedOnlyByJoin' /\ JoinedBehindGivenUp'
    BY <1>0, <2>1 DEF TypeOK, MediationMatchesTurn, UnmediatedOnlyByJoin, JoinedBehindGivenUp
  <2>4. GivenUpIsCancelled'
    BY <1>0, <2>1, TurnAssumption
       DEF TypeOK, MediationMatchesTurn, GivenUpIsCancelled, Supervised, RunningStages,
           AwaitingStages
  <2>5. SettledHasBegun'
    BY <1>0, <2>1 DEF TypeOK, MediationMatchesTurn, SettledHasBegun
  <2> QED BY <2>2, <2>3, <2>4, <2>5 DEF MediationMatchesTurn
<1>9. ASSUME NEW t \in Turn, watchdogRejects(t) PROVE MediationMatchesTurn'
  <2>1. /\ stage[t] \in RunningStages /\ stage' = stage /\ t \in Watchdogged
        /\ settled' = settled \cup {t} /\ endEnterpriseRun(runOf[t])
        /\ verdict' = verdict /\ pending' = pending
        /\ aborted \subseteq aborted' /\ (t \in Managed => t \in aborted')
    BY <1>9 DEF watchdogRejects, cancelOnTimeout
  <2>2. RegistryHoldsCurrent'
    BY <1>0, <2>1, EndKeepsCurrent DEF MediationMatchesTurn
  <2>3. UnmediatedOnlyByJoin' /\ JoinedBehindGivenUp'
    BY <1>0, <2>1 DEF TypeOK, MediationMatchesTurn, UnmediatedOnlyByJoin, JoinedBehindGivenUp
  <2>4. GivenUpIsCancelled'
    BY <2>1 DEF MediationMatchesTurn, GivenUpIsCancelled, Supervised
  <2>5. SettledHasBegun'
    BY <2>1 DEF MediationMatchesTurn, SettledHasBegun, RunningStages, AwaitingStages
  <2> QED BY <2>2, <2>3, <2>4, <2>5 DEF MediationMatchesTurn
<1>10. ASSUME NEW t \in Turn, stop(t) PROVE MediationMatchesTurn'
  BY <1>0, <1>10, MatchKept DEF stop, NotFurther
<1>11. ASSUME NEW t \in Turn, NEW s \in Session, compact(t, s) PROVE MediationMatchesTurn'
  BY <1>0, <1>11, MatchKept DEF compact, NotFurther
<1>12. ASSUME NEW l \in Lane, NEW s \in Session, resetTranscript(l, s)
       PROVE  MediationMatchesTurn'
  BY <1>0, <1>12, MatchKept DEF resetTranscript, NotFurther
<1>13. CASE UNCHANGED vars
  BY <1>0, <1>13, MatchKept DEF vars, NotFurther
<1> QED
  BY <1>1, <1>3, <1>4, <1>5, <1>6, <1>7, <1>8, <1>9, <1>10, <1>11, <1>12, <1>13 DEF Next

(* The registry and the turns agree under every interleaving: no           *)
(* supervised turn leaves its execution behind, and a turn runs unmediated *)
(* only after it joined the begin of a cancelled turn with its run id      *)
(* (beginEnterpriseRun, finishEnterpriseMediation, the abort of            *)
(* runManagedEnterpriseDispatch).                                          *)
THEOREM MediationAgreesWithTurns == Spec => []MediationMatchesTurn
<1>1. Init => MediationMatchesTurn
  BY TurnAssumption
     DEF Init, MediationMatchesTurn, RegistryHoldsCurrent, UnmediatedOnlyByJoin,
         GivenUpIsCancelled, SettledHasBegun, JoinedBehindGivenUp, Supervised
<1> QED BY <1>1, StepMatch, MediationInvariant, PTL DEF Spec

-----------------------------------------------------------------------------
(***************************************************************************)
(* Governance.                                                             *)
(***************************************************************************)

\* A set of naturals with an element has a least one.
LEMMA LeastNatural ==
  ASSUME NEW T, T \subseteq Nat, T # {}
  PROVE  \E x \in T : \A y \in T : x <= y
<1>1. \E x \in T : \A y \in T : ~ (<<y, x>> \in OpToRel(<, Nat))
  BY NatLessThanWellFounded, WFMin
<1>2. ASSUME NEW x \in T, NEW y \in T, ~ (<<y, x>> \in OpToRel(<, Nat))
      PROVE  x <= y
  BY <1>2 DEF OpToRel
<1> QED
  BY <1>1, <1>2

\* One of the matching policies with a given effect is the first.
LEMMA FirstPolicy ==
  ASSUME NEW ps, NEW ms \in SUBSET Nat, NEW effect, \E i \in ms : ps[i].effect = effect
  PROVE  firstOf(ps, ms, effect) \in ms /\ ps[firstOf(ps, ms, effect)].effect = effect
<1> DEFINE T == {i \in ms : ps[i].effect = effect}
<1>1. T \subseteq Nat /\ T # {}
  OBVIOUS
<1>2. PICK m \in T : \A j \in T : m <= j
  <2> HIDE DEF T
  <2> QED
    BY <1>1, LeastNatural
<1>3. \E i \in ms : /\ ps[i].effect = effect
                    /\ \A j \in ms : ps[j].effect = effect => i <= j
  BY <1>2
<1> QED
  BY <1>3 DEF firstOf

\* The policies that match have no verdict if there are none, and else the
\* strictest of theirs.
LEMMA StrictestPolicy ==
  ASSUME NEW ps \in Seq(Policies), NEW ms \in SUBSET (1..Len(ps))
  PROVE  LET d == resolvePolicyDecision(ps, ms)
             effects == {ps[i].effect : i \in ms}
         IN  /\ ms = {} => d = None
             /\ ms # {} =>
                  /\ d \in Decision /\ d # None /\ ~d.omission
                  /\ "deny" \in effects => d.effect = "deny"
                  /\ "deny" \notin effects /\ "require_approval" \in effects =>
                       d.effect = "require_approval"
                  /\ "deny" \notin effects /\ "require_approval" \notin effects =>
                       d.effect \in {"allow", "audit"}
<1> DEFINE effects == {ps[i].effect : i \in ms}
           effect == IF "deny" \in effects THEN "deny"
                     ELSE IF "require_approval" \in effects THEN "require_approval"
                     ELSE IF "allow" \in effects THEN "allow"
                     ELSE "audit"
           first == firstOf(ps, ms, effect)
           d == resolvePolicyDecision(ps, ms)
<1>1. CASE ms = {}
  BY <1>1 DEF resolvePolicyDecision
<1>2. CASE ms # {}
  <2>1. \A i \in ms : /\ ps[i] \in Policy
                      /\ ps[i].effect \in Effects /\ ps[i].onTimeout \in {"allow", "deny"}
    <3>1. \A i \in 1..Len(ps) : ps[i] \in Policies
      OBVIOUS
    <3>2. Policies \subseteq Policy
      BY GovernanceAssumption
    <3> QED
      BY <3>1, <3>2 DEF Policy
  <2>2. effect \in effects /\ effect \in Effects
    BY <1>2, <2>1 DEF Effects
  <2>3. first \in ms
    <3>1. ms \in SUBSET Nat /\ \E i \in ms : ps[i].effect = effect
      BY <2>2
    <3> HIDE DEF effect
    <3> QED
      BY <3>1, FirstPolicy
  <2>4. d = [effect |-> effect, onTimeout |-> ps[first].onTimeout, omission |-> FALSE]
    BY <1>2 DEF resolvePolicyDecision
  <2> HIDE DEF first, d
  <2>5. d \in Decision /\ d.effect = effect /\ ~d.omission
    <3> HIDE DEF effect
    <3> QED
      BY <2>1, <2>2, <2>3, <2>4 DEF Decision
  <2>6. d # None
    BY <2>5, GovernanceAssumption
  <2> QED
    BY <1>2, <2>5, <2>6 DEF d
<1> QED
  BY <1>1, <1>2

\* What a ruling of the code's own is.
LEMMA RulingFields ==
  ASSUME NEW effect \in Effects
  PROVE  /\ ruling(effect) \in Decision /\ ruling(effect).effect = effect
         /\ ruling(effect).onTimeout = "deny" /\ ruling(effect) # None
<1>1. ruling(effect) \in Decision
  BY DEF ruling, Decision
<1> QED
  BY <1>1, GovernanceAssumption DEF ruling

\* The layer for what the scope omits asks or refuses, and fails closed.
LEMMA OmissionFields ==
  ASSUME NEW d, d = None \/ d \in Decision
  PROVE  LET o == omissionDecision(d)
         IN  /\ o \in Decision
             /\ o.effect = IF d # None /\ d.effect = "deny" THEN "deny" ELSE "require_approval"
             /\ o.effect = "require_approval" => o.onTimeout = "deny" /\ o.omission
<1> DEFINE o == omissionDecision(d)
           r == ruling("require_approval")
<1>1. r \in Decision /\ r.effect = "require_approval" /\ r.onTimeout = "deny"
  BY RulingFields DEF Effects
<1>2. CASE d = None \/ d.effect \notin {"deny", "require_approval"}
  <2>1. o = [r EXCEPT !.omission = TRUE]
    BY <1>2 DEF omissionDecision
  <2> HIDE DEF r, o
  <2>2. o \in Decision /\ o.effect = r.effect /\ o.onTimeout = r.onTimeout /\ o.omission
    BY <1>1, <2>1 DEF Decision
  <2> QED
    BY <1>1, <1>2, <2>2 DEF o
<1>3. CASE d # None /\ d.effect = "deny"
  BY <1>3 DEF omissionDecision
<1>4. CASE d # None /\ d.effect = "require_approval"
  <2>1. o = [d EXCEPT !.onTimeout = "deny", !.omission = TRUE]
    BY <1>4 DEF omissionDecision
  <2> HIDE DEF o
  <2>2. o \in Decision /\ o.effect = d.effect /\ o.onTimeout = "deny" /\ o.omission
    BY <1>4, <2>1 DEF Decision
  <2> QED
    BY <1>4, <2>2 DEF o
<1> QED
  BY <1>2, <1>3, <1>4

\* The wall of the statement is the code's early refusals.
LEMMA WallIsRefusal ==
  ASSUME NEW c \in Call
  PROVE  walled(c) <=>
           \/ mcpServerOwningTool(c) /\ plan.mcpGoverned /\ ~mcpAttached(c)
           \/ ontologyScopeViolation(c) = "denied"
           \/ outwardDenies(c)
           \/ c.tool = Carrier /\ ~step.writes
<1>1. mcpServerOwningTool(c) /\ plan.mcpGoverned /\ ~mcpAttached(c) <=>
        c.mcp = "registered" /\ plan.mcpGoverned /\ ~step.attached
  BY DEF mcpServerOwningTool, mcpAttached
<1>2. ontologyScopeViolation(c) = "denied" <=> c.tool \in step.denied
  BY DEF ontologyScopeViolation
<1>3. \A a : a \in covering(c) <=> a \in step.actions /\ c.tool \in Calls[a]
  BY DEF covering, outwardActions
<1>4. covering(c) # {} =>
        (outwardDenies(c) <=> \A b \in step.actions : c.tool \in Calls[b] => b \notin c.fits)
  BY <1>3 DEF outwardDenies, satisfiedOutwardAction
<1>5. covering(c) = {} =>
        (outwardDenies(c) <=>
           mcpAttached(c) /\ \E a \in step.actions : Calls[a] \cap Ops # {})
  BY DEF outwardDenies, outwardActions
<1>6. covering(c) # {} <=> \E a \in step.actions : c.tool \in Calls[a]
  BY <1>3
<1> DEFINE barred == mcpServerOwningTool(c) /\ plan.mcpGoverned /\ ~mcpAttached(c)
           excluded == \/ \E a \in step.actions : c.tool \in Calls[a]
                           /\ \A b \in step.actions : c.tool \in Calls[b] => b \notin c.fits
                       \/ /\ c.mcp = "registered" /\ plan.mcpGoverned
                          /\ \E a \in step.actions : Calls[a] \cap Ops # {}
                          /\ \A a \in step.actions : c.tool \notin Calls[a]
<1>7. ~barred => (outwardDenies(c) <=> excluded)
  <2>1. CASE covering(c) # {}
    BY <1>4, <1>6, <2>1
  <2>2. CASE covering(c) = {}
    BY <1>5, <1>6, <2>2 DEF mcpAttached, mcpServerOwningTool
  <2> QED
    BY <2>1, <2>2
<1>8. ~barred => (excluded => outwardDenies(c))
  BY <1>7
<1>9. walled(c) <=> \/ c.mcp = "registered" /\ plan.mcpGoverned /\ ~step.attached
                    \/ c.tool \in step.denied \/ excluded
                    \/ c.tool = Carrier /\ ~step.writes
  BY DEF walled
<1> HIDE DEF excluded
<1>10. barred <=> c.mcp = "registered" /\ plan.mcpGoverned /\ ~step.attached
  BY <1>1
<1> HIDE DEF barred
<1>11. walled(c) <=> \/ barred \/ ontologyScopeViolation(c) = "denied" \/ outwardDenies(c)
                     \/ c.tool = Carrier /\ ~step.writes
  BY <1>2, <1>7, <1>9, <1>10
<1> QED
  BY <1>11 DEF barred

\* The grant of the statement is what the code's scope lets through.
LEMMA GrantIsScope ==
  ASSUME NEW c \in Call, ontologyScopeViolation(c) # "denied"
  PROVE  granted(c) <=> ontologyScopeViolation(c) = "none" \/ satisfiedOutwardAction(c)
<1>1. satisfiedOutwardAction(c) <=> \E a \in step.actions \cap c.fits : c.tool \in Calls[a]
  BY DEF satisfiedOutwardAction, covering, outwardActions
<1>2. ontologyScopeViolation(c) = "none" <=>
        \/ mcpAttached(c) \/ (plan.explicit /\ c.tool \in Floor)
        \/ c.tool \in step.allowed
        \/ step.allowed = {} /\ ~plan.explicit
  BY DEF ontologyScopeViolation
<1>3. mcpAttached(c) <=> c.mcp = "registered" /\ plan.mcpGoverned /\ step.attached
  BY DEF mcpAttached, mcpServerOwningTool
<1> QED
  BY <1>1, <1>2, <1>3 DEF granted

exempt(c) == plan.tracksSteps /\ isWorkflowControlTool(c)

\* How strict a set of effects is.
strictness(effects) ==
  IF "deny" \in effects THEN 3 ELSE IF "require_approval" \in effects THEN 2 ELSE 1

\* Every call is judged by the strictest of its layers, and what the scope
\* omits is never let through unanswered.
LEMMA CallJudged ==
  ASSUME GovernanceTypeOK, NEW c \in Call
  PROVE  LET v == evaluateEnterpriseToolCall(policies, c)
         IN  /\ v \in Decision
             /\ exempt(c) => v.effect = "allow"
             /\ ~exempt(c) => rank(v.effect) = strictness(votes(c))
             /\ ~exempt(c) /\ ~granted(c) =>
                  \/ v.effect = "deny"
                  \/ v.effect = "require_approval" /\ v.onTimeout = "deny" /\ v.omission
<1> DEFINE ms == {i \in 1..Len(policies) : policyAppliesToToolCall(policies[i], c)}
           effects == {policies[i].effect : i \in ms}
           d == resolvePolicyDecision(policies, ms)
           v == evaluateEnterpriseToolCall(policies, c)
           violation == ontologyScopeViolation(c)
           write == c.tool = Carrier /\ ~step.writes
           barred == mcpServerOwningTool(c) /\ plan.mcpGoverned /\ ~mcpAttached(c)
<1>1. /\ ms = {} => d = None
      /\ ms # {} =>
           /\ d \in Decision /\ d # None /\ ~d.omission
           /\ "deny" \in effects => d.effect = "deny"
           /\ "deny" \notin effects /\ "require_approval" \in effects =>
                d.effect = "require_approval"
           /\ "deny" \notin effects /\ "require_approval" \notin effects =>
                d.effect \in {"allow", "audit"}
  <2>1. policies \in Seq(Policies) /\ ms \in SUBSET (1..Len(policies))
    BY DEF GovernanceTypeOK
  <2> HIDE DEF ms
  <2> QED
    BY <2>1, StrictestPolicy
<1>2. votes(c) = effects \cup (IF walled(c) THEN {"deny"} ELSE {})
                         \cup (IF granted(c) THEN {} ELSE {"require_approval"})
  BY DEF votes
<1>3. effects # {} <=> ms # {}
  OBVIOUS
<1>4. v = IF write THEN ruling("deny")
          ELSE IF exempt(c) THEN ruling("allow")
          ELSE IF barred THEN ruling("deny")
          ELSE IF violation = "denied" \/ outwardDenies(c) THEN ruling("deny")
          ELSE IF violation # "none" /\ ~satisfiedOutwardAction(c) THEN omissionDecision(d)
          ELSE IF d # None THEN d ELSE ruling("allow")
  BY DEF evaluateEnterpriseToolCall, evaluateToolCallGovernance, exempt
<1>5. walled(c) <=> write \/ barred \/ violation = "denied" \/ outwardDenies(c)
  BY WallIsRefusal
<1>6. violation # "denied" => (granted(c) <=> violation = "none" \/ satisfiedOutwardAction(c))
  BY GrantIsScope
<1>7. write => ~exempt(c)
  BY GovernanceAssumption DEF exempt, isWorkflowControlTool
<1>8. /\ ruling("deny") \in Decision /\ ruling("deny").effect = "deny"
      /\ ruling("allow") \in Decision /\ ruling("allow").effect = "allow"
  BY RulingFields DEF Effects
<1>9. LET o == omissionDecision(d)
      IN  /\ o \in Decision
          /\ o.effect = IF d # None /\ d.effect = "deny" THEN "deny" ELSE "require_approval"
          /\ o.effect = "require_approval" => o.onTimeout = "deny" /\ o.omission
  <2>1. d = None \/ d \in Decision
    BY <1>1
  <2> HIDE DEF d
  <2> QED
    BY <2>1, OmissionFields
<1> HIDE DEF ms, effects, d, v, violation, write, barred
<1>10. CASE exempt(c)
  <2>1. v = ruling("allow")
    BY <1>4, <1>7, <1>10
  <2> QED
    BY <1>8, <1>10, <2>1 DEF v
<1>11. CASE ~exempt(c) /\ walled(c)
  <2>1. v = ruling("deny")
    BY <1>4, <1>5, <1>11
  <2>2. "deny" \in votes(c)
    BY <1>2, <1>11
  <2> QED
    BY <1>8, <1>11, <2>1, <2>2 DEF v, rank, strictness
<1>12. CASE ~exempt(c) /\ ~walled(c) /\ ~granted(c)
  <2>1. v = omissionDecision(d)
    BY <1>4, <1>5, <1>6, <1>12
  <2>2. /\ "deny" \in votes(c) <=> "deny" \in effects
        /\ "require_approval" \in votes(c)
    BY <1>2, <1>12
  <2>3. d # None /\ d.effect = "deny" <=> "deny" \in effects
    BY <1>1, <1>3
  <2> QED
    BY <1>9, <1>12, <2>1, <2>2, <2>3 DEF v, rank, strictness
<1>13. CASE ~exempt(c) /\ ~walled(c) /\ granted(c)
  <2>1. v = IF d # None THEN d ELSE ruling("allow")
    BY <1>4, <1>5, <1>6, <1>13
  <2>2. votes(c) = effects
    BY <1>2, <1>13
  <2>3. CASE ms = {}
    BY <1>1, <1>3, <1>8, <1>13, <2>1, <2>2, <2>3 DEF v, rank, strictness
  <2>4. CASE ms # {}
    BY <1>1, <1>13, <2>1, <2>2, <2>4 DEF v, rank, strictness
  <2> QED
    BY <2>3, <2>4
<1> QED
  BY <1>10, <1>11, <1>12, <1>13 DEF v

\* A call of invoke_action that names no action is judged by fewer policies
\* than the same call naming one of the step's actions, and by the same scope.
LEMMA UnnamedIsWeaker ==
  ASSUME GovernanceTypeOK, NEW c \in Call, c.tool = Carrier, c.action = None,
         NEW a \in step.actions
  PROVE  LET n == [c EXCEPT !.action = a]
         IN  /\ n \in Call
             /\ exempt(n) <=> exempt(c)
             /\ votes(c) \subseteq votes(n)
<1> DEFINE n == [c EXCEPT !.action = a]
<1>1. step \in Step /\ None \notin step.actions /\ a \in Actions
  <2>1. step \in Step
    BY GovernanceAssumption DEF GovernanceTypeOK
  <2> QED
    BY <2>1, GovernanceAssumption DEF Step
<1>2. /\ n \in [tool : Tools, mcp : {"none", "plugin", "registered"},
                action : Actions \cup {None}, fits : SUBSET Actions]
      /\ n.tool = c.tool /\ n.mcp = c.mcp /\ n.fits = c.fits /\ n.action = a
  BY <1>1 DEF Call
<1>3. n \in Call
  <2>1. n.tool = Carrier /\ \A b \in n.fits : n.tool \in Calls[b]
    BY <1>2 DEF Call
  <2> HIDE DEF n
  <2> QED
    BY <1>2, <2>1 DEF Call
<1> HIDE DEF n
<1>4. (walled(n) <=> walled(c)) /\ (granted(n) <=> granted(c))
  BY <1>2 DEF walled, granted
<1>5. exempt(n) <=> exempt(c)
  BY <1>2 DEF exempt, isWorkflowControlTool
<1>6. ASSUME NEW p, policyAppliesToToolCall(p, c)
      PROVE  policyAppliesToToolCall(p, n)
  <2>1. p.actions = {}
    BY <1>1, <1>6 DEF policyAppliesToToolCall, actionSelectorMatches
  <2> QED
    BY <1>2, <1>6, <2>1 DEF policyAppliesToToolCall
<1>7. votes(c) \subseteq votes(n)
  BY <1>4, <1>6 DEF votes
<1> QED
  BY <1>3, <1>5, <1>7 DEF n

\* What was asked is answered by the policies and the step of that moment.
GovernanceInv ==
  /\ GovernanceTypeOK
  /\ decision # None => decision = evaluate(policies, asked)

LEMMA KnowledgeAndStartJudged ==
  ASSUME GovernanceTypeOK
  PROVE  /\ \A f : evaluateKnowledgeRetrievalGovernance(policies, f) \in Decision
         /\ evaluateRunStartGovernance(policies) \in Decision
<1>1. ruling("allow") \in Decision
  BY RulingFields DEF Effects
<1>2. \A ms \in SUBSET (1..Len(policies)) :
        \/ resolvePolicyDecision(policies, ms) = None
        \/ resolvePolicyDecision(policies, ms) \in Decision
  <2>1. policies \in Seq(Policies)
    BY DEF GovernanceTypeOK
  <2> QED
    BY <2>1, StrictestPolicy
<1>3. ASSUME NEW f PROVE evaluateKnowledgeRetrievalGovernance(policies, f) \in Decision
  <2> DEFINE ms == {i \in 1..Len(policies) : policyAppliesToKnowledge(policies[i], f)}
  <2>1. ms \in SUBSET (1..Len(policies))
    OBVIOUS
  <2>2. evaluateKnowledgeRetrievalGovernance(policies, f) =
          IF resolvePolicyDecision(policies, ms) = None THEN ruling("allow")
          ELSE resolvePolicyDecision(policies, ms)
    BY DEF evaluateKnowledgeRetrievalGovernance
  <2> HIDE DEF ms
  <2> QED
    BY <1>1, <1>2, <2>1, <2>2
<1>4. evaluateRunStartGovernance(policies) \in Decision
  <2> DEFINE ms == {i \in 1..Len(policies) : policyAppliesToRun(policies[i])}
  <2>1. ms \in SUBSET (1..Len(policies))
    OBVIOUS
  <2>2. evaluateRunStartGovernance(policies) =
          IF resolvePolicyDecision(policies, ms) = None THEN ruling("allow")
          ELSE resolvePolicyDecision(policies, ms)
    BY DEF evaluateRunStartGovernance
  <2> HIDE DEF ms
  <2> QED
    BY <1>1, <1>2, <2>1, <2>2
<1> QED
  BY <1>3, <1>4

LEMMA GovernanceInitial == GovernanceInit => GovernanceInv
<1> SUFFICES ASSUME GovernanceInit PROVE GovernanceInv
  OBVIOUS
<1>1. <<>> \in Seq(Policies) /\ Len(<<>>) = 0 /\ MaxPolicies \in Nat
  BY GovernanceAssumption
<1> QED
  BY <1>1 DEF GovernanceInit, GovernanceInv, GovernanceTypeOK

LEMMA GovernanceStep ==
  GovernanceInv /\ [GovernanceNext]_governanceVars => GovernanceInv'
<1> SUFFICES ASSUME GovernanceInv, [GovernanceNext]_governanceVars
             PROVE  GovernanceInv'
  OBVIOUS
<1>1. ASSUME NEW p \in Policies, declarePolicy(p) PROVE GovernanceInv'
  <2>1. /\ policies \in Seq(Policies) /\ Len(policies) < MaxPolicies /\ MaxPolicies \in Nat
        /\ policies' = Append(policies, p)
    BY <1>1, GovernanceAssumption DEF GovernanceInv, GovernanceTypeOK, declarePolicy
  <2>2. policies' \in Seq(Policies) /\ Len(policies') <= MaxPolicies
    BY <2>1
  <2> QED
    BY <1>1, <2>2 DEF GovernanceInv, GovernanceTypeOK, declarePolicy
<1>2. ASSUME NEW q \in Question, ask(q), evaluate(policies, q) \in Decision
      PROVE  GovernanceInv'
  <2>1. q # None /\ decision' # None
    BY <1>2, GovernanceAssumption DEF ask
  <2>2. decision' = evaluate(policies, q) /\ asked' = q
        /\ UNCHANGED <<plan, step, policies>>
    BY <1>2 DEF ask
  <2>3. GovernanceTypeOK'
    BY <1>2, <2>1, <2>2 DEF GovernanceInv, GovernanceTypeOK
  <2>4. decision' = evaluate(policies, asked)'
    BY <2>2 DEF evaluate, evaluateEnterpriseToolCall, evaluateToolCallGovernance,
                evaluateKnowledgeRetrievalGovernance, evaluateRunStartGovernance,
                policyAppliesToToolCall, policyAppliesToKnowledge, policyAppliesToRun,
                actionSelectorMatches, ontologyScopeViolation, outwardDenies,
                satisfiedOutwardAction, covering, outwardActions, mcpAttached
  <2> QED
    BY <2>3, <2>4 DEF GovernanceInv
<1>3. ASSUME NEW c \in Call, ask([kind |-> "call", of |-> c]) PROVE GovernanceInv'
  <2> DEFINE q == [kind |-> "call", of |-> c]
  <2>1. q \in Question
    BY DEF Question
  <2>2. evaluate(policies, q) = evaluateEnterpriseToolCall(policies, c)
    BY DEF evaluate
  <2>3. evaluate(policies, q) \in Decision
    BY <2>2, CallJudged DEF GovernanceInv
  <2> HIDE DEF q
  <2>4. ask(q)
    BY <1>3 DEF q
  <2> QED
    BY <1>2, <2>1, <2>3, <2>4
<1>4. ASSUME NEW f \in Foundations, ask([kind |-> "knowledge", of |-> f]) PROVE GovernanceInv'
  <2> DEFINE q == [kind |-> "knowledge", of |-> f]
  <2>1. q \in Question
    BY DEF Question
  <2>2. evaluate(policies, q) = evaluateKnowledgeRetrievalGovernance(policies, f)
    BY DEF evaluate
  <2>3. evaluate(policies, q) \in Decision
    BY <2>2, KnowledgeAndStartJudged DEF GovernanceInv
  <2> HIDE DEF q
  <2>4. ask(q)
    BY <1>4 DEF q
  <2> QED
    BY <1>2, <2>1, <2>3, <2>4
<1>5. CASE ask([kind |-> "start", of |-> None])
  <2> DEFINE q == [kind |-> "start", of |-> None]
  <2>1. q \in Question
    BY DEF Question
  <2>2. evaluate(policies, q) = evaluateRunStartGovernance(policies)
    BY DEF evaluate
  <2>3. evaluate(policies, q) \in Decision
    BY <2>2, KnowledgeAndStartJudged DEF GovernanceInv
  <2> HIDE DEF q
  <2>4. ask(q)
    BY <1>5 DEF q
  <2> QED
    BY <1>2, <2>1, <2>3, <2>4
<1>6. CASE UNCHANGED governanceVars
  BY <1>6 DEF governanceVars, GovernanceInv, GovernanceTypeOK,
              evaluate, evaluateEnterpriseToolCall, evaluateToolCallGovernance,
              evaluateKnowledgeRetrievalGovernance, evaluateRunStartGovernance,
              policyAppliesToToolCall, policyAppliesToKnowledge, policyAppliesToRun,
              actionSelectorMatches, ontologyScopeViolation, outwardDenies,
              satisfiedOutwardAction, covering, outwardActions, mcpAttached
<1> QED
  BY <1>1, <1>3, <1>4, <1>5, <1>6 DEF GovernanceNext

LEMMA GovernanceInvariant == GovernanceSpec => []GovernanceInv
<1> QED
  BY GovernanceInitial, GovernanceStep, PTL DEF GovernanceSpec

\* An answered call was judged by evaluateEnterpriseToolCall.
LEMMA AnsweredCall ==
  ASSUME GovernanceInv, answered("call")
  PROVE  asked.of \in Call /\ decision = evaluateEnterpriseToolCall(policies, asked.of)
<1>1. asked \in Question /\ asked.kind = "call"
  BY DEF GovernanceInv, GovernanceTypeOK, answered
<1>2. asked.of \in Call
  BY <1>1 DEF Question
<1> QED
  BY <1>1, <1>2 DEF GovernanceInv, answered, evaluate

\* Every question has one answer, and a call's is the strictest that its step
\* and the policies give, in whatever order they are declared, for every tool
\* set, work-map and configuration; only the run's own complete_step is above
\* them (resolvePolicyDecision, evaluateToolCallGovernance).
THEOREM TheStrictestDecides == GovernanceSpec => []VerdictIsStrictest
<1>1. GovernanceInv => VerdictIsStrictest
  <2> SUFFICES ASSUME GovernanceInv PROVE VerdictIsStrictest
    OBVIOUS
  <2>1. GovernanceTypeOK
    BY DEF GovernanceInv
  <2>2. ASSUME answered("call")
        PROVE  LET c == asked.of
               IN IF plan.tracksSteps /\ c.tool = Control /\ c.mcp = "none"
                  THEN decision.effect = "allow"
                  ELSE rank(decision.effect) = strictness(votes(c))
    BY <2>1, <2>2, AnsweredCall, CallJudged DEF exempt, isWorkflowControlTool
  <2> QED
    BY <2>1, <2>2 DEF VerdictIsStrictest, strictness
<1> QED
  BY <1>1, GovernanceInvariant, PTL

\* What the step does not grant is refused or asked about, and an unanswered
\* prompt refuses it, whatever the policies say (omissionDecision).
THEOREM OmissionIsRefused == GovernanceSpec => []OmissionFailsClosed
<1>1. GovernanceInv => OmissionFailsClosed
  <2> SUFFICES ASSUME GovernanceInv, answered("call"), ~granted(asked.of), ~exempt(asked.of)
               PROVE  \/ decision.effect = "deny"
                      \/ /\ decision.effect = "require_approval"
                         /\ decision.onTimeout = "deny"
                         /\ decision.omission
    BY DEF OmissionFailsClosed, exempt
  <2>1. GovernanceTypeOK
    BY DEF GovernanceInv
  <2> QED
    BY <2>1, AnsweredCall, CallJudged
<1> QED
  BY <1>1, GovernanceInvariant, PTL

\* The verdict before the hooks refuses nothing they may complete: naming an
\* action only ever adds policies (actionSelectorMatches).
THEOREM UnnamedIsNotStricter == GovernanceSpec => []UnnamedActionWaits
<1>1. GovernanceInv => UnnamedActionWaits
  <2> SUFFICES ASSUME GovernanceInv, answered("call"),
                      asked.of.tool = Carrier, asked.of.action = None,
                      NEW a \in step.actions
               PROVE  rank(decision.effect) <=
                        rank(evaluateEnterpriseToolCall(policies, [asked.of EXCEPT !.action = a]).effect)
    BY DEF UnnamedActionWaits
  <2> DEFINE c == asked.of
             n == [c EXCEPT !.action = a]
             x == evaluateEnterpriseToolCall(policies, c)
             y == evaluateEnterpriseToolCall(policies, n)
  <2>1. GovernanceTypeOK /\ c \in Call /\ decision = x
    BY AnsweredCall DEF GovernanceInv
  <2>2. /\ n \in Call /\ (exempt(n) <=> exempt(c))
        /\ votes(c) \subseteq votes(n)
    <3> HIDE DEF c
    <3>1. c.tool = Carrier /\ c.action = None
      BY DEF c
    <3> QED
      BY <2>1, <3>1, UnnamedIsWeaker
  <2> HIDE DEF c, n
  <2>3. /\ exempt(c) => x.effect = "allow"
        /\ ~exempt(c) => rank(x.effect) = strictness(votes(c))
    BY <2>1, CallJudged
  <2>4. /\ exempt(n) => y.effect = "allow"
        /\ ~exempt(n) => rank(y.effect) = strictness(votes(n))
    BY <2>1, <2>2, CallJudged
  <2> HIDE DEF x, y
  <2>5. strictness(votes(c)) <= strictness(votes(n))
    BY <2>2 DEF strictness
  <2>6. rank(x.effect) <= rank(y.effect)
    <3>1. CASE exempt(c)
      BY <2>2, <2>3, <2>4, <3>1 DEF rank
    <3>2. CASE ~exempt(c)
      BY <2>2, <2>3, <2>4, <2>5, <3>2
    <3> QED
      BY <3>1, <3>2
  <2> QED
    BY <2>1, <2>6 DEF y, n, c
<1> QED
  BY <1>1, GovernanceInvariant, PTL
=============================================================================
