------------------------------ MODULE ToolGate ------------------------------
(***************************************************************************)
(* The gate every tool call of a mediated run passes                       *)
(* (src/agents/agent-tools.before-tool-call.ts and the verdict of          *)
(* src/enterprise/runtime.ts): a first verdict, the plugin hook chain, the *)
(* verdict revised on the chain's parameters, the human approval, and the  *)
(* release.  All calls carry one run id; run ids recur, so the execution   *)
(* registered under it may end, or be replaced, during every await.        *)
(*                                                                         *)
(* A call is made by one of four callers.  "inline" and "report" execute   *)
(* the tool when the gate returns; "native" and "defer" (the codex         *)
(* approval bridge, extensions/codex/src/app-server/approval-bridge.ts)    *)
(* hold it until their own approval is answered.  An answer is "approved"  *)
(* or "denied": a timeout counts as one of them by the policy's            *)
(* timeoutBehavior, anything else that is not an allow as "denied".        *)
(***************************************************************************)
EXTENDS Integers, Sequences, FiniteSets

CONSTANTS Call, Node, Params,
          Policies,       \* the policies a run may have: <<node, params>> -> effect
          Outward,        \* the <<node, params>> that an outward action declares
          MaxExecution    \* bound: executions under the run id

Effects == {"silent", "allow", "deny", "approve", "fault"}

ASSUME GateAssumption ==
  /\ Policies \subseteq [Node \X Params -> Effects]
  /\ Outward \subseteq Node \X Params
  /\ MaxExecution \in Nat
  /\ Policies # {} /\ Node # {} /\ Params # {}

AnyParams == CHOOSE p \in Params : TRUE

VARIABLES active,    \* the execution registered under the run id, 0 if none
          started,   \* executions registered so far
          run,       \* the plan of each: mode, policies and active node
          call,      \* the calls in the gate
          trail      \* what each call made the sinks write, and into which execution

vars == <<active, started, run, call, trail>>

Callers == {"inline", "report", "native", "defer"}

RunRecord == [mode : {"observe", "enforce"}, policy : Policies, node : Node]

CallRecord ==
  [pc : {"idle", "loop", "chain", "approval", "answered", "held", "released", "blocked"},
   caller : Callers,
   execution : 0 .. MaxExecution,            \* enterpriseExecutionId
   original : Params,                        \* what the caller asked for
   params : Params, approved : Params,       \* after the chain; after its deferral
   gate : {"none", "observe", "enforce"},    \* mode of the first verdict
   node : Node,                              \* nodeId of the revised verdict
   deferral : {"none", "plugin", "enterprise"},
   gated : BOOLEAN,                          \* the deferral carries the gate's finalizers
   lifecycle : {"pending", "settled", "cancelled"},
   finalizer : {"none", "evaluate", "approval"},   \* finalizeRelease
   answer : {"none", "approved", "denied", "deferred"},
   asked : Nat, notified : Nat]              \* approvals opened; onResolution calls

Written == [execution : 0 .. MaxExecution,
            kind : {"decision", "denial", "fault", "approved", "denied", "dispatched"}]

TypeOK ==
  /\ active \in 0 .. MaxExecution
  /\ started \in 0 .. MaxExecution
  /\ run \in [1 .. MaxExecution -> RunRecord]
  /\ call \in [Call -> CallRecord]
  /\ trail \in [Call -> Seq(Written)]

Init ==
  /\ active = 0 /\ started = 0
  /\ run = [x \in 1 .. MaxExecution |-> [mode |-> "observe", policy |-> CHOOSE q \in Policies : TRUE,
                                         node |-> CHOOSE n \in Node : TRUE]]
  /\ call = [c \in Call |->
       [pc |-> "idle", caller |-> "inline", execution |-> 0,
        original |-> AnyParams, params |-> AnyParams, approved |-> AnyParams,
        gate |-> "none", node |-> CHOOSE n \in Node : TRUE,
        deferral |-> "none", gated |-> FALSE, lifecycle |-> "pending",
        finalizer |-> "none", answer |-> "none", asked |-> 0, notified |-> 0]]
  /\ trail = [c \in Call |-> <<>>]

-----------------------------------------------------------------------------
Native(x) == x.caller \in {"native", "defer"}

(* enterpriseRunIsCurrent: the execution the call captured is the one      *)
(* registered now, or there was none and there still is none.              *)
isCurrent(x) == x.execution = active

(* evaluateEnterpriseToolCall against the registered run.                  *)
effect(p) == run[active].policy[<<run[active].node, p>>]
enforcing == active # 0 /\ run[active].mode = "enforce"
refuses(p) == enforcing /\ effect(p) \in {"deny", "fault"}
requiresApproval(p) == enforcing /\ effect(p) = "approve"

wrote(kind) == <<[execution |-> active, kind |-> kind]>>

(* What the evaluation writes.  A refusal and a fault always; another      *)
(* decision if asked to record, unless it is a silent default or waits for *)
(* an approval; "dispatched" if the call is released to an outward tool.   *)
dispatches(p) ==
  /\ active # 0 /\ <<run[active].node, p>> \in Outward
  /\ effect(p) \notin {"deny", "fault"} /\ ~requiresApproval(p)

evaluationWrites(p, record, released) ==
  IF active = 0 THEN <<>>
  ELSE (IF refuses(p) THEN wrote("denial")
        ELSE IF effect(p) = "fault" THEN wrote("fault")
        ELSE IF record /\ effect(p) # "silent" /\ ~requiresApproval(p) THEN wrote("decision")
        ELSE <<>>)
       \o (IF released /\ dispatches(p) THEN wrote("dispatched") ELSE <<>>)

blocked(x) == [x EXCEPT !.pc = "blocked"]

(* cancelDeferredPluginToolApproval on a deferral the caller will not see. *)
cancelled(x) ==
  IF x.deferral # "none" /\ x.lifecycle = "pending"
  THEN [x EXCEPT !.lifecycle = "cancelled", !.notified = x.notified + 1] ELSE x

(* The outcome reaches the caller: executed now, or held.                  *)
returned(x) == [x EXCEPT !.pc = IF Native(x) THEN "held" ELSE "released"]

-----------------------------------------------------------------------------
(* The environment: runs register, replacing what was there, and end, and  *)
(* the step cursor moves.  A step tool runs in a batch of its own, so      *)
(* never while an inline call of the run is in the gate.                   *)
registerRun(mode, q, n) ==
  /\ started < MaxExecution
  /\ active' = started + 1 /\ started' = started + 1
  /\ run' = [run EXCEPT ![started + 1] = [mode |-> mode, policy |-> q, node |-> n]]
  /\ UNCHANGED <<call, trail>>

endRun ==
  /\ active # 0
  /\ active' = 0
  /\ UNCHANGED <<started, run, call, trail>>

InGate(x) == x.pc \notin {"idle", "released", "blocked"}

moveStep(n) ==
  /\ active # 0 /\ run[active].node # n
  /\ \A c \in Call : InGate(call[c]) => Native(call[c])
  /\ run' = [run EXCEPT ![active].node = n]
  /\ UNCHANGED <<active, started, call, trail>>

(* runBeforeToolCallHook captures the execution, then awaits the loop      *)
(* detector, which may veto.                                               *)
begin(c, caller, p) ==
  /\ call[c].pc = "idle"
  /\ call' = [call EXCEPT ![c] = [call[c] EXCEPT !.pc = "loop", !.caller = caller,
       !.execution = active, !.original = p, !.params = p, !.approved = p]]
  /\ UNCHANGED <<active, started, run, trail>>

loopVeto(c) ==
  /\ call[c].pc = "loop"
  /\ call' = [call EXCEPT ![c] = blocked(call[c])]
  /\ UNCHANGED <<active, started, run, trail>>

(* The first verdict.  Without a current run an enforced call is refused   *)
(* and any other goes on ungoverned.                                       *)
firstGate(c) ==
  LET x == call[c]
  IN  /\ x.pc = "loop"
      /\ IF isCurrent(x)
         THEN /\ call' = [call EXCEPT ![c] =
                   IF refuses(x.params) THEN blocked(x)
                   ELSE [x EXCEPT !.pc = "chain",
                                  !.gate = IF active = 0 THEN "none" ELSE run[active].mode]]
              /\ trail' = [trail EXCEPT ![c] = trail[c] \o evaluationWrites(x.params, FALSE, FALSE)]
         ELSE /\ call' = [call EXCEPT ![c] =
                   IF x.execution # 0 /\ run[x.execution].mode = "enforce"
                   THEN blocked(x) ELSE [x EXCEPT !.pc = "chain"]]
              /\ UNCHANGED trail
      /\ UNCHANGED <<active, started, run>>

(* runBeforeToolCallChain answers: a veto, parameters, or, for a deferring *)
(* caller, an approval of a plugin's left open.                            *)
chainAnswer(x, o, p, q) ==
  [x EXCEPT !.params = p, !.approved = q,
            !.deferral = IF o = "deferred" THEN "plugin" ELSE "none",
            !.asked = IF o = "deferred" THEN x.asked + 1 ELSE x.asked]

chainCanAnswer(x, o, p, q) ==
  /\ x.pc = "chain"
  /\ o = "deferred" => x.caller = "defer"
  /\ o # "deferred" => p = q

outlived(x) == ~isCurrent(x)

(* The run ended or was replaced during the chain.                         *)
chainOutlivesRun(c, o, p, q) ==
  LET x == chainAnswer(call[c], o, p, q)
  IN  /\ chainCanAnswer(call[c], o, p, q) /\ outlived(x)
      /\ call' = [call EXCEPT ![c] =
           IF x.gate = "enforce" \/ o = "blocked"
           THEN blocked(cancelled(x)) ELSE returned(x)]
      /\ UNCHANGED <<active, started, run, trail>>

recordsRevised(o) == o # "deferred"

releasesNow(o, x) == o = "ok" /\ ~Native(x)

(* The run is still the same: the verdict is revised on the chain's        *)
(* parameters, even for a call the chain vetoed.  The cases below continue *)
(* from it.                                                                *)
revise(c, o, p, q, more) ==
  LET x == chainAnswer(call[c], o, p, q)
  IN  /\ chainCanAnswer(call[c], o, p, q) /\ ~outlived(x)
      /\ trail' = [trail EXCEPT ![c] =
           trail[c] \o evaluationWrites(p, recordsRevised(o), releasesNow(o, x)) \o more]
      /\ UNCHANGED <<active, started, run>>

chainBlocks(c, p) ==
  /\ revise(c, "blocked", p, p, <<>>)
  /\ call' = [call EXCEPT ![c] = blocked(chainAnswer(call[c], "blocked", p, p))]

refusal(x) == blocked(cancelled(x))

revisedRefuses(c, o, p, q) ==
  /\ o # "blocked" /\ refuses(p)
  /\ revise(c, o, p, q, <<>>)
  /\ call' = [call EXCEPT ![c] = refusal(chainAnswer(call[c], o, p, q))]

(* No approval needed, or no run: a native caller gets a release           *)
(* finalizer, and a deferral is given the gate's finalizers.               *)
revisedAllows(c, o, p, q) ==
  /\ o # "blocked" /\ ~refuses(p) /\ ~requiresApproval(p)
  /\ revise(c, o, p, q, <<>>)
  /\ call' = [call EXCEPT ![c] =
       LET x == chainAnswer(call[c], o, p, q)
       IN  IF active = 0 THEN IF x.gate = "enforce" THEN refusal(x) ELSE returned(x)
           ELSE returned([x EXCEPT !.finalizer = IF Native(x) THEN "evaluate" ELSE "none",
                                   !.gated = x.deferral # "none",
                                   !.node = run[active].node])]

(* A plugin's deferral and the enterprise approval cannot be composed.     *)
approvalConflict(c, p, q) ==
  /\ requiresApproval(p)
  /\ revise(c, "deferred", p, q, wrote("denied"))
  /\ call' = [call EXCEPT ![c] = refusal(chainAnswer(call[c], "deferred", p, q))]

(* applyEnterpriseApproval up to its await: a reporting caller is refused  *)
(* with the reason, a deferring one gets a deferral, the others ask.       *)
openApproval(c, p) ==
  LET x == [chainAnswer(call[c], "ok", p, p) EXCEPT !.asked = call[c].asked + 1,
                                                    !.node = run[active].node]
  IN  /\ requiresApproval(p)
      /\ revise(c, "ok", p, p, IF x.caller = "report" THEN wrote("denied") ELSE <<>>)
      /\ call' = [call EXCEPT ![c] =
           IF x.caller = "report"
           THEN [x EXCEPT !.pc = "answered", !.answer = "denied", !.notified = x.notified + 1]
           ELSE IF x.caller = "defer"
           THEN [x EXCEPT !.pc = "answered", !.answer = "deferred",
                          !.deferral = "enterprise", !.gated = TRUE]
           ELSE [x EXCEPT !.pc = "approval"]]

-----------------------------------------------------------------------------
outwardVerdict(x) == <<x.node, x.params>> \in Outward

(* Mutant: the callback writes without looking for the run.                *)
resolutionWrites_AnyRun(x, a) == wrote(a)

(* onResolution of the enterprise approval.                                *)
resolutionWrites(x, a) ==
  IF ~isCurrent(x) THEN <<>>
  ELSE wrote(a) \o (IF a = "approved" /\ ~Native(x) /\ outwardVerdict(x)
                    THEN wrote("dispatched") ELSE <<>>)

gatewayAnswers(c, a) ==
  LET x == call[c]
  IN  /\ x.pc = "approval"
      /\ call' = [call EXCEPT ![c] =
           [x EXCEPT !.pc = "answered", !.answer = a, !.notified = x.notified + 1]]
      /\ trail' = [trail EXCEPT ![c] = trail[c] \o resolutionWrites(x, a)]
      /\ UNCHANGED <<active, started, run>>

answerStands(x) == isCurrent(x) /\ x.answer # "denied"

(* applyEnterpriseApproval after its await.                                *)
afterApproval(c) ==
  LET x == call[c]
  IN  /\ x.pc = "answered"
      /\ call' = [call EXCEPT ![c] =
           IF answerStands(x)
           THEN returned([x EXCEPT !.finalizer = IF Native(x) THEN "approval" ELSE "none"])
           ELSE refusal(x)]
      /\ UNCHANGED <<active, started, run, trail>>

-----------------------------------------------------------------------------
(* A held call is settled once by its caller (settlePolicyRelease).        *)

(* Mutant: the parameters are judged, the run is not looked up again.      *)
judged_AnyRun(x, p) == ~refuses(p) /\ ~requiresApproval(p)

(* createEnterpriseToolReleaseFinalizer and the finalize of a plugin's     *)
(* deferral judge the parameters again, at the step active then.           *)
judged(x, p) == isCurrent(x) /\ ~refuses(p) /\ ~requiresApproval(p)

(* Mutant: an approval given at another step is good for this one.         *)
approvalHolds_AnyStep(x) == isCurrent(x)

(* createApprovedEnterpriseToolReleaseFinalizer: only at the step that was *)
(* approved.                                                               *)
approvalHolds(x) == isCurrent(x) /\ run[active].node = x.node

deferralLets(x) == x.deferral = "plugin" /\ x.gated => judged(x, x.approved)

finalizerLets(x) ==
  /\ x.finalizer = "evaluate" => judged(x, x.params)
  /\ x.finalizer = "approval" => approvalHolds(x)

(* Mutant: the deferral's finalizer attests what the release finalizer     *)
(* will attest.                                                            *)
finalizeWrites_Released(x, p) ==
  IF x.deferral = "plugin" /\ x.gated /\ isCurrent(x)
  THEN evaluationWrites(p, TRUE, TRUE) \o (IF requiresApproval(p) THEN wrote("denied") ELSE <<>>)
  ELSE <<>>

(* finalizeApprovedParams or finalizeRejectedParams of a plugin's          *)
(* deferral.                                                               *)
finalizeWrites(x, p) ==
  IF x.deferral = "plugin" /\ x.gated /\ isCurrent(x)
  THEN evaluationWrites(p, TRUE, FALSE) \o (IF requiresApproval(p) THEN wrote("denied") ELSE <<>>)
  ELSE <<>>

(* finalizeRelease(true).                                                  *)
finalizerWrites(x) ==
  IF x.finalizer = "evaluate" /\ isCurrent(x) THEN evaluationWrites(x.params, FALSE, TRUE)
  ELSE IF x.finalizer = "approval" /\ approvalHolds(x) /\ outwardVerdict(x)
  THEN wrote("dispatched") ELSE <<>>

notifyWrites(x, a) == IF x.deferral = "enterprise" THEN resolutionWrites(x, a) ELSE <<>>

settledDeferral(x) ==
  IF x.deferral = "none" THEN x ELSE [x EXCEPT !.lifecycle = "settled", !.notified = x.notified + 1]

(* The caller approves: never parameters the chain rewrote.                *)
settleApproved(c) ==
  LET x == call[c]
      lets == deferralLets(x) /\ finalizerLets(x)
  IN  /\ x.pc = "held" /\ x.params = x.original /\ x.approved = x.original
      /\ call' = [call EXCEPT ![c] =
           [settledDeferral(x) EXCEPT !.pc = IF lets THEN "released" ELSE "blocked"]]
      /\ trail' = [trail EXCEPT ![c] =
           trail[c] \o finalizeWrites(x, x.approved)
             \o (IF deferralLets(x) THEN finalizerWrites(x) ELSE <<>>)
             \o notifyWrites(x, IF lets THEN "approved" ELSE "denied")]
      /\ UNCHANGED <<active, started, run>>

(* The caller denies, cannot ask, is cancelled, answers with a decision    *)
(* the approval does not take, or saw rewritten parameters.                *)
settleDenied(c) ==
  LET x == call[c]
  IN  /\ x.pc = "held"
      /\ call' = [call EXCEPT ![c] = blocked(settledDeferral(x))]
      /\ trail' = [trail EXCEPT ![c] = trail[c] \o finalizeWrites(x, x.params) \o notifyWrites(x, "denied")]
      /\ UNCHANGED <<active, started, run>>

gateStep(c) ==
  \/ \E caller \in Callers, p \in Params : begin(c, caller, p)
  \/ loopVeto(c) \/ firstGate(c)
  \/ \E p \in Params :
       \/ chainBlocks(c, p) \/ openApproval(c, p)
       \/ \E q \in Params :
            \/ approvalConflict(c, p, q)
            \/ \E o \in {"ok", "deferred", "blocked"} :
                 chainOutlivesRun(c, o, p, q) \/ revisedRefuses(c, o, p, q) \/ revisedAllows(c, o, p, q)
  \/ \E a \in {"approved", "denied"} : gatewayAnswers(c, a)
  \/ afterApproval(c) \/ settleApproved(c) \/ settleDenied(c)

Next ==
  \/ \E mode \in {"observe", "enforce"}, q \in Policies, n \in Node : registerRun(mode, q, n)
  \/ endRun
  \/ \E n \in Node : moveStep(n)
  \/ \E c \in Call : gateStep(c)

Spec == Init /\ [][Next]_vars

-----------------------------------------------------------------------------
Ended(c) == call[c].pc \in {"released", "blocked"}
Releases(c) == call[c].pc # "released" /\ call'[c].pc = "released"
Count(t, kinds) == Cardinality({i \in 1 .. Len(t) : t[i].kind \in kinds})
Governed(c) == call[c].execution # 0 /\ run[call[c].execution].mode = "enforce"

(* A call that began under an enforced run is released only while that     *)
(* very execution is registered, whatever was awaited in between           *)
(* (enterpriseRunIsCurrent after the chain, the approval and at release).  *)
ReleasedUnderOwnRun ==
  [][\A c \in Call : Releases(c) /\ Governed(c) => active = call[c].execution]_vars

(* What is released under an enforced run is what the policy of the step   *)
(* active at that moment lets through: never denied, and approved by a     *)
(* human for these parameters at this step where the policy asks for it.   *)
ReleaseObeysPolicy ==
  [][\A c \in Call : Releases(c) /\ Governed(c) =>
       LET x == call'[c]
           e == effect(x.params)
       IN  /\ e \notin {"deny", "fault"}
           /\ e = "approve" => /\ x.node = run[active].node
                               /\ \/ x.answer = "approved"
                                  \/ x.answer = "deferred" /\ x.lifecycle = "settled"]_vars

(* Nothing a call does is written into the trail of another execution,     *)
(* however late it comes, and nothing at all if it began without one.      *)
OwnTrail ==
  \A c \in Call : \A i \in 1 .. Len(trail[c]) :
    trail[c][i].execution = call[c].execution /\ call[c].execution # 0

(* An outward call released under its own run is attested exactly once,    *)
(* and nothing else is (released && !finalizeRelease, record: false).      *)
ReleaseAttested ==
  [][\A c \in Call : Releases(c) /\ call[c].execution # 0 /\ active = call[c].execution =>
       Count(trail'[c], {"dispatched"}) =
         IF /\ <<run[active].node, call'[c].params>> \in Outward
            /\ effect(call'[c].params) \notin {"deny", "fault"}
         THEN 1 ELSE 0]_vars

(* The trail of a blocked call claims no dispatch, unless the run ended    *)
(* between the approval's callback and the gate's last look at it.         *)
BlockedNotAttested ==
  \A c \in Call :
    call[c].pc = "blocked" /\ call[c].execution = active => Count(trail[c], {"dispatched"}) = 0

(* Every approval opened is resolved exactly once: its callback runs when  *)
(* the call ends, released or blocked, and never twice                     *)
(* (cancelDeferredPluginToolApproval on every refusing path).              *)
CallbackOnce ==
  \A c \in Call :
    /\ call[c].notified <= call[c].asked /\ call[c].asked <= 1
    /\ Ended(c) => call[c].notified = call[c].asked

(* A call is judged into the trail at most once before it is refused, and  *)
(* one approval has one outcome there.                                     *)
JudgedOnce ==
  \A c \in Call : Count(trail[c], {"decision"}) <= 1 /\ Count(trail[c], {"approved", "denied"}) <= 1

(* Executions are numbered as they register.                               *)
RegistryOK == active <= started /\ \A c \in Call : call[c].execution <= started

(* What a call's place in the gate says about its verdict and its          *)
(* approval.                                                               *)
CallOK(x) ==
  LET governed == x.execution # 0 /\ run[x.execution].mode = "enforce"
      toApprove == governed /\ run[x.execution].policy[<<x.node, x.params>>] = "approve"
  IN  /\ x.pc \in {"idle", "loop"} => x.gate = "none"
      /\ x.pc \in {"idle", "loop", "chain"} =>
           x.deferral = "none" /\ x.asked = 0 /\ x.notified = 0 /\ x.answer = "none" /\ x.finalizer = "none"
           /\ ~x.gated
      /\ x.pc = "chain" => (governed <=> x.gate = "enforce")
      /\ x.pc = "approval" => toApprove /\ x.deferral = "none" /\ x.asked = 1 /\ x.notified = 0
      /\ x.pc = "answered" =>
           /\ toApprove /\ x.answer # "none" /\ x.asked = 1
           /\ x.answer = "deferred" <=> x.deferral = "enterprise"
           /\ x.deferral # "plugin" /\ x.notified = IF x.answer = "deferred" THEN 0 ELSE 1
           /\ x.answer = "deferred" => x.caller = "defer"
      /\ x.pc = "held" =>
           /\ Native(x)
           /\ governed \/ (isCurrent(x) /\ x.execution # 0) => x.finalizer # "none"
           /\ x.finalizer # "none" => x.execution # 0
           /\ x.gated => x.execution # 0
           /\ x.deferral = "enterprise" => x.finalizer = "approval"
           /\ x.finalizer = "approval" =>
                toApprove /\ x.answer = IF x.deferral = "enterprise" THEN "deferred" ELSE "approved"
           /\ x.asked <= 1 /\ x.notified = IF x.deferral = "none" THEN x.asked ELSE 0
           /\ x.deferral # "none" => x.asked = 1
      /\ x.pc \notin {"released", "blocked"} => x.lifecycle = "pending"
      /\ x.pc \in {"approval", "answered"} /\ ~Native(x) /\ isCurrent(x) => run[active].node = x.node
      /\ x.notified <= x.asked /\ x.asked <= 1

(* What its place in the gate says about what the trail t of a call holds. *)
TrailOK(x, t) ==
  LET n(kinds) == Count(t, kinds)
  IN  /\ x.pc \in {"idle", "loop"} => t = <<>>
      /\ x.pc \in {"chain", "approval"} => n({"decision"}) = 0 /\ n({"approved", "denied"}) = 0
      /\ x.pc \in {"chain", "approval", "held"} => n({"dispatched"}) = 0
      /\ x.pc = "answered" =>
           /\ Native(x) \/ x.answer # "approved" => n({"dispatched"}) = 0
           /\ ~Native(x) /\ x.answer = "approved" /\ isCurrent(x) =>
                n({"dispatched"}) = IF outwardVerdict(x) THEN 1 ELSE 0
      /\ x.pc \in {"answered", "held"} /\ x.deferral # "none" =>
           n({"decision"}) = 0 /\ n({"approved", "denied"}) = 0

(* The invariant: whatever happens to the run while a call is in its hooks *)
(* or approvals, the trail and the callbacks of the call stay its own, say *)
(* each thing once and claim no dispatch of a blocked call                 *)
(* (runBeforeToolCallHook).                                                *)
IInv ==
  /\ TypeOK /\ RegistryOK
  /\ OwnTrail /\ CallbackOnce /\ BlockedNotAttested /\ JudgedOnce
  /\ \A c \in Call : CallOK(call[c]) /\ TrailOK(call[c], trail[c])
=============================================================================
