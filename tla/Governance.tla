----------------------------- MODULE Governance -----------------------------
(***************************************************************************)
(* How a tool call, a knowledge retrieval and the start of a run are       *)
(* judged (src/enterprise/governance.ts): first the active step's own      *)
(* declarations, then the policies of the config.  An operator writes the  *)
(* policies down in some order, and then one question is asked.            *)
(*                                                                         *)
(* Selectors are the sets of what they match, so the spellings of a name   *)
(* are left out, and so are the policies of other work-maps.  Empty means  *)
(* that the selector is omitted.  One MCP server is registered with the    *)
(* deployment; a call carries the registration of its tool ("registered",  *)
(* "plugin" for a server a plugin brings, or none).                        *)
(***************************************************************************)
EXTENDS Naturals, Sequences, FiniteSets

CONSTANTS
  Tools,        \* names of tools
  Control,      \* complete_step
  Carrier,      \* invoke_action
  Floor,        \* tools that explicit grants never withhold
  Ops,          \* tools of the registered MCP server
  Actions,      \* ontology actions
  Covers,       \* tools an action's own selector reaches
  Calls,        \* tools an action's call effects name
  Foundations,  \* knowledge foundations
  Nodes, Root,  \* steps of the work-map
  Steps,        \* the declarations the active step may have
  Plans,        \* the flags of the plan
  Policies,     \* policies the config schema accepts
  MaxPolicies,  \* bound: policies declared
  None          \* no action named; no decision yet

Effects == {"deny", "require_approval", "allow", "audit"}

Step == [node : Nodes, allowed : SUBSET Tools, denied : SUBSET Tools,
         writes : BOOLEAN, attached : BOOLEAN, actions : SUBSET Actions]
Plan == [explicit : BOOLEAN, mcpGoverned : BOOLEAN, tracksSteps : BOOLEAN]
Policy == [effect : Effects, nodes : SUBSET Nodes, tools : SUBSET Tools,
           actions : SUBSET Actions, knowledge : SUBSET Foundations,
           onTimeout : {"allow", "deny"}]
\* A tool call.  Only invoke_action names an action; fits are the outward
\* actions for this tool whose declared parameters the call carries.
Call == {c \in [tool : Tools, mcp : {"none", "plugin", "registered"},
                action : Actions \cup {None}, fits : SUBSET Actions] :
           /\ c.tool # Carrier => c.action = None
           /\ \A a \in c.fits : c.tool \in Calls[a]}
Question == [kind : {"call"}, of : Call]
              \cup [kind : {"knowledge"}, of : Foundations]
              \cup [kind : {"start"}, of : {None}]
Decision == [effect : Effects, onTimeout : {"allow", "deny"}, omission : BOOLEAN]

\* The schema: approvals need a call to ask about, and a policy is about calls
\* or about knowledge.
policySchema(p) ==
  /\ p.effect = "require_approval" => p.tools # {} \/ p.actions # {}
  /\ p.effect # "require_approval" => p.onTimeout = "deny"
  /\ p.knowledge # {} => p.tools = {} /\ p.actions = {}

ASSUME GovernanceAssumption ==
  /\ {Control, Carrier} \cup Floor \cup Ops \subseteq Tools
  /\ Root \in Nodes
  /\ Covers \in [Actions -> SUBSET Tools]
  /\ Calls \in [Actions -> SUBSET Tools]
  /\ Steps \subseteq Step
  /\ \A s \in Steps : s.writes => Carrier \in s.allowed
  /\ Plans \subseteq Plan
  /\ \A plan \in Plans : plan.explicit => plan.mcpGoverned
  /\ Policies \subseteq {p \in Policy : policySchema(p)}
  /\ MaxPolicies \in Nat
  /\ Control # Carrier
  /\ None \notin Actions \cup Question \cup Decision

VARIABLES plan,      \* flags of the run's plan
          step,      \* the active step
          policies,  \* config policies, in declaration order
          asked,     \* the question
          decision   \* its answer

governanceVars == <<plan, step, policies, asked, decision>>

GovernanceTypeOK ==
  /\ plan \in Plans
  /\ step \in Steps
  /\ policies \in Seq(Policies)
  /\ Len(policies) <= MaxPolicies
  /\ asked \in Question \cup {None}
  /\ decision \in Decision \cup {None}
  /\ asked = None <=> decision = None

\* A work-map that attaches a server anywhere governs all of them.
GovernanceInit ==
  /\ plan \in Plans
  /\ step \in Steps
  /\ step.attached => plan.mcpGoverned
  /\ policies = <<>>
  /\ asked = None
  /\ decision = None

-----------------------------------------------------------------------------
(***************************************************************************)
(* Policies.                                                               *)
(***************************************************************************)

matchesSelector(x, selector) == selector = {} \/ x \in selector

hasSubjectSelectors(p) == p.tools # {} \/ p.actions # {} \/ p.knowledge # {}

\* The first of the matching policies ms with this effect.
firstOf(ps, ms, effect) ==
  CHOOSE i \in ms : /\ ps[i].effect = effect
                    /\ \A j \in ms : ps[j].effect = effect => i <= j

\* Mutant: the first policy that matches decides.
resolvePolicyDecision_FirstMatch(ps, ms) ==
  IF ms = {} THEN None
  ELSE LET first == ps[CHOOSE i \in ms : \A j \in ms : i <= j]
       IN [effect |-> first.effect, onTimeout |-> first.onTimeout, omission |-> FALSE]

\* Of the policies at the places ms of ps, which match: deny, then
\* require_approval, then allow, then audit.
resolvePolicyDecision(ps, ms) ==
  IF ms = {} THEN None
  ELSE LET effects == {ps[i].effect : i \in ms}
           effect == IF "deny" \in effects THEN "deny"
                     ELSE IF "require_approval" \in effects THEN "require_approval"
                     ELSE IF "allow" \in effects THEN "allow"
                     ELSE "audit"
       IN [effect |-> effect, onTimeout |-> ps[firstOf(ps, ms, effect)].onTimeout,
           omission |-> FALSE]

ruling(effect) == [effect |-> effect, onTimeout |-> "deny", omission |-> FALSE]

-----------------------------------------------------------------------------
(***************************************************************************)
(* Tool calls.                                                             *)
(***************************************************************************)

isWorkflowControlTool(c) == c.tool = Control /\ c.mcp = "none"

\* Provenance only: the registration, never the name.
mcpServerOwningTool(c) == c.mcp = "registered"

mcpAttached(c) == mcpServerOwningTool(c) /\ plan.mcpGoverned /\ step.attached

\* Actions that declare an outward call, and the ones this call would be.
outwardActions == {a \in step.actions : Calls[a] # {}}
covering(c) == {a \in outwardActions : c.tool \in Calls[a]}

\* An outward action whose declared parameters the call carries.
satisfiedOutwardAction(c) == covering(c) \cap c.fits # {}

\* Excluded by what the step declares as its outward calls.
outwardDenies(c) ==
  IF covering(c) # {} THEN ~satisfiedOutwardAction(c)
  ELSE mcpAttached(c) /\ \E a \in outwardActions : Calls[a] \cap Ops # {}

\* Denials come first, then attachment and floor, then the allow-list, whose
\* absence grants nothing under explicit grants.
ontologyScopeViolation(c) ==
  IF c.tool \in step.denied THEN "denied"
  ELSE IF mcpAttached(c) \/ (plan.explicit /\ c.tool \in Floor) THEN "none"
  ELSE IF step.allowed # {} /\ c.tool \notin step.allowed THEN "scope"
  ELSE IF plan.explicit /\ c.tool \notin step.allowed THEN "ungranted"
  ELSE "none"

\* Mutant: until the action is named, the ones that reach the tool are taken.
actionSelectorMatches_Unnamed(p, c) ==
  IF c.tool = Carrier /\ c.action # None
  THEN c.action \in step.actions /\ c.action \in p.actions
  ELSE \E a \in step.actions : c.tool \in Covers[a] /\ a \in p.actions

\* A call that names its action is judged by that action, once it is one the
\* step declares; any other by the actions that reach the tool.
actionSelectorMatches(p, c) ==
  IF c.tool = Carrier
  THEN c.action \in step.actions /\ c.action \in p.actions
  ELSE \E a \in step.actions : c.tool \in Covers[a] /\ a \in p.actions

\* All selectors present have to match.
policyAppliesToToolCall(p, c) ==
  /\ p.tools # {} \/ p.actions # {}
  /\ p.knowledge = {}
  /\ matchesSelector(c.tool, p.tools)
  /\ p.actions # {} => actionSelectorMatches(p, c)
  /\ matchesSelector(step.node, p.nodes)

\* Mutant: the operator's timeout also answers for what the scope omits.
omissionDecision_PolicyTimeout(d) ==
  IF d = None THEN [ruling("require_approval") EXCEPT !.omission = TRUE]
  ELSE IF d.effect = "deny" THEN d
  ELSE IF d.effect = "require_approval" THEN [d EXCEPT !.omission = TRUE]
  ELSE [ruling("require_approval") EXCEPT !.omission = TRUE]

\* A call the scope omits: a policy may deny it or bring its own prompt, but
\* neither allow it nor let an unanswered prompt through.
omissionDecision(d) ==
  IF d = None THEN [ruling("require_approval") EXCEPT !.omission = TRUE]
  ELSE IF d.effect = "deny" THEN d
  ELSE IF d.effect = "require_approval"
       THEN [d EXCEPT !.onTimeout = "deny", !.omission = TRUE]
  ELSE [ruling("require_approval") EXCEPT !.omission = TRUE]

evaluateToolCallGovernance(ps, c) ==
  LET d == resolvePolicyDecision(ps, {i \in 1..Len(ps) : policyAppliesToToolCall(ps[i], c)})
      violation == ontologyScopeViolation(c)
  IN IF plan.tracksSteps /\ isWorkflowControlTool(c) THEN ruling("allow")
     ELSE IF mcpServerOwningTool(c) /\ plan.mcpGoverned /\ ~mcpAttached(c)
          THEN ruling("deny")
     ELSE IF violation = "denied" \/ outwardDenies(c) THEN ruling("deny")
     ELSE IF violation # "none" /\ ~satisfiedOutwardAction(c)
          THEN omissionDecision(d)
     ELSE IF d # None THEN d
     ELSE ruling("allow")

\* runtime.ts: a write to the ontology needs the step to name invoke_action; a
\* glob that covers it is not enough.
evaluateEnterpriseToolCall(ps, c) ==
  IF c.tool = Carrier /\ ~step.writes THEN ruling("deny")
  ELSE evaluateToolCallGovernance(ps, c)

-----------------------------------------------------------------------------
(***************************************************************************)
(* Knowledge, and the start of a run.                                      *)
(***************************************************************************)

policyAppliesToKnowledge(p, f) ==
  /\ f \in p.knowledge
  /\ p.tools = {} /\ p.actions = {}
  /\ matchesSelector(step.node, p.nodes)

evaluateKnowledgeRetrievalGovernance(ps, f) ==
  LET d == resolvePolicyDecision(ps, {i \in 1..Len(ps) : policyAppliesToKnowledge(ps[i], f)})
  IN IF d = None THEN ruling("allow") ELSE d

policyAppliesToRun(p) == ~hasSubjectSelectors(p) /\ matchesSelector(Root, p.nodes)

evaluateRunStartGovernance(ps) ==
  LET d == resolvePolicyDecision(ps, {i \in 1..Len(ps) : policyAppliesToRun(ps[i])})
  IN IF d = None THEN ruling("allow") ELSE d

evaluate(ps, q) ==
  IF q.kind = "call" THEN evaluateEnterpriseToolCall(ps, q.of)
  ELSE IF q.kind = "knowledge" THEN evaluateKnowledgeRetrievalGovernance(ps, q.of)
  ELSE evaluateRunStartGovernance(ps)

-----------------------------------------------------------------------------

\* The operator adds a policy at the end of the config.
declarePolicy(p) ==
  /\ decision = None
  /\ Len(policies) < MaxPolicies
  /\ policies' = Append(policies, p)
  /\ UNCHANGED <<plan, step, asked, decision>>

ask(q) ==
  /\ decision = None
  /\ asked' = q
  /\ decision' = evaluate(policies, q)
  /\ UNCHANGED <<plan, step, policies>>

GovernanceNext ==
  \/ \E p \in Policies : declarePolicy(p)
  \/ \E c \in Call : ask([kind |-> "call", of |-> c])
  \/ \E f \in Foundations : ask([kind |-> "knowledge", of |-> f])
  \/ ask([kind |-> "start", of |-> None])

GovernanceSpec == GovernanceInit /\ [][GovernanceNext]_governanceVars

-----------------------------------------------------------------------------
(***************************************************************************)
(* Properties.                                                             *)
(***************************************************************************)

answered(kind) == decision # None /\ asked.kind = kind

rank(effect) == IF effect = "deny" THEN 3 ELSE IF effect = "require_approval" THEN 2 ELSE 1

\* What each layer says of a call, as effects.  The wall: no attachment, a
\* denied tool, a call outside the outward actions, a write not opted into.
walled(c) ==
  \/ c.mcp = "registered" /\ plan.mcpGoverned /\ ~step.attached
  \/ c.tool \in step.denied
  \/ \E a \in step.actions : c.tool \in Calls[a]
      /\ \A b \in step.actions : c.tool \in Calls[b] => b \notin c.fits
  \/ /\ c.mcp = "registered" /\ plan.mcpGoverned
     /\ \E a \in step.actions : Calls[a] \cap Ops # {}
     /\ \A a \in step.actions : c.tool \notin Calls[a]
  \/ c.tool = Carrier /\ ~step.writes

\* The grant: what a step may do without asking.
granted(c) ==
  \/ c.tool \in step.allowed
  \/ step.allowed = {} /\ ~plan.explicit
  \/ plan.explicit /\ c.tool \in Floor
  \/ c.mcp = "registered" /\ plan.mcpGoverned /\ step.attached
  \/ \E a \in step.actions \cap c.fits : c.tool \in Calls[a]

votes(c) ==
  {policies[i].effect : i \in {j \in 1..Len(policies) : policyAppliesToToolCall(policies[j], c)}}
    \cup (IF walled(c) THEN {"deny"} ELSE {})
    \cup (IF granted(c) THEN {} ELSE {"require_approval"})

\* Every question has one answer, and a call's is the strictest that its step
\* and the policies give, in whatever order they are declared; only the run's
\* own complete_step is above them, and no tool of an MCP server that shares
\* its name.
VerdictIsStrictest ==
  /\ GovernanceTypeOK
  /\ answered("call") =>
       LET c == asked.of
       IN IF plan.tracksSteps /\ c.tool = Control /\ c.mcp = "none"
          THEN decision.effect = "allow"
          ELSE rank(decision.effect) =
                 IF "deny" \in votes(c) THEN 3
                 ELSE IF "require_approval" \in votes(c) THEN 2 ELSE 1

\* What the step does not grant is refused or asked about, and an unanswered
\* prompt refuses it, whatever timeout or effect any policy has.
OmissionFailsClosed ==
  (answered("call") /\ ~granted(asked.of)
     /\ ~(plan.tracksSteps /\ isWorkflowControlTool(asked.of)))
    => \/ decision.effect = "deny"
       \/ /\ decision.effect = "require_approval"
          /\ decision.onTimeout = "deny"
          /\ decision.omission

\* The verdict before the hooks must not refuse what they may complete: an
\* invoke_action that names no action yet is not judged more strictly than
\* any action of the step it may become.
UnnamedActionWaits ==
  (answered("call") /\ asked.of.tool = Carrier /\ asked.of.action = None)
    => \A a \in step.actions :
         rank(decision.effect)
           <= rank(evaluateEnterpriseToolCall(policies, [asked.of EXCEPT !.action = a]).effect)
=============================================================================
