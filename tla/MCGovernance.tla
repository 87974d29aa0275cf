---------------------------- MODULE MCGovernance ----------------------------
(***************************************************************************)
(* Instances of Governance: two steps, one of them the root; a pay action  *)
(* that is an outward call to an operation of the MCP server, and a note   *)
(* action that reaches invoke_action.                                      *)
(***************************************************************************)
EXTENDS Governance

MCTools == {"complete_step", "invoke_action", "message", "exec", "op1", "op2"}
MCCovers == [a \in {"pay", "note"} |-> IF a = "pay" THEN {"op1"} ELSE MCTools]
MCCalls == [a \in {"pay", "note"} |-> IF a = "pay" THEN {"op1"} ELSE {}]

\* The active step is the second one.
MCSteps ==
  {s \in [node : {"n2"},
           allowed : {{}, {"exec", "op1"}, {"invoke_action", "op2"}},
           denied : {{}, {"op1"}, {"message", "invoke_action", "complete_step"}},
           writes : BOOLEAN,
           attached : BOOLEAN,
           actions : {{}, {"pay"}, {"pay", "note"}}] :
     s.writes => "invoke_action" \in s.allowed}

MCPlans == {p \in Plan : p.explicit => p.mcpGoverned}

policy(effect, nodes, tools, actions, onTimeout) ==
  [effect |-> effect, nodes |-> nodes, tools |-> tools, actions |-> actions,
   knowledge |-> {}, onTimeout |-> onTimeout]

MCPolicies ==
  {policy("deny", {}, {}, {"note"}, "deny"),
   policy("deny", {"n1"}, {"exec"}, {}, "deny"),
   policy("deny", {}, {}, {}, "deny"),
   policy("require_approval", {"n2"}, {"exec", "op2"}, {}, "allow"),
   policy("require_approval", {}, {"exec"}, {}, "deny"),
   policy("require_approval", {}, {}, {"pay"}, "deny"),
   policy("require_approval", {}, {"invoke_action"}, {"note"}, "allow"),
   policy("allow", {}, {"exec", "message", "op2"}, {}, "deny"),
   policy("audit", {"n2"}, {"exec"}, {}, "deny")}
    \cup {[effect |-> e, nodes |-> {}, tools |-> {}, actions |-> {},
           knowledge |-> {"f1"}, onTimeout |-> "deny"] : e \in {"deny", "audit"}}
=============================================================================
