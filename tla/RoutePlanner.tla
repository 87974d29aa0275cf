---------------------------- MODULE RoutePlanner ----------------------------
(***************************************************************************)
(* How a request gets the work-map and the steps it runs under: the        *)
(* candidates of src/enterprise/plan.ts, the run-start precheck and the    *)
(* selection of src/enterprise/run-mediation.ts, selectWorkflowPlan of     *)
(* packages/enterprise-planner, and the planner call of src/agents with    *)
(* its classifier, its model and its deadlines.                            *)
(*                                                                         *)
(* The nodes of a tree are numbered in depth-first order, so a tree is the *)
(* sequence of its nodes' parents, and a set of nodes has the order in     *)
(* which a plan lists it.  One request is followed from its arrival to its *)
(* outcome; it may be cancelled at any moment, and a provider may answer   *)
(* late, nonsense, or never.                                               *)
(***************************************************************************)
EXTENDS Integers, Sequences, FiniteSets

CONSTANTS
  Assist,      \* id of the default tree of users and subagents
  System,      \* id of the default tree of system runs
  WorkMaps,    \* ids of the other trees an operator may import
  Unknown,     \* an id no tree has
  NoTree,      \* no id
  Rank,        \* the ids' alphabetical order
  MaxNodes,    \* bound: nodes of a tree
  Setups       \* the installs and requests of an instance

Ids == {Assist, System} \cup WorkMaps

\* A tree of match.priority, match.triggers and the parents of its nodes; the
\* nodes between a node and its parent are below that parent.
Tree(t) ==
  /\ t.priority \in Int
  /\ t.triggers \subseteq {"user", "subagent", "system"}
  /\ t.parent \in Seq(Nat) /\ Len(t.parent) \in 1..MaxNodes
  /\ t.parent[1] = 0
  /\ \A n \in 2..Len(t.parent) :
       /\ t.parent[n] \in 1..(n - 1)
       /\ \A k \in (t.parent[n] + 1)..n : t.parent[k] >= t.parent[n]

ASSUME RankAssumption ==
  /\ Rank \in [Ids -> Nat] /\ \A i, j \in Ids : Rank[i] = Rank[j] => i = j
  /\ NoTree \notin Ids
ASSUME SetupsAssumption ==
  \A s \in Setups :
    /\ DOMAIN s.trees \subseteq Ids /\ IsFiniteSet(DOMAIN s.trees)
    /\ \A i \in DOMAIN s.trees : Tree(s.trees[i])
    /\ s.trigger \in {"user", "subagent", "system"}
    /\ s.mode \in {"enforce", "observe"}
    /\ s.unreadable \in BOOLEAN
    /\ s.denied \subseteq Ids
    /\ s.planner \in {"none", "text", "classifier"}

VARIABLES
  setup,      \* the imported trees, the request's trigger, mode and policies
  pc,         \* where the request is
  inner,      \* the classifier's promise, which nobody stops
  budget,     \* the run's signal and the planner's total deadline
  callSpent,  \* the deadline of the model call is over
  asked,      \* questions sent to a provider
  said,       \* what the provider, or the install in its place, answered
  outcome     \* what beginEnterpriseRun returns

routeVars == <<setup, pc, inner, budget, callSpent, asked, said, outcome>>

-----------------------------------------------------------------------------
(***************************************************************************)
(* Trees and routes.                                                       *)
(***************************************************************************)

nodesOf(t) == DOMAIN t.parent

\* The two built-in defaults: one permissive step, last in priority.
builtinTree(i) ==
  [priority |-> -100, parent |-> <<0>>,
   triggers |-> IF i = System THEN {"system"} ELSE {"user", "subagent"}]

\* The ancestors of each node, by the walk up the parents.
ancestorsOf(t) ==
  LET anc[n \in nodesOf(t)] ==
        IF t.parent[n] = 0 THEN {} ELSE {t.parent[n]} \cup anc[t.parent[n]]
  IN anc

\* The endpoints and everything before them.
resolveRouteNodeIds(t, routes) ==
  UNION {{r} \cup ancestorsOf(t)[r] : r \in routes \cap nodesOf(t)}

\* Empty and partly invalid routes are no route.
validRoute(t, routes) == routes # {} /\ routes \subseteq nodesOf(t)

\* The plan's nodes: the tree without the branches that are not kept.
flattenPlanNodes(t, keep) ==
  LET visited[n \in nodesOf(t)] ==
        n \in keep /\ (t.parent[n] = 0 \/ visited[t.parent[n]])
  IN {n \in nodesOf(t) : visited[n]}

\* A plan is refused if a kept node is not in it.
planThrows(t, keep) == 1 \notin keep \/ flattenPlanNodes(t, keep) # keep

-----------------------------------------------------------------------------
(***************************************************************************)
(* Candidates.                                                             *)
(***************************************************************************)

defaultId == IF setup.trigger = "system" THEN System ELSE Assist

treeOf(i) == IF i \in DOMAIN setup.trees THEN setup.trees[i] ELSE builtinTree(i)

\* The imported trees that serve the trigger.
matching == {i \in DOMAIN setup.trees : setup.trigger \in setup.trees[i].triggers}

sortsBefore(i, j) ==
  \/ treeOf(i).priority > treeOf(j).priority
  \/ treeOf(i).priority = treeOf(j).priority /\ Rank[i] < Rank[j]

\* By priority, then id; the default is added if it is not there.
collectWorkflowTreeCandidates ==
  LET sorted == [k \in 1..Cardinality(matching) |->
                   CHOOSE i \in matching :
                     Cardinality({j \in matching : sortsBefore(j, i)}) = k - 1]
  IN IF defaultId \in matching THEN sorted ELSE Append(sorted, defaultId)

candidates == {collectWorkflowTreeCandidates[k] :
                 k \in DOMAIN collectWorkflowTreeCandidates}

domainTrees == candidates \ {defaultId}

\* A candidate that may not start withholds the planner.
plannerWithheldByGovernance ==
  setup.mode = "enforce" /\ candidates \cap setup.denied # {}

-----------------------------------------------------------------------------
(***************************************************************************)
(* Selection.  A selection is a tree, the nodes to keep and what is next.  *)
(***************************************************************************)

failClosed == [tree |-> NoTree, keep |-> {}, next |-> "blocked"]

\* Without a route a tree of several steps does not execute.
selectionWithoutModel(i) ==
  [tree |-> i, keep |-> nodesOf(treeOf(i)),
   next |-> IF Len(treeOf(i).parent) > 1 THEN "blocked" ELSE "execute"]

decided(d) ==
  IF d.tree = NoTree THEN selectionWithoutModel(defaultId)
  ELSE IF d.tree \notin candidates \/ ~validRoute(treeOf(d.tree), d.routes)
  THEN failClosed
  ELSE [tree |-> d.tree, next |-> "execute",
        keep |-> resolveRouteNodeIds(treeOf(d.tree), d.routes)]

\* What selectWorkflowPlan makes of the planner's decision.
selectWorkflowPlan(d) ==
  CASE d.kind = "unavailable" -> selectionWithoutModel(defaultId)
    [] d.kind = "failed" -> failClosed
    [] d.kind = "clarification" ->
         IF d.tree \in candidates
         THEN [tree |-> d.tree, keep |-> {}, next |-> "clarify"] ELSE failClosed
    [] d.kind = "decided" -> decided(d)

-----------------------------------------------------------------------------
(***************************************************************************)
(* What providers say, and how it is read.                                 *)
(***************************************************************************)

Routes == SUBSET (1..(MaxNodes + 1))
Failed == [kind |-> "failed"]
Unavailable == [kind |-> "unavailable"]

\* A text model answers a decision, a question, prose, or an error; only a
\* refusal that every request would meet belongs to the install.
TextReplies ==
  [kind : {"decided"}, tree : Ids \cup {Unknown, NoTree}, routes : Routes]
    \cup [kind : {"clarification"}, tree : Ids \cup {Unknown}]
    \cup {[kind |-> "prose"], [kind |-> "transient error"], [kind |-> "install refusal"]}

\* Mutant: any error of the provider is the install's.
readReply_AnyError(r) ==
  CASE r.kind \in {"transient error", "install refusal"} -> Unavailable
    [] r.kind = "prose" -> Failed
    [] OTHER -> r

readReply(r) ==
  CASE r.kind = "install refusal" -> Unavailable
    [] r.kind \in {"prose", "transient error"} -> Failed
    [] OTHER -> r

\* A classifier is asked for the tree among the candidates or none, ...
TreeAnswers ==
  {[kind |-> "malformed"], [kind |-> "status 401"], [kind |-> "transient error"]}
    \cup [kind : {"choice"}, tree : Ids \cup {NoTree, Unknown}]

\* ... and then for each step whether to reach it, and whether to ask back.
StepAnswers(i) ==
  {[kind |-> "malformed"], [kind |-> "status 401"], [kind |-> "transient error"]}
    \cup [kind : {"steps"}, clarify : BOOLEAN, tree : {i},
          routes : SUBSET nodesOf(treeOf(i))]

\* An invalid credential is the install's failure, everything else fails.
classifierError(a) == IF a.kind = "status 401" THEN Unavailable ELSE Failed

readSteps(a) ==
  IF a.kind # "steps" THEN classifierError(a)
  ELSE IF a.clarify \/ a.routes = {}
  THEN [kind |-> "clarification", tree |-> a.tree]
  ELSE [kind |-> "decided", tree |-> a.tree, routes |-> a.routes]

-----------------------------------------------------------------------------
(***************************************************************************)
(* The request.                                                            *)
(***************************************************************************)

Waiting == {"classifying", "preparing", "completing"}
Outcomes == {"none", "off", "blocked", "clarification", "threw", "mediated"}
NoOutcome == [kind |-> "none", tree |-> NoTree, nodes |-> {}]
Nobody == [kind |-> "nobody"]

RouteInit ==
  /\ setup \in Setups
  /\ pc = "begin"
  /\ inner = [at |-> "none", tree |-> NoTree]
  /\ budget = "open"
  /\ callSpent = FALSE
  /\ asked = 0
  /\ said = Nobody
  /\ outcome = NoOutcome

cancelled == budget = "cancelled"
aborted == budget # "open"

end(kind, i, nodes) ==
  /\ pc' = "done"
  /\ outcome' = [kind |-> kind, tree |-> i, nodes |-> nodes]

\* The rest of beginEnterpriseRun, up to the reading of the skills.
proceed(selection) ==
  LET t == treeOf(selection.tree)
  IN IF selection.next = "blocked" THEN end("blocked", NoTree, {})
     ELSE IF selection.next = "clarify"
     THEN end(IF cancelled THEN "off" ELSE "clarification", selection.tree, {})
     ELSE IF planThrows(t, selection.keep) THEN end("threw", NoTree, {})
     ELSE IF cancelled THEN end("off", NoTree, {})
     ELSE IF setup.mode = "enforce" /\ selection.tree \in setup.denied
     THEN end("blocked", NoTree, {})
     ELSE /\ pc' = "skills"
          /\ outcome' = [kind |-> "none", tree |-> selection.tree,
                         nodes |-> flattenPlanNodes(t, selection.keep)]

\* The planner's answer reaches selectWorkflowPlan.
answer(d) == proceed(selectWorkflowPlan(d))

\* beginEnterpriseRunInternal up to its first await: unreadable trees and a
\* withheld planner refuse the run, and without a planner or a choice there is
\* no call.
beginEnterpriseRunInternal ==
  /\ pc = "begin"
  /\ UNCHANGED <<setup, budget, callSpent, asked, said>>
  /\ IF setup.unreadable /\ setup.mode = "enforce"
     THEN end("blocked", NoTree, {}) /\ UNCHANGED inner
     ELSE IF plannerWithheldByGovernance
     THEN end(IF cancelled THEN "off" ELSE "blocked", NoTree, {}) /\ UNCHANGED inner
     ELSE IF \/ setup.planner = "none"
             \/ domainTrees = {} /\ Len(treeOf(defaultId).parent) < 2
     THEN proceed(selectionWithoutModel(defaultId)) /\ UNCHANGED inner
     ELSE IF cancelled
     THEN answer(Failed) /\ UNCHANGED inner
     ELSE IF setup.planner = "classifier"
     THEN /\ pc' = "classifying"
          /\ inner' = [at |-> "auth", tree |-> NoTree]
          /\ UNCHANGED outcome
     ELSE pc' = "preparing" /\ UNCHANGED <<inner, outcome>>

\* The classifier's promise settles; the planner hears of it if it still waits.
settle(d) ==
  /\ inner' = [at |-> "settled", tree |-> NoTree]
  /\ IF pc = "classifying" THEN answer(d) ELSE UNCHANGED <<pc, outcome>>

\* The credential is resolved or missing; a spent budget asks nothing.
tryClassificationWorkflowPlan ==
  /\ inner.at = "auth"
  /\ UNCHANGED <<setup, budget, callSpent>>
  /\ \/ /\ said' = [kind |-> "no credential"]
        /\ settle(Unavailable)
        /\ UNCHANGED asked
     \/ /\ UNCHANGED said
        /\ IF aborted
           THEN settle(Failed) /\ UNCHANGED asked
           ELSE /\ inner' = [at |-> "tree", tree |-> NoTree]
                /\ asked' = asked + 1
                /\ UNCHANGED <<pc, outcome>>

\* Mutant: the signal is not looked at between the questions.
stillWanted_Unchecked == TRUE

stillWanted == ~aborted /\ ~callSpent

\* The first answer, and the second question.
classifyTree ==
  /\ inner.at = "tree"
  /\ UNCHANGED <<setup, budget, callSpent>>
  /\ \E a \in TreeAnswers :
       /\ said' = a
       /\ IF a.kind = "choice" /\ a.tree \in candidates /\ stillWanted
          THEN /\ inner' = [at |-> "steps", tree |-> a.tree]
               /\ asked' = asked + 1
               /\ UNCHANGED <<pc, outcome>>
          ELSE /\ UNCHANGED asked
               /\ settle(IF a.kind = "choice" /\ a.tree = NoTree /\ stillWanted
                         THEN [kind |-> "decided", tree |-> NoTree, routes |-> {}]
                         ELSE classifierError(a))

\* The second answer.
classifySteps ==
  /\ inner.at = "steps"
  /\ UNCHANGED <<setup, budget, callSpent, asked>>
  /\ \E a \in StepAnswers(inner.tree) :
       /\ said' = a
       /\ settle(IF a.kind = "steps" /\ ~stillWanted THEN Failed ELSE readSteps(a))

\* The model is resolved, or there is none for planning; it is asked unless
\* the budget was spent meanwhile.
prepareModel ==
  /\ pc = "preparing"
  /\ UNCHANGED <<setup, inner, budget, callSpent>>
  /\ \/ /\ said' = [kind |-> "no model"]
        /\ answer(Unavailable)
        /\ UNCHANGED asked
     \/ /\ said' = [kind |-> "transient error"]
        /\ answer(Failed)
        /\ UNCHANGED asked
     \/ /\ UNCHANGED said
        /\ IF aborted
           THEN answer(Failed) /\ UNCHANGED asked
           ELSE pc' = "completing" /\ asked' = asked + 1 /\ UNCHANGED outcome

\* The model's reply.
complete ==
  /\ pc = "completing"
  /\ UNCHANGED <<setup, inner, budget, callSpent, asked>>
  /\ \E r \in TextReplies : said' = r /\ answer(readReply(r))

\* Mutant: the planner waits for the provider.
raceBudget_Awaits ==
  /\ pc = "completing"
  /\ callSpent
  /\ answer(Failed)
  /\ UNCHANGED <<setup, inner, budget, callSpent, asked, said>>

\* The wait ends with the budget, whatever the provider does.
raceBudget ==
  /\ pc \in Waiting
  /\ aborted \/ (pc = "completing" /\ callSpent)
  /\ answer(Failed)
  /\ UNCHANGED <<setup, inner, budget, callSpent, asked, said>>

\* The deadline of the call, 20 s, and of the whole planner, 90 s.
callDeadline ==
  /\ pc = "completing" \/ inner.at \in {"tree", "steps"}
  /\ ~callSpent
  /\ callSpent' = TRUE
  /\ UNCHANGED <<setup, pc, inner, budget, asked, said, outcome>>

totalDeadline ==
  /\ pc \in Waiting
  /\ budget = "open"
  /\ budget' = "deadline"
  /\ UNCHANGED <<setup, pc, inner, callSpent, asked, said, outcome>>

\* The turn is cancelled.
cancel ==
  /\ pc # "done"
  /\ ~cancelled
  /\ budget' = "cancelled"
  /\ UNCHANGED <<setup, pc, inner, callSpent, asked, said, outcome>>

\* The skills' instructions are read; then the run is registered.
resolveEnterpriseSkillInstructions ==
  /\ pc = "skills"
  /\ IF cancelled THEN end("off", NoTree, {})
     ELSE end("mediated", outcome.tree, outcome.nodes)
  /\ UNCHANGED <<setup, inner, budget, callSpent, asked, said>>

RouteNext ==
  \/ beginEnterpriseRunInternal
  \/ tryClassificationWorkflowPlan
  \/ classifyTree
  \/ classifySteps
  \/ prepareModel
  \/ complete
  \/ raceBudget
  \/ callDeadline
  \/ totalDeadline
  \/ cancel
  \/ resolveEnterpriseSkillInstructions

RouteSpec == RouteInit /\ [][RouteNext]_routeVars

\* The code runs on and time passes; no provider has to answer.
RouteFairness ==
  /\ WF_routeVars(beginEnterpriseRunInternal)
  /\ WF_routeVars(raceBudget)
  /\ WF_routeVars(totalDeadline)
  /\ WF_routeVars(resolveEnterpriseSkillInstructions)

RouteFairSpec == RouteSpec /\ RouteFairness

-----------------------------------------------------------------------------
(***************************************************************************)
(* What routing promises.                                                  *)
(***************************************************************************)

\* The states are what they should be, at most one planner call is in flight,
\* and a plan that was selected never fails to be built.
RouteTypeOK ==
  /\ setup \in Setups
  /\ pc \in Waiting \cup {"begin", "skills", "done"}
  /\ inner.at \in {"none", "auth", "tree", "steps", "settled"}
  /\ inner.at # "none" => setup.planner = "classifier"
  /\ budget \in {"open", "cancelled", "deadline"}
  /\ callSpent \in BOOLEAN
  /\ asked \in 0..2
  /\ pc = "classifying" => inner.at \in {"auth", "tree", "steps"}
  /\ outcome.kind \in Outcomes \ {"threw"}
  /\ (pc = "done") <=> (outcome.kind # "none")

\* The nodes below a node, itself included: those that follow it in the
\* depth-first order until the walk leaves it.
below(t, n) == {m \in nodesOf(t) : m >= n /\ \A k \in (n + 1)..m : t.parent[k] >= n}

\* A run starts only under what was answered: the tree and the endpoints that
\* a provider named, all of them, with exactly the steps that lead to them; or
\* under the single step of the default tree because a provider answered that
\* no work-map applies, nobody could be asked, or there is nothing to choose.
\* No prose, error, timeout or late answer is read as one of these.
RunsWhatWasAnswered ==
  outcome.kind = "mediated" =>
    LET i == outcome.tree
        t == treeOf(i)
        named == said.kind \in {"decided", "steps"} /\ said.tree = i
        noneApplies == said.kind \in {"decided", "choice"} /\ said.tree = NoTree
        notAsked == said.kind \in {"no credential", "no model", "install refusal", "status 401"}
    IN /\ i = defaultId \/ setup.trigger \in t.triggers
       /\ \/ /\ named
             /\ said.routes # {} /\ said.routes \subseteq nodesOf(t)
             /\ outcome.nodes = {n \in nodesOf(t) : below(t, n) \cap said.routes # {}}
          \/ /\ i = defaultId
             /\ outcome.nodes = {1} /\ nodesOf(t) = {1}
             /\ \/ noneApplies \/ notAsked
                \/ said = Nobody /\ (setup.planner = "none" \/ domainTrees = {})

\* In enforce mode a policy that denies a candidate, or trees that cannot be
\* read, keep the request text from every provider and refuse the run.
DeniedNeverAsked ==
  /\ setup.mode = "enforce"
  /\ setup.unreadable \/ candidates \cap setup.denied # {}
  => asked = 0 /\ outcome.kind \notin {"mediated", "clarification"}

\* Routing is sound: selectWorkflowPlan and the plan built from it execute what
\* was answered or refuse, no plan fails to be built, and no denied candidate
\* reaches a provider.
SelectionSound == RouteTypeOK /\ RunsWhatWasAnswered /\ DeniedNeverAsked

\* A cancelled or out-of-time run sends nothing more to a provider: not the
\* second question, and not through the promise nobody waits for any more.
NothingAskedTooLate == [][aborted \/ callSpent => asked' = asked]_routeVars

\* The request gets its outcome although a provider never answers.
AlwaysConcludes == <>(pc = "done")
=============================================================================
