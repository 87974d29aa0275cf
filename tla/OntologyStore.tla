---------------------------- MODULE OntologyStore ----------------------------
(***************************************************************************)
(* The typed object graph of one work-map id: the objects and links that   *)
(* runs create, and the write path that changes them.  A run keeps the     *)
(* definition it was planned against; its current step names the object    *)
(* types, relationships and actions it may use.  invoke_action plans every *)
(* effect of an action against the graph as it is and applies them in one  *)
(* SQLite transaction, so an invocation is one step here.  Beside it the   *)
(* work-map may be imported again or removed at any time: a run that is    *)
(* active keeps going.                                                     *)
(*                                                                         *)
(* Values are abstracted to what the write path tells apart: an identity,  *)
(* a null, and a value of the wrong type (which stands for a blank or      *)
(* padded identity too).  An object is the set of its properties that hold *)
(* a value; its key always does.                                           *)
(***************************************************************************)
EXTENDS Naturals, Sequences, FiniteSets

CONSTANTS
  Entities,     \* object types
  Ids,          \* identities an argument may name
  Props,        \* properties other than the key
  Rels,         \* relationship ids
  Keys,         \* parameters that identify an object
  Definitions,  \* definitions imported under the work-map's id
  Steps,        \* steps of a definition
  Runs,         \* slots for the active runs
  KeyOf,        \* [Entities -> Keys], the parameter named after primaryKey
  Ontology,     \* [Definitions -> [Steps -> what the step declares]]
  MaxRemovals,  \* bound: removals of the work-map
  Null,         \* an argument that is null
  Mistyped,     \* an argument its declared type rejects
  Absent,       \* no object under this key
  NoLink,       \* no edge under this key
  NoTree,       \* no work-map imported
  NoRun         \* a free slot

ASSUME KeyOfAssumption == KeyOf \in [Entities -> Keys]
ASSUME MaxRemovalsAssumption == MaxRemovals \in Nat
ASSUME ScopesAssumption ==
  \A d \in Definitions, s \in Steps :
    LET scope == Ontology[d][s]
    IN /\ DOMAIN scope.entities \subseteq Entities
       /\ \A e \in DOMAIN scope.entities :
            scope.entities[e].required \subseteq scope.entities[e].properties
       /\ \A e \in DOMAIN scope.entities :
            scope.entities[e].properties \subseteq Props
       /\ DOMAIN scope.relationships \subseteq Rels
       /\ \A r \in DOMAIN scope.relationships :
            /\ scope.relationships[r].from \in Entities
            /\ scope.relationships[r].to \in Entities
       /\ \A action \in scope.actions :
            /\ Len(action.effects) \in Nat
            /\ DOMAIN action.effects = 1 .. Len(action.effects)
ASSUME DistinctNamesAssumption ==
  /\ \A s \in SUBSET Props : Absent # s
  /\ \A e \in [from : Entities, to : Entities] : NoLink # e
  /\ NoTree \notin Definitions

VARIABLES
  tree,      \* the imported definition, or NoTree
  objects,   \* enterprise_ontology_objects: key -> properties set, or Absent
  links,     \* enterprise_ontology_links: key -> its two object types
  run,       \* the active runs and the definition and step each stands on
  removals,  \* removals of the work-map so far
  writer     \* observed: the definition under which an object was last written

ontologyVars == <<tree, objects, links, run, removals, writer>>

Values == Ids \cup {Null, Mistyped}

\* PRIMARY KEY (tree_id, entity_id, object_id), for the one tree_id.
ObjectKeys == Entities \X Ids
\* PRIMARY KEY (tree_id, relationship_id, from_object_id, to_object_id).
LinkKeys == Rels \X Ids \X Ids
Ends == [from : Entities, to : Entities]
ActiveRun == [def : Definitions, step : Steps]

OntologyTypeOK ==
  /\ tree \in Definitions \cup {NoTree}
  /\ objects \in [ObjectKeys -> (SUBSET Props) \cup {Absent}]
  /\ links \in [LinkKeys -> Ends \cup {NoLink}]
  /\ run \in [Runs -> ActiveRun \cup {NoRun}]
  /\ removals \in 0..MaxRemovals
  /\ writer \in [ObjectKeys -> Definitions \cup {NoTree}]

OntologyInit ==
  /\ tree = NoTree
  /\ objects = [k \in ObjectKeys |-> Absent]
  /\ links = [l \in LinkKeys |-> NoLink]
  /\ run = [r \in Runs |-> NoRun]
  /\ removals = 0
  /\ writer = [k \in ObjectKeys |-> NoTree]

-----------------------------------------------------------------------------
(***************************************************************************)
(* What a call resolves to.                                                *)
(***************************************************************************)

\* Required properties of an object type, over every step of a definition.
collectTreeRequiredProperties(d, e) ==
  UNION {Ontology[d][s].entities[e].required :
           s \in {t \in Steps : e \in DOMAIN Ontology[d][t].entities}}

\* The declarations of the step a run stands on, and the required shape it
\* took with it when it was mediated.
resolveActiveOntologyScope(r) == Ontology[run[r].def][run[r].step]

\* The arguments a call may bring: some of the action's parameters, any value.
calls(action) == UNION {[P -> Values] : P \in SUBSET action.parameters}

\* Every argument is declared and of its type, every required one is there.
validParameters(action, args) ==
  /\ DOMAIN args \subseteq action.parameters
  /\ \A p \in action.required : p \in DOMAIN args /\ args[p] # Null
  /\ \A p \in DOMAIN args : args[p] # Mistyped

\* The parameter names an object: present, and neither null nor mistyped.
identifies(args, p) == p \in DOMAIN args /\ args[p] \in Ids

target(effect, args) == <<effect.entity, args[KeyOf[effect.entity]]>>

\* Properties of the object type that the call gives a value, or clears.
given(scope, effect, args) ==
  scope.entities[effect.entity].properties \cap DOMAIN args

\* The property set that a create or an update leaves.
written(scope, effect, args) ==
  LET before == objects[target(effect, args)]
      values == given(scope, effect, args)
      cleared == {p \in values : args[p] = Null}
  IN ((IF before = Absent THEN {} ELSE before) \ cleared) \cup (values \ cleared)

\* Mutant: only the step's own required properties are asked for.
requiredIds_OwnStep(scope, def, e) == scope.entities[e].required

requiredIds(scope, def, e) ==
  scope.entities[e].required \cup collectTreeRequiredProperties(def, e)

\* No given value is mistyped, none clears a property required here, and the
\* object that results has every property required in the tree.
shapeHolds(scope, def, effect, args) ==
  /\ \A p \in given(scope, effect, args) :
       /\ args[p] # Mistyped
       /\ args[p] = Null => p \notin scope.entities[effect.entity].required
  /\ requiredIds(scope, def, effect.entity) \subseteq written(scope, effect, args)

\* One object effect can be performed on the graph as it is.
planEffect(scope, def, effect, args) ==
  /\ effect.entity \in DOMAIN scope.entities
  /\ identifies(args, KeyOf[effect.entity])
  /\ (effect.kind = "create") = (objects[target(effect, args)] = Absent)
  /\ effect.kind # "delete" => shapeHolds(scope, def, effect, args)

\* Both ends of a graph effect are named.  Ends of one type need two
\* different parameters.
planLinkEffect(scope, effect, args) ==
  /\ effect.relationship \in DOMAIN scope.relationships
  /\ LET ends == scope.relationships[effect.relationship]
     IN /\ {ends.from, ends.to} \subseteq DOMAIN scope.entities
        /\ ends.from = ends.to => effect.from # effect.to
        /\ identifies(args, effect.from)
        /\ identifies(args, effect.to)

linkKey(effect, args) == <<effect.relationship, args[effect.from], args[effect.to]>>

objectEffects(action) == {i \in DOMAIN action.effects :
                            action.effects[i].kind \in {"create", "update", "delete"}}
linkEffects(action) == {i \in DOMAIN action.effects :
                          action.effects[i].kind \in {"link", "unlink"}}

\* The effect of the action on an object, if one names it.
effectsOn(action, args, k) ==
  {i \in objectEffects(action) : target(action.effects[i], args) = k}

\* The endpoint exists once the action is done.
endpointStays(action, args, k) ==
  IF effectsOn(action, args, k) = {}
  THEN objects[k] # Absent
  ELSE \A i \in effectsOn(action, args, k) : action.effects[i].kind # "delete"

endpointsStay(scope, action, effect, args) ==
  LET ends == scope.relationships[effect.relationship]
  IN /\ endpointStays(action, args, <<ends.from, args[effect.from]>>)
     /\ endpointStays(action, args, <<ends.to, args[effect.to]>>)

\* The whole plan holds: there is something to write, each effect can be
\* performed, no object is written twice, no link would dangle.
planned(scope, def, action, args) ==
  /\ validParameters(action, args)
  /\ objectEffects(action) \cup linkEffects(action) # {}
  /\ \A i \in objectEffects(action) :
       planEffect(scope, def, action.effects[i], args)
  /\ \A i, j \in objectEffects(action) :
       i # j => target(action.effects[i], args) # target(action.effects[j], args)
  /\ \A i \in linkEffects(action) : planLinkEffect(scope, action.effects[i], args)
  /\ \A i \in linkEffects(action) :
       action.effects[i].kind = "link" =>
         endpointsStay(scope, action, action.effects[i], args)

-----------------------------------------------------------------------------
(***************************************************************************)
(* What a planned call does to the store.                                  *)
(***************************************************************************)

\* The objects after the writes named by the effects in E.
writeObjects(scope, action, args, E) ==
  [k \in ObjectKeys |->
     IF effectsOn(action, args, k) \cap E = {}
     THEN objects[k]
     ELSE LET effect == action.effects[CHOOSE i \in effectsOn(action, args, k) \cap E : TRUE]
          IN IF effect.kind = "delete" THEN Absent ELSE written(scope, effect, args)]

\* An edge that starts or ends at one of the objects in gone.
touches(l, ends, gone) == <<ends.from, l[2]>> \in gone \/ <<ends.to, l[3]>> \in gone

\* deleteOntologyObject takes the edges on both sides with the object.
cascade(action, args, E) ==
  LET gone == {target(action.effects[i], args) :
                 i \in {j \in E : action.effects[j].kind = "delete"}}
  IN [l \in LinkKeys |->
        IF links[l] # NoLink /\ touches(l, links[l], gone) THEN NoLink ELSE links[l]]

endsOf(scope, r) == [from |-> scope.relationships[r].from,
                     to |-> scope.relationships[r].to]

\* The last of the effects in E on an edge decides.  A link over an edge that
\* is still there does nothing, whatever object types that edge has.
writeLinks(scope, action, args, base, E) ==
  [l \in LinkKeys |->
     LET on == {i \in E : linkKey(action.effects[i], args) = l}
         last == CHOOSE i \in on : \A j \in on : j <= i
         freed == \E i \in on : action.effects[i].kind = "unlink"
     IN IF on = {} THEN base[l]
        ELSE IF action.effects[last].kind = "unlink" THEN NoLink
        ELSE IF base[l] # NoLink /\ ~freed THEN base[l]
        ELSE endsOf(scope, l[1])]

apply(r, scope, action, args, E, L) ==
  LET after == writeObjects(scope, action, args, E)
  IN /\ objects' = after
     /\ links' = writeLinks(scope, action, args, cascade(action, args, E), L)
     /\ writer' = [k \in ObjectKeys |->
                     IF after[k] = Absent THEN NoTree
                     ELSE IF effectsOn(action, args, k) \cap E # {} THEN run[r].def
                     ELSE writer[k]]

\* Mutant: each object effect is applied as soon as it is resolved.
invokeOntologyAction_AsPlanned(r, scope, action, args) ==
  LET E == objectEffects(action)
      fine(i) == planEffect(scope, run[r].def, action.effects[i], args)
      done == {i \in E : \A j \in E : j <= i => fine(j)}
  IN /\ validParameters(action, args)
     /\ IF planned(scope, run[r].def, action, args)
        THEN apply(r, scope, action, args, E, linkEffects(action))
        ELSE apply(r, scope, action, args, done, {})

\* Apply the plan.  A plan that fails changes nothing and the model is told
\* why: no step of the store.
invokeOntologyAction(r, scope, action, args) ==
  /\ planned(scope, run[r].def, action, args)
  /\ apply(r, scope, action, args, objectEffects(action), linkEffects(action))

-----------------------------------------------------------------------------
(***************************************************************************)
(* Steps.                                                                  *)
(***************************************************************************)

\* A run is mediated by the registered definition and stands on a step.
beginRun(r, s) ==
  /\ run[r] = NoRun
  /\ tree # NoTree
  /\ run' = [run EXCEPT ![r] = [def |-> tree, step |-> s]]
  /\ UNCHANGED <<tree, objects, links, removals, writer>>

\* complete_step and reopen_step move the run to another step of its plan.
moveRun(r, s) ==
  /\ run[r] # NoRun
  /\ run[r].step # s
  /\ run' = [run EXCEPT ![r] = [run[r] EXCEPT !.step = s]]
  /\ UNCHANGED <<tree, objects, links, removals, writer>>

endRun(r) ==
  /\ run[r] # NoRun
  /\ run' = [run EXCEPT ![r] = NoRun]
  /\ UNCHANGED <<tree, objects, links, removals, writer>>

\* The tool: an action the current step declares, in one write transaction.
invoke_action(r) ==
  /\ run[r] # NoRun
  /\ LET scope == resolveActiveOntologyScope(r)
     IN \E action \in scope.actions :
          \E args \in calls(action) :
            invokeOntologyAction(r, scope, action, args)
  /\ UNCHANGED <<tree, run, removals>>

\* An import changes what may be written, never the data.
importTree(d) ==
  /\ tree # d
  /\ tree' = d
  /\ UNCHANGED <<objects, links, run, removals, writer>>

\* Removal drops every object and link of the tree id.
deleteOntologyObjectsForTree ==
  /\ objects' = [k \in ObjectKeys |-> Absent]
  /\ links' = [l \in LinkKeys |-> NoLink]

removeTree ==
  /\ tree # NoTree
  /\ removals < MaxRemovals
  /\ tree' = NoTree
  /\ deleteOntologyObjectsForTree
  /\ removals' = removals + 1
  /\ writer' = [k \in ObjectKeys |-> NoTree]
  /\ UNCHANGED run

OntologyNext ==
  \/ \E r \in Runs, s \in Steps : beginRun(r, s) \/ moveRun(r, s)
  \/ \E r \in Runs : endRun(r) \/ invoke_action(r)
  \/ \E d \in Definitions : importTree(d)
  \/ removeTree

OntologySpec == OntologyInit /\ [][OntologyNext]_ontologyVars

-----------------------------------------------------------------------------
(***************************************************************************)
(* Properties.                                                             *)
(***************************************************************************)

\* No edge dangles: both ends of every stored link are stored objects, under
\* any order of creates, links, deletes, re-imports and removals, because a
\* link is checked against the graph after its action and a delete takes the
\* edges on both sides with it.
NoDanglingLinks ==
  \A l \in LinkKeys :
    links[l] # NoLink =>
      /\ objects[<<links[l].from, l[2]>>] # Absent
      /\ objects[<<links[l].to, l[3]>>] # Absent

\* Every stored object has the properties that any step of the definition it
\* was last written under requires, the steps its writer never declared
\* included: a sibling that reads it finds its own type.
ShapeHoldsTreeWide ==
  \A k \in ObjectKeys :
    objects[k] # Absent =>
      /\ writer[k] # NoTree
      /\ collectTreeRequiredProperties(writer[k], k[1]) \subseteq objects[k]

\* The store's invariant: through actions, imports and removals beside each
\* other no link dangles, and an object has what the definition it was written
\* under requires anywhere in its work-map (invokeOntologyAction).
OntologyInv == OntologyTypeOK /\ NoDanglingLinks /\ ShapeHoldsTreeWide

\* The effect on an object shows in the next state.
objectTookPlace(effect, args) ==
  LET k == target(effect, args)
  IN /\ effect.kind = "create" => objects[k] = Absent /\ objects'[k] # Absent
     /\ effect.kind = "update" => objects[k] # Absent /\ objects'[k] # Absent
     /\ effect.kind = "delete" => objects'[k] = Absent

\* No later effect of the action names the same edge.
decides(action, args, i) ==
  \A j \in linkEffects(action) :
    linkKey(action.effects[j], args) = linkKey(action.effects[i], args) => j <= i

\* The edge is there after a link and gone after an unlink.
linkTookPlace(effect, args) ==
  (links'[linkKey(effect, args)] = NoLink) = (effect.kind = "unlink")

\* Whatever changes in the graph is licensed by the action that changed it.
licensed(action, args) ==
  /\ \A k \in ObjectKeys :
       objects'[k] # objects[k] => effectsOn(action, args, k) # {}
  /\ \A l \in LinkKeys :
       links'[l] # links[l] =>
         \/ \E i \in linkEffects(action) : linkKey(action.effects[i], args) = l
         \/ \E i \in objectEffects(action) :
              /\ action.effects[i].kind = "delete"
              /\ links[l] # NoLink
              /\ touches(l, links[l], {target(action.effects[i], args)})

\* One action that the step of a run declares, with every effect in place.
byOneAction ==
  \E r \in Runs :
    /\ run[r] # NoRun
    /\ \E action \in resolveActiveOntologyScope(r).actions :
         \E args \in calls(action) :
           /\ \A i \in objectEffects(action) :
                /\ identifies(args, KeyOf[action.effects[i].entity])
                /\ objectTookPlace(action.effects[i], args)
           /\ \A i \in linkEffects(action) :
                /\ identifies(args, action.effects[i].from)
                /\ identifies(args, action.effects[i].to)
                /\ decides(action, args, i) => linkTookPlace(action.effects[i], args)
           /\ licensed(action, args)

\* The effects are the authorization, and all or none of them happen: a step
\* that changes the graph of a work-map that stays is one action, declared by
\* the step some run stands on.  All its effects took place, the last one on
\* an edge deciding over that edge, and nothing else was touched
\* (invokeOntologyAction plans every effect before it applies the first).
AllOrNothing ==
  [][ \/ UNCHANGED <<objects, links>>
      \/ removals' # removals
      \/ byOneAction
    ]_ontologyVars
=============================================================================
