--------------------------- MODULE MCOntologyStore ---------------------------
(***************************************************************************)
(* Definitions of one work-map with two steps each.  In the first, the     *)
(* intake step opens a case and attaches a note to it; the review step     *)
(* requires the owner of a case, detaches notes and closes cases.  In the  *)
(* second, the review step uses the relationship id "about" from the note  *)
(* to the case, and one of its actions removes such an edge and writes it  *)
(* again; in the third, every case needs a reason instead.                 *)
(*                                                                         *)
(* The instance is explored from three sides so that each stays small:     *)
(* "shape" has two runs and definitions that require different things,     *)
(* "removal" one run and a removal of the work-map, "reuse" one run and    *)
(* definitions that use one relationship id in both directions.            *)
(***************************************************************************)
EXTENDS OntologyStore, TLC

CONSTANTS i1, i2, r1, r2
VARIABLE focus

MCIds == {i1, i2}
MCEntities == {"case", "note"}
MCProps == {"owner", "reason"}
MCKeys == {"caseId", "noteId"}
MCKeyOf == [e \in MCEntities |-> IF e = "case" THEN "caseId" ELSE "noteId"]
MCSteps == {"intake", "review"}

type(P, R) == [properties |-> P, required |-> R]
act(P, R, F) == [parameters |-> P, required |-> R, effects |-> F]
onObject(k, e) == [kind |-> k, entity |-> e]
onLink(k, f, t) == [kind |-> k, relationship |-> "about", from |-> f, to |-> t]

openCase == act({"caseId", "owner", "reason"}, {"caseId"}, <<onObject("create", "case")>>)
attachNote == act({"caseId", "noteId"}, {"caseId", "noteId"},
                  <<onObject("create", "note"), onLink("link", "caseId", "noteId")>>)
citeNote == act({"caseId", "noteId"}, {"caseId", "noteId"},
                <<onLink("link", "noteId", "caseId")>>)
editCase == act({"caseId", "owner"}, {"caseId"}, <<onObject("update", "case")>>)
closeCase == act({"caseId"}, {"caseId"}, <<onObject("delete", "case")>>)
dropNote == act({"noteId"}, {"noteId"}, <<onObject("delete", "note")>>)
detachNote == act({"caseId", "noteId"}, {"caseId", "noteId"},
                  <<onLink("unlink", "caseId", "noteId")>>)
retypeEdge == act({"caseId", "noteId"}, {"caseId", "noteId"},
                  <<onLink("unlink", "noteId", "caseId"), onLink("link", "noteId", "caseId")>>)
replaceCase == act({"caseId", "noteId"}, {"caseId", "noteId"},
                   <<onObject("delete", "case"), onLink("link", "caseId", "noteId")>>)
readCase == act({"caseId"}, {}, <<onObject("read", "case")>>)

bothTypes(c) == [e \in MCEntities |-> IF e = "case" THEN c ELSE type({}, {})]
about(f, t) == [r \in {"about"} |-> [from |-> f, to |-> t]]

forward == [
  intake |-> [entities |-> bothTypes(type({"owner", "reason"}, {})),
              relationships |-> about("case", "note"),
              actions |-> {openCase, attachNote, readCase}],
  review |-> [entities |-> bothTypes(type({"owner"}, {"owner"})),
              relationships |-> about("case", "note"),
              actions |-> {editCase, closeCase, dropNote, detachNote, replaceCase}]]

\* The review step reads "about" from the note to the case.
reversed == [forward EXCEPT
  !.review.relationships = about("note", "case"),
  !.review.actions = {citeNote, retypeEdge, closeCase}]

\* The other definition under the same id: a case needs a reason.
reasoned == [forward EXCEPT
  !.intake.entities = bothTypes(type({"reason"}, {"reason"})),
  !.review.entities = bothTypes(type({"owner"}, {}))]

MCOntology == [forward |-> forward, reversed |-> reversed,
               reasoned |-> reasoned]

Symmetry == Permutations(MCIds)
MCRuns == {r1, r2}

MCInit == OntologyInit /\ focus \in {"shape", "removal", "reuse"}
MCNext ==
  /\ OntologyNext
  /\ focus' = focus
  /\ focus # "removal" => removals' = 0
  /\ focus # "shape" => run'[r2] = NoRun
  /\ tree' \in {NoTree, "forward", IF focus = "reuse" THEN "reversed" ELSE "reasoned"}
MCSpec == MCInit /\ [][MCNext]_<<ontologyVars, focus>>
=============================================================================
