SPECIFICATION MCSpec
CONSTANTS
  i1 = i1
  i2 = i2
  r1 = r1
  r2 = r2
  Ids <- MCIds
  Entities <- MCEntities
  Props <- MCProps
  Rels = {"about"}
  Keys <- MCKeys
  KeyOf <- MCKeyOf
  Steps <- MCSteps
  Ontology <- MCOntology
  Definitions = {"forward", "reasoned", "reversed"}
  Runs <- MCRuns
  MaxRemovals = 1
  Null = Null
  Mistyped = Mistyped
  Absent = Absent
  NoLink = NoLink
  NoTree = NoTree
  NoRun = NoRun
SYMMETRY Symmetry
INVARIANT OntologyInv
PROPERTY AllOrNothing
