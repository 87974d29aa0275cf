------------------------------ MODULE TreeStore ------------------------------
(***************************************************************************)
(* The stored definition of one work-map id, its append-only history and   *)
(* the knowledge that bundles brought along, shared by the gateway and by  *)
(* CLI commands that run in processes of their own.  The gateway works     *)
(* from a registry snapshot it loads once and drops after its own writes;  *)
(* the CLI's writes do not reach that snapshot.  Editors of the Control UI *)
(* save, import and remove through the gateway under a precondition: the   *)
(* definition they were shown, or the bundle review they confirmed.        *)
(*                                                                         *)
(* A gateway operation runs without yielding, but it reads and writes the  *)
(* database in several transactions, and another process may write between *)
(* them; each transaction is a step here.  A definition stands for its     *)
(* hash, and knowledge for the fingerprint of its rows, which is new with  *)
(* every bundle because the rows carry the time of the import.             *)
(***************************************************************************)
EXTENDS Naturals, Sequences

CONSTANTS
  Defs,        \* definitions that may be imported under the id
  Builtin,     \* the built-in definition under this id, or NoDef
  Editors,     \* clients of the gateway
  Persistent,  \* those of them that do not walk away
  MaxSaves,    \* bound: revisions before the gateway's last write
  MaxForeign,  \* bound: writes by CLI commands
  MaxRestarts, \* bound: restarts of the gateway
  NoDef,       \* no definition
  Corrupt,     \* a stored row that no longer validates
  Unloaded,    \* the registry snapshot is not loaded
  Unseen,      \* the editor holds nothing it may act on
  Idle         \* the gateway runs no operation of this module

ASSUME BuiltinAssumption == Builtin \in Defs \cup {NoDef}
ASSUME EditorsAssumption == Persistent \subseteq Editors
ASSUME BoundsAssumption == /\ MaxSaves \in Nat
                           /\ MaxForeign \in Nat
                           /\ MaxRestarts \in Nat
ASSUME NamesAssumption ==
  /\ {NoDef, Corrupt} \cap Defs = {}
  /\ NoDef # Corrupt

VARIABLES
  row,       \* enterprise_workflow_trees: a definition, Corrupt or NoDef
  hist,      \* enterprise_workflow_tree_versions: revision -> definition
  know,      \* fingerprint of the bundled foundations, 0 for none
  bundles,   \* bundle imports so far, the source of fingerprints
  cache,     \* the gateway's registry snapshot
  seen,      \* what the gateway showed an editor
  review,    \* the bundle review an editor holds
  gw,        \* the gateway's operation between two transactions
  foreign,   \* CLI writes so far
  restarts   \* gateway restarts so far

vars == <<row, hist, know, bundles, cache, seen, review, gw, foreign, restarts>>

Sources == {"absent", "builtin", "imported", "invalid"}
Entry == [source : Sources, def : Defs \cup {NoDef, Corrupt}]
Review == [existing : Entry, know : Nat, def : Defs]
Operation == [op : {"save", "preview", "bundle"}, phase : {"knowledge", "write"},
              editor : Editors, def : Defs, expected : Entry,
              existing : Entry, know : Nat]

TypeOK ==
  /\ row \in Defs \cup {NoDef, Corrupt}
  /\ hist \in Seq(Defs)
  /\ know \in Nat
  /\ bundles \in Nat
  /\ cache \in Entry \cup {Unloaded}
  /\ seen \in [Editors -> Entry \cup {Unseen}]
  /\ review \in [Editors -> Review \cup {Unseen}]
  /\ gw \in Operation \cup {Idle}
  /\ foreign \in 0..MaxForeign
  /\ restarts \in 0..MaxRestarts

\* The row may come from a release without history, or no longer validate.
Init ==
  /\ row \in Defs \cup {NoDef, Corrupt}
  /\ hist = <<>>
  /\ know = 0
  /\ bundles = 0
  /\ cache = Unloaded
  /\ seen = [c \in Editors |-> Unseen]
  /\ review = [c \in Editors |-> Unseen]
  /\ gw = Idle
  /\ foreign = 0
  /\ restarts = 0

-----------------------------------------------------------------------------
(***************************************************************************)
(* Registry and store.                                                     *)
(***************************************************************************)

\* The entry of the id: an import overrides the built-in; a row that does not
\* load is reported as an import error.
loadRegistry ==
  IF row = Corrupt THEN [source |-> "invalid", def |-> Corrupt]
  ELSE IF row # NoDef THEN [source |-> "imported", def |-> row]
  ELSE IF Builtin # NoDef THEN [source |-> "builtin", def |-> Builtin]
  ELSE [source |-> "absent", def |-> NoDef]

\* The process's snapshot, loaded from the store on first use.
getWorkflowTreeRegistrySnapshot == IF cache = Unloaded THEN loadRegistry ELSE cache

\* The definition a snapshot gives the id: behind a row that does not load,
\* the built-in stays registered.
registered(snapshot) ==
  IF snapshot.source = "invalid" /\ Builtin # NoDef
  THEN [source |-> "builtin", def |-> Builtin]
  ELSE snapshot

isRestorableTreeRow == row \in Defs

\* The newest revision, of a history that has one.
latest == hist[Len(hist)]

\* The history once the live row is in it.
snapshotCurrentTreeRow ==
  IF isRestorableTreeRow /\ (hist = <<>> \/ latest # row)
  THEN Append(hist, row)
  ELSE hist

\* Write the row, its revision and, for a bundle, its knowledge.
upsert(d, bundled) ==
  /\ row' = d
  /\ hist' = Append(snapshotCurrentTreeRow, d)
  /\ bundles' = bundles + (IF bundled THEN 1 ELSE 0)
  /\ know' = IF bundled THEN bundles' ELSE know

\* Objects and bundled foundations go with the row.
ownedDataDeleted == know' = 0

deleteInTransaction ==
  /\ hist' = snapshotCurrentTreeRow
  /\ row' = NoDef
  /\ ownedDataDeleted
  /\ UNCHANGED bundles

keepStore == UNCHANGED <<row, hist, know, bundles>>

\* Bound: the gateway starts no write on a longer history.
withinBound == Len(hist) < MaxSaves

\* Mutant: a guarded save of a built-in does not look for an override.
unchangedSince_BuiltinUnchecked(existing, expected) ==
  IF expected.source = "absent" THEN row = NoDef
  ELSE IF existing.source = "builtin" THEN TRUE
  ELSE row # Corrupt /\ row = expected.def

\* The precondition of a save under the write lock: create-only for an editor
\* that was shown no work-map, else the hash it was shown, together with the
\* source of the process's snapshot (imported if it has no entry).
unchangedSince(existing, expected) ==
  IF expected.source = "absent" THEN row = NoDef
  ELSE IF existing.source = "builtin" THEN row = NoDef
  ELSE row # Corrupt /\ row = expected.def

\* Mutant: the rows of the knowledge are not compared again.
bundleStateHolds_TreeOnly(existing, k) ==
  IF existing.source = "imported" THEN row = existing.def ELSE row = NoDef

\* The precondition of a reviewed bundle: same source, definition and
\* knowledge rows as when the import prepared itself.
bundleStateHolds(existing, k) ==
  /\ IF existing.source = "imported" THEN row = existing.def ELSE row = NoDef
  /\ know = k

\* Mutant: a conflict leaves the snapshot as it is.
refreshAfterTreeStoreChange_OnSuccess ==
  cache' = IF UNCHANGED <<row, hist>> THEN cache ELSE Unloaded

\* The snapshot is dropped after a write and after a refused one.
refreshAfterTreeStoreChange == cache' = Unloaded

-----------------------------------------------------------------------------
(***************************************************************************)
(* Operations of the gateway.                                              *)
(***************************************************************************)

keepBounds == UNCHANGED <<foreign, restarts>>

\* trees.get: the editor is shown the snapshot.
treesGet(c) ==
  /\ gw = Idle
  /\ cache' = getWorkflowTreeRegistrySnapshot
  /\ seen' = [seen EXCEPT ![c] = getWorkflowTreeRegistrySnapshot]
  /\ keepStore /\ keepBounds
  /\ UNCHANGED <<review, gw>>

\* Refused before the write: the id belongs to a built-in, or the built-in is
\* not the definition the editor was shown.
refusedEarly(existing, expected) ==
  \/ expected.source = "absent" /\ Builtin # NoDef
  \/ /\ expected.source # "absent"
     /\ existing.source = "builtin"
     /\ existing.def # expected.def

\* What an editor saves against; one that was shown nothing creates.
expectation(c) == IF seen[c] = Unseen THEN [source |-> "absent", def |-> NoDef]
                  ELSE registered(seen[c])

\* trees.import up to its write.  A row that does not load, without a built-in
\* behind it, shows no hash to save against.
importWorkflowTreeContent(c, d) ==
  LET existing == registered(getWorkflowTreeRegistrySnapshot)
      refused == refusedEarly(existing, expectation(c))
  IN /\ gw = Idle
     /\ expectation(c).source # "invalid"
     /\ withinBound
     /\ cache' = getWorkflowTreeRegistrySnapshot
     /\ gw' = IF refused THEN Idle
              ELSE [op |-> "save", phase |-> "write", editor |-> c, def |-> d,
                    expected |-> expectation(c), existing |-> existing, know |-> 0]
     /\ seen' = IF refused THEN [seen EXCEPT ![c] = Unseen] ELSE seen
     /\ keepStore /\ keepBounds
     /\ UNCHANGED review

\* Its write.  Either way the editor has to load the work-map again.
saveTree ==
  /\ gw # Idle
  /\ gw.op = "save"
  /\ IF unchangedSince(gw.existing, gw.expected)
     THEN upsert(gw.def, FALSE)
     ELSE keepStore
  /\ refreshAfterTreeStoreChange
  /\ seen' = [seen EXCEPT ![gw.editor] = Unseen]
  /\ gw' = Idle
  /\ keepBounds
  /\ UNCHANGED review

\* prepareWorkflowBundleImport, its first read: a preview, or the import of
\* the bundle the editor reviewed.  A row that does not load refuses both.
prepare(c, d, op) ==
  LET existing == getWorkflowTreeRegistrySnapshot
  IN /\ gw = Idle
     /\ withinBound
     /\ op = "bundle" => review[c] # Unseen /\ review[c].def = d
     /\ cache' = existing
     /\ gw' = IF existing.source = "invalid" THEN Idle
              ELSE [op |-> op, phase |-> "knowledge", editor |-> c, def |-> d,
                    expected |-> existing, existing |-> existing, know |-> 0]
     /\ keepStore /\ keepBounds
     /\ UNCHANGED <<seen, review>>

\* Its second read ends a preview: the editor holds the review.
previewWorkflowBundleImport ==
  /\ gw # Idle
  /\ gw.op = "preview"
  /\ review' = [review EXCEPT ![gw.editor] =
                  [existing |-> gw.existing, know |-> know, def |-> gw.def]]
  /\ gw' = Idle
  /\ keepStore /\ keepBounds
  /\ UNCHANGED <<cache, seen>>

\* The token the editor brings is the one these facts give.
tokenHolds(c, existing, k) == review[c].existing = existing /\ review[c].know = k

\* In an import the token is compared: the review must still describe the
\* work-map and the knowledge this process would replace.
checkReviewToken ==
  /\ gw # Idle
  /\ gw.op = "bundle"
  /\ gw.phase = "knowledge"
  /\ gw' = IF tokenHolds(gw.editor, gw.existing, know)
           THEN [gw EXCEPT !.phase = "write", !.know = know]
           ELSE Idle
  /\ keepStore /\ keepBounds
  /\ UNCHANGED <<cache, seen, review>>

\* The write of the reviewed bundle.
importWorkflowBundle ==
  /\ gw # Idle
  /\ gw.op = "bundle"
  /\ gw.phase = "write"
  /\ IF bundleStateHolds(gw.existing, gw.know)
     THEN upsert(gw.def, TRUE)
     ELSE keepStore
  /\ refreshAfterTreeStoreChange
  /\ review' = [review EXCEPT ![gw.editor] = Unseen]
  /\ gw' = Idle
  /\ keepBounds
  /\ UNCHANGED seen

\* trees.remove: only while the row is what the editor was shown, be it a
\* definition or a row that does not load.
removeImportedWorkflowTreeIfUnchanged(c) ==
  /\ gw = Idle
  /\ seen[c] # Unseen
  /\ seen[c].source \in {"builtin", "imported", "invalid"}
  /\ withinBound
  /\ IF row # NoDef /\ row = seen[c].def THEN deleteInTransaction ELSE keepStore
  /\ refreshAfterTreeStoreChange
  /\ seen' = [seen EXCEPT ![c] = Unseen]
  /\ keepBounds
  /\ UNCHANGED <<review, gw>>

\* The gateway restarts: the snapshot and the operation are gone, the
\* editors' pages stay.
restart ==
  /\ restarts < MaxRestarts
  /\ restarts' = restarts + 1
  /\ cache' = Unloaded
  /\ gw' = Idle
  /\ keepStore
  /\ UNCHANGED <<seen, review, foreign>>

-----------------------------------------------------------------------------
(***************************************************************************)
(* CLI commands: one write each, in a process of their own.                *)
(***************************************************************************)

foreignWrite ==
  /\ foreign < MaxForeign
  /\ foreign' = foreign + 1
  /\ UNCHANGED <<cache, seen, review, gw, restarts>>

\* enterprise trees import: no precondition; the knowledge stays.
cliTreesImport(d) == upsert(d, FALSE) /\ foreignWrite

\* enterprise bundle import: its reads (the registry, the knowledge) and its
\* write are one step.  It writes without a precondition, so what it read
\* decides only whether it is refused, and that only for a row that does not
\* load: the refusal changes nothing, and no row stops loading after the start.
cliBundleImport(d) ==
  /\ row # Corrupt
  /\ upsert(d, TRUE)
  /\ foreignWrite

\* enterprise trees remove.
cliTreesRemove ==
  /\ row # NoDef
  /\ deleteInTransaction
  /\ foreignWrite

\* An operation of the gateway has done its reads and goes on.
gatewayStep ==
  \/ saveTree
  \/ previewWorkflowBundleImport
  \/ checkReviewToken
  \/ importWorkflowBundle

Next ==
  \/ \E c \in Editors : treesGet(c) \/ removeImportedWorkflowTreeIfUnchanged(c)
  \/ \E c \in Editors, d \in Defs :
       \/ importWorkflowTreeContent(c, d)
       \/ prepare(c, d, "preview")
       \/ prepare(c, d, "bundle")
  \/ gatewayStep
  \/ restart
  \/ \E d \in Defs : cliTreesImport(d) \/ cliBundleImport(d)
  \/ cliTreesRemove

Spec == Init /\ [][Next]_vars

\* An editor goes on: it saves what it has loaded, or removes a row that does
\* not load.
editorActs(c) ==
  \/ seen[c] # Unseen /\ \E d \in Defs : importWorkflowTreeContent(c, d)
  \/ removeImportedWorkflowTreeIfUnchanged(c) /\ seen[c].source = "invalid"

\* The gateway finishes what it began; a persistent editor loads the work-map
\* and acts on it again and again.
FairSpec ==
  /\ Spec
  /\ WF_vars(gatewayStep)
  /\ \A c \in Persistent : SF_vars(treesGet(c)) /\ SF_vars(editorActs(c))

-----------------------------------------------------------------------------
(***************************************************************************)
(* Properties.                                                             *)
(***************************************************************************)

\* The latest revision is the live definition, unless the row is older than
\* the history: upsert writes both in one transaction and a removal records
\* the row before it deletes it.
HistoryCurrent == row \in Defs /\ hist # <<>> => latest = row

\* Bundled knowledge has an owner: no foundations without a row, whichever
\* process removed the work-map.
KnowledgeOwned == know # 0 => row # NoDef

\* Fingerprints are not used twice, so equal ones mean equal rows.
FingerprintsKnown ==
  /\ know <= bundles
  /\ \A c \in Editors : review[c] # Unseen => review[c].know <= bundles
  /\ gw # Idle => gw.know <= bundles

\* What an entry says of its source.
honest(e) ==
  /\ e.source = "absent" => e.def = NoDef /\ Builtin = NoDef
  /\ e.source = "builtin" => e.def = Builtin /\ Builtin # NoDef
  /\ e.source = "imported" => e.def \in Defs
  /\ e.source = "invalid" => e.def = Corrupt

\* Snapshots, pages and reviews, however old, are entries the registry once
\* gave.
EntriesHonest ==
  /\ cache # Unloaded => honest(cache)
  /\ \A c \in Editors : seen[c] # Unseen => honest(seen[c])
  /\ gw # Idle => honest(gw.existing)

\* A save that got as far as its write passed the check of built-ins; a bundle
\* that did has the review whose token was compared.
OperationChecked ==
  gw # Idle =>
    /\ gw.op = "save" =>
         IF gw.expected.source = "absent"
         THEN gw.expected.def = NoDef /\ Builtin = NoDef
         ELSE /\ gw.expected.def \in Defs
              /\ gw.existing.source = "builtin" => gw.expected.def = Builtin
    /\ gw.op # "save" => gw.existing.source # "invalid"
    /\ gw.op = "bundle" => review[gw.editor] # Unseen
    /\ gw.op = "bundle" /\ gw.phase = "write" =>
         tokenHolds(gw.editor, gw.existing, gw.know)

(* The inductive invariant: the history ends in the live definition,       *)
(* knowledge has its row, and an operation of the gateway between its      *)
(* transactions has passed the checks before them.                         *)
IInv == /\ TypeOK
        /\ HistoryCurrent
        /\ KnowledgeOwned
        /\ FingerprintsKnown
        /\ EntriesHonest
        /\ OperationChecked

\* The definition in effect for the id.
inEffect == IF row = NoDef THEN Builtin ELSE row

\* No lost update: a guarded save replaces exactly the definition its editor
\* was shown, and a guarded removal removes exactly that row, although the
\* gateway may have checked it against a snapshot that CLI commands have
\* since outdated.
SavesWhatWasSeen ==
  [][ (foreign' = foreign /\ <<row, hist>>' # <<row, hist>>)
        => IF gw = Idle
           THEN \E c \in Editors :
                  seen[c] # Unseen /\ seen'[c] = Unseen /\ row = seen[c].def
           ELSE gw.op = "save" => inEffect = gw.expected.def
    ]_vars

\* A reviewed bundle replaces exactly the definition, from the same source,
\* and the knowledge rows that its review showed.
ImportsWhatWasReviewed ==
  [][ \A c \in Editors :
        (review[c] # Unseen /\ review'[c] = Unseen /\ hist' # hist)
          => /\ inEffect = review[c].existing.def
             /\ (row # NoDef) = (review[c].existing.source = "imported")
             /\ know = review[c].know
    ]_vars

\* History is append-only, and a definition that could be restored is in it
\* by the time it is overwritten or removed, the first one of a store that
\* had no history yet included.
NothingLostFromHistory ==
  [][ /\ Len(hist) <= Len(hist')
      /\ \A i \in 1..Len(hist) : hist'[i] = hist[i]
      /\ (row \in Defs /\ row' # row) => \E i \in 1..Len(hist') : hist'[i] = row
    ]_vars

\* A snapshot that CLI commands have outdated does not stay, if some editor
\* persists: the first save or removal that conflicts drops it, so the reload
\* an editor is told to make does not repeat the conflict.
StaleSnapshotEnds ==
  (cache # Unloaded /\ cache # loadRegistry /\ withinBound)
    ~> (cache = Unloaded \/ cache = loadRegistry \/ ~withinBound)
=============================================================================
