---------------------------- MODULE StoreProofs -----------------------------
(***************************************************************************)
(* The two stores operators and agents write to.                           *)
(*                                                                         *)
(* TreeStore, for any number of editors and definitions, with or without a *)
(* built-in under the id: the inductive invariant IInv, and from it the    *)
(* three action properties, which are what an operator relies on: no lost  *)
(* update, no bundle other than the reviewed one, and a history that loses *)
(* nothing.                                                                *)
(*                                                                         *)
(* OntologyStore, for any scopes, objects, links and actions: the          *)
(* invariant OntologyInv, and that an ontology action takes place whole or *)
(* not at all.                                                             *)
(* The two components share no state; the second half stands on its own.   *)
(***************************************************************************)
EXTENDS TreeStore, OntologyStore, WellFoundedInduction, TLAPS

-----------------------------------------------------------------------------
(***************************************************************************)
(* The tree store: registry and history.                                   *)
(***************************************************************************)

\* loadRegistry gives an honest entry of the row.
LEMMA LoadHonest ==
  ASSUME TypeOK
  PROVE  loadRegistry \in Entry /\ honest(loadRegistry)
BY BuiltinAssumption, NamesAssumption
DEF TypeOK, Entry, Sources, loadRegistry, honest

\* So does the process's snapshot, loaded now or before.
LEMMA SnapshotHonest ==
  ASSUME TypeOK, EntriesHonest
  PROVE  /\ getWorkflowTreeRegistrySnapshot \in Entry
         /\ honest(getWorkflowTreeRegistrySnapshot)
BY LoadHonest DEF TypeOK, EntriesHonest, getWorkflowTreeRegistrySnapshot

\* The definition registered behind an honest entry is one too, and it is
\* never a row that does not load unless there is no built-in.
LEMMA RegisteredHonest ==
  ASSUME NEW e \in Entry, honest(e)
  PROVE  registered(e) \in Entry /\ honest(registered(e))
BY BuiltinAssumption, NamesAssumption DEF Entry, Sources, honest, registered

\* snapshotCurrentTreeRow appends at most the live row, which is in the
\* history afterwards.
LEMMA HistoryKept ==
  ASSUME TypeOK
  PROVE  /\ snapshotCurrentTreeRow \in Seq(Defs)
         /\ Len(hist) <= Len(snapshotCurrentTreeRow)
         /\ \A i \in 1..Len(hist) : snapshotCurrentTreeRow[i] = hist[i]
         /\ row \in Defs => \E i \in 1..Len(snapshotCurrentTreeRow) :
                              snapshotCurrentTreeRow[i] = row
<1> USE DEF TypeOK
<1>1. CASE isRestorableTreeRow /\ (hist = <<>> \/ latest # row)
  <2>1. row \in Defs /\ snapshotCurrentTreeRow = Append(hist, row)
    BY <1>1 DEF snapshotCurrentTreeRow, isRestorableTreeRow
  <2>2. snapshotCurrentTreeRow[Len(hist) + 1] = row
    BY <2>1
  <2> QED BY <2>1, <2>2
<1>2. CASE ~(isRestorableTreeRow /\ (hist = <<>> \/ latest # row))
  <2>1. snapshotCurrentTreeRow = hist
    BY <1>2 DEF snapshotCurrentTreeRow
  <2>2. row \in Defs => hist # <<>> /\ latest = row
    BY <1>2 DEF isRestorableTreeRow
  <2>3. hist # <<>> => Len(hist) \in 1..Len(hist)
    OBVIOUS
  <2> QED BY <2>1, <2>2, <2>3 DEF latest
<1> QED BY <1>1, <1>2

\* What a write leaves in the store.
LEMMA UpsertStore ==
  ASSUME TypeOK, KnowledgeOwned, FingerprintsKnown,
         NEW d \in Defs, NEW b \in BOOLEAN, upsert(d, b)
  PROVE  /\ row' = d
         /\ hist' \in Seq(Defs) /\ hist' # <<>> /\ hist'[Len(hist')] = d
         /\ know' \in Nat /\ bundles' \in Nat
         /\ know' <= bundles' /\ bundles <= bundles'
<1>1. row' = d /\ hist' = Append(snapshotCurrentTreeRow, d)
  BY DEF upsert
<1>2. hist' \in Seq(Defs) /\ hist' # <<>> /\ hist'[Len(hist')] = d
  BY <1>1, HistoryKept
<1>3. bundles' \in Nat /\ bundles <= bundles' /\ know' \in Nat /\ know' <= bundles'
  BY DEF upsert, TypeOK, FingerprintsKnown
<1> QED BY <1>1, <1>2, <1>3

\* What a removal leaves in the store.
LEMMA DeleteStore ==
  ASSUME TypeOK, deleteInTransaction
  PROVE  /\ row' = NoDef /\ hist' \in Seq(Defs)
         /\ know' = 0 /\ bundles' = bundles
BY HistoryKept DEF deleteInTransaction, ownedDataDeleted

-----------------------------------------------------------------------------
(***************************************************************************)
(* The store's part of the invariant, which any of its writes preserves.   *)
(***************************************************************************)

StoreTyped ==
  /\ row \in Defs \cup {NoDef, Corrupt}
  /\ hist \in Seq(Defs)
  /\ know \in Nat
  /\ bundles \in Nat

StoreInv ==
  /\ StoreTyped
  /\ HistoryCurrent
  /\ KnowledgeOwned
  /\ know <= bundles

StoreStep ==
  \/ keepStore
  \/ deleteInTransaction
  \/ \E d \in Defs, b \in BOOLEAN : upsert(d, b)

\* Every action leaves the store alone, deletes the row or writes one.
LEMMA EveryStepIsStoreStep ==
  ASSUME TypeOK, Next
  PROVE  StoreStep
<1>1. ASSUME gw # Idle PROVE gw.def \in Defs
  BY <1>1 DEF TypeOK, Operation
<1> QED
  BY <1>1
  DEF Next, treesGet, removeImportedWorkflowTreeIfUnchanged,
      importWorkflowTreeContent, prepare, gatewayStep, saveTree,
      previewWorkflowBundleImport, checkReviewToken, importWorkflowBundle,
      restart, cliTreesImport, cliBundleImport, cliTreesRemove, StoreStep

\* A store step preserves the store's part and forgets no fingerprint.
LEMMA StoreStepInv ==
  ASSUME IInv, StoreStep
  PROVE  StoreInv' /\ bundles <= bundles'
<1> USE DEF IInv, StoreInv, StoreTyped
<1>1. CASE keepStore
  BY <1>1 DEF keepStore, TypeOK, HistoryCurrent, latest, KnowledgeOwned,
              FingerprintsKnown
<1>2. CASE deleteInTransaction
  BY <1>2, DeleteStore, NamesAssumption
  DEF TypeOK, HistoryCurrent, KnowledgeOwned
<1>3. ASSUME NEW d \in Defs, NEW b \in BOOLEAN, upsert(d, b)
      PROVE  StoreInv' /\ bundles <= bundles'
  <2>1. /\ row' = d
        /\ hist' \in Seq(Defs) /\ hist'[Len(hist')] = d
        /\ know' \in Nat /\ bundles' \in Nat
        /\ know' <= bundles' /\ bundles <= bundles'
    BY <1>3, UpsertStore
  <2> QED BY <2>1, NamesAssumption DEF HistoryCurrent, latest, KnowledgeOwned
<1> QED BY <1>1, <1>2, <1>3 DEF StoreStep

-----------------------------------------------------------------------------
(***************************************************************************)
(* The gateway's part: snapshot, pages, reviews and operation.             *)
(***************************************************************************)

GatewayTyped ==
  /\ cache \in Entry \cup {Unloaded}
  /\ seen \in [Editors -> Entry \cup {Unseen}]
  /\ review \in [Editors -> Review \cup {Unseen}]
  /\ gw \in Operation \cup {Idle}
  /\ foreign \in 0..MaxForeign
  /\ restarts \in 0..MaxRestarts

ReviewsKnown ==
  /\ \A c \in Editors : review[c] # Unseen => review[c].know <= bundles
  /\ gw # Idle => gw.know <= bundles

GatewayInv == GatewayTyped /\ ReviewsKnown /\ EntriesHonest /\ OperationChecked

\* IInv is the two parts.
LEMMA Parts == IInv <=> StoreInv /\ GatewayInv
BY DEF IInv, TypeOK, StoreInv, StoreTyped, GatewayInv, GatewayTyped,
       ReviewsKnown, FingerprintsKnown

\* The same after a step.
LEMMA PartsPrimed == IInv' <=> StoreInv' /\ GatewayInv'
BY DEF IInv, TypeOK, StoreInv, StoreTyped, GatewayInv, GatewayTyped,
       ReviewsKnown, FingerprintsKnown

\* A step that changes none of the gateway's state preserves its part.
LEMMA GatewayStutters ==
  ASSUME GatewayInv, bundles \in Nat, know \in Nat, bundles' \in Nat, bundles <= bundles',
         UNCHANGED <<cache, seen, review, gw, restarts>>,
         foreign' \in 0..MaxForeign
  PROVE  GatewayInv'
<1> USE DEF GatewayInv
<1>1. GatewayTyped'
  BY DEF GatewayTyped
<1>2. ReviewsKnown'
  BY DEF GatewayTyped, ReviewsKnown, Review, Operation
<1>3. EntriesHonest' /\ OperationChecked'
  BY DEF EntriesHonest, OperationChecked, honest, tokenHolds
<1> QED BY <1>1, <1>2, <1>3

\* treesGet shows an honest entry.
LEMMA GetInv ==
  ASSUME IInv, NEW c \in Editors, treesGet(c)
  PROVE  GatewayInv'
<1> DEFINE shown == getWorkflowTreeRegistrySnapshot
<1>1. shown \in Entry /\ honest(shown)
  BY SnapshotHonest DEF IInv
<1>2. /\ gw = Idle /\ gw' = Idle /\ cache' = shown
      /\ seen' = [seen EXCEPT ![c] = shown]
      /\ UNCHANGED <<review, foreign, restarts, bundles>>
  BY DEF treesGet, keepStore, keepBounds
<1> HIDE DEF shown
<1>3. GatewayTyped'
  BY <1>1, <1>2 DEF IInv, TypeOK, GatewayTyped
<1>4. ReviewsKnown' /\ OperationChecked'
  BY <1>2 DEF IInv, FingerprintsKnown, ReviewsKnown, OperationChecked
<1>5. EntriesHonest'
  <2>1. ASSUME NEW e \in Editors, seen'[e] # Unseen PROVE honest(seen'[e])
    BY <1>1, <1>2, <2>1 DEF IInv, TypeOK, EntriesHonest
  <2>2. honest(cache')
    BY <1>1, <1>2
  <2> QED BY <1>2, <2>1, <2>2 DEF EntriesHonest, honest
<1> QED BY <1>3, <1>4, <1>5 DEF GatewayInv

\* A removal drops the snapshot and the page it acted on.
LEMMA RemoveInv ==
  ASSUME IInv, NEW c \in Editors, removeImportedWorkflowTreeIfUnchanged(c)
  PROVE  GatewayInv'
<1>1. /\ gw = Idle /\ gw' = Idle /\ cache' = Unloaded
      /\ seen' = [seen EXCEPT ![c] = Unseen]
      /\ UNCHANGED <<review, foreign, restarts, bundles>>
  BY DEF removeImportedWorkflowTreeIfUnchanged, keepStore, keepBounds,
         deleteInTransaction, refreshAfterTreeStoreChange
<1>2. GatewayTyped'
  BY <1>1 DEF IInv, TypeOK, GatewayTyped
<1>3. ReviewsKnown' /\ OperationChecked'
  BY <1>1 DEF IInv, FingerprintsKnown, ReviewsKnown, OperationChecked
<1>4. EntriesHonest'
  <2>1. ASSUME NEW e \in Editors, seen'[e] # Unseen PROVE honest(seen'[e])
    BY <1>1, <2>1 DEF IInv, TypeOK, EntriesHonest
  <2> QED BY <1>1, <2>1 DEF EntriesHonest, honest
<1> QED BY <1>2, <1>3, <1>4 DEF GatewayInv

\* A save that is not refused early has the expectation it needs at its write.
LEMMA SaveBeginsInv ==
  ASSUME IInv, NEW c \in Editors, NEW d \in Defs, importWorkflowTreeContent(c, d)
  PROVE  GatewayInv'
<1> DEFINE snapshot == getWorkflowTreeRegistrySnapshot
           existing == registered(snapshot)
           expected == expectation(c)
           operation == [op |-> "save", phase |-> "write", editor |-> c, def |-> d,
                         expected |-> expected, existing |-> existing, know |-> 0]
<1>1. /\ snapshot \in Entry /\ honest(snapshot)
      /\ existing \in Entry /\ honest(existing)
  BY SnapshotHonest, RegisteredHonest DEF IInv
<1>2. expected \in Entry /\ expected.source # "invalid"
  BY RegisteredHonest
  DEF expectation, importWorkflowTreeContent, IInv, TypeOK, EntriesHonest, Entry, Sources
<1>3. seen[c] # Unseen => honest(expected)
  BY RegisteredHonest DEF expectation, IInv, TypeOK, EntriesHonest
<1>4. seen[c] = Unseen => expected = [source |-> "absent", def |-> NoDef]
  BY DEF expectation
<1>5. /\ gw = Idle /\ cache' = snapshot
      /\ gw' = Idle \/ (~refusedEarly(existing, expected) /\ gw' = operation)
      /\ seen' = seen \/ seen' = [seen EXCEPT ![c] = Unseen]
      /\ UNCHANGED <<review, foreign, restarts, bundles>>
  BY DEF importWorkflowTreeContent, keepStore, keepBounds
<1> HIDE DEF snapshot, existing, expected
<1>6. GatewayTyped'
  <2>1. operation \in Operation
    BY <1>1, <1>2 DEF Operation
  <2> QED BY <1>1, <1>5, <2>1 DEF IInv, TypeOK, GatewayTyped
<1>7. ReviewsKnown'
  BY <1>5 DEF IInv, TypeOK, FingerprintsKnown, ReviewsKnown
<1>8. EntriesHonest'
  <2>1. ASSUME NEW e \in Editors, seen'[e] # Unseen PROVE honest(seen'[e])
    BY <1>5, <2>1 DEF IInv, TypeOK, EntriesHonest
  <2>2. honest(cache') /\ (gw' # Idle => honest(gw'.existing))
    BY <1>1, <1>5
  <2> QED BY <2>1, <2>2 DEF EntriesHonest, honest
<1>9. OperationChecked'
  <2>1. SUFFICES ASSUME gw' # Idle PROVE OperationChecked'
    BY DEF OperationChecked
  <2>2. gw' = operation /\ ~refusedEarly(existing, expected)
    BY <1>5, <2>1
  <2>3. CASE expected.source = "absent"
    <3>1. expected.def = NoDef /\ Builtin = NoDef
      BY <2>2, <2>3, <1>3, <1>4 DEF refusedEarly, honest
    <3> QED BY <2>2, <2>3, <3>1 DEF OperationChecked
  <2>4. CASE expected.source # "absent"
    <3>1. honest(expected)
      BY <1>3, <1>4, <2>4
    <3>2. expected.def \in Defs
      BY <3>1, <2>4, <1>2, BuiltinAssumption DEF honest, Entry, Sources
    <3>3. existing.source = "builtin" => expected.def = Builtin
      BY <2>2, <2>4, <1>1 DEF refusedEarly, honest
    <3> QED BY <2>2, <2>4, <3>2, <3>3 DEF OperationChecked
  <2> QED BY <2>3, <2>4
<1> QED BY <1>6, <1>7, <1>8, <1>9 DEF GatewayInv

\* A bundle operation starts from an honest entry, an import with a review.
LEMMA PrepareInv ==
  ASSUME IInv, NEW c \in Editors, NEW d \in Defs, NEW op \in {"preview", "bundle"},
         prepare(c, d, op)
  PROVE  GatewayInv'
<1> DEFINE existing == getWorkflowTreeRegistrySnapshot
           operation == [op |-> op, phase |-> "knowledge", editor |-> c, def |-> d,
                         expected |-> existing, existing |-> existing, know |-> 0]
<1>1. existing \in Entry /\ honest(existing)
  BY SnapshotHonest DEF IInv
<1>2. /\ gw = Idle /\ cache' = existing
      /\ op = "bundle" => review[c] # Unseen
      /\ gw' = Idle \/ (existing.source # "invalid" /\ gw' = operation)
      /\ UNCHANGED <<seen, review, foreign, restarts, bundles>>
  BY DEF prepare, keepStore, keepBounds
<1> HIDE DEF existing
<1>3. GatewayTyped'
  <2>1. operation \in Operation
    BY <1>1 DEF Operation
  <2> QED BY <1>1, <1>2, <2>1 DEF IInv, TypeOK, GatewayTyped
<1>4. ReviewsKnown'
  BY <1>2 DEF IInv, TypeOK, FingerprintsKnown, ReviewsKnown
<1>5. EntriesHonest'
  <2>1. honest(cache') /\ (gw' # Idle => honest(gw'.existing))
    BY <1>1, <1>2
  <2> QED BY <1>2, <2>1 DEF IInv, EntriesHonest, honest
<1>6. OperationChecked'
  BY <1>2 DEF OperationChecked
<1> QED BY <1>3, <1>4, <1>5, <1>6 DEF GatewayInv

\* Writing, or being refused to, ends the operation and drops the snapshot.
LEMMA WriteInv ==
  ASSUME IInv, StoreStep, saveTree \/ importWorkflowBundle
  PROVE  GatewayInv'
<1>1. bundles \in Nat /\ bundles' \in Nat /\ bundles <= bundles'
  BY StoreStepInv DEF IInv, TypeOK, StoreInv, StoreTyped
<1>2. /\ gw \in Operation /\ gw' = Idle /\ cache' = Unloaded
      /\ seen' = seen \/ seen' = [seen EXCEPT ![gw.editor] = Unseen]
      /\ review' = review \/ review' = [review EXCEPT ![gw.editor] = Unseen]
      /\ UNCHANGED <<foreign, restarts>>
  BY DEF saveTree, importWorkflowBundle, keepBounds, refreshAfterTreeStoreChange,
         IInv, TypeOK
<1>3. GatewayTyped'
  BY <1>2 DEF IInv, TypeOK, GatewayTyped, Operation
<1>4. ReviewsKnown'
  <2>1. ASSUME NEW e \in Editors, review'[e] # Unseen PROVE review'[e].know <= bundles'
    <3>1. review'[e] = review[e] /\ review[e] \in Review
      BY <1>2, <2>1 DEF IInv, TypeOK, Operation
    <3>2. review[e].know \in Nat /\ review[e].know <= bundles
      BY <3>1, <2>1 DEF IInv, FingerprintsKnown, Review
    <3> QED BY <1>1, <3>1, <3>2
  <2> QED BY <1>2, <2>1 DEF ReviewsKnown
<1>5. EntriesHonest'
  <2>1. ASSUME NEW e \in Editors, seen'[e] # Unseen PROVE honest(seen'[e])
    BY <1>2, <2>1 DEF IInv, TypeOK, EntriesHonest
  <2> QED BY <1>2, <2>1 DEF EntriesHonest, honest
<1>6. OperationChecked'
  BY <1>2 DEF OperationChecked
<1> QED BY <1>3, <1>4, <1>5, <1>6 DEF GatewayInv

\* A preview leaves its editor a review with the current fingerprint.
LEMMA PreviewInv ==
  ASSUME IInv, previewWorkflowBundleImport
  PROVE  GatewayInv'
<1> DEFINE held == [existing |-> gw.existing, know |-> know, def |-> gw.def]
<1>1. /\ gw \in Operation /\ gw' = Idle
      /\ review' = [review EXCEPT ![gw.editor] = held]
      /\ UNCHANGED <<cache, seen, foreign, restarts, bundles>>
  BY DEF previewWorkflowBundleImport, keepStore, keepBounds, IInv, TypeOK
<1>2. held \in Review /\ held.know <= bundles
  BY <1>1 DEF IInv, TypeOK, FingerprintsKnown, Operation, Review
<1> HIDE DEF held
<1>3. GatewayTyped'
  BY <1>1, <1>2 DEF IInv, TypeOK, GatewayTyped
<1>4. ReviewsKnown'
  <2>1. ASSUME NEW e \in Editors, review'[e] # Unseen PROVE review'[e].know <= bundles'
    BY <1>1, <1>2, <2>1 DEF IInv, TypeOK, FingerprintsKnown
  <2> QED BY <1>1, <2>1 DEF ReviewsKnown
<1>5. EntriesHonest' /\ OperationChecked'
  BY <1>1 DEF IInv, EntriesHonest, OperationChecked, honest
<1> QED BY <1>3, <1>4, <1>5 DEF GatewayInv

\* An import whose token holds goes on to its write with what it compared.
LEMMA TokenInv ==
  ASSUME IInv, checkReviewToken
  PROVE  GatewayInv'
<1> DEFINE checked == [gw EXCEPT !.phase = "write", !.know = know]
<1>1. /\ gw \in Operation /\ gw # Idle /\ gw.op = "bundle"
      /\ gw' = Idle \/ (tokenHolds(gw.editor, gw.existing, know) /\ gw' = checked)
      /\ UNCHANGED <<cache, seen, review, foreign, restarts, bundles>>
  BY DEF checkReviewToken, keepStore, keepBounds, IInv, TypeOK
<1>2. /\ checked \in Operation /\ checked.know = know /\ checked.op = "bundle"
      /\ checked.existing = gw.existing /\ checked.editor = gw.editor
  BY <1>1 DEF IInv, TypeOK, Operation
<1> HIDE DEF checked
<1>3. GatewayTyped'
  BY <1>1, <1>2 DEF IInv, TypeOK, GatewayTyped
<1>4. ReviewsKnown'
  BY <1>1, <1>2 DEF IInv, FingerprintsKnown, ReviewsKnown
<1>5. EntriesHonest'
  BY <1>1, <1>2 DEF IInv, EntriesHonest, honest
<1>6. OperationChecked'
  BY <1>1, <1>2 DEF IInv, OperationChecked, tokenHolds
<1> QED BY <1>3, <1>4, <1>5, <1>6 DEF GatewayInv

\* A restart forgets the snapshot and the operation.
LEMMA RestartInv ==
  ASSUME IInv, restart
  PROVE  GatewayInv'
<1>1. /\ cache' = Unloaded /\ gw' = Idle /\ restarts' \in 0..MaxRestarts
      /\ UNCHANGED <<seen, review, foreign, bundles>>
  BY BoundsAssumption DEF restart, keepStore, IInv, TypeOK
<1>2. GatewayTyped' /\ ReviewsKnown'
  BY <1>1 DEF IInv, TypeOK, FingerprintsKnown, GatewayTyped, ReviewsKnown
<1>3. EntriesHonest' /\ OperationChecked'
  BY <1>1 DEF IInv, EntriesHonest, OperationChecked, honest
<1> QED BY <1>2, <1>3 DEF GatewayInv

\* A CLI command reaches nothing of the gateway.
LEMMA ForeignInv ==
  ASSUME IInv, StoreStep, foreignWrite
  PROVE  GatewayInv'
<1>1. bundles \in Nat /\ know \in Nat /\ bundles' \in Nat /\ bundles <= bundles'
  BY StoreStepInv DEF IInv, TypeOK, StoreInv, StoreTyped
<1>2. /\ foreign' \in 0..MaxForeign
      /\ UNCHANGED <<cache, seen, review, gw, restarts>>
  BY BoundsAssumption DEF foreignWrite, IInv, TypeOK
<1> QED BY <1>1, <1>2, Parts, GatewayStutters

-----------------------------------------------------------------------------
(***************************************************************************)
(* The theorems.                                                           *)
(***************************************************************************)

\* IInv is inductive.
LEMMA Inductive == IInv /\ [Next]_vars => IInv'
<1>1. ASSUME IInv, Next PROVE IInv'
  <2> USE <1>1
  <2>1. StoreStep
    BY EveryStepIsStoreStep DEF IInv
  <2>2. StoreInv'
    BY <2>1, StoreStepInv
  <2>3. CASE \E c \in Editors : treesGet(c) \/ removeImportedWorkflowTreeIfUnchanged(c)
    BY <2>2, <2>3, GetInv, RemoveInv, PartsPrimed
  <2>4. CASE \E c \in Editors, d \in Defs :
               \/ importWorkflowTreeContent(c, d)
               \/ prepare(c, d, "preview")
               \/ prepare(c, d, "bundle")
    BY <2>2, <2>4, SaveBeginsInv, PrepareInv, PartsPrimed
  <2>5. CASE saveTree \/ importWorkflowBundle
    BY <2>1, <2>2, <2>5, WriteInv, PartsPrimed
  <2>6. CASE previewWorkflowBundleImport \/ checkReviewToken
    BY <2>2, <2>6, PreviewInv, TokenInv, PartsPrimed
  <2>7. CASE restart
    BY <2>2, <2>7, RestartInv, PartsPrimed
  <2>8. CASE foreignWrite
    BY <2>1, <2>2, <2>8, ForeignInv, PartsPrimed
  <2> QED
    BY <2>3, <2>4, <2>5, <2>6, <2>7, <2>8
    DEF Next, gatewayStep, cliTreesImport, cliBundleImport, cliTreesRemove
<1>2. ASSUME IInv, UNCHANGED vars PROVE IInv'
  <2>1. keepStore
    BY <1>2 DEF vars, keepStore
  <2>2. StoreInv' /\ bundles <= bundles' /\ bundles \in Nat /\ know \in Nat
    BY <1>2, <2>1, StoreStepInv DEF StoreStep, IInv, TypeOK
  <2>3. GatewayInv'
    BY <1>2, <2>2, Parts, GatewayStutters
    DEF vars, StoreInv, StoreTyped, GatewayInv, GatewayTyped
  <2> QED BY <2>2, <2>3, PartsPrimed
<1> QED BY <1>1, <1>2

\* Whatever editors, CLI commands and restarts do: the history ends in the
\* live definition, knowledge has its work-map, and an operation at its write
\* has passed the checks made before it.
THEOREM StoreConsistent == Spec => []IInv
<1>1. Init => IInv
  BY NamesAssumption, BoundsAssumption
  DEF Init, IInv, TypeOK, HistoryCurrent, KnowledgeOwned, FingerprintsKnown,
      EntriesHonest, OperationChecked
<1> QED BY <1>1, Inductive, PTL DEF Spec

\* A removal by any process takes the bundled knowledge with the row.
THEOREM KnowledgeHasOwner == Spec => []KnowledgeOwned
BY StoreConsistent, PTL DEF IInv

\* No definition is lost: overwriting or removing a row, by the gateway or by
\* a CLI command, leaves it in an append-only history.
THEOREM HistoryLosesNothing == Spec => NothingLostFromHistory
<1> DEFINE Kept == /\ Len(hist) <= Len(hist')
                   /\ \A i \in 1..Len(hist) : hist'[i] = hist[i]
                   /\ (row \in Defs /\ row' # row) =>
                        \E i \in 1..Len(hist') : hist'[i] = row
<1>1. ASSUME IInv, Next PROVE Kept
  <2>1. TypeOK /\ StoreStep
    BY <1>1, EveryStepIsStoreStep DEF IInv
  <2>2. CASE keepStore
    BY <2>1, <2>2 DEF keepStore, TypeOK
  <2>3. CASE deleteInTransaction
    BY <2>1, <2>3, HistoryKept DEF deleteInTransaction
  <2>4. ASSUME NEW d \in Defs, NEW b \in BOOLEAN, upsert(d, b) PROVE Kept
    <3>1. hist' = Append(snapshotCurrentTreeRow, d)
      BY <2>4 DEF upsert
    <3>2. \A i \in 1..Len(snapshotCurrentTreeRow) :
            i \in 1..Len(hist') /\ hist'[i] = snapshotCurrentTreeRow[i]
      BY <2>1, <3>1, HistoryKept
    <3>3. Len(hist') = Len(snapshotCurrentTreeRow) + 1
      BY <2>1, <3>1, HistoryKept
    <3> HIDE DEF snapshotCurrentTreeRow
    <3> QED BY <2>1, <3>2, <3>3, HistoryKept DEF TypeOK
  <2> QED BY <2>1, <2>2, <2>3, <2>4 DEF StoreStep
<1> HIDE DEF Kept
<1>2. IInv /\ [Next]_vars => [Kept]_vars
  BY <1>1
<1>3. [][Kept]_vars => NothingLostFromHistory
  BY PTL DEF NothingLostFromHistory, Kept
<1> QED BY <1>2, <1>3, StoreConsistent, PTL DEF Spec

\* No lost update: what a guarded save or removal replaces is what its editor
\* was shown, for any stale snapshot and any CLI write between the gateway's
\* read and its write.
THEOREM NoLostUpdate == Spec => SavesWhatWasSeen
<1> DEFINE Seen ==
      (foreign' = foreign /\ <<row, hist>>' # <<row, hist>>)
        => IF gw = Idle
           THEN \E c \in Editors :
                  seen[c] # Unseen /\ seen'[c] = Unseen /\ row = seen[c].def
           ELSE gw.op = "save" => inEffect = gw.expected.def
<1>1. ASSUME IInv, Next PROVE Seen
  <2> USE <1>1
  <2>1. CASE keepStore
    BY <2>1 DEF keepStore
  <2>2. CASE foreignWrite
    <3>1. foreign' # foreign
      BY <2>2 DEF foreignWrite, IInv, TypeOK
    <3> QED BY <3>1
  <2>3. ASSUME NEW c \in Editors, removeImportedWorkflowTreeIfUnchanged(c), ~keepStore
        PROVE  Seen
    <3>1. /\ gw = Idle /\ seen[c] # Unseen /\ row = seen[c].def
          /\ seen' = [seen EXCEPT ![c] = Unseen]
      BY <2>3 DEF removeImportedWorkflowTreeIfUnchanged
    <3>2. seen'[c] = Unseen
      BY <3>1 DEF IInv, TypeOK
    <3> QED BY <3>1, <3>2
  <2>4. CASE saveTree /\ ~keepStore
    <3>1. gw \in Operation /\ gw # Idle /\ gw.op = "save"
      BY <2>4 DEF saveTree, IInv, TypeOK
    <3>2. unchangedSince(gw.existing, gw.expected)
      BY <2>4 DEF saveTree
    <3>3. CASE gw.expected.source = "absent"
      BY <3>1, <3>2, <3>3 DEF unchangedSince, IInv, OperationChecked, inEffect
    <3>4. CASE gw.expected.source # "absent"
      <4>1. /\ gw.expected.def \in Defs
            /\ gw.existing.source = "builtin" => gw.expected.def = Builtin
        BY <3>1, <3>4 DEF IInv, OperationChecked
      <4> QED BY <3>1, <3>2, <3>4, <4>1, NamesAssumption DEF unchangedSince, inEffect
    <3> QED BY <3>3, <3>4
  <2>5. CASE importWorkflowBundle
    BY <2>5 DEF importWorkflowBundle
  <2> QED
    BY <2>1, <2>2, <2>3, <2>4, <2>5
    DEF Next, gatewayStep, treesGet, importWorkflowTreeContent, prepare,
        previewWorkflowBundleImport, checkReviewToken, restart,
        cliTreesImport, cliBundleImport, cliTreesRemove
<1> HIDE DEF Seen
<1>2. IInv /\ [Next]_vars => [Seen]_vars
  BY <1>1
<1>3. [][Seen]_vars => SavesWhatWasSeen
  BY PTL DEF SavesWhatWasSeen, Seen
<1> QED BY <1>2, <1>3, StoreConsistent, PTL DEF Spec

\* A bundle import replaces the definition, from the same source, and the
\* knowledge that its editor reviewed, or nothing.
THEOREM BundleAsReviewed == Spec => ImportsWhatWasReviewed
<1> DEFINE Reviewed ==
      \A c \in Editors :
        (review[c] # Unseen /\ review'[c] = Unseen /\ hist' # hist)
          => /\ inEffect = review[c].existing.def
             /\ (row # NoDef) = (review[c].existing.source = "imported")
             /\ know = review[c].know
<1>1. ASSUME IInv, Next PROVE Reviewed
  <2>1. SUFFICES ASSUME NEW c \in Editors,
                        review[c] # Unseen, review'[c] = Unseen, hist' # hist
                 PROVE  /\ inEffect = review[c].existing.def
                        /\ (row # NoDef) = (review[c].existing.source = "imported")
                        /\ know = review[c].know
    OBVIOUS
  <2>2. importWorkflowBundle /\ ~keepStore
    BY <1>1, <2>1
    DEF Next, gatewayStep, treesGet, removeImportedWorkflowTreeIfUnchanged,
        importWorkflowTreeContent, prepare, saveTree, previewWorkflowBundleImport,
        checkReviewToken, restart, cliTreesImport, cliBundleImport, cliTreesRemove,
        foreignWrite, keepStore
  <2>3. /\ gw \in Operation /\ gw # Idle /\ gw.op = "bundle" /\ gw.phase = "write"
        /\ bundleStateHolds(gw.existing, gw.know)
        /\ review' = [review EXCEPT ![gw.editor] = Unseen]
    BY <1>1, <2>2 DEF importWorkflowBundle, IInv, TypeOK
  <2>4. c = gw.editor
    BY <1>1, <2>1, <2>3 DEF IInv, TypeOK
  <2>5. /\ review[c].existing = gw.existing /\ review[c].know = gw.know
        /\ gw.existing \in Entry /\ honest(gw.existing)
        /\ gw.existing.source # "invalid"
    BY <1>1, <2>3, <2>4 DEF IInv, OperationChecked, EntriesHonest, tokenHolds, Operation
  <2>6. know = gw.know
    BY <2>3 DEF bundleStateHolds
  <2>7. CASE gw.existing.source = "imported"
    <3>1. row = gw.existing.def /\ row \in Defs
      BY <2>3, <2>5, <2>7 DEF bundleStateHolds, honest
    <3> QED BY <2>5, <2>6, <2>7, <3>1, NamesAssumption DEF inEffect
  <2>8. CASE gw.existing.source # "imported"
    <3>1. row = NoDef
      BY <2>3, <2>8 DEF bundleStateHolds
    <3>2. gw.existing.def = Builtin
      BY <2>5, <2>8 DEF honest, Entry, Sources
    <3> QED BY <2>5, <2>6, <2>8, <3>1, <3>2 DEF inEffect
  <2> QED BY <2>7, <2>8
<1> HIDE DEF Reviewed
<1>2. IInv /\ [Next]_vars => [Reviewed]_vars
  BY <1>1
<1>3. [][Reviewed]_vars => ImportsWhatWasReviewed
  BY PTL DEF ImportsWhatWasReviewed, Reviewed
<1> QED BY <1>2, <1>3, StoreConsistent, PTL DEF Spec

-----------------------------------------------------------------------------
(***************************************************************************)
(* The object store: what a planned action leaves behind.                  *)
(***************************************************************************)

(* A set of naturals with an element has a least one.                      *)
LEMMA LeastNatural ==
  ASSUME NEW T, T \subseteq Nat, T # {}
  PROVE  \E x \in T : \A y \in T : x <= y
<1>1. \E x \in T : \A y \in T : ~ (<<y, x>> \in OpToRel(<, Nat))
  BY NatLessThanWellFounded, WFMin
<1>2. ASSUME NEW x \in T, NEW y \in T, ~ (<<y, x>> \in OpToRel(<, Nat))
      PROVE  x <= y
  BY <1>2 DEF OpToRel
<1> QED
  BY <1>1, <1>2

\* The last of some effects of an action exists.
LEMMA LastEffect ==
  ASSUME NEW n \in Nat, NEW on, on \subseteq 1 .. n, on # {}
  PROVE  \E i \in on : \A j \in on : j <= i
<1>1. DEFINE dist == {n - i : i \in on}
<1>2. dist \subseteq Nat /\ dist # {}
  <2>1. ASSUME NEW i \in on PROVE n - i \in Nat
    OBVIOUS
  <2>2. PICK i \in on : TRUE
    OBVIOUS
  <2>3. n - i \in dist
    BY <2>2
  <2> QED
    BY <2>1, <2>3
<1>3. PICK m \in dist : \A y \in dist : m <= y
  BY <1>2, LeastNatural
<1>4. PICK i \in on : m = n - i
  BY <1>3
<1>5. ASSUME NEW j \in on PROVE j <= i
  <2>1. n - i <= n - j
    BY <1>3, <1>4
  <2> QED
    BY <2>1
<1> QED
  BY <1>5

\* What a step declares, for a run that stands on one.
LEMMA ScopeOfRun ==
  ASSUME OntologyTypeOK, NEW r \in Runs, run[r] # NoRun
  PROVE  /\ run[r].def \in Definitions
         /\ run[r].step \in Steps
         /\ run[r].def # NoTree
BY DistinctNamesAssumption DEF OntologyTypeOK, ActiveRun

\* A property set stays one, and is not Absent.
LEMMA WrittenType ==
  ASSUME OntologyTypeOK, NEW r \in Runs, run[r] # NoRun,
         NEW effect, NEW args, NEW action,
         planEffect(resolveActiveOntologyScope(r), run[r].def, effect, args)
  PROVE  /\ target(effect, args) \in ObjectKeys
         /\ written(resolveActiveOntologyScope(r), effect, args) \in SUBSET Props
         /\ written(resolveActiveOntologyScope(r), effect, args) # Absent
<1> DEFINE scope == resolveActiveOntologyScope(r)
           k == target(effect, args)
           before == IF objects[k] = Absent THEN {} ELSE objects[k]
           cleared == {p \in given(scope, effect, args) : args[p] = Null}
<1>1. /\ effect.entity \in DOMAIN scope.entities
      /\ identifies(args, KeyOf[effect.entity])
  BY DEF planEffect
<1>2. /\ DOMAIN scope.entities \subseteq Entities
      /\ scope.entities[effect.entity].properties \subseteq Props
  BY <1>1, ScopeOfRun, ScopesAssumption DEF resolveActiveOntologyScope
<1>3. k \in ObjectKeys
  BY <1>1, <1>2 DEF target, ObjectKeys, identifies
<1>4. before \in SUBSET Props
  BY <1>3 DEF OntologyTypeOK
<1>5. given(scope, effect, args) \subseteq Props
  BY <1>2 DEF given
<1>6. written(scope, effect, args) =
        (before \ cleared) \cup (given(scope, effect, args) \ cleared)
  BY DEF written
<1>7. written(scope, effect, args) \in SUBSET Props
  <2> HIDE DEF before, cleared, scope
  <2> QED
    BY <1>4, <1>5, <1>6
<1> QED
  BY <1>3, <1>7, DistinctNamesAssumption

\* A planned effect that keeps its object leaves the tree-wide shape.
LEMMA WrittenShape ==
  ASSUME NEW r \in Runs, NEW effect, NEW args, effect.kind # "delete",
         planEffect(resolveActiveOntologyScope(r), run[r].def, effect, args)
  PROVE  collectTreeRequiredProperties(run[r].def, effect.entity)
           \subseteq written(resolveActiveOntologyScope(r), effect, args)
BY DEF planEffect, shapeHolds, requiredIds

\* Two effects of a planned action on one object are one effect.
LEMMA OneEffectPerObject ==
  ASSUME NEW scope, NEW def, NEW action, NEW args, NEW k,
         planned(scope, def, action, args),
         NEW i \in effectsOn(action, args, k)
  PROVE  /\ effectsOn(action, args, k) \cap objectEffects(action) = {i}
         /\ i \in objectEffects(action)
         /\ target(action.effects[i], args) = k
         /\ planEffect(scope, def, action.effects[i], args)
BY DEF planned, effectsOn

\* An object that no effect names stays; one that an effect names is gone
\* after a delete, and else holds what was written.
LEMMA ObjectAfter ==
  ASSUME OntologyTypeOK, NEW r \in Runs, run[r] # NoRun, NEW action, NEW args,
         planned(resolveActiveOntologyScope(r), run[r].def, action, args),
         NEW k \in ObjectKeys, NEW after,
         after = writeObjects(resolveActiveOntologyScope(r), action, args,
                              objectEffects(action))
  PROVE  /\ effectsOn(action, args, k) = {} => after[k] = objects[k]
         /\ \A i \in effectsOn(action, args, k) :
              /\ action.effects[i].kind = "delete" => after[k] = Absent
              /\ action.effects[i].kind # "delete" =>
                   /\ after[k] = written(resolveActiveOntologyScope(r),
                                         action.effects[i], args)
                   /\ after[k] # Absent
<1> DEFINE scope == resolveActiveOntologyScope(r)
<1>1. CASE effectsOn(action, args, k) = {}
  BY <1>1 DEF writeObjects
<1>2. ASSUME NEW i \in effectsOn(action, args, k)
      PROVE  /\ action.effects[i].kind = "delete" => after[k] = Absent
             /\ action.effects[i].kind # "delete" =>
                  after[k] = written(scope, action.effects[i], args)
             /\ written(scope, action.effects[i], args) # Absent
  <2>1. effectsOn(action, args, k) \cap objectEffects(action) = {i}
    BY OneEffectPerObject
  <2>2. (CHOOSE j \in effectsOn(action, args, k) \cap objectEffects(action) : TRUE) = i
    BY <2>1
  <2>3. after[k] = IF action.effects[i].kind = "delete" THEN Absent
                   ELSE written(scope, action.effects[i], args)
    BY <2>1, <2>2 DEF writeObjects
  <2>4. planEffect(scope, run[r].def, action.effects[i], args)
    BY OneEffectPerObject
  <2>5. written(scope, action.effects[i], args) # Absent
    BY <2>4, WrittenType
  <2> QED
    BY <2>3, <2>5
<1> QED
  BY <1>1, <1>2

\* The objects stay typed.
LEMMA ObjectsTyped ==
  ASSUME OntologyTypeOK, NEW r \in Runs, run[r] # NoRun, NEW action, NEW args,
         planned(resolveActiveOntologyScope(r), run[r].def, action, args),
         NEW after,
         after = writeObjects(resolveActiveOntologyScope(r), action, args,
                              objectEffects(action))
  PROVE  after \in [ObjectKeys -> (SUBSET Props) \cup {Absent}]
<1>1. ASSUME NEW k \in ObjectKeys
      PROVE  after[k] \in (SUBSET Props) \cup {Absent}
  <2>1. CASE effectsOn(action, args, k) = {}
    <3>1. after[k] = objects[k]
      BY <2>1, ObjectAfter
    <3> QED
      BY <3>1 DEF OntologyTypeOK
  <2>2. CASE effectsOn(action, args, k) # {}
    <3>1. PICK i \in effectsOn(action, args, k) : TRUE
      BY <2>2
    <3>2. planEffect(resolveActiveOntologyScope(r), run[r].def, action.effects[i], args)
      BY <3>1, OneEffectPerObject
    <3>3. written(resolveActiveOntologyScope(r), action.effects[i], args) \in SUBSET Props
      BY <3>2, WrittenType
    <3> QED
      BY <3>1, <3>3, ObjectAfter
  <2> QED
    BY <2>1, <2>2
<1>2. after = [k \in ObjectKeys |-> after[k]]
  BY DEF writeObjects
<1> QED
  BY <1>1, <1>2

\* An edge after the action: untouched, gone with an object, or as the last
\* effect on it says.
LEMMA EdgeUntouched ==
  ASSUME NEW scope, NEW action, NEW args, NEW l \in LinkKeys, NEW base,
         \A i \in linkEffects(action) : linkKey(action.effects[i], args) # l
  PROVE  writeLinks(scope, action, args, base, linkEffects(action))[l] = base[l]
<1>1. {i \in linkEffects(action) : linkKey(action.effects[i], args) = l} = {}
  OBVIOUS
<1> QED
  BY <1>1 DEF writeLinks

LEMMA EdgeDecided ==
  ASSUME NEW r \in Runs, run[r] # NoRun, OntologyTypeOK,
         NEW action \in resolveActiveOntologyScope(r).actions, NEW args,
         NEW l \in LinkKeys, NEW base, NEW scope,
         NEW i \in linkEffects(action), linkKey(action.effects[i], args) = l,
         decides(action, args, i)
  PROVE  writeLinks(scope, action, args, base, linkEffects(action))[l] =
           IF action.effects[i].kind = "unlink" THEN NoLink
           ELSE IF /\ base[l] # NoLink
                   /\ ~\E j \in linkEffects(action) :
                         /\ linkKey(action.effects[j], args) = l
                         /\ action.effects[j].kind = "unlink"
                THEN base[l]
                ELSE endsOf(scope, l[1])
<1> DEFINE on == {j \in linkEffects(action) : linkKey(action.effects[j], args) = l}
<1>1. on # {} /\ on \subseteq 1 .. Len(action.effects) /\ Len(action.effects) \in Nat
  BY ScopeOfRun, ScopesAssumption DEF resolveActiveOntologyScope, linkEffects
<1>2. i \in on /\ \A j \in on : j <= i
  BY DEF decides
<1>3. \A m \in on : (\A j \in on : j <= m) => m = i
  BY <1>1, <1>2
<1> DEFINE last == CHOOSE m \in on : \A j \in on : j <= m
           freed == \E j \in on : action.effects[j].kind = "unlink"
<1>4. last = i
  <2> HIDE DEF on
  <2> QED
    BY <1>2, <1>3
<1>5. freed <=> \E j \in linkEffects(action) :
                   /\ linkKey(action.effects[j], args) = l
                   /\ action.effects[j].kind = "unlink"
  OBVIOUS
<1>6. writeLinks(scope, action, args, base, linkEffects(action))[l] =
        IF on = {} THEN base[l]
        ELSE IF action.effects[last].kind = "unlink" THEN NoLink
        ELSE IF base[l] # NoLink /\ ~freed THEN base[l]
        ELSE endsOf(scope, l[1])
  BY DEF writeLinks
<1> QED
  <2> HIDE DEF on, last, freed
  <2> QED
    BY <1>1, <1>4, <1>5, <1>6

\* Of the effects on an edge one decides.
LEMMA SomeEffectDecides ==
  ASSUME NEW r \in Runs, run[r] # NoRun, OntologyTypeOK,
         NEW action \in resolveActiveOntologyScope(r).actions, NEW args,
         NEW j \in linkEffects(action)
  PROVE  \E i \in linkEffects(action) :
           /\ linkKey(action.effects[i], args) = linkKey(action.effects[j], args)
           /\ decides(action, args, i)
<1> DEFINE on == {i \in linkEffects(action) :
                    linkKey(action.effects[i], args) = linkKey(action.effects[j], args)}
<1>1. on # {} /\ on \subseteq 1 .. Len(action.effects) /\ Len(action.effects) \in Nat
  BY ScopeOfRun, ScopesAssumption DEF resolveActiveOntologyScope, linkEffects
<1>2. PICK i \in on : \A m \in on : m <= i
  BY <1>1, LastEffect
<1> QED
  BY <1>2 DEF decides

\* What planLinkEffect guarantees of an edge.
LEMMA PlannedEdge ==
  ASSUME OntologyTypeOK, NEW r \in Runs, run[r] # NoRun, NEW action, NEW args,
         NEW i \in linkEffects(action),
         planned(resolveActiveOntologyScope(r), run[r].def, action, args)
  PROVE  /\ identifies(args, action.effects[i].from)
         /\ identifies(args, action.effects[i].to)
         /\ linkKey(action.effects[i], args) \in LinkKeys
         /\ endsOf(resolveActiveOntologyScope(r), action.effects[i].relationship) \in Ends
<1>1. planLinkEffect(resolveActiveOntologyScope(r), action.effects[i], args)
  BY DEF planned
<1>2. action.effects[i].relationship
        \in DOMAIN resolveActiveOntologyScope(r).relationships
  BY <1>1 DEF planLinkEffect
<1>3. /\ action.effects[i].relationship \in Rels
      /\ resolveActiveOntologyScope(r).relationships[action.effects[i].relationship].from
           \in Entities
      /\ resolveActiveOntologyScope(r).relationships[action.effects[i].relationship].to
           \in Entities
  BY <1>2, ScopeOfRun, ScopesAssumption DEF resolveActiveOntologyScope
<1> QED
  BY <1>1, <1>3 DEF planLinkEffect, identifies, linkKey, LinkKeys, endsOf, Ends

\* The objects that the cascade of an action takes edges from.
goneWith(action, args) ==
  {target(action.effects[i], args) :
     i \in {j \in objectEffects(action) : action.effects[j].kind = "delete"}}

LEMMA CascadeAt ==
  ASSUME NEW action, NEW args, NEW l \in LinkKeys
  PROVE  cascade(action, args, objectEffects(action))[l] =
           IF links[l] # NoLink /\ touches(l, links[l], goneWith(action, args))
           THEN NoLink ELSE links[l]
BY DEF cascade, goneWith

\* An edge that the cascade leaves has both its objects after the action.
LEMMA CascadeKeepsEnds ==
  ASSUME OntologyTypeOK, NoDanglingLinks,
         NEW r \in Runs, run[r] # NoRun, NEW action, NEW args,
         planned(resolveActiveOntologyScope(r), run[r].def, action, args),
         NEW after,
         after = writeObjects(resolveActiveOntologyScope(r), action, args,
                              objectEffects(action)),
         NEW l \in LinkKeys, links[l] # NoLink,
         ~ touches(l, links[l], goneWith(action, args))
  PROVE  /\ after[<<links[l].from, l[2]>>] # Absent
         /\ after[<<links[l].to, l[3]>>] # Absent
<1>1. ASSUME NEW k \in ObjectKeys, objects[k] # Absent, k \notin goneWith(action, args)
      PROVE  after[k] # Absent
  <2>1. CASE effectsOn(action, args, k) = {}
    BY <1>1, <2>1, ObjectAfter
  <2>2. CASE effectsOn(action, args, k) # {}
    <3>1. PICK i \in effectsOn(action, args, k) : TRUE
      BY <2>2
    <3>2. i \in objectEffects(action) /\ target(action.effects[i], args) = k
      BY <3>1, OneEffectPerObject
    <3>3. action.effects[i].kind # "delete"
      BY <1>1, <3>2 DEF goneWith
    <3> QED
      BY <3>1, <3>3, ObjectAfter
  <2> QED
    BY <2>1, <2>2
<1>2. /\ <<links[l].from, l[2]>> \in ObjectKeys
      /\ <<links[l].to, l[3]>> \in ObjectKeys
  BY DEF OntologyTypeOK, Ends, LinkKeys, ObjectKeys
<1>3. /\ objects[<<links[l].from, l[2]>>] # Absent
      /\ objects[<<links[l].to, l[3]>>] # Absent
  BY DEF NoDanglingLinks
<1>4. /\ <<links[l].from, l[2]>> \notin goneWith(action, args)
      /\ <<links[l].to, l[3]>> \notin goneWith(action, args)
  BY DEF touches
<1> QED
  BY <1>1, <1>2, <1>3, <1>4

\* An edge that is linked has both its objects after the action.
LEMMA LinkedHasEnds ==
  ASSUME OntologyTypeOK,
         NEW r \in Runs, run[r] # NoRun, NEW action, NEW args,
         planned(resolveActiveOntologyScope(r), run[r].def, action, args),
         NEW after,
         after = writeObjects(resolveActiveOntologyScope(r), action, args,
                              objectEffects(action)),
         NEW i \in linkEffects(action), action.effects[i].kind # "unlink",
         NEW ends, ends = endsOf(resolveActiveOntologyScope(r),
                                 action.effects[i].relationship)
  PROVE  /\ after[<<ends.from, args[action.effects[i].from]>>] # Absent
         /\ after[<<ends.to, args[action.effects[i].to]>>] # Absent
<1> DEFINE scope == resolveActiveOntologyScope(r)
<1>1. action.effects[i].kind = "link"
  BY DEF linkEffects
<1>2. endpointsStay(scope, action, action.effects[i], args)
  BY <1>1 DEF planned
<1>3. /\ endpointStays(action, args, <<ends.from, args[action.effects[i].from]>>)
      /\ endpointStays(action, args, <<ends.to, args[action.effects[i].to]>>)
  BY <1>2 DEF endpointsStay, endsOf
<1>4. /\ <<ends.from, args[action.effects[i].from]>> \in ObjectKeys
      /\ <<ends.to, args[action.effects[i].to]>> \in ObjectKeys
  BY PlannedEdge DEF Ends, identifies, ObjectKeys
<1>5. ASSUME NEW k \in ObjectKeys, endpointStays(action, args, k)
      PROVE  after[k] # Absent
  <2>1. CASE effectsOn(action, args, k) = {}
    BY <1>5, <2>1, ObjectAfter DEF endpointStays
  <2>2. CASE effectsOn(action, args, k) # {}
    <3>1. PICK m \in effectsOn(action, args, k) : action.effects[m].kind # "delete"
      BY <1>5, <2>2 DEF endpointStays
    <3> QED
      BY <3>1, ObjectAfter
  <2> QED
    BY <2>1, <2>2
<1> QED
  BY <1>3, <1>4, <1>5

\* The step of a run that invokes an action of its step.
invokes(r, action, args) ==
  /\ run[r] # NoRun
  /\ action \in resolveActiveOntologyScope(r).actions
  /\ invokeOntologyAction(r, resolveActiveOntologyScope(r), action, args)
  /\ UNCHANGED <<tree, run, removals>>

\* The two tables and the observed writer after an invocation.
LEMMA InvokedStore ==
  ASSUME NEW r \in Runs, NEW action, NEW args, invokes(r, action, args)
  PROVE  /\ run[r] # NoRun
         /\ planned(resolveActiveOntologyScope(r), run[r].def, action, args)
         /\ objects' = writeObjects(resolveActiveOntologyScope(r), action, args,
                                    objectEffects(action))
         /\ links' = writeLinks(resolveActiveOntologyScope(r), action, args,
                                cascade(action, args, objectEffects(action)),
                                linkEffects(action))
         /\ writer' = [k \in ObjectKeys |->
                         IF objects'[k] = Absent THEN NoTree
                         ELSE IF effectsOn(action, args, k) # {} THEN run[r].def
                         ELSE writer[k]]
<1>1. \A k : effectsOn(action, args, k) \cap objectEffects(action)
               = effectsOn(action, args, k)
  BY DEF effectsOn
<1> QED
  BY <1>1 DEF invokes, invokeOntologyAction, apply

\* Every edge after an invocation is one that was there and lost neither
\* object, or one of the relationship the step declares, just linked.
LEMMA EdgesAfter ==
  ASSUME OntologyTypeOK, NEW r \in Runs, NEW action, NEW args, invokes(r, action, args),
         NEW l \in LinkKeys
  PROVE  \/ links'[l] = NoLink
         \/ /\ links'[l] = links[l]
            /\ ~ touches(l, links[l], goneWith(action, args))
         \/ \E i \in linkEffects(action) :
              /\ action.effects[i].kind # "unlink"
              /\ linkKey(action.effects[i], args) = l
              /\ links'[l] = endsOf(resolveActiveOntologyScope(r),
                                    action.effects[i].relationship)
<1> DEFINE scope == resolveActiveOntologyScope(r)
           base == cascade(action, args, objectEffects(action))
<1>1. links' = writeLinks(scope, action, args, base, linkEffects(action))
  BY InvokedStore
<1>2. base[l] = NoLink \/ /\ base[l] = links[l]
                          /\ ~ touches(l, links[l], goneWith(action, args))
  BY CascadeAt DEF OntologyTypeOK
<1>3. CASE \A i \in linkEffects(action) : linkKey(action.effects[i], args) # l
  <2>1. links'[l] = base[l]
    BY <1>1, <1>3, EdgeUntouched
  <2> QED
    BY <1>2, <2>1
<1>4. CASE \E j \in linkEffects(action) : linkKey(action.effects[j], args) = l
  <2>1. PICK i \in linkEffects(action) :
          linkKey(action.effects[i], args) = l /\ decides(action, args, i)
    BY <1>4, SomeEffectDecides DEF invokes
  <2>2. /\ run[r] # NoRun
        /\ action \in resolveActiveOntologyScope(r).actions
    BY DEF invokes
  <2>3. /\ action.effects[i].kind = "unlink" => links'[l] = NoLink
        /\ action.effects[i].kind # "unlink" =>
             links'[l] = base[l] \/ links'[l] = endsOf(scope, l[1])
    <3> HIDE DEF base, scope
    <3> QED
      BY <1>1, <2>1, <2>2, EdgeDecided
  <2>4. CASE action.effects[i].kind = "unlink"
    BY <2>3, <2>4
  <2>5. CASE action.effects[i].kind # "unlink"
    <3>1. links'[l] = base[l] \/ links'[l] = endsOf(scope, l[1])
      BY <2>3, <2>5
    <3>2. l[1] = action.effects[i].relationship
      BY <2>1 DEF linkKey
    <3> QED
      BY <1>2, <2>1, <2>5, <3>1, <3>2
  <2> QED
    BY <2>4, <2>5
<1> QED
  BY <1>3, <1>4

LEMMA InvokedTyped ==
  ASSUME OntologyTypeOK, NEW r \in Runs, NEW action, NEW args, invokes(r, action, args)
  PROVE  OntologyTypeOK'
<1>1. objects' \in [ObjectKeys -> (SUBSET Props) \cup {Absent}]
  BY InvokedStore, ObjectsTyped
<1>2. links' \in [LinkKeys -> Ends \cup {NoLink}]
  <2>1. links' = [l \in LinkKeys |-> links'[l]]
    BY InvokedStore DEF writeLinks
  <2>2. ASSUME NEW l \in LinkKeys PROVE links'[l] \in Ends \cup {NoLink}
    <3>1. \A i \in linkEffects(action) :
            endsOf(resolveActiveOntologyScope(r), action.effects[i].relationship) \in Ends
      BY InvokedStore, PlannedEdge
    <3>2. links[l] \in Ends \cup {NoLink}
      BY DEF OntologyTypeOK
    <3> QED
      BY <3>1, <3>2, EdgesAfter
  <2> QED
    BY <2>1, <2>2
<1>3. writer' \in [ObjectKeys -> Definitions \cup {NoTree}]
  <2>1. run[r].def \in Definitions
    BY InvokedStore, ScopeOfRun
  <2>2. writer \in [ObjectKeys -> Definitions \cup {NoTree}]
    BY DEF OntologyTypeOK
  <2> QED
    BY <2>1, <2>2, InvokedStore
<1> QED
  BY <1>1, <1>2, <1>3 DEF OntologyTypeOK, invokes

LEMMA InvokedLinks ==
  ASSUME OntologyTypeOK, NoDanglingLinks,
         NEW r \in Runs, NEW action, NEW args, invokes(r, action, args)
  PROVE  NoDanglingLinks'
<1> SUFFICES ASSUME NEW l \in LinkKeys, links'[l] # NoLink
             PROVE  /\ objects'[<<links'[l].from, l[2]>>] # Absent
                    /\ objects'[<<links'[l].to, l[3]>>] # Absent
  BY DEF NoDanglingLinks
<1>1. CASE links'[l] = links[l] /\ ~ touches(l, links[l], goneWith(action, args))
  BY <1>1, InvokedStore, CascadeKeepsEnds
<1>2. ASSUME NEW i \in linkEffects(action), action.effects[i].kind # "unlink",
             linkKey(action.effects[i], args) = l,
             links'[l] = endsOf(resolveActiveOntologyScope(r),
                                action.effects[i].relationship)
      PROVE  /\ objects'[<<links'[l].from, l[2]>>] # Absent
             /\ objects'[<<links'[l].to, l[3]>>] # Absent
  <2>1. l[2] = args[action.effects[i].from] /\ l[3] = args[action.effects[i].to]
    BY <1>2 DEF linkKey
  <2> QED
    BY <1>2, <2>1, InvokedStore, LinkedHasEnds
<1> QED
  BY <1>1, <1>2, EdgesAfter

LEMMA InvokedShape ==
  ASSUME OntologyTypeOK, ShapeHoldsTreeWide,
         NEW r \in Runs, NEW action, NEW args, invokes(r, action, args)
  PROVE  ShapeHoldsTreeWide'
<1> SUFFICES ASSUME NEW k \in ObjectKeys, objects'[k] # Absent
             PROVE  /\ writer'[k] # NoTree
                    /\ collectTreeRequiredProperties(writer'[k], k[1]) \subseteq objects'[k]
  BY DEF ShapeHoldsTreeWide, collectTreeRequiredProperties
<1>1. CASE effectsOn(action, args, k) = {}
  <2>1. objects'[k] = objects[k] /\ writer'[k] = writer[k]
    BY <1>1, InvokedStore, ObjectAfter
  <2> QED
    BY <2>1 DEF ShapeHoldsTreeWide
<1>2. CASE effectsOn(action, args, k) # {}
  <2>1. PICK i \in effectsOn(action, args, k) : TRUE
    BY <1>2
  <2>2. action.effects[i].kind # "delete"
    BY <2>1, InvokedStore, ObjectAfter
  <2>3. objects'[k] = written(resolveActiveOntologyScope(r), action.effects[i], args)
    BY <2>1, <2>2, InvokedStore, ObjectAfter
  <2>4. writer'[k] = run[r].def
    BY <1>2, InvokedStore
  <2>5. /\ planEffect(resolveActiveOntologyScope(r), run[r].def, action.effects[i], args)
        /\ target(action.effects[i], args) = k
    BY <2>1, InvokedStore, OneEffectPerObject
  <2>6. action.effects[i].entity = k[1]
    BY <2>5 DEF target
  <2> QED
    BY <2>2, <2>3, <2>4, <2>5, <2>6, WrittenShape, InvokedStore, ScopeOfRun
<1> QED
  BY <1>1, <1>2

\* Removal, imports and the runs' own moves.
LEMMA OntologyInitial == OntologyInit => OntologyInv
<1> SUFFICES ASSUME OntologyInit PROVE OntologyInv
  OBVIOUS
<1>1. OntologyTypeOK
  BY MaxRemovalsAssumption DEF OntologyInit, OntologyTypeOK
<1>2. NoDanglingLinks /\ ShapeHoldsTreeWide
  BY DEF OntologyInit, NoDanglingLinks, ShapeHoldsTreeWide
<1> QED
  BY <1>1, <1>2 DEF OntologyInv

LEMMA SameStore ==
  ASSUME OntologyInv, UNCHANGED <<objects, links, writer>>,
         tree' \in Definitions \cup {NoTree},
         run' \in [Runs -> ActiveRun \cup {NoRun}], removals' \in 0..MaxRemovals
  PROVE  OntologyInv'
<1>1. OntologyTypeOK'
  BY DEF OntologyInv, OntologyTypeOK
<1>2. NoDanglingLinks' /\ ShapeHoldsTreeWide'
  BY DEF OntologyInv, NoDanglingLinks, ShapeHoldsTreeWide, collectTreeRequiredProperties
<1> QED
  BY <1>1, <1>2 DEF OntologyInv

LEMMA RemovedStore ==
  ASSUME OntologyInv, removeTree
  PROVE  OntologyInv'
<1>1. OntologyTypeOK'
  BY MaxRemovalsAssumption DEF OntologyInv, OntologyTypeOK, removeTree,
                               deleteOntologyObjectsForTree
<1>2. NoDanglingLinks' /\ ShapeHoldsTreeWide'
  BY DEF NoDanglingLinks, ShapeHoldsTreeWide, removeTree, deleteOntologyObjectsForTree
<1> QED
  BY <1>1, <1>2 DEF OntologyInv

\* Every step keeps the invariant.
LEMMA OntologyStep ==
  OntologyInv /\ [OntologyNext]_ontologyVars => OntologyInv'
<1> SUFFICES ASSUME OntologyInv, [OntologyNext]_ontologyVars
             PROVE  OntologyInv'
  OBVIOUS
<1>0. OntologyTypeOK
  BY DEF OntologyInv
<1>1. ASSUME NEW r \in Runs, NEW s \in Steps, beginRun(r, s)
      PROVE  OntologyInv'
  <2>1. run' \in [Runs -> ActiveRun \cup {NoRun}]
    BY <1>0, <1>1 DEF beginRun, OntologyTypeOK, ActiveRun
  <2> QED
    BY <1>0, <1>1, <2>1, SameStore DEF beginRun, OntologyTypeOK
<1>2. ASSUME NEW r \in Runs, NEW s \in Steps, moveRun(r, s)
      PROVE  OntologyInv'
  <2>1. run[r] \in ActiveRun
    BY <1>0, <1>2 DEF moveRun, OntologyTypeOK
  <2>2. [run[r] EXCEPT !.step = s] \in ActiveRun
    BY <2>1 DEF ActiveRun
  <2>3. run' \in [Runs -> ActiveRun \cup {NoRun}]
    BY <1>0, <1>2, <2>2 DEF moveRun, OntologyTypeOK
  <2> QED
    BY <1>0, <1>2, <2>3, SameStore DEF moveRun, OntologyTypeOK
<1>3. ASSUME NEW r \in Runs, endRun(r)
      PROVE  OntologyInv'
  <2>1. run' \in [Runs -> ActiveRun \cup {NoRun}]
    BY <1>0, <1>3 DEF endRun, OntologyTypeOK
  <2> QED
    BY <1>0, <1>3, <2>1, SameStore DEF endRun, OntologyTypeOK
<1>4. ASSUME NEW r \in Runs, invoke_action(r)
      PROVE  OntologyInv'
  <2>1. \E action, args : invokes(r, action, args)
    BY <1>4 DEF invoke_action, invokes
  <2> QED
    BY <2>1, InvokedTyped, InvokedLinks, InvokedShape DEF OntologyInv
<1>5. ASSUME NEW d \in Definitions, importTree(d)
      PROVE  OntologyInv'
  BY <1>0, <1>5, SameStore DEF importTree, OntologyTypeOK
<1>6. CASE removeTree
  BY <1>6, RemovedStore
<1>7. CASE UNCHANGED ontologyVars
  BY <1>0, <1>7, SameStore DEF ontologyVars, OntologyTypeOK
<1> QED
  BY <1>1, <1>2, <1>3, <1>4, <1>5, <1>6, <1>7 DEF OntologyNext

\* The object store's invariant, for every ontology, any number of runs and
\* any removals: no edge dangles and every object has the shape that the
\* definition it was written under requires anywhere in its work-map
\* (invokeOntologyAction, deleteOntologyObject).
THEOREM StoreIsSound == OntologySpec => []OntologyInv
BY OntologyInitial, OntologyStep, PTL DEF OntologySpec

-----------------------------------------------------------------------------
\* A planned effect on an object takes place.
LEMMA ObjectEffectTakesPlace ==
  ASSUME OntologyTypeOK, NEW r \in Runs, NEW action, NEW args, invokes(r, action, args),
         NEW i \in objectEffects(action)
  PROVE  /\ identifies(args, KeyOf[action.effects[i].entity])
         /\ objectTookPlace(action.effects[i], args)
<1> DEFINE effect == action.effects[i]
           k == target(effect, args)
<1>1. planEffect(resolveActiveOntologyScope(r), run[r].def, effect, args)
  BY InvokedStore DEF planned
<1>2. k \in ObjectKeys
  BY <1>1, InvokedStore, WrittenType
<1>3. i \in effectsOn(action, args, k)
  BY DEF effectsOn
<1>4. /\ effect.kind = "delete" => objects'[k] = Absent
      /\ effect.kind # "delete" => objects'[k] # Absent
  <2> HIDE DEF effect, k
  <2> QED
    BY <1>2, <1>3, InvokedStore, ObjectAfter DEF effect
<1>5. (effect.kind = "create") = (objects[k] = Absent)
  BY <1>1 DEF planEffect
<1>6. identifies(args, KeyOf[effect.entity])
  BY <1>1 DEF planEffect
<1>7. objectTookPlace(effect, args)
  <2> HIDE DEF effect
  <2> QED
    BY <1>4, <1>5 DEF objectTookPlace
<1> QED
  BY <1>6, <1>7

\* So does the effect that decides over an edge.
LEMMA LinkEffectTakesPlace ==
  ASSUME OntologyTypeOK, NEW r \in Runs, NEW action, NEW args, invokes(r, action, args),
         NEW i \in linkEffects(action), decides(action, args, i)
  PROVE  linkTookPlace(action.effects[i], args)
<1> DEFINE scope == resolveActiveOntologyScope(r)
           base == cascade(action, args, objectEffects(action))
           l == linkKey(action.effects[i], args)
<1>1. links' = writeLinks(scope, action, args, base, linkEffects(action))
  BY InvokedStore
<1>2. /\ l \in LinkKeys
      /\ endsOf(scope, action.effects[i].relationship) \in Ends
  BY InvokedStore, PlannedEdge
<1>3. endsOf(scope, l[1]) # NoLink
  BY <1>2, DistinctNamesAssumption DEF linkKey, Ends
<1>4. run[r] # NoRun /\ action \in resolveActiveOntologyScope(r).actions
  BY DEF invokes
<1>5. /\ action.effects[i].kind = "unlink" => links'[l] = NoLink
      /\ action.effects[i].kind # "unlink" =>
           links'[l] = endsOf(scope, l[1]) \/ (base[l] # NoLink /\ links'[l] = base[l])
  <2>1. linkKey(action.effects[i], args) = l
    OBVIOUS
  <2>2. l \in LinkKeys
    BY <1>2
  <2> HIDE DEF base, scope, l
  <2>3. writeLinks(scope, action, args, base, linkEffects(action))[l] =
          IF action.effects[i].kind = "unlink" THEN NoLink
          ELSE IF /\ base[l] # NoLink
                  /\ ~\E j \in linkEffects(action) :
                        /\ linkKey(action.effects[j], args) = l
                        /\ action.effects[j].kind = "unlink"
               THEN base[l]
               ELSE endsOf(scope, l[1])
    BY <1>4, <2>1, <2>2, EdgeDecided
  <2> QED
    BY <1>1, <2>3
<1> QED
  BY <1>3, <1>5 DEF linkTookPlace

\* Nothing is touched that the action does not name.
LEMMA OnlyLicensed ==
  ASSUME OntologyTypeOK, NEW r \in Runs, NEW action, NEW args, invokes(r, action, args)
  PROVE  licensed(action, args)
<1>1. ASSUME NEW k \in ObjectKeys, objects'[k] # objects[k]
      PROVE  effectsOn(action, args, k) # {}
  BY <1>1, InvokedStore, ObjectAfter
<1>2. ASSUME NEW l \in LinkKeys, links'[l] # links[l],
             \A i \in linkEffects(action) : linkKey(action.effects[i], args) # l
      PROVE  \E i \in objectEffects(action) :
               /\ action.effects[i].kind = "delete"
               /\ links[l] # NoLink
               /\ touches(l, links[l], {target(action.effects[i], args)})
  <2>1. links'[l] = cascade(action, args, objectEffects(action))[l]
    BY <1>2, InvokedStore, EdgeUntouched
  <2>2. links[l] # NoLink /\ touches(l, links[l], goneWith(action, args))
    BY <1>2, <2>1, CascadeAt
  <2>3. PICK i \in objectEffects(action) :
          /\ action.effects[i].kind = "delete"
          /\ \/ <<links[l].from, l[2]>> = target(action.effects[i], args)
             \/ <<links[l].to, l[3]>> = target(action.effects[i], args)
    BY <2>2 DEF touches, goneWith
  <2> QED
    BY <2>2, <2>3 DEF touches
<1> QED
  BY <1>1, <1>2 DEF licensed

LEMMA InvocationIsWhole ==
  ASSUME OntologyTypeOK, NEW r \in Runs, invoke_action(r)
  PROVE  byOneAction
<1>1. PICK action \in resolveActiveOntologyScope(r).actions :
        \E args \in calls(action) : invokes(r, action, args)
  BY DEF invoke_action, invokes
<1> PICK args \in calls(action) : invokes(r, action, args)
  BY <1>1
<1>2. \A i \in objectEffects(action) :
        /\ identifies(args, KeyOf[action.effects[i].entity])
        /\ objectTookPlace(action.effects[i], args)
  BY ObjectEffectTakesPlace
<1>3. \A i \in linkEffects(action) :
        /\ identifies(args, action.effects[i].from)
        /\ identifies(args, action.effects[i].to)
        /\ decides(action, args, i) => linkTookPlace(action.effects[i], args)
  BY InvokedStore, PlannedEdge, LinkEffectTakesPlace
<1>4. licensed(action, args)
  BY OnlyLicensed
<1>5. run[r] # NoRun
  BY DEF invokes
<1> QED
  BY <1>2, <1>3, <1>4, <1>5 DEF byOneAction

LEMMA WholeStep ==
  OntologyInv /\ [OntologyNext]_ontologyVars =>
    [ \/ UNCHANGED <<objects, links>>
      \/ removals' # removals
      \/ byOneAction ]_ontologyVars
<1> SUFFICES ASSUME OntologyInv, OntologyNext
             PROVE  \/ UNCHANGED <<objects, links>>
                    \/ removals' # removals
                    \/ byOneAction
  OBVIOUS
<1>0. OntologyTypeOK
  BY DEF OntologyInv
<1>1. ASSUME NEW r \in Runs, invoke_action(r) PROVE byOneAction
  BY <1>0, <1>1, InvocationIsWhole
<1>2. CASE removeTree
  <2>1. removals' = removals + 1 /\ removals \in Nat
    BY <1>0, <1>2, MaxRemovalsAssumption DEF removeTree, OntologyTypeOK
  <2> QED
    BY <2>1
<1> QED
  BY <1>1, <1>2 DEF OntologyNext, beginRun, moveRun, endRun, importTree

\* Every change of a work-map's graph is one whole action of the step a run
\* stands on, for every ontology: all its effects or none, and nothing else
\* (invokeOntologyAction).
THEOREM ActionsAreWhole == OntologySpec => AllOrNothing
BY StoreIsSound, WholeStep, PTL DEF OntologySpec, AllOrNothing

=============================================================================
