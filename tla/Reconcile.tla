----------------------------- MODULE Reconcile -----------------------------
(***************************************************************************)
(* tools/catalog_reconcile/reconcile.py: importing batches of records into *)
(* a catalog, within one (tenant, branch, source_scope, source_type).      *)
(***************************************************************************)
EXTENDS Integers, Sequences, Null

CONSTANTS
  Ids,            \* external_id
  Skus,
  Texts,          \* the names, the price and the currency together
  MaxVersion,
  MaxBatch        \* bound: the records of one batch

Records ==
  [id : Ids, sku : Skus \cup {None}, text : Texts, version : 1 .. MaxVersion]

Batches == UNION {[1 .. n -> Records] : n \in 1 .. MaxBatch}

ASSUME ReconcileAssumption ==
  /\ None \notin Records
  /\ None \notin Ids

VARIABLE
  catalog   \* [committed : the record of each id, owner : the SKU index]

(* A mutant: SKUs are not looked at.                                       *)
SkuConflict_MutantNever(c, r) == FALSE

(* sku_conflict: the SKU belongs, or once belonged, to another id.         *)
SkuConflict(c, r) == r.sku # None /\ c.owner[r.sku] \notin {None, r.id}

(* A mutant: the SKU of the predecessor is free again.                     *)
Committed_MutantFreesSku(c, r) ==
  [committed |-> [c.committed EXCEPT ![r.id] = r],
   owner |-> [s \in Skus |-> IF s = r.sku THEN r.id
                             ELSE IF c.owner[s] = r.id THEN None ELSE c.owner[s]]]

(* commit: the record replaces its predecessor, whose SKU stays indexed.   *)
Committed(c, r) ==
  [committed |-> [c.committed EXCEPT ![r.id] = r],
   owner |-> IF r.sku = None THEN c.owner ELSE [c.owner EXCEPT ![r.sku] = r.id]]

(* One record of a batch, with _record_changed: NEW and UPDATED commit it; *)
(* CONFLICT and UNCHANGED leave everything as it is, the version too.      *)
Reconciled(c, r) ==
  LET old == c.committed[r.id] IN
  IF \/ SkuConflict(c, r)
     \/ old # None /\ (old.version > r.version \/ (old.sku = r.sku /\ old.text = r.text))
  THEN c ELSE Committed(c, r)

(* reconcile_batch; records that are not in it are only reported.          *)
Imported(c, batch) ==
  LET after[n \in 0 .. Len(batch)] ==
        IF n = 0 THEN c ELSE Reconciled(after[n - 1], batch[n])
  IN  after[Len(batch)]

(* CatalogStore.__init__.                                                  *)
EmptyCatalog ==
  [committed |-> [i \in Ids |-> None], owner |-> [s \in Skus |-> None]]

ReconcileInit == catalog = None

NewCatalog == catalog = None /\ catalog' = EmptyCatalog

ReconcileBatch ==
  /\ catalog # None
  /\ \E batch \in Batches : catalog' = Imported(catalog, batch)

ReconcileNext == NewCatalog \/ ReconcileBatch

ReconcileSpec == ReconcileInit /\ [][ReconcileNext]_catalog

-----------------------------------------------------------------------------
(* Importing a batch again, after whatever came before, changes nothing    *)
(* (reconcile.py:13, 137).  A batch with two versions of one id has to     *)
(* list the older first: UNCHANGED does not keep the newer version, so     *)
(* that an older record after it is written, and the repeat undoes it.     *)
RepeatChangesNothing ==
  catalog # None => \A batch \in Batches :
    (\A i, j \in DOMAIN batch :
       i < j /\ batch[i].id = batch[j].id => batch[i].version <= batch[j].version)
    => LET once == Imported(catalog, batch) IN Imported(once, batch) = once

(* Two committed records never have the same SKU, through updates that     *)
(* move a SKU away, batches that use one twice, and partial batches        *)
(* (reconcile.py:11, 141).                                                 *)
OneRecordPerSku ==
  catalog # None => \A i, j \in Ids :
    LET a == catalog.committed[i]  b == catalog.committed[j] IN
    a # None /\ b # None /\ i # j /\ a.sku # None => a.sku # b.sku
=============================================================================
