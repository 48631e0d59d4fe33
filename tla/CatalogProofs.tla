--------------------------- MODULE CatalogProofs ---------------------------
(***************************************************************************)
(* What is sold, at what price and when: the theorems of Reconcile,        *)
(* Prices, Hours and Availability, each for any values of its constants.   *)
(***************************************************************************)
EXTENDS Availability, Reconcile, Prices, Hours,
        FiniteSetTheorems, WellFoundedInduction, TLAPS

(* What holds at the first position and is handed from each position to    *)
(* the next holds at all: induction along a batch, or a list.              *)
LEMMA Along ==
  ASSUME NEW n \in Nat, NEW T, 0 \in T,
         \A k \in 0 .. n : k # 0 /\ k - 1 \in T => k \in T
  PROVE  0 .. n \subseteq T
<1>. DEFINE S == {k \in 0 .. n : k \notin T}
<1>1. SUFFICES ASSUME S # {} PROVE FALSE
  OBVIOUS
<1>2. S \subseteq Nat
  OBVIOUS
<1>3. PICK m \in S : \A o \in S : ~(<<o, m>> \in OpToRel(<, Nat))
  BY <1>1, <1>2, NatLessThanWellFounded, WFMin
<1>4. m \in 0 .. n /\ m \notin T /\ m # 0
  BY <1>3
<1>5. m - 1 \in 0 .. n /\ m - 1 \in Nat /\ m - 1 \notin T
  BY <1>4
<1>6. m - 1 \in S
  BY <1>5
<1>7. <<m - 1, m>> \notin {ss \in Nat \X Nat : ss[1] < ss[2]}
  BY <1>3, <1>6, Zenon DEF OpToRel
<1>. QED
  BY <1>4, <1>5, <1>7

-----------------------------------------------------------------------------
(* Reconcile.                                                              *)

(* The types of the two dictionaries of a catalog.                         *)
Catalogs ==
  [committed : [Ids -> Records \cup {None}], owner : [Skus -> Ids \cup {None}]]

(* A pass over a batch: the catalog after each of its records.             *)
Pass(c, batch, after) ==
  /\ after \in [0 .. Len(batch) -> Catalogs]
  /\ after[0] = c
  /\ \A k \in 1 .. Len(batch) : after[k] = Reconciled(after[k - 1], batch[k])

(* A record that reconcile_batch leaves out: a CONFLICT or UNCHANGED.      *)
Skipped(c, r) ==
  \/ SkuConflict(c, r)
  \/ /\ c.committed[r.id] # None
     /\ \/ c.committed[r.id].version > r.version
        \/ c.committed[r.id].sku = r.sku /\ c.committed[r.id].text = r.text

(* SKUs keep their owners, and ids their records or newer ones.            *)
Follows(c, d) ==
  /\ \A s \in Skus : c.owner[s] # None => d.owner[s] = c.owner[s]
  /\ \A i \in Ids : c.committed[i] # None =>
       d.committed[i] # None /\ c.committed[i].version <= d.committed[i].version

(* The index knows the SKU of every committed record.                      *)
Owned(c) ==
  \A i \in Ids : c.committed[i] # None /\ c.committed[i].sku # None
    => c.owner[c.committed[i].sku] = i

(* What is committed for a record has the fields of one.                   *)
LEMMA CommittedTyped ==
  ASSUME NEW c \in Catalogs, NEW i \in Ids
  PROVE  /\ c.committed[i] \in Records \cup {None}
         /\ c.committed[i] # None => /\ c.committed[i] \in Records
                                    /\ c.committed[i].version \in Int
                                    /\ c.committed[i].sku \in Skus \cup {None}
<1>1. c.committed[i] \in Records \cup {None}
  BY DEF Catalogs
<1>. QED
  BY <1>1 DEF Records

(* A commit replaces the record of one id and the owner of one SKU.        *)
LEMMA CommitWrites ==
  ASSUME NEW c \in Catalogs, NEW r \in Records, NEW d, d = Committed(c, r)
  PROVE  /\ d \in Catalogs
         /\ d.committed[r.id] = r
         /\ \A i \in Ids : i # r.id => d.committed[i] = c.committed[i]
         /\ r.sku # None => d.owner[r.sku] = r.id
         /\ \A s \in Skus : s # r.sku => d.owner[s] = c.owner[s]
<1>1. r.id \in Ids /\ r.sku \in Skus \cup {None}
  BY DEF Records
<1>2. /\ c.committed \in [Ids -> Records \cup {None}]
      /\ c.owner \in [Skus -> Ids \cup {None}]
  BY DEF Catalogs
<1>3. /\ d.committed = [c.committed EXCEPT ![r.id] = r]
      /\ d.owner = IF r.sku = None THEN c.owner ELSE [c.owner EXCEPT ![r.sku] = r.id]
      /\ d = [committed |-> d.committed, owner |-> d.owner]
  BY DEF Committed
<1>4. d.committed \in [Ids -> Records \cup {None}]
  BY <1>1, <1>2, <1>3
<1>5. d.owner \in [Skus -> Ids \cup {None}]
  BY <1>1, <1>2, <1>3
<1>6. d \in Catalogs
  BY <1>3, <1>4, <1>5 DEF Catalogs
<1>. QED
  BY <1>1, <1>2, <1>3, <1>6

(* What one record does: it is skipped or it is committed.  Either way     *)
(* the catalog follows the one before, and its index stays complete.       *)
LEMMA OneRecord ==
  ASSUME NEW c \in Catalogs, NEW r \in Records, NEW d, d = Reconciled(c, r)
  PROVE  /\ d \in Catalogs
         /\ Skipped(c, r) => d = c
         /\ ~Skipped(c, r) => d = Committed(c, r)
         /\ Follows(c, d)
         /\ Owned(c) => Owned(d)
<1>1. r.id \in Ids /\ r.sku \in Skus \cup {None} /\ r.version \in Int
  BY DEF Records
<1>2. d = IF Skipped(c, r) THEN c ELSE Committed(c, r)
  BY DEF Reconciled, Skipped
<1>3. \A i \in Ids : c.committed[i] # None => c.committed[i].version \in Int
  BY CommittedTyped
<1>4. CASE Skipped(c, r)
  BY <1>2, <1>3, <1>4 DEF Follows
<1>5. CASE ~Skipped(c, r)
  <2>1. /\ d \in Catalogs
        /\ d.committed[r.id] = r
        /\ \A i \in Ids : i # r.id => d.committed[i] = c.committed[i]
        /\ r.sku # None => d.owner[r.sku] = r.id
        /\ \A s \in Skus : s # r.sku => d.owner[s] = c.owner[s]
    BY <1>2, <1>5, CommitWrites
  <2>2. /\ r.sku # None => c.owner[r.sku] \in {None, r.id}
        /\ c.committed[r.id] # None => c.committed[r.id].version <= r.version
    BY <1>1, <1>3, <1>5 DEF Skipped, SkuConflict
  <2>3. Follows(c, d)
    <3>1. ASSUME NEW s \in Skus, c.owner[s] # None PROVE d.owner[s] = c.owner[s]
      <4>1. CASE s = r.sku /\ r.sku # None
        BY <2>1, <2>2, <3>1, <4>1
      <4>2. CASE s # r.sku
        BY <2>1, <4>2
      <4>3. CASE r.sku = None
        BY <1>2, <1>5, <4>3 DEF Committed
      <4>. QED
        BY <4>1, <4>2, <4>3
    <3>2. ASSUME NEW i \in Ids, c.committed[i] # None
          PROVE  d.committed[i] # None /\ c.committed[i].version <= d.committed[i].version
      BY <1>3, <2>1, <2>2, <3>2, ReconcileAssumption
    <3>. QED
      BY <3>1, <3>2 DEF Follows
  <2>4. ASSUME Owned(c) PROVE Owned(d)
    <3>1. SUFFICES ASSUME NEW i \in Ids, d.committed[i] # None, d.committed[i].sku # None
                   PROVE  d.owner[d.committed[i].sku] = i
      BY DEF Owned
    <3>2. CASE i = r.id
      BY <2>1, <3>1, <3>2
    <3>3. CASE i # r.id
      <4>1. d.committed[i] = c.committed[i] /\ c.owner[c.committed[i].sku] = i
        BY <2>1, <2>4, <3>1, <3>3 DEF Owned
      <4>2. c.committed[i].sku \in Skus
        BY <3>1, <4>1, CommittedTyped
      <4>3. c.committed[i].sku = r.sku => i = r.id
        BY <2>2, <3>1, <4>1, ReconcileAssumption
      <4>. QED
        BY <2>1, <3>3, <4>1, <4>2, <4>3
    <3>. QED
      BY <3>2, <3>3
  <2>. QED
    BY <1>2, <1>5, <2>1, <2>3, <2>4
<1>. QED
  BY <1>4, <1>5

(* Every batch has its pass, and what is imported is where the pass ends:  *)
(* the recursive function of Imported exists.                              *)
LEMMA PassExists ==
  ASSUME NEW c \in Catalogs, NEW n \in Nat, NEW batch \in [1 .. n -> Records]
  PROVE  \E after : Pass(c, batch, after) /\ Imported(c, batch) = after[Len(batch)]
<1>. DEFINE Runs(k, g) == g = [i \in 0 .. k |->
              IF i = 0 THEN c ELSE Reconciled(g[i - 1], batch[i])]
            T == {k \in 0 .. n : \E g : Runs(k, g)}
<1>1. Len(batch) = n
  OBVIOUS
<1>2. 0 \in T
  <2>. DEFINE g == [i \in 0 .. 0 |-> c]
  <2>1. Runs(0, g)
    OBVIOUS
  <2>. HIDE DEF Runs, g
  <2>. QED
    BY <2>1
<1>3. ASSUME NEW k \in 0 .. n, k # 0, k - 1 \in T PROVE k \in T
  <2>1. PICK g : Runs(k - 1, g)
    BY <1>3
  <2>. DEFINE h == [i \in 0 .. k |-> IF i = k THEN Reconciled(g[k - 1], batch[k]) ELSE g[i]]
  <2>2. h[k - 1] = g[k - 1] /\ \A i \in 0 .. k - 1 : h[i] = g[i]
    BY <1>3
  <2>3. ASSUME NEW i \in 0 .. k
        PROVE  h[i] = IF i = 0 THEN c ELSE Reconciled(h[i - 1], batch[i])
    <3>1. CASE i = k
      BY <1>3, <2>2, <3>1
    <3>2. CASE i # k
      <4>1. i \in 0 .. k - 1 /\ (i # 0 => i - 1 \in 0 .. k - 1)
        BY <3>2
      <4>2. g[i] = IF i = 0 THEN c ELSE Reconciled(g[i - 1], batch[i])
        BY <2>1, <4>1
      <4>. QED
        BY <2>2, <4>1, <4>2
    <3>. QED
      BY <3>1, <3>2
  <2>4. Runs(k, h)
    <3>1. h = [i \in 0 .. k |-> h[i]]
      OBVIOUS
    <3>. HIDE DEF h
    <3>. QED
      BY <2>3, <3>1
  <2>. HIDE DEF Runs, h
  <2>. QED
    BY <2>4
<1>4. n \in T
  <2>. HIDE DEF T
  <2>. QED
    BY <1>2, <1>3, Along
<1>. DEFINE f == CHOOSE g : Runs(n, g)
<1>5. Runs(n, f)
  BY <1>4
<1>6. Imported(c, batch) = f[n]
  BY <1>1, Zenon DEF Imported
<1>. HIDE DEF f
<1>7. f[0] = c /\ \A k \in 1 .. n : f[k] = Reconciled(f[k - 1], batch[k])
  BY <1>5
<1>8. f \in [0 .. n -> Catalogs]
  <2>. DEFINE U == {k \in 0 .. n : f[k] \in Catalogs}
  <2>1. 0 \in U
    BY <1>7
  <2>2. ASSUME NEW k \in 0 .. n, k # 0, k - 1 \in U PROVE k \in U
    BY <1>7, <2>2, OneRecord
  <2>. HIDE DEF U
  <2>3. 0 .. n \subseteq U
    BY <2>1, <2>2, Along
  <2>. QED
    BY <1>5, <2>3 DEF U
<1>. QED
  BY <1>1, <1>6, <1>7, <1>8 DEF Pass

(* Along a pass every catalog follows the ones before it, and the index    *)
(* stays complete.                                                         *)
LEMMA PassFollows ==
  ASSUME NEW c \in Catalogs, NEW n \in Nat, NEW batch \in [1 .. n -> Records],
         NEW a, Pass(c, batch, a)
  PROVE  /\ \A k \in 0 .. n : a[k] \in Catalogs
         /\ \A j, k \in 0 .. n : j <= k => Follows(a[j], a[k])
         /\ Owned(c) => \A k \in 0 .. n : Owned(a[k])
<1>1. Len(batch) = n
  OBVIOUS
<1>2. /\ \A k \in 0 .. n : a[k] \in Catalogs
      /\ a[0] = c
      /\ \A k \in 1 .. n : a[k] = Reconciled(a[k - 1], batch[k])
  BY <1>1 DEF Pass
<1>3. ASSUME NEW k \in 0 .. n, k # 0
      PROVE  /\ k - 1 \in 0 .. n
             /\ Follows(a[k - 1], a[k])
             /\ Owned(a[k - 1]) => Owned(a[k])
  <2>1. k - 1 \in 0 .. n /\ k \in 1 .. n
    BY <1>3
  <2>2. a[k - 1] \in Catalogs /\ batch[k] \in Records /\ a[k] = Reconciled(a[k - 1], batch[k])
    BY <1>2, <2>1
  <2>. QED
    BY <2>1, <2>2, OneRecord
<1>4. ASSUME NEW j \in 0 .. n, NEW k \in 0 .. n, j <= k PROVE Follows(a[j], a[k])
  <2>. DEFINE T == {l \in 0 .. n : j <= l => Follows(a[j], a[l])}
  <2>1. ASSUME NEW l \in 0 .. n, l = j PROVE l \in T
    BY <1>2, <2>1, CommittedTyped DEF Follows
  <2>2. 0 \in T
    BY <2>1
  <2>3. ASSUME NEW l \in 0 .. n, l # 0, l - 1 \in T PROVE l \in T
    <3>1. CASE j <= l - 1
      <4>1. Follows(a[j], a[l - 1]) /\ Follows(a[l - 1], a[l])
        BY <1>3, <2>3, <3>1
      <4>2. ASSUME NEW i \in Ids, a[j].committed[i] # None
            PROVE  /\ a[l].committed[i] # None
                   /\ a[j].committed[i].version <= a[l].committed[i].version
        <5>1. /\ a[l - 1].committed[i] # None /\ a[l].committed[i] # None
              /\ a[j].committed[i].version <= a[l - 1].committed[i].version
              /\ a[l - 1].committed[i].version <= a[l].committed[i].version
          BY <4>1, <4>2 DEF Follows
        <5>2. /\ a[j].committed[i].version \in Int
              /\ a[l - 1].committed[i].version \in Int
              /\ a[l].committed[i].version \in Int
          BY <1>2, <1>3, <2>3, <4>2, <5>1, CommittedTyped
        <5>. QED
          BY <5>1, <5>2
      <4>. QED
        BY <4>1, <4>2 DEF Follows
    <3>2. CASE ~(j <= l)
      BY <3>2
    <3>. QED
      BY <2>1, <3>1, <3>2
  <2>. HIDE DEF T
  <2>4. 0 .. n \subseteq T
    BY <2>2, <2>3, Along
  <2>. QED
    BY <1>4, <2>4 DEF T
<1>5. ASSUME Owned(c), NEW k \in 0 .. n PROVE Owned(a[k])
  <2>. DEFINE T == {l \in 0 .. n : Owned(a[l])}
  <2>1. 0 \in T
    BY <1>2, <1>5
  <2>2. ASSUME NEW l \in 0 .. n, l # 0, l - 1 \in T PROVE l \in T
    BY <1>3, <2>2
  <2>. HIDE DEF T
  <2>3. 0 .. n \subseteq T
    BY <2>1, <2>2, Along
  <2>. QED
    BY <2>3 DEF T
<1>. QED
  BY <1>2, <1>4, <1>5

(* The last record of the batch that was committed for an id, if any, is   *)
(* what the id ends with.                                                  *)
LastCommit(batch, a, i, m) ==
  /\ \A l \in m .. Len(batch) : a[l].committed[i] = a[Len(batch)].committed[i]
  /\ m # 0 => batch[m].id = i /\ a[Len(batch)].committed[i] = batch[m]

(* Every id has one; 0 where the batch commits nothing for it.             *)
LEMMA LastCommitExists ==
  ASSUME NEW c \in Catalogs, NEW n \in Nat, NEW batch \in [1 .. n -> Records],
         NEW a, Pass(c, batch, a), NEW i \in Ids
  PROVE  \E m \in 0 .. n : LastCommit(batch, a, i, m)
<1>1. Len(batch) = n
  OBVIOUS
<1>. DEFINE S == {m \in 0 .. n : \A l \in m .. n : a[l].committed[i] = a[n].committed[i]}
<1>2. n \in S /\ S \subseteq Nat
  OBVIOUS
<1>3. PICK m \in S : \A o \in S : ~(<<o, m>> \in OpToRel(<, Nat))
  BY <1>2, NatLessThanWellFounded, WFMin
<1>4. m \in 0 .. n /\ \A l \in m .. n : a[l].committed[i] = a[n].committed[i]
  BY <1>3
<1>5. ASSUME m # 0 PROVE batch[m].id = i /\ a[n].committed[i] = batch[m]
  <2>1. m - 1 \in 0 .. n /\ m - 1 \in Nat /\ m \in 1 .. n /\ m - 1 < m
    BY <1>4, <1>5
  <2>2. m - 1 \notin S
    <3>1. ASSUME m - 1 \in S PROVE FALSE
      <4>1. <<m - 1, m>> \notin {ss \in Nat \X Nat : ss[1] < ss[2]}
        BY <1>3, <3>1, Zenon DEF OpToRel
      <4>. QED
        BY <1>4, <2>1, <4>1
    <3>. QED
      BY <3>1
  <2>3. \E l \in m - 1 .. n : a[l].committed[i] # a[n].committed[i]
    BY <2>1, <2>2
  <2>4. a[m - 1].committed[i] # a[n].committed[i]
    <3>1. PICK l \in m - 1 .. n : a[l].committed[i] # a[n].committed[i]
      BY <2>3
    <3>2. l \notin m .. n
      BY <1>4, <3>1
    <3>3. l = m - 1
      BY <2>1, <3>2
    <3>. QED
      BY <3>1, <3>3
  <2>5. /\ a[m - 1] \in Catalogs /\ batch[m] \in Records
        /\ a[m] = Reconciled(a[m - 1], batch[m])
        /\ a[m].committed[i] = a[n].committed[i]
    BY <1>1, <1>4, <2>1 DEF Pass
  <2>6. a[m] = Committed(a[m - 1], batch[m])
    BY <2>4, <2>5, OneRecord
  <2>7. /\ a[m].committed[batch[m].id] = batch[m]
        /\ i # batch[m].id => a[m].committed[i] = a[m - 1].committed[i]
    <3>1. \A r \in Records, b \in Catalogs :
            b.committed[i] = Committed(b, r).committed[i] \/ i = r.id
      BY CommitWrites
    <3>2. \A r \in Records, b \in Catalogs : Committed(b, r).committed[r.id] = r
      BY CommitWrites
    <3>. QED
      BY <2>5, <2>6, <3>1, <3>2
  <2>. QED
    BY <2>4, <2>5, <2>7
<1>. QED
  BY <1>1, <1>4, <1>5 DEF LastCommit

(* A record that comes again, where b and d are the catalogs before and    *)
(* after it the first time, f is the end of the first pass, y and z are    *)
(* before and after it the second time.                                    *)
LEMMA RecordAgain ==
  ASSUME NEW r \in Records, NEW b \in Catalogs, NEW f \in Catalogs, NEW y \in Catalogs,
         NEW d, d = Reconciled(b, r), NEW z, z = Reconciled(y, r),
         Owned(b), Owned(f), Follows(b, f), Follows(d, f), Follows(f, y),
         y.owner = f.owner
  PROVE  /\ z.owner = f.owner
         /\ z.committed[r.id] \in {y.committed[r.id], r}
         /\ \A i \in Ids : i # r.id => z.committed[i] = y.committed[i]
         /\ /\ y.committed[r.id] = f.committed[r.id]
            /\ b.committed[r.id] = f.committed[r.id]
            /\ d.committed[r.id] = f.committed[r.id]
            => z.committed[r.id] = f.committed[r.id]
         /\ /\ f.committed[r.id] = r
            /\ y.committed[r.id] # None
            /\ y.committed[r.id].id = r.id
            /\ y.committed[r.id].version <= r.version
            => z.committed[r.id] = r
<1>1. r.id \in Ids /\ r.sku \in Skus \cup {None} /\ r.version \in Int /\ r # None
  BY ReconcileAssumption DEF Records
<1>2. \A c \in {b, f, y} :
        /\ c.committed[r.id] # None => /\ c.committed[r.id] \in Records
                                       /\ c.committed[r.id].version \in Int
        /\ c.owner \in [Skus -> Ids \cup {None}]
  BY <1>1, CommittedTyped DEF Catalogs
<1>3. CASE Skipped(y, r)
  <2>1. z = y
    BY <1>3, OneRecord
  <2>2. ASSUME f.committed[r.id] = r, y.committed[r.id] # None,
               y.committed[r.id].id = r.id, y.committed[r.id].version <= r.version
        PROVE  z.committed[r.id] = r
    <3>1. ~SkuConflict(y, r)
      BY <1>1, <2>2 DEF Owned, SkuConflict
    <3>2. y.committed[r.id].version >= r.version
      BY <1>1, <2>2 DEF Follows
    <3>. DEFINE s == y.committed[r.id]
    <3>3. s \in Records /\ s.id = r.id /\ s.version = r.version
      BY <1>1, <1>2, <2>2, <3>2
    <3>4. s.sku = r.sku /\ s.text = r.text
      BY <1>1, <1>2, <1>3, <2>2, <3>1, <3>2 DEF Skipped
    <3>. HIDE DEF s
    <3>5. s = r
      BY <3>3, <3>4 DEF Records
    <3>. QED
      BY <2>1, <3>5 DEF s
  <2>. QED
    BY <2>1, <2>2
<1>4. CASE ~Skipped(y, r)
  <2>1. /\ z = Committed(y, r)
        /\ z.committed[r.id] = r
        /\ \A i \in Ids : i # r.id => z.committed[i] = y.committed[i]
    BY <1>4, OneRecord, CommitWrites
  <2>2. r.sku # None => f.owner[r.sku] \in {None, r.id}
    BY <1>4 DEF Skipped, SkuConflict
  <2>3. ~SkuConflict(b, r)
    BY <1>1, <1>2, <2>2 DEF Follows, SkuConflict
  <2>4. y.committed[r.id] # None => y.committed[r.id].version <= r.version
    BY <1>1, <1>2, <1>4 DEF Skipped
  <2>5. b.committed[r.id] # None => b.committed[r.id].version <= r.version
    BY <1>1, <1>2, <2>4 DEF Follows
  <2>6. ASSUME r.sku # None PROVE f.owner[r.sku] = r.id
    <3>1. CASE Skipped(b, r)
      <4>1. b.committed[r.id] # None /\ b.committed[r.id].sku = r.sku
        BY <1>1, <1>2, <2>3, <2>5, <3>1 DEF Skipped
      <4>2. b.owner[r.sku] = r.id
        BY <1>1, <2>6, <4>1 DEF Owned
      <4>. QED
        BY <1>1, <2>6, <4>2, ReconcileAssumption DEF Follows
    <3>2. CASE ~Skipped(b, r)
      <4>1. d.owner[r.sku] = r.id
        BY <2>6, <3>2, OneRecord, CommitWrites
      <4>. QED
        BY <1>1, <2>6, <4>1, ReconcileAssumption DEF Follows
    <3>. QED
      BY <3>1, <3>2
  <2>7. z.owner = f.owner
    BY <1>1, <1>2, <2>1, <2>6 DEF Committed
  <2>8. ASSUME y.committed[r.id] = f.committed[r.id], b.committed[r.id] = f.committed[r.id],
               d.committed[r.id] = f.committed[r.id]
        PROVE  z.committed[r.id] = f.committed[r.id]
    <3>1. ~Skipped(b, r)
      BY <1>4, <2>3, <2>8 DEF Skipped
    <3>2. d.committed[r.id] = r
      BY <3>1, OneRecord, CommitWrites
    <3>. QED
      BY <2>1, <2>8, <3>1, <3>2
  <2>. QED
    BY <2>1, <2>7, <2>8
<1>. QED
  BY <1>3, <1>4

(* The second pass after its record k: the SKUs are owned as before it,    *)
(* and an id whose last commit is still to come may be behind, at a record *)
(* of its own that has come again; every other id is as before it.         *)
Repeating(batch, f, c, last, k) ==
  /\ c.owner = f.owner
  /\ \A i \in Ids :
       \/ c.committed[i] = f.committed[i]
       \/ /\ k < last[i]
          /\ \E j \in 1 .. k : batch[j].id = i /\ c.committed[i] = batch[j]

(* The same batch a second time ends where it began.                       *)
LEMMA SecondPass ==
  ASSUME NEW c \in Catalogs, Owned(c), NEW n \in Nat, NEW batch \in [1 .. n -> Records],
         \A i, j \in 1 .. n :
           i < j /\ batch[i].id = batch[j].id => batch[i].version <= batch[j].version,
         NEW a, Pass(c, batch, a), NEW z, Pass(a[n], batch, z)
  PROVE  z[n] = a[n]
<1>. DEFINE f == a[n]
<1>1. Len(batch) = n
  OBVIOUS
<1>2. /\ \A k \in 0 .. n : a[k] \in Catalogs /\ Owned(a[k])
      /\ \A j, k \in 0 .. n : j <= k => Follows(a[j], a[k])
      /\ \A k \in 1 .. n : a[k] = Reconciled(a[k - 1], batch[k])
  <2>1. \A k \in 1 .. n : a[k] = Reconciled(a[k - 1], batch[k])
    BY <1>1 DEF Pass
  <2>2. /\ \A k \in 0 .. n : a[k] \in Catalogs
        /\ \A j, k \in 0 .. n : j <= k => Follows(a[j], a[k])
        /\ \A k \in 0 .. n : Owned(a[k])
    BY PassFollows
  <2>. QED
    BY <2>1, <2>2
<1>3. f \in Catalogs /\ Owned(f) /\ Pass(f, batch, z)
  <2>1. n \in 0 .. n
    OBVIOUS
  <2>. QED
    BY <1>2, <2>1, Zenon
<1>4. \A k \in 0 .. n : a[k] \in Catalogs /\ Owned(a[k]) /\ Follows(a[k], f)
  BY <1>2
<1>. HIDE DEF f
<1>5. /\ \A k \in 0 .. n : z[k] \in Catalogs
      /\ z[0] = f
      /\ \A k \in 1 .. n : z[k] = Reconciled(z[k - 1], batch[k])
  BY <1>1, <1>3, PassFollows DEF Pass
<1>6. \A k \in 0 .. n : Follows(f, z[k])
  BY <1>3, <1>5, PassFollows
<1>. DEFINE last == [i \in Ids |-> CHOOSE m \in 0 .. n : LastCommit(batch, a, i, m)]
<1>7. ASSUME NEW i \in Ids
      PROVE  /\ last[i] \in 0 .. n
             /\ \A l \in last[i] .. n : a[l].committed[i] = f.committed[i]
             /\ last[i] # 0 => batch[last[i]].id = i /\ f.committed[i] = batch[last[i]]
  <2>1. \E m \in 0 .. n : LastCommit(batch, a, i, m)
    BY LastCommitExists
  <2>2. last[i] \in 0 .. n /\ LastCommit(batch, a, i, last[i])
    BY <2>1
  <2>. HIDE DEF last
  <2>. QED
    BY <1>1, <2>2 DEF LastCommit, f
<1>. HIDE DEF last
<1>. DEFINE T == {k \in 0 .. n : Repeating(batch, f, z[k], last, k)}
<1>8. 0 \in T
  BY <1>5 DEF Repeating
<1>9. ASSUME NEW k \in 0 .. n, k # 0, k - 1 \in T PROVE k \in T
  <2>. DEFINE r == batch[k]
              b == a[k - 1]
              d == a[k]
              y == z[k - 1]
              w == z[k]
  <2>1. k \in 1 .. n /\ k - 1 \in 0 .. n
    BY <1>9
  <2>2. /\ r \in Records /\ b \in Catalogs /\ y \in Catalogs
        /\ d = Reconciled(b, r) /\ w = Reconciled(y, r)
        /\ Owned(b) /\ Follows(b, f) /\ Follows(d, f) /\ Follows(f, y)
    BY <1>2, <1>4, <1>5, <1>6, <2>1
  <2>3. Repeating(batch, f, y, last, k - 1)
    BY <1>9
  <2>4. r.id \in Ids /\ r # None /\ \A j \in 1 .. n : batch[j] \in Records /\ batch[j] # None
    BY <2>2, ReconcileAssumption DEF Records
  <2>5. /\ last[r.id] < k =>
             b.committed[r.id] = f.committed[r.id] /\ d.committed[r.id] = f.committed[r.id]
        /\ last[r.id] = k => f.committed[r.id] = r
    BY <1>7, <2>1, <2>4
  <2>6. \A i \in Ids : last[i] \in 0 .. n /\ (last[i] = k => i = r.id)
    BY <1>7, <2>1
  <2>7. \A j \in 1 .. k - 1 : batch[j].id = r.id => batch[j].version <= r.version
    BY <2>1
  <2>. HIDE DEF r, b, d, y, w
  <2>8. y.owner = f.owner
    BY <2>3 DEF Repeating
  <2>9. /\ w.owner = f.owner
        /\ w.committed[r.id] \in {y.committed[r.id], r}
        /\ \A i \in Ids : i # r.id => w.committed[i] = y.committed[i]
        /\ /\ y.committed[r.id] = f.committed[r.id]
           /\ b.committed[r.id] = f.committed[r.id]
           /\ d.committed[r.id] = f.committed[r.id]
           => w.committed[r.id] = f.committed[r.id]
        /\ /\ f.committed[r.id] = r
           /\ y.committed[r.id] # None
           /\ y.committed[r.id].id = r.id
           /\ y.committed[r.id].version <= r.version
           => w.committed[r.id] = r
    BY <1>3, <2>2, <2>8, RecordAgain
  <2>10. ASSUME NEW i \in Ids
         PROVE  \/ w.committed[i] = f.committed[i]
                \/ /\ k < last[i]
                   /\ \E j \in 1 .. k : batch[j].id = i /\ w.committed[i] = batch[j]
    <3>1. \/ y.committed[i] = f.committed[i]
          \/ /\ k - 1 < last[i]
             /\ \E j \in 1 .. k - 1 : batch[j].id = i /\ y.committed[i] = batch[j]
      BY <2>3 DEF Repeating
    <3>2. CASE i # r.id
      BY <2>1, <2>6, <2>9, <3>1, <3>2
    <3>3. CASE i = r.id /\ last[i] < k
      BY <2>1, <2>5, <2>6, <2>9, <3>1, <3>3
    <3>4. CASE i = r.id /\ last[i] = k
      <4>1. CASE y.committed[i] = f.committed[i]
        BY <2>5, <2>9, <3>4, <4>1
      <4>2. CASE \E j \in 1 .. k - 1 : batch[j].id = i /\ y.committed[i] = batch[j]
        BY <2>1, <2>4, <2>5, <2>7, <2>9, <3>4, <4>2
      <4>. QED
        BY <3>1, <4>1, <4>2
    <3>5. CASE i = r.id /\ k < last[i]
      <4>1. CASE w.committed[i] = r
        BY <2>1, <3>5, <4>1 DEF r
      <4>2. CASE w.committed[i] = y.committed[i]
        BY <2>1, <3>1, <3>5, <4>2
      <4>. QED
        BY <2>9, <3>5, <4>1, <4>2
    <3>. QED
      BY <2>1, <2>6, <3>2, <3>3, <3>4, <3>5
  <2>11. Repeating(batch, f, w, last, k)
    BY <2>9, <2>10 DEF Repeating
  <2>. QED
    BY <2>11 DEF w
<1>. HIDE DEF T
<1>10. 0 .. n \subseteq T
  BY <1>8, <1>9, Along
<1>11. Repeating(batch, f, z[n], last, n) /\ z[n] \in Catalogs
  BY <1>5, <1>10 DEF T
<1>12. z[n].owner = f.owner /\ \A i \in Ids : z[n].committed[i] = f.committed[i]
  BY <1>7, <1>11 DEF Repeating
<1>13. z[n].committed = f.committed
  BY <1>3, <1>11, <1>12 DEF Catalogs
<1>14. z[n] = f
  BY <1>3, <1>11, <1>12, <1>13 DEF Catalogs
<1>. QED
  BY <1>14 DEF f

(* The inductive invariant: a catalog, once there is one, has an index that *)
(* is complete.                                                            *)
CatalogInv == catalog = None \/ (catalog \in Catalogs /\ Owned(catalog))

(* Importing keeps the index complete, whatever the batch.                 *)
LEMMA CatalogInvariant == ReconcileSpec => []CatalogInv
<1>1. ReconcileInit => CatalogInv
  BY DEF ReconcileInit, CatalogInv
<1>2. CatalogInv /\ [ReconcileNext]_catalog => CatalogInv'
  <2>. SUFFICES ASSUME CatalogInv, [ReconcileNext]_catalog PROVE CatalogInv'
    OBVIOUS
  <2>1. CASE UNCHANGED catalog
    BY <2>1 DEF CatalogInv
  <2>2. CASE NewCatalog
    <3>1. EmptyCatalog \in Catalogs /\ Owned(EmptyCatalog)
      BY DEF EmptyCatalog, Catalogs, Owned
    <3>. QED
      BY <2>2, <3>1 DEF NewCatalog, CatalogInv
  <2>3. CASE ReconcileBatch
    <3>1. PICK batch \in Batches : catalog' = Imported(catalog, batch)
      BY <2>3 DEF ReconcileBatch
    <3>2. PICK n \in 1 .. MaxBatch : batch \in [1 .. n -> Records]
      BY DEF Batches
    <3>3. catalog \in Catalogs /\ Owned(catalog) /\ n \in Nat /\ Len(batch) = n
      BY <2>3, <3>2 DEF CatalogInv, ReconcileBatch
    <3>4. PICK a : Pass(catalog, batch, a) /\ Imported(catalog, batch) = a[Len(batch)]
      BY <3>2, <3>3, PassExists
    <3>5. a[n] \in Catalogs /\ Owned(a[n])
      BY <3>2, <3>3, <3>4, PassFollows
    <3>. QED
      BY <3>1, <3>3, <3>4, <3>5 DEF CatalogInv
  <2>. QED
    BY <2>1, <2>2, <2>3 DEF ReconcileNext
<1>. QED
  BY <1>1, <1>2, PTL DEF ReconcileSpec

(* No two committed records have one SKU, for any records and batches of   *)
(* any size: each is the owner of its own.                                 *)
THEOREM SkusApart == ReconcileSpec => []OneRecordPerSku
<1>1. CatalogInv => OneRecordPerSku
  BY DEF CatalogInv, Owned, OneRecordPerSku
<1>. QED
  BY <1>1, CatalogInvariant, PTL

(* Importing a batch again changes nothing, for any records, any number of *)
(* versions, batches of any size and whatever was imported before, if the  *)
(* batch lists the versions of an id in order.                             *)
THEOREM RepeatsAreIdle == ReconcileSpec => []RepeatChangesNothing
<1>1. CatalogInv => RepeatChangesNothing
  <2>. SUFFICES ASSUME CatalogInv, catalog # None, NEW batch \in Batches,
                       \A i, j \in DOMAIN batch : i < j /\ batch[i].id = batch[j].id
                         => batch[i].version <= batch[j].version
                PROVE  Imported(Imported(catalog, batch), batch) = Imported(catalog, batch)
    BY DEF RepeatChangesNothing
  <2>1. PICK n \in 1 .. MaxBatch : batch \in [1 .. n -> Records]
    BY DEF Batches
  <2>2. catalog \in Catalogs /\ Owned(catalog) /\ n \in Nat /\ Len(batch) = n
    BY <2>1 DEF CatalogInv
  <2>3. PICK a : Pass(catalog, batch, a) /\ Imported(catalog, batch) = a[Len(batch)]
    BY <2>1, <2>2, PassExists
  <2>4. a[n] \in Catalogs
    BY <2>1, <2>2, <2>3, PassFollows
  <2>5. PICK z : Pass(a[n], batch, z) /\ Imported(a[n], batch) = z[Len(batch)]
    BY <2>1, <2>2, <2>4, PassExists
  <2>6. \A i, j \in 1 .. n :
          i < j /\ batch[i].id = batch[j].id => batch[i].version <= batch[j].version
    BY <2>1
  <2>7. z[n] = a[n]
    BY <2>1, <2>2, <2>3, <2>5, <2>6, SecondPass
  <2>. QED
    BY <2>2, <2>3, <2>5, <2>7
<1>. QED
  BY <1>1, CatalogInvariant, PTL

-----------------------------------------------------------------------------
(* Hours.                                                                  *)

(* The inductive invariant: the types of a question.                       *)
HourInv ==
  moment # None =>
    /\ moment.schedule.weekly \in [0 .. Week - 1 -> SUBSET Windows]
    /\ moment.schedule.exceptions \in [0 .. 1 -> (SUBSET Windows) \cup {None}]
    /\ moment.minute \in Minutes

(* A question keeps the types it was asked with.                           *)
LEMMA HourInvariant == HourSpec => []HourInv
<1>1. HourInit => HourInv
  BY DEF HourInit, HourInv
<1>2. HourInv /\ [Look]_moment => HourInv'
  BY DEF Look, HourInv, Schedules
<1>. QED
  BY <1>1, <1>2, PTL DEF HourSpec

(* The status is closed exactly outside the opening hours, whatever has    *)
(* been confirmed.                                                         *)
LEMMA ClosedOutsideHours ==
  ASSUME NEW sch, NEW m, NEW confirmed \in {TRUE, FALSE, None}
  PROVE  DayStatus(sch, 1, m, confirmed) # "closed_by_schedule" <=> IsOpen(sch, 1, m)
  BY HourAssumption DEF DayStatus

(* A branch is open exactly within the windows in force, for days and      *)
(* weeks of any length and any number of windows a day, but for the early  *)
(* part of a day whose window crosses midnight.                            *)
THEOREM OpenByItsWindows == HourSpec => []OpenWithinAWindow
<1>1. HourInv => OpenWithinAWindow
  <2>. SUFFICES ASSUME HourInv, moment # None PROVE OpenWithinAWindow
    BY DEF OpenWithinAWindow
  <2>. DEFINE sch == moment.schedule
              m == moment.minute
              on(d) == IF sch.exceptions[d] = None THEN sch.weekly[d % Week]
                       ELSE sch.exceptions[d]
              effective == [d \in {0, 1} |-> on(d)]
              from(d, w) == d * DayLength + w.start
              to(d, w) == d * DayLength + w.end + (IF w.end <= w.start THEN DayLength ELSE 0)
              covered == \E d \in {0, 1} : \E w \in effective[d] :
                           from(d, w) <= DayLength + m /\ DayLength + m < to(d, w)
              early == \E w \in effective[1] : w.end <= w.start /\ m < w.end
  <2>1. m \in 0 .. DayLength - 1 /\ DayLength \in Nat
    BY HourAssumption DEF HourInv, Minutes
  <2>2. \A d \in {0, 1} : d % Week \in 0 .. Week - 1
    BY HourAssumption
  <2>3. \A d \in {0, 1} : WindowsFor(sch, d) = effective[d] /\ effective[d] \subseteq Windows
    <3>1. ASSUME NEW d \in {0, 1}
          PROVE  WindowsFor(sch, d) = effective[d] /\ effective[d] \subseteq Windows
      <4>1. effective[d] = on(d)
        OBVIOUS
      <4>2. /\ sch.weekly \in [0 .. Week - 1 -> SUBSET Windows]
            /\ sch.exceptions \in [0 .. 1 -> (SUBSET Windows) \cup {None}]
        BY DEF HourInv
      <4>3. d % Week \in 0 .. Week - 1 /\ d \in 0 .. 1
        BY <2>2
      <4>. HIDE DEF effective, sch
      <4>4. /\ sch.weekly[d % Week] \in SUBSET Windows
            /\ sch.exceptions[d] \in (SUBSET Windows) \cup {None}
        BY <4>2, <4>3
      <4>. QED
        BY <4>1, <4>4 DEF WindowsFor
    <3>. HIDE DEF effective, sch
    <3>. QED
      BY <3>1
  <2>4. \A d \in {0, 1} : \A w \in effective[d] :
          w.start \in 0 .. DayLength - 1 /\ w.end \in 0 .. DayLength - 1
    BY <2>3 DEF Windows, Minutes
  <2>. HIDE DEF sch, m, effective
  <2>5. IsOpen(sch, 1, m) <=>
          \/ \E w \in effective[1] : Contains(w, m)
          \/ \E w \in effective[0] : Crosses(w) /\ m < w.end
    BY <2>3 DEF IsOpen
  <2>6. ASSUME NEW w \in effective[1]
        PROVE  Contains(w, m) <=>
                 \/ from(1, w) <= DayLength + m /\ DayLength + m < to(1, w)
                 \/ w.end <= w.start /\ m < w.end
    BY <2>1, <2>4 DEF Contains, Crosses
  <2>7. ASSUME NEW w \in effective[0]
        PROVE  Crosses(w) /\ m < w.end <=>
                 from(0, w) <= DayLength + m /\ DayLength + m < to(0, w)
    BY <2>1, <2>4 DEF Crosses
  <2>. HIDE DEF from, to
  <2>8. IsOpen(sch, 1, m) <=> covered \/ early
    BY <2>5, <2>6, <2>7
  <2>. QED
    BY <2>8, ClosedOutsideHours DEF OpenWithinAWindow, sch, m, effective, from, to
<1>. QED
  BY <1>1, HourInvariant, PTL

-----------------------------------------------------------------------------
(* Prices.                                                                 *)

(* The order of overrides is total and transitive.                         *)
LEMMA PrecedesIsOrder ==
  ASSUME NEW n \in Nat, NEW os, \A i \in 1 .. n : os[i].version \in Int
  PROVE  /\ \A i \in 1 .. n : Precedes(os, i, i)
         /\ \A i, j \in 1 .. n : Precedes(os, i, j) \/ Precedes(os, j, i)
         /\ \A i, j, k \in 1 .. n :
              Precedes(os, i, j) /\ Precedes(os, j, k) => Precedes(os, i, k)
<1>. DEFINE rank(i) == PriorityRank(os[i])
<1>1. \A i : rank(i) \in Int
  BY DEF PriorityRank
<1>2. \A i, j : Precedes(os, i, j) <=>
        \/ rank(i) < rank(j)
        \/ rank(i) = rank(j) /\ os[i].version > os[j].version
        \/ rank(i) = rank(j) /\ os[i].version = os[j].version /\ i <= j
  BY DEF Precedes
<1>. HIDE DEF rank
<1>. QED
  BY <1>1, <1>2

(* Some override comes first wherever there is one, and Best finds it.     *)
LEMMA BestIsFirst ==
  ASSUME NEW n \in Nat, NEW os, \A i \in 1 .. n : os[i].version \in Int,
         NEW is \in SUBSET (1 .. n), is # {}
  PROVE  Best(os, is) \in is /\ \A j \in is : Precedes(os, Best(os, is), j)
<1>. DEFINE First(i, k) == i \in is /\ i <= k /\ \A j \in is : j <= k => Precedes(os, i, j)
            T == {k \in 0 .. n : (\E i \in is : i <= k) => \E i \in is : First(i, k)}
<1>1. 0 \in T
  OBVIOUS
<1>2. ASSUME NEW k \in 0 .. n, k # 0, k - 1 \in T PROVE k \in T
  <2>1. CASE k \notin is
    <3>1. \A i \in is : i <= k <=> i <= k - 1
      <4>1. \A i \in is : i \in Int /\ i # k
        BY <2>1
      <4>2. k \in Int
        BY <1>2
      <4>. QED
        BY <4>1, <4>2
    <3>2. \A i \in is : First(i, k) <=> First(i, k - 1)
      BY <3>1
    <3>. HIDE DEF First
    <3>. QED
      BY <1>2, <3>1, <3>2
  <2>2. CASE k \in is /\ ~\E i \in is : i <= k - 1
    <3>1. \A j \in is : j <= k => j = k
      BY <1>2, <2>2
    <3>2. First(k, k)
      BY <1>2, <2>2, <3>1, PrecedesIsOrder
    <3>. HIDE DEF First
    <3>. QED
      BY <2>2, <3>2
  <2>3. CASE k \in is /\ \E i \in is : i <= k - 1
    <3>1. PICK b \in is : First(b, k - 1)
      BY <1>2, <2>3
    <3>2. k \in 1 .. n /\ b \in 1 .. n /\ \A j \in is : j \in 1 .. n /\ (j <= k => j = k \/ j <= k - 1)
      BY <1>2
    <3>3. CASE Precedes(os, b, k)
      <4>1. First(b, k)
        BY <3>1, <3>2, <3>3
      <4>. HIDE DEF First
      <4>. QED
        BY <4>1
    <3>4. CASE Precedes(os, k, b)
      <4>1. First(k, k)
        BY <2>3, <3>1, <3>2, <3>4, PrecedesIsOrder
      <4>. HIDE DEF First
      <4>. QED
        BY <2>3, <4>1
    <3>. QED
      BY <3>2, <3>3, <3>4, PrecedesIsOrder
  <2>. QED
    BY <2>1, <2>2, <2>3
<1>3. n \in T
  <2>. HIDE DEF T
  <2>. QED
    BY <1>1, <1>2, Along
<1>4. \E i \in is : \A j \in is : Precedes(os, i, j)
  <2>1. (\E i \in is : i <= n) => \E i \in is : First(i, n)
    <3>. HIDE DEF First
    <3>. QED
      BY <1>3
  <2>2. \A i \in is : i <= n
    OBVIOUS
  <2>3. PICK i \in is : First(i, n)
    <3>. HIDE DEF First
    <3>. QED
      BY <2>1, <2>2
  <2>. QED
    BY <2>2, <2>3
<1>. QED
  BY <1>4 DEF Best

(* What an override that was found is worth.                               *)
PriceOf(o) == IF o.amount = 0 /\ ~o.allow_zero THEN ZeroNotAllowed ELSE o.amount

(* resolve_price: the price is that of the first override that has one.    *)
LEMMA PriceIsFirst ==
  ASSUME NEW n \in Nat, NEW os, DOMAIN os = 1 .. n, \A i \in 1 .. n : os[i].version \in Int,
         NEW c, NEW valued \in SUBSET (1 .. n),
         \A i \in 1 .. n : i \in valued <=> os[i].currency = c /\ os[i].amount # None
  PROVE  /\ valued = {} => ResolvePrice(os, c) = None
         /\ valued # {} => \E i \in valued :
              /\ \A j \in valued : Precedes(os, i, j)
              /\ ResolvePrice(os, c) = PriceOf(os[i])
<1>. DEFINE applicable == {i \in DOMAIN os : os[i].currency = c}
            priced == {i \in applicable : os[i].amount # None}
            first == Best(os, applicable)
            best  == IF os[first].amount # None THEN first ELSE Best(os, priced)
<1>1. valued = priced
  BY Zenon
<1>2. ResolvePrice(os, c) = IF priced = {} THEN None
                            ELSE PriceOf(os[best])
  BY Zenon DEF ResolvePrice, PriceOf
<1>3. ASSUME valued # {} PROVE best \in valued /\ \A j \in valued : Precedes(os, best, j)
  <2>1. applicable # {} /\ applicable \in SUBSET (1 .. n) /\ valued \in SUBSET (1 .. n)
    BY <1>3
  <2>2. first \in applicable /\ \A j \in applicable : Precedes(os, first, j)
    BY <2>1, BestIsFirst
  <2>3. Best(os, valued) \in valued /\ \A j \in valued : Precedes(os, Best(os, valued), j)
    BY <1>3, <2>1, BestIsFirst
  <2>4. \A i \in applicable : os[i].amount # None => i \in valued
    OBVIOUS
  <2>5. valued \subseteq applicable
    OBVIOUS
  <2>. HIDE DEF applicable
  <2>6. Best(os, priced) = Best(os, valued)
    BY <1>1
  <2>. HIDE DEF first, priced
  <2>. QED
    BY <2>2, <2>3, <2>4, <2>5, <2>6
<1>. HIDE DEF best, priced
<1>. QED
  BY <1>1, <1>2, <1>3

(* The inductive invariant: overrides of any number, or an item as its     *)
(* constraints let it be stored.                                           *)
PriceInv ==
  asked # None =>
    \/ asked.kind = "overrides" /\ \E n \in Nat : asked.os \in [1 .. n -> Override]
    \/ /\ asked.kind = "item"
       /\ asked.base \in Amounts
       /\ asked.prices \in SUBSET ChannelPrice
       /\ Storable(asked.base, asked.prices)

(* A question keeps the types it was asked with.                           *)
LEMMA PriceInvariant == PriceSpec => []PriceInv
<1>1. PriceInit => PriceInv
  BY DEF PriceInit, PriceInv
<1>2. PriceInv /\ [Ask]_asked => PriceInv'
  <2>. SUFFICES ASSUME PriceInv, [Ask]_asked PROVE PriceInv'
    OBVIOUS
  <2>1. CASE UNCHANGED asked
    BY <2>1 DEF PriceInv
  <2>2. CASE \E n \in 0 .. MaxOverrides : \E os \in [1 .. n -> Override] :
               asked' = [kind |-> "overrides", os |-> os]
    BY <2>2 DEF PriceInv
  <2>3. CASE \E base \in Amounts, own \in Currencies, p, q \in ChannelPrice :
             \E prices \in {{}, {p, q}} :
               /\ Storable(base, prices)
               /\ asked' = [kind |-> "item", base |-> base, own |-> own, prices |-> prices]
    BY <2>3 DEF PriceInv
  <2>. QED
    BY <2>1, <2>2, <2>3 DEF Ask
<1>. QED
  BY <1>1, <1>2, PTL DEF PriceSpec

(* The first override is the newest of its level, which is the first that  *)
(* has a price.                                                            *)
LEMMA FirstIsNewest ==
  ASSUME NEW n \in Nat, NEW os, DOMAIN os = 1 .. n, \A i \in 1 .. n : os[i].version \in Int,
         NEW c, NEW levels,
         \A r \in 1 .. 4 : \A i :
           i \in levels[r] <=> /\ i \in 1 .. n /\ os[i].currency = c /\ os[i].amount # None
                             /\ PriorityRank(os[i]) = r - 1
  PROVE  \/ (\A r \in 1 .. 4 : levels[r] = {}) /\ ResolvePrice(os, c) = None
         \/ \E r \in 1 .. 4 : \E i \in levels[r] :
              /\ \A m \in 1 .. 4 : levels[m] # {} => r <= m
              /\ \A j \in levels[r] : os[i].version >= os[j].version
              /\ ResolvePrice(os, c) = PriceOf(os[i])
<1>. DEFINE valued == {i \in 1 .. n : os[i].currency = c /\ os[i].amount # None}
            rank(i) == PriorityRank(os[i])
<1>0. /\ valued \in SUBSET (1 .. n)
      /\ \A i \in 1 .. n : i \in valued <=> os[i].currency = c /\ os[i].amount # None
  OBVIOUS
<1>1. \A i \in valued : i \in 1 .. n /\ rank(i) + 1 \in 1 .. 4 /\ rank(i) \in Int
  BY DEF PriorityRank
<1>2. \A r \in 1 .. 4 : \A i : i \in levels[r] <=> i \in valued /\ rank(i) = r - 1
  OBVIOUS
<1>3. \A i, j \in valued : Precedes(os, i, j) =>
        rank(i) <= rank(j) /\ (rank(i) = rank(j) => os[i].version >= os[j].version)
  BY <1>1 DEF Precedes
<1>. HIDE DEF valued, rank
<1>4. CASE valued = {}
  <2>1. ResolvePrice(os, c) = None
    BY <1>0, <1>4, PriceIsFirst
  <2>. QED
    BY <1>2, <1>4, <2>1
<1>5. CASE valued # {}
  <2>0. valued # {} => \E i \in valued : /\ \A j \in valued : Precedes(os, i, j)
                                         /\ ResolvePrice(os, c) = PriceOf(os[i])
    BY <1>0, PriceIsFirst
  <2>1. PICK i \in valued : /\ \A j \in valued : Precedes(os, i, j)
                            /\ ResolvePrice(os, c) = PriceOf(os[i])
    BY <1>5, <2>0
  <2>. DEFINE r == rank(i) + 1
  <2>2. r \in 1 .. 4 /\ r - 1 = rank(i)
    BY <1>1
  <2>3. i \in levels[r]
    BY <1>2, <2>2
  <2>4. \A m \in 1 .. 4 : levels[m] # {} => r <= m
    <3>1. SUFFICES ASSUME NEW m \in 1 .. 4, NEW j \in levels[m] PROVE r <= m
      OBVIOUS
    <3>. QED
      BY <1>1, <1>2, <1>3, <2>1
  <2>5. \A j \in levels[r] : os[i].version >= os[j].version
    BY <1>2, <1>3, <2>1, <2>2
  <2>. HIDE DEF r
  <2>. QED
    BY <2>1, <2>2, <2>3, <2>4, <2>5
<1>. QED
  BY <1>4, <1>5

(* Of the overrides of one level, one is the newest.                       *)
LEMMA NewestExists ==
  ASSUME NEW n \in Nat, NEW os, \A i \in 1 .. n : os[i].version \in Int,
         NEW r, NEW l \in SUBSET (1 .. n), \A i \in l : PriorityRank(os[i]) = r, l # {}
  PROVE  \E k \in l : \A j \in l : os[k].version >= os[j].version
<1>. DEFINE k == Best(os, l)
<1>1. k \in l /\ \A j \in l : Precedes(os, k, j)
  BY BestIsFirst
<1>2. PriorityRank(os[k]) \in Int
  BY DEF PriorityRank
<1>. HIDE DEF k
<1>3. \A j \in l : os[k].version \in Int /\ os[j].version \in Int
  BY <1>1
<1>4. \A j \in l : PriorityRank(os[k]) = r /\ PriorityRank(os[j]) = r
  BY <1>1
<1>5. \A j \in l : os[k].version >= os[j].version
  BY <1>1, <1>2, <1>3, <1>4 DEF Precedes
<1>. QED
  BY <1>1, <1>5

(* The price is the newest on the most specific level that has one, for    *)
(* any number of overrides, any amounts, versions and currencies, as long  *)
(* as no level has a null above an amount (price_resolution.py:4-8, 89).   *)
THEOREM PriceIsMostSpecific == PriceSpec => []MostSpecificNewest
<1>1. PriceInv => MostSpecificNewest
  <2>. SUFFICES ASSUME PriceInv, asked # None, asked.kind = "overrides", NEW c \in Currencies
                PROVE  MostSpecificNewest!2!(c)    \* what it says of one currency
    BY DEF MostSpecificNewest
  <2>. DEFINE os == asked.os
              level(ch, br) ==
                {i \in DOMAIN os : os[i].channel = ch /\ os[i].branch = br /\ os[i].currency = c}
              levels == <<level(TRUE, TRUE), level(TRUE, FALSE),
                          level(FALSE, TRUE), level(FALSE, FALSE)>>
              newest(l) == {i \in l : \A j \in l : os[i].version >= os[j].version}
              inherits(l) == \A i \in l : os[i].amount = None
              found  == {n \in 1 .. 4 : ~inherits(levels[n])}
              first  == CHOOSE n \in found : \A m \in found : n <= m
              priced == [r \in 1 .. 4 |-> {i \in levels[r] : os[i].amount # None}]
              Agreed == \A n \in found : \A i \in newest(levels[n]) : os[i].amount # None
              Costs(i) == IF os[i].amount = 0 /\ ~os[i].allow_zero
                          THEN ResolvePrice(os, c) = ZeroNotAllowed
                          ELSE ResolvePrice(os, c) = os[i].amount
  <2>1. PICK n \in Nat : os \in [1 .. n -> Override]
    BY DEF PriceInv
  <2>2. /\ DOMAIN os = 1 .. n
        /\ \A i \in 1 .. n : /\ os[i].channel \in BOOLEAN /\ os[i].branch \in BOOLEAN
                            /\ os[i].version \in Int
    BY <2>1, PriceAssumption DEF Override
  <2>. HIDE DEF os
  <2>3. \A r \in 1 .. 4 : \A i :
          i \in levels[r] <=> /\ i \in 1 .. n /\ os[i].currency = c
                            /\ PriorityRank(os[i]) = r - 1
    BY <2>2 DEF PriorityRank
  <2>. HIDE DEF levels
  <2>4. \A r \in 1 .. 4 : \A i :
          i \in priced[r] <=> /\ i \in 1 .. n /\ os[i].currency = c /\ os[i].amount # None
                            /\ PriorityRank(os[i]) = r - 1
    BY <2>3
  <2>5. \A r \in 1 .. 4 : r \in found <=> priced[r] # {}
    OBVIOUS
  <2>6. \A r \in 1 .. 4 : \A i \in priced[r] : i \in levels[r] /\ i \in 1 .. n
    BY <2>4
  <2>7. \A r \in 1 .. 4 : \A i \in levels[r] : os[i].amount # None => i \in priced[r]
    OBVIOUS
  <2>. DEFINE First(r, i) ==
                /\ \A m \in 1 .. 4 : priced[m] # {} => r <= m
                /\ \A j \in priced[r] : os[i].version >= os[j].version
                /\ ResolvePrice(os, c) = PriceOf(os[i])
  <2>. HIDE DEF priced
  <2>8. \/ (\A r \in 1 .. 4 : priced[r] = {}) /\ ResolvePrice(os, c) = None
        \/ \E r \in 1 .. 4 : \E i \in priced[r] : First(r, i)
    BY <2>2, <2>4, FirstIsNewest
  <2>9. ASSUME NEW r \in 1 .. 4, r \in found, \A m \in 1 .. 4 : m \in found => r <= m
        PROVE  first = r
    <3>1. r \in found /\ (\A m \in found : r <= m) /\ \A m \in found : m \in Int
      BY <2>9
    <3>. HIDE DEF found
    <3>2. first \in found /\ \A m \in found : first <= m
      BY <3>1, Zenon
    <3>. HIDE DEF first
    <3>. QED
      BY <3>1, <3>2
  <2>10. ASSUME Agreed, NEW r \in 1 .. 4, NEW i \in priced[r], First(r, i)
         PROVE  /\ found # {}
                /\ i \in newest(levels[first])
                /\ Costs(i)
    <3>1. r \in found /\ \A m \in 1 .. 4 : m \in found => r <= m
      BY <2>5, <2>10
    <3>2. first = r
      BY <2>9, <3>1
    <3>3. i \in levels[r] /\ i \in 1 .. n
      BY <2>6
    <3>4. PICK k \in levels[r] : \A j \in levels[r] : os[k].version >= os[j].version
      <4>1. levels[r] \in SUBSET (1 .. n)
        BY <2>3
      <4>2. \A j \in levels[r] : PriorityRank(os[j]) = r - 1
        BY <2>3
      <4>. QED
        BY <2>2, <3>3, <4>1, <4>2, NewestExists
    <3>5. k \in priced[r]
      BY <2>7, <2>10, <3>1, <3>4
    <3>6. os[i].version >= os[k].version
      BY <2>10, <3>5
    <3>7. ASSUME NEW j \in levels[r] PROVE os[i].version >= os[j].version
      <4>1. i \in 1 .. n /\ j \in 1 .. n /\ k \in 1 .. n
        BY <2>3, <3>3
      <4>2. os[i].version \in Int /\ os[j].version \in Int /\ os[k].version \in Int
        BY <2>2, <4>1
      <4>. QED
        BY <3>4, <3>6, <4>2
    <3>8. Costs(i)
      BY <2>10 DEF PriceOf
    <3>. HIDE DEF first, found, Costs
    <3>. QED
      BY <3>1, <3>2, <3>3, <3>7, <3>8
  <2>11. ASSUME Agreed
         PROVE  IF found = {} THEN ResolvePrice(os, c) = None
                ELSE \E i \in newest(levels[first]) : Costs(i)
    <3>1. CASE (\A r \in 1 .. 4 : priced[r] = {}) /\ ResolvePrice(os, c) = None
      <4>1. found = {}
        BY <2>5, <3>1
      <4>. QED
        BY <3>1, <4>1
    <3>. HIDE DEF First, Costs, newest, found, first, Agreed
    <3>. QED
      BY <2>8, <2>10, <2>11, <3>1
  <2>. QED
    BY <2>11, Zenon DEF os, levels
<1>. QED
  BY <1>1, PriceInvariant, PTL

(* A finite set can be listed, as ItemPrice does.                          *)
LEMMA Listed ==
  ASSUME NEW S, IsFiniteSet(S)
  PROVE  /\ Cardinality(S) \in Nat
         /\ \E f \in [1 .. Cardinality(S) -> S] : {f[i] : i \in DOMAIN f} = S
<1>1. Cardinality(S) \in Nat /\ ExistsBijection(1 .. Cardinality(S), S)
  BY FS_CardinalityType
<1>2. PICK f \in [1 .. Cardinality(S) -> S] : \A x \in S : \E i \in 1 .. Cardinality(S) : f[i] = x
  BY <1>1 DEF ExistsBijection, Bijection, Surjection
<1>3. {f[i] : i \in DOMAIN f} = S
  BY <1>2
<1>. QED
  BY <1>1, <1>3

(* The price of a stored item.                                             *)
LEMMA ItemPriceCounts ==
  ASSUME NEW base \in Amounts, NEW own, NEW c, NEW prices \in SUBSET ChannelPrice,
         Storable(base, prices),
         NEW fits, \A p : p \in fits <=> p \in prices /\ p.channel = "asked" /\ p.currency = c
  PROVE  \/ \E p \in fits : ItemPrice(base, own, prices, c) = p.amount
         \/ /\ fits = {}
            /\ ItemPrice(base, own, prices, c) =
                 (IF own # c THEN None ELSE IF base = 0 THEN ZeroNotAllowed ELSE base)
<1>. DEFINE here == {p \in prices : p.channel = "asked"}
            stored == [branch |-> FALSE, channel |-> FALSE, amount |-> base, currency |-> own,
                       version |-> 1, allow_zero |-> FALSE]
            all == {stored} \cup {AsOverride(p) : p \in here}
            n == Cardinality(all)
            os == CHOOSE f \in [1 .. n -> all] : {f[i] : i \in DOMAIN f} = all
<1>1. \A p \in here : /\ p.amount \in Amounts /\ p.version \in Versions
                      /\ p.amount = 0 => p.allow_zero
                      /\ \A q \in here : q = p
  BY DEF ChannelPrice, Storable
<1>2. IsFiniteSet(all)
  <2>1. CASE here = {}
    <3>1. all = {stored}
      BY <2>1
    <3>. QED
      BY <3>1, FS_Singleton
  <2>2. CASE here # {}
    <3>1. PICK p \in here : TRUE
      BY <2>2
    <3>2. here = {p}
      BY <1>1, <3>1
    <3>. HIDE DEF here, stored
    <3>3. all = {stored} \cup {AsOverride(p)}
      BY <3>2
    <3>. HIDE DEF all
    <3>. QED
      BY <3>3, FS_Singleton, FS_AddElement
  <2>. QED
    BY <2>1, <2>2
<1>3. ItemPrice(base, own, prices, c) = ResolvePrice(os, c)
  BY Zenon DEF ItemPrice
<1>4. /\ n \in Nat /\ os \in [1 .. n -> all]
      /\ \A o \in all : \E i \in 1 .. n : os[i] = o
  <2>1. n \in Nat /\ \E f \in [1 .. n -> all] : {f[i] : i \in DOMAIN f} = all
    <3>. HIDE DEF all
    <3>. QED
      BY <1>2, Listed
  <2>. HIDE DEF all, n
  <2>2. os \in [1 .. n -> all] /\ {os[i] : i \in DOMAIN os} = all
    BY <2>1, Zenon
  <2>. HIDE DEF os
  <2>. QED
    BY <2>1, <2>2
<1>. HIDE DEF n, os
<1>5. \A o \in all : \/ o = stored
                     \/ \E p \in here : o = AsOverride(p)
  OBVIOUS
<1>6. stored \in all /\ \A p \in here : AsOverride(p) \in all
  OBVIOUS
<1>7. \A p \in here : /\ AsOverride(p).amount = p.amount /\ AsOverride(p).version = p.version
                      /\ AsOverride(p).currency = p.currency
                      /\ PriorityRank(AsOverride(p)) = 1
                      /\ PriceOf(AsOverride(p)) = p.amount
  BY <1>1 DEF AsOverride, PriorityRank, PriceOf
<1>8. /\ stored.amount = base /\ stored.version = 1 /\ stored.currency = own
      /\ PriorityRank(stored) = 3
      /\ PriceOf(stored) = IF base = 0 THEN ZeroNotAllowed ELSE base
  BY DEF PriorityRank, PriceOf
<1>9. \A p : p \in fits <=> p \in here /\ p.currency = c
  OBVIOUS
<1>. HIDE DEF all, stored, here
<1>10. \A i \in 1 .. n : os[i].version \in Int /\ os[i].amount # None
  <2>1. \A o \in all : o.version \in Int /\ o.amount # None
    <3>1. stored.version \in Int /\ stored.amount # None
      BY <1>8, PriceAssumption
    <3>2. \A p \in here : AsOverride(p).version \in Int /\ AsOverride(p).amount # None
      BY <1>1, <1>7, PriceAssumption
    <3>. QED
      BY <1>5, <3>1, <3>2
  <2>. QED
    BY <1>4, <2>1
<1>. DEFINE valued == {i \in 1 .. n : os[i].currency = c}
<1>11. /\ valued \in SUBSET (1 .. n)
       /\ \A i \in 1 .. n : i \in valued <=> os[i].currency = c /\ os[i].amount # None
  BY <1>10
<1>. HIDE DEF valued
<1>12. /\ valued = {} => ResolvePrice(os, c) = None
       /\ valued # {} => \E i \in valued : /\ \A j \in valued : Precedes(os, i, j)
                                        /\ ResolvePrice(os, c) = PriceOf(os[i])
  <2>1. DOMAIN os = 1 .. n
    BY <1>4
  <2>2. n \in Nat /\ \A i \in 1 .. n : os[i].version \in Int
    BY <1>4, <1>10
  <2>3. valued = {} => ResolvePrice(os, c) = None
    BY <1>11, <2>1, <2>2, PriceIsFirst
  <2>4. valued # {} => \E i \in valued : /\ \A j \in valued : Precedes(os, i, j)
                                         /\ ResolvePrice(os, c) = PriceOf(os[i])
    BY <1>11, <2>1, <2>2, PriceIsFirst
  <2>. QED
    BY <2>3, <2>4
<1>13. CASE \E p \in fits : TRUE
  <2>1. PICK p \in here : p \in fits /\ p.currency = c
    BY <1>9, <1>13
  <2>2. PICK k \in 1 .. n : os[k] = AsOverride(p)
    BY <1>4, <1>6
  <2>3. k \in valued
    BY <1>7, <1>11, <1>10, <2>1, <2>2
  <2>4. PICK i \in valued : Precedes(os, i, k) /\ ResolvePrice(os, c) = PriceOf(os[i])
    BY <1>12, <2>3
  <2>5. os[i] # stored
    BY <1>7, <1>8, <2>2, <2>4 DEF Precedes
  <2>6. os[i] = AsOverride(p)
    BY <1>1, <1>4, <1>5, <1>11, <2>1, <2>4, <2>5
  <2>. QED
    BY <1>3, <1>7, <2>1, <2>4, <2>6
<1>14. CASE fits = {}
  <2>1. \A i \in valued : os[i] = stored /\ own = c
    BY <1>4, <1>5, <1>7, <1>8, <1>9, <1>11, <1>14
  <2>2. CASE own # c
    BY <1>3, <1>12, <1>14, <2>1, <2>2
  <2>3. CASE own = c
    <3>1. PICK k \in 1 .. n : os[k] = stored
      BY <1>4, <1>6
    <3>2. k \in valued
      BY <1>8, <1>10, <1>11, <2>3, <3>1
    <3>. QED
      BY <1>3, <1>8, <1>12, <1>14, <2>1, <2>3, <3>2
  <2>. QED
    BY <2>2, <2>3
<1>. QED
  BY <1>13, <1>14

(* A channel price that could be stored is the price of its channel, for   *)
(* any amounts and currencies and any number of stored prices.             *)
THEOREM StoredPricesCount == PriceSpec => []StoredPriceCounts
<1>1. PriceInv => StoredPriceCounts
  <2>. SUFFICES ASSUME PriceInv, asked # None, asked.kind = "item", NEW c \in Currencies
                PROVE  StoredPriceCounts!2!(c)    \* what it says of one currency
    BY DEF StoredPriceCounts
  <2>1. /\ asked.base \in Amounts /\ asked.prices \in SUBSET ChannelPrice
        /\ Storable(asked.base, asked.prices)
    BY DEF PriceInv
  <2>. DEFINE fits == {p \in asked.prices : p.channel = "asked" /\ p.currency = c}
  <2>2. \A p : p \in fits <=> p \in asked.prices /\ p.channel = "asked" /\ p.currency = c
    OBVIOUS
  <2>. HIDE DEF fits
  <2>3. \/ \E p \in fits : ItemPrice(asked.base, asked.own, asked.prices, c) = p.amount
        \/ /\ fits = {}
           /\ ItemPrice(asked.base, asked.own, asked.prices, c) =
                (IF asked.own # c THEN None
                 ELSE IF asked.base = 0 THEN ZeroNotAllowed ELSE asked.base)
    BY <2>1, <2>2, ItemPriceCounts
  <2>. QED
    BY <2>3 DEF fits
<1>. QED
  BY <1>1, PriceInvariant, PTL

-----------------------------------------------------------------------------
(* Availability.                                                           *)

(* The inductive invariant: the record holds the confirmation with the     *)
(* highest number that has arrived since the request, if one above its     *)
(* first version has, and every number sent since is higher than those     *)
(* sent before it.                                                         *)
HoldsNewest ==
  /\ record.confirmed = Unconfirmed => record.version = 1
  /\ record.confirmed # Unconfirmed =>
       /\ record.version \in arrived /\ record.version > 1
       /\ record.confirmed = sent[record.version]
  /\ \A n \in arrived : n <= record.version
  /\ arrived \subseteq Sent /\ former \subseteq Sent
  /\ \A n \in former, m \in Sent \ former : n < m

(* Types, for any numbers a confirmation may have.                         *)
AvailabilityTyped ==
  /\ record \in [desired : BOOLEAN, confirmed : BOOLEAN \cup {Unconfirmed},
                 version : Nat \ {0}, expired : BOOLEAN]
  /\ sent \in [Numbers -> BOOLEAN \cup {Unconfirmed}]
  /\ arrived \subseteq Numbers /\ former \subseteq Numbers

(* A request starts anew and makes all that was sent former; what is sent   *)
(* after it is numbered higher; only a newer confirmation changes what is  *)
(* confirmed.                                                              *)
LEMMA NewestInvariant ==
  AvailabilitySpec => [](AvailabilityTyped /\ HoldsNewest)
<1>1. AvailabilityInit => AvailabilityTyped /\ HoldsNewest
  BY DEF AvailabilityInit, AvailabilityTyped, HoldsNewest, Requested
<1>2. AvailabilityTyped /\ HoldsNewest /\ [AvailabilityNext]_availabilityVars => (AvailabilityTyped /\ HoldsNewest)'
  <2> SUFFICES ASSUME AvailabilityTyped, HoldsNewest, [AvailabilityNext]_availabilityVars PROVE (AvailabilityTyped /\ HoldsNewest)'
    OBVIOUS
  <2>1. CASE UNCHANGED availabilityVars
    BY <2>1 DEF availabilityVars, AvailabilityTyped, HoldsNewest, Sent
  <2>2. CASE Request
    BY <2>2 DEF Request, Requested, AvailabilityTyped, HoldsNewest, Sent
  <2>3. CASE Expire
    BY <2>3 DEF Expire, AvailabilityTyped, HoldsNewest, Sent
  <2>4. CASE Confirm
    <3>1. PICK n \in Sent :
            /\ record' = Applied(record, sent[n], n)
            /\ arrived' = arrived \cup {n} /\ sent' = sent /\ former' = former
      BY <2>4 DEF Confirm
    <3>2. n \in Nat \ {0} /\ n \in Numbers /\ sent[n] \in BOOLEAN
      BY DEF Numbers, AvailabilityTyped, Sent
    <3>3. CASE n <= record.version
      BY <3>1, <3>2, <3>3 DEF Applied, AvailabilityTyped, HoldsNewest, Sent
    <3>4. CASE n > record.version
      <4>1. record' = [record EXCEPT !.confirmed = sent[n], !.version = n]
        BY <3>1, <3>2, <3>4 DEF Applied, AvailabilityTyped
      <4>2. /\ record'.confirmed = sent[n] /\ record'.version = n
            /\ AvailabilityTyped'
        BY <3>1, <3>2, <4>1 DEF AvailabilityTyped
      <4>3. Sent' = Sent
        BY <3>1 DEF Sent
      <4>4. HoldsNewest'
        BY UnconfirmedIsNoState, <3>1, <3>2, <3>4, <4>2, <4>3 DEF HoldsNewest, AvailabilityTyped, Numbers
      <4> QED BY <4>2, <4>4
    <3> QED BY <3>2, <3>3, <3>4 DEF AvailabilityTyped
  <2>5. CASE Send
    <3>1. PICK n \in Numbers, state \in BOOLEAN :
            /\ \A m \in Sent : m < n
            /\ sent' = [sent EXCEPT ![n] = state]
            /\ UNCHANGED <<record, arrived, former>>
      BY <2>5 DEF Send
    <3>2. n \in Nat /\ n \notin Sent
      BY <3>1 DEF Numbers
    <3>3. Sent' = Sent \cup {n} /\ \A m \in Sent : sent'[m] = sent[m]
      BY <3>1, <3>2, UnconfirmedIsNoState DEF Sent, AvailabilityTyped
    <3>4. AvailabilityTyped'
      BY <3>1 DEF AvailabilityTyped
    <3>5. HoldsNewest'
      BY <3>1, <3>2, <3>3 DEF HoldsNewest, AvailabilityTyped
    <3> QED BY <3>4, <3>5
  <2> QED BY <2>1, <2>2, <2>3, <2>4, <2>5 DEF AvailabilityNext
<1> QED BY <1>1, <1>2, PTL DEF AvailabilitySpec

(* However late and out of order they come, once an answer to the request  *)
(* has arrived, what is shown is what the newest says, and before any      *)
(* confirmation has, it is pending (availability_state.py:4-6, 52-60,      *)
(* 65-71).                                                                 *)
THEOREM NewestIsShown ==
  AvailabilitySpec => []ShowsNewestConfirmation
<1>1. AvailabilityTyped /\ HoldsNewest => ShowsNewestConfirmation
  <2> SUFFICES ASSUME AvailabilityTyped, HoldsNewest PROVE ShowsNewestConfirmation
    OBVIOUS
  <2> DEFINE answers == {n \in arrived \ former : n > 1}
             newest == CHOOSE n \in answers : \A m \in answers : m <= n
  <2>1. arrived \subseteq {1} => DisplayState(record) = "pending_confirmation"
    BY DEF HoldsNewest, DisplayState
  <2>2. CASE answers = {}
    BY <2>1, <2>2 DEF ShowsNewestConfirmation
  <2>3. CASE answers # {}
    <3>1. PICK a \in arrived \ former : a > 1
      BY <2>3
    <3>2. record.confirmed # Unconfirmed /\ a <= record.version /\ record.version \in arrived
      BY <3>1 DEF HoldsNewest, AvailabilityTyped, Numbers
    <3>3. record.version \notin former
      <4>1. ASSUME record.version \in former PROVE FALSE
        <5>1. a \in Sent \ former
          BY <3>1 DEF HoldsNewest
        <5>2. record.version < a
          BY <4>1, <5>1 DEF HoldsNewest
        <5>3. a \in Int /\ record.version \in Int
          BY <3>1 DEF AvailabilityTyped, Numbers
        <5> QED BY <3>2, <5>2, <5>3
      <4> QED BY <4>1
    <3>4. record.version \in answers /\ \A m \in answers : m <= record.version
      BY <3>2, <3>3 DEF HoldsNewest
    <3>5. newest = record.version
      <4>1. newest \in answers /\ \A m \in answers : m <= newest
        BY <3>4
      <4>2. newest <= record.version /\ record.version <= newest
        BY <3>4, <4>1
      <4> HIDE DEF newest
      <4>3. newest \in Numbers
        BY <4>1 DEF AvailabilityTyped
      <4>4. newest \in Int /\ record.version \in Int
        BY <4>3 DEF AvailabilityTyped, Numbers
      <4> QED BY <4>2, <4>4
    <3>6. record.confirmed = sent[newest] /\ record.confirmed \in BOOLEAN
      BY <3>2, <3>5 DEF HoldsNewest, AvailabilityTyped
    <3>7. DisplayState(record) =
            IF record.expired THEN "stale"
            ELSE IF record.confirmed # record.desired THEN "failed"
            ELSE IF record.confirmed = TRUE THEN "available_confirmed" ELSE "stopped_confirmed"
      BY <3>2 DEF DisplayState, AvailabilityTyped
    <3> HIDE DEF answers
    <3> QED BY <2>1, <3>6, <3>7 DEF ShowsNewestConfirmation, AvailabilityTyped, answers
  <2> QED BY <2>2, <2>3
<1> QED BY <1>1, NewestInvariant, PTL
=============================================================================
