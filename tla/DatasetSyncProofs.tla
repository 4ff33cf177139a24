------------------------- MODULE DatasetSyncProofs -------------------------
(***************************************************************************)
(* What the way from sources.yaml to the live database keeps, for any      *)
(* number of ids, gauges, reaches, edits and observations.                 *)
(***************************************************************************)
EXTENDS DatasetSync, TLAPS

Fields == {"yaml", "source", "urls", "links", "gauge", "reach", "geom", "next", "retired"}
Tables == {"source", "urls", "links", "gauge", "reach", "geom", "obs"}
Function(f) == f = [x \in DOMAIN f |-> f[x]]

\* A registry: entries by id.
EntryRow(e) == e = [name |-> e.name, gauge |-> e.gauge, ignore |-> e.ignore] /\ e.ignore \in BOOLEAN
Registry(yaml) ==
    /\ Function(yaml) /\ DOMAIN yaml \subseteq SourceId
    /\ \A s \in DOMAIN yaml : EntryRow(yaml[s])

\* What every checkout is, whatever its author did.
Checkout(d) ==
    /\ DOMAIN d = Fields
    /\ Registry(d.yaml)
    /\ DOMAIN d.source \subseteq SourceId
    /\ Function(d.gauge) /\ DOMAIN d.gauge \subseteq Gauge
    /\ Function(d.reach)
    /\ d.next \in Nat

\* What a dataset has that passed the checks.
Loadable(d) ==
    /\ Function(d.source)
    /\ Function(d.gauge) /\ DOMAIN d.gauge \subseteq Gauge
    /\ Function(d.reach)
    /\ d.urls \subseteq DOMAIN d.source
    /\ ForeignKeysHold(d) /\ Materializes(d)
Published(d) ==
    /\ Loadable(d) /\ Registry(d.yaml)
    /\ d.source = SourceRows(d.yaml) /\ d.links = LinkRows(d.yaml) /\ d.urls = UrlRows(d.yaml)

\* The tables hold the rows of d.
Holds(b, d) ==
    /\ DOMAIN b = Tables
    /\ b.source = d.source /\ b.urls = d.urls /\ b.links = d.links
    /\ b.gauge = d.gauge /\ b.reach = d.reach
    /\ DOMAIN b.geom = DOMAIN d.reach

SyncInv ==
    /\ Checkout(dir) /\ Published(head) /\ Loadable(applied)
    /\ \A s \in ever : s \in SourceId /\ s < dir.next
    /\ Holds(db, applied)
    /\ \A plan \in syncer : Loadable(plan.ds) /\ plan.del = Deletions(db, plan.ds)

-----------------------------------------------------------------------------
(* The author                                                              *)

LEMMA OverFunction ==
  ASSUME NEW f, NEW g
  PROVE  /\ Function(Over(f, g)) /\ DOMAIN Over(f, g) = DOMAIN f \cup DOMAIN g
         /\ \A x \in DOMAIN g : Over(f, g)[x] = g[x]
         /\ \A x \in DOMAIN f \ DOMAIN g : Over(f, g)[x] = f[x]
  BY DEF Over, Function

LEMMA WithoutFunction ==
  ASSUME NEW f, NEW S
  PROVE  /\ Function(Without(f, S)) /\ DOMAIN Without(f, S) = DOMAIN f \ S
         /\ \A x \in DOMAIN f \ S : Without(f, S)[x] = f[x]
  BY DEF Without, Function

LEMMA OnePoint ==
  ASSUME NEW x, NEW y
  PROVE  DOMAIN Only(x, y) = {x} /\ Only(x, y)[x] = y /\ Function(Only(x, y))
  BY DEF Only, Function

LEMMA IdsAreNat == SourceId \subseteq Nat
  BY DatasetAssumption DEF SourceId

\* A step that only the checkout notices.
LEMMA Writes ==
  ASSUME SyncInv, Checkout(dir'), dir'.next = dir.next \/ dir'.next = dir.next + 1,
         UNCHANGED <<head, ever, db, syncer, applied>>
  PROVE  SyncInv'
  <1>1. dir.next \in Nat
    BY DEF SyncInv, Checkout
  <1>2. \A s \in ever' : s \in SourceId /\ s < dir'.next
    <2> SUFFICES ASSUME NEW s \in ever
                 PROVE  s \in SourceId /\ s < dir'.next
      OBVIOUS
    <2>1. s \in SourceId /\ s \in Nat /\ s < dir.next
      BY IdsAreNat DEF SyncInv
    <2> QED
      BY <1>1, <2>1
  <1> QED
    BY <1>2 DEF SyncInv

\* Entries made of parts are entries.
LEMMA NewEntry ==
  ASSUME NEW st, NEW g, NEW p \in BOOLEAN
  PROVE  EntryRow([name |-> st, gauge |-> g, ignore |-> p])
  BY DEF EntryRow

LEMMA ChangeSourceInv ==
  ASSUME SyncInv, NEW s, ChangeSource(s)
  PROVE  SyncInv'
  <1>1. PICK st \in Station, g \in Gauge, p \in BOOLEAN :
           Edit("idle", [dir EXCEPT !.yaml[s] = [name |-> st, gauge |-> g, ignore |-> p]])
    BY DEF ChangeSource
  <1> DEFINE e == [name |-> st, gauge |-> g, ignore |-> p]
  <1>2. EntryRow(e)
    BY NewEntry
  <1> HIDE DEF e
  <1>3. /\ dir' = [dir EXCEPT !.yaml = [dir.yaml EXCEPT ![s] = e]]
        /\ UNCHANGED <<head, ever, db, syncer, applied>>
    BY <1>1 DEF Edit, Write, e
  <1>4. Registry([dir.yaml EXCEPT ![s] = e])
    BY <1>2 DEF SyncInv, Checkout, Registry, Function
  <1>5. Checkout(dir') /\ dir'.next = dir.next
    BY <1>3, <1>4 DEF SyncInv, Checkout, Fields
  <1> QED
    BY <1>3, <1>5, Writes

LEMMA RemoveSourceInv ==
  ASSUME SyncInv, NEW s, RemoveSource(s)
  PROVE  SyncInv'
  <1>1. PICK retire \in SUBSET {s} :
           Edit("idle", [dir EXCEPT !.yaml = Without(@, {s}), !.retired = @ \cup retire])
    BY DEF RemoveSource
  <1> DEFINE y == Without(dir.yaml, {s})
  <1>2. Registry(y)
    BY DEF SyncInv, Checkout, Registry, Without, Function
  <1>3. /\ dir' = [dir EXCEPT !.yaml = y, !.retired = @ \cup retire]
        /\ UNCHANGED <<head, ever, db, syncer, applied>>
    BY <1>1 DEF Edit, Write
  <1> HIDE DEF y
  <1>4. Checkout(dir') /\ dir'.next = dir.next
    BY <1>2, <1>3 DEF SyncInv, Checkout, Fields
  <1> QED
    BY <1>3, <1>4, Writes

LEMMA EditGaugeInv ==
  ASSUME SyncInv, NEW g \in Gauge, EditGauge(g)
  PROVE  SyncInv'
  <1>1. PICK f : /\ Function(f) /\ DOMAIN f \subseteq Gauge
                 /\ Edit("idle", [dir EXCEPT !.gauge = f])
    <2>1. DOMAIN dir.gauge \subseteq Gauge
      BY DEF SyncInv, Checkout
    <2>2. \A gn : Function(Over(dir.gauge, Only(g, gn))) /\ DOMAIN Over(dir.gauge, Only(g, gn)) \subseteq Gauge
      BY <2>1 DEF Over, Only, Function
    <2>3. Function(Without(dir.gauge, {g})) /\ DOMAIN Without(dir.gauge, {g}) \subseteq Gauge
      BY <2>1 DEF Without, Function
    <2> QED
      BY <2>2, <2>3 DEF EditGauge
  <1>2. /\ dir' = [dir EXCEPT !.gauge = f]
        /\ UNCHANGED <<head, ever, db, syncer, applied>>
    BY <1>1 DEF Edit, Write
  <1>3. Checkout(dir') /\ dir'.next = dir.next
    BY <1>1, <1>2 DEF SyncInv, Checkout, Fields
  <1> QED
    BY <1>2, <1>3, Writes

LEMMA EditReachInv ==
  ASSUME SyncInv, NEW r, EditReach(r)
  PROVE  SyncInv'
  <1>1. PICK f, h : /\ Function(f)
                    /\ Edit("idle", [dir EXCEPT !.reach = f, !.geom = h])
    BY OverFunction, WithoutFunction DEF EditReach
  <1>2. /\ dir' = [dir EXCEPT !.reach = f, !.geom = h]
        /\ UNCHANGED <<head, ever, db, syncer, applied>>
    BY <1>1 DEF Edit, Write
  <1>3. Checkout(dir') /\ dir'.next = dir.next
    BY <1>1, <1>2 DEF SyncInv, Checkout, Fields
  <1> QED
    BY <1>2, <1>3, Writes

LEMMA AddSourceInv ==
  ASSUME SyncInv, NEW st, NEW g, AddSource(st, g)
  PROVE  SyncInv'
  <1> DEFINE id == AllocateId(dir)
             e == [name |-> st, gauge |-> g, ignore |-> FALSE]
             y == Over(dir.yaml, Only(id, e))
  <1>1. /\ id \in SourceId /\ dir' = [dir EXCEPT !.yaml = y]
        /\ UNCHANGED <<head, ever, db, syncer, applied>>
    BY DEF AddSource, Edit, Write
  <1>2. EntryRow(e)
    BY NewEntry
  <1> HIDE DEF e, id
  <1>3. Registry(y)
    <2>1. /\ Function(y) /\ DOMAIN y = DOMAIN dir.yaml \cup {id} /\ y[id] = e
          /\ \A s \in DOMAIN dir.yaml \ {id} : y[s] = dir.yaml[s]
      BY DEF Over, Only, Function
    <2> HIDE DEF y
    <2> QED
      BY <1>1, <1>2, <2>1 DEF SyncInv, Checkout, Registry
  <1> HIDE DEF y
  <1>4. Checkout(dir') /\ dir'.next = dir.next
    BY <1>1, <1>3 DEF SyncInv, Checkout, Fields
  <1> QED
    BY <1>1, <1>4, Writes

\* The bookkeeping and the three files.
LEMMA FilesInv ==
  ASSUME SyncInv, \/ WriteCounters \/ Generate \/ WriteFetchUrl \/ WriteSource
                  \/ WriteGaugeSource \/ Die
  PROVE  SyncInv'
  <1>1. UNCHANGED <<head, ever, db, syncer, applied>>
    BY DEF WriteCounters, Generate, WriteFetchUrl, WriteSource, WriteGaugeSource, Die, Write
  <1>2. CASE WriteCounters
    <2>1. dir' = [dir EXCEPT !.next = dir.next + 1]
      BY <1>2 DEF WriteCounters, Write
    <2>2. Checkout(dir') /\ dir'.next = dir.next + 1
      BY <2>1 DEF SyncInv, Checkout, Fields
    <2> QED
      BY <1>1, <2>2, Writes
  <1>3. CASE Generate \/ Die
    <2>1. dir' = dir
      BY <1>3 DEF Generate, Die, Write
    <2> QED
      BY <1>1, <2>1, Writes DEF SyncInv
  <1>4. CASE WriteFetchUrl
    <2>1. dir' = [dir EXCEPT !.urls = UrlRows(dir.yaml)]
      BY <1>4 DEF WriteFetchUrl, Write
    <2>2. Checkout(dir') /\ dir'.next = dir.next
      BY <2>1 DEF SyncInv, Checkout, Fields
    <2> QED
      BY <1>1, <2>2, Writes
  <1>5. CASE WriteSource
    <2> DEFINE f == SourceRows(dir.yaml)
    <2>1. dir' = [dir EXCEPT !.source = f]
      BY <1>5 DEF WriteSource, Write
    <2>2. DOMAIN f \subseteq SourceId
      BY DEF SourceRows, SyncInv, Checkout, Registry
    <2> HIDE DEF f
    <2>3. Checkout(dir') /\ dir'.next = dir.next
      BY <2>1, <2>2 DEF SyncInv, Checkout, Fields
    <2> QED
      BY <1>1, <2>3, Writes
  <1>6. CASE WriteGaugeSource
    <2>1. dir' = [dir EXCEPT !.links = LinkRows(dir.yaml)]
      BY <1>6 DEF WriteGaugeSource, Write
    <2>2. Checkout(dir') /\ dir'.next = dir.next
      BY <2>1 DEF SyncInv, Checkout, Fields
    <2> QED
      BY <1>1, <2>2, Writes
  <1> QED
    BY <1>2, <1>3, <1>4, <1>5, <1>6

LEMMA FromCsvInv ==
  ASSUME SyncInv, FromCsv
  PROVE  SyncInv'
  <1> DEFINE y == ReverseEngineer(dir)
  <1>1. /\ dir' = [dir EXCEPT !.yaml = y]
        /\ UNCHANGED <<head, ever, db, syncer, applied>>
    BY DEF FromCsv, Write
  <1>2. Registry(y)
    <2>1. Function(y) /\ DOMAIN y = DOMAIN dir.source
      BY DEF ReverseEngineer, Function
    <2>2. ASSUME NEW s \in DOMAIN y
          PROVE  EntryRow(y[s])
      <3>1. y[s] = [name |-> dir.source[s], gauge |-> (CHOOSE l \in dir.links : l[2] = s)[1],
                    ignore |-> s \in dir.urls]
        BY DEF ReverseEngineer
      <3>2. (s \in dir.urls) \in BOOLEAN
        OBVIOUS
      <3> QED
        BY <3>1, <3>2, NewEntry
    <2> HIDE DEF y
    <2> QED
      BY <2>1, <2>2 DEF SyncInv, Checkout, Registry
  <1> HIDE DEF y
  <1>3. Checkout(dir') /\ dir'.next = dir.next
    BY <1>1, <1>2 DEF SyncInv, Checkout, Fields
  <1> QED
    BY <1>1, <1>3, Writes

LEMMA RecoverInv ==
  ASSUME SyncInv, Recover
  PROVE  SyncInv'
  <1>1. PICK h : /\ dir' = [dir EXCEPT !.gauge = db.gauge, !.reach = db.reach, !.geom = h]
                 /\ UNCHANGED <<head, ever, db, syncer, applied>>
    BY DEF Recover, Edit, Write
  <1>2. /\ Function(db.gauge) /\ DOMAIN db.gauge \subseteq Gauge /\ Function(db.reach)
    BY DEF SyncInv, Holds, Loadable
  <1>3. Checkout(dir') /\ dir'.next = dir.next
    BY <1>1, <1>2 DEF SyncInv, Checkout, Fields
  <1> QED
    BY <1>1, <1>3, Writes

\* What the checks let through is published, and its ids are below the counter.
LEMMA CommitInv ==
  ASSUME SyncInv, Commit
  PROVE  SyncInv'
  <1>1. /\ CheckOk(dir) /\ Valid(dir) /\ head' = dir /\ ever' = ever \cup DOMAIN dir.source
        /\ UNCHANGED <<dir, db, syncer, applied>>
    BY DEF Commit
  <1>2. Function(dir.source) /\ DOMAIN dir.source = DOMAIN dir.yaml
    BY <1>1 DEF CheckOk, SourceRows, Function
  <1>3. Loadable(dir)
    <2>1. dir.urls \subseteq DOMAIN dir.source
      BY <1>1, <1>2 DEF CheckOk, UrlRows
    <2> QED
      BY <1>1, <1>2, <2>1
         DEF SyncInv, Checkout, Loadable, Valid, GaugeSourceOk, ReachGaugeOk, ForeignKeysHold
  <1>4. Published(head')
    BY <1>1, <1>3 DEF SyncInv, Checkout, Published, CheckOk
  <1>5. \A s \in ever' : s \in SourceId /\ s < dir'.next
    BY <1>1, <1>2 DEF SyncInv, Checkout, Registry, CheckOk, RegistryOk
  <1> QED
    BY <1>1, <1>4, <1>5 DEF SyncInv

-----------------------------------------------------------------------------
(* The live database                                                       *)

LEMMA PlanInv ==
  ASSUME SyncInv, Plan
  PROVE  SyncInv'
  <1>1. /\ syncer' = {[ds |-> head, del |-> Deletions(db, head)]}
        /\ UNCHANGED <<dir, head, ever, db, applied>>
    BY DEF Plan
  <1>2. \A plan \in syncer' : plan.ds = head /\ plan.del = Deletions(db, head)
    BY <1>1
  <1>3. \A plan \in syncer' : Loadable(plan.ds) /\ plan.del = Deletions(db', plan.ds)
    BY <1>1, <1>2 DEF SyncInv, Published
  <1> QED
    BY <1>1, <1>3 DEF SyncInv

\* The deletions, table by table.
LEMMA DeletionFields ==
  ASSUME NEW b, NEW d
  PROVE  /\ Deletions(b, d).source = DOMAIN b.source \ DOMAIN d.source
         /\ Deletions(b, d).links = b.links \ d.links
         /\ Deletions(b, d).gauge = DOMAIN b.gauge \ DOMAIN d.gauge
         /\ Deletions(b, d).reach = DOMAIN b.reach \ DOMAIN d.reach
  BY DEF Deletions

LEMMA NothingDeleted ==
  ASSUME NEW b, NEW d, Deletions(b, d) = NoDeletions
  PROVE  /\ DOMAIN b.source \subseteq DOMAIN d.source /\ b.links \subseteq d.links
         /\ DOMAIN b.gauge \subseteq DOMAIN d.gauge /\ DOMAIN b.reach \subseteq DOMAIN d.reach
  BY DeletionFields DEF NoDeletions

LEMMA UpsertedTables ==
  ASSUME NEW b, NEW d, DOMAIN b = Tables
  PROVE  LET u == Upserted(b, d)
         IN  /\ DOMAIN u = Tables
             /\ u.source = Over(b.source, d.source) /\ u.gauge = Over(b.gauge, d.gauge)
             /\ u.reach = Over(b.reach, d.reach) /\ u.links = b.links \cup d.links
             /\ u.urls = d.urls /\ u.obs = b.obs
             /\ DOMAIN u.geom = DOMAIN b.reach \cup DOMAIN d.reach
  <1>1. \A base, x : DOMAIN [base EXCEPT !.geom = x] = DOMAIN base
    OBVIOUS
  <1> QED
    BY <1>1 DEF Upserted, Tables, SyncedPolicy

\* Two functions that agree.
LEMMA SameFunction ==
  ASSUME NEW f, NEW g, Function(f), Function(g), DOMAIN f = DOMAIN g,
         \A x \in DOMAIN g : f[x] = g[x]
  PROVE  f = g
  BY DEF Function

\* Old rows gone, new rows stored: the table is the dataset's.
LEMMA TableReplaced ==
  ASSUME NEW f, NEW g, Function(g)
  PROVE  Without(Over(f, g), DOMAIN f \ DOMAIN g) = g
  <1> DEFINE o == Over(f, g)
             w == Without(o, DOMAIN f \ DOMAIN g)
  <1>1. /\ DOMAIN o = DOMAIN f \cup DOMAIN g /\ \A x \in DOMAIN g : o[x] = g[x]
    BY OverFunction
  <1>2. Function(w) /\ DOMAIN w = DOMAIN o \ (DOMAIN f \ DOMAIN g)
        /\ \A x \in DOMAIN w : w[x] = o[x]
    BY DEF Without, Function
  <1> HIDE DEF o, w
  <1>3. w = g
    BY <1>1, <1>2, SameFunction
  <1> QED
    BY <1>3 DEF o, w

LEMMA TableExtended ==
  ASSUME NEW f, NEW g, Function(g), DOMAIN f \subseteq DOMAIN g
  PROVE  Over(f, g) = g
  BY OverFunction, SameFunction

LEMMA Upserts ==
  ASSUME NEW b, NEW d, DOMAIN b = Tables, Loadable(d), Deletions(b, d) = NoDeletions
  PROVE  Holds(Upserted(b, d), d) /\ Upserted(b, d).obs = b.obs
  <1> DEFINE u == Upserted(b, d)
  <1>1. /\ DOMAIN u = Tables
        /\ u.source = Over(b.source, d.source) /\ u.gauge = Over(b.gauge, d.gauge)
        /\ u.reach = Over(b.reach, d.reach) /\ u.links = b.links \cup d.links
        /\ u.urls = d.urls /\ u.obs = b.obs
        /\ DOMAIN u.geom = DOMAIN b.reach \cup DOMAIN d.reach
    BY UpsertedTables
  <1> HIDE DEF u
  <1>2. u.source = d.source /\ u.gauge = d.gauge /\ u.reach = d.reach
    BY <1>1, NothingDeleted, TableExtended DEF Loadable
  <1>3. u.links = d.links /\ DOMAIN u.geom = DOMAIN d.reach
    BY <1>1, NothingDeleted
  <1>4. Holds(u, d) /\ u.obs = b.obs
    BY <1>1, <1>2, <1>3 DEF Holds
  <1> QED
    BY <1>4 DEF u

LEMMA Replaces ==
  ASSUME NEW b, NEW d, DOMAIN b = Tables, Loadable(d), DOMAIN b.gauge \subseteq Gauge
  PROVE  LET p == Purged(Upserted(b, d), Deletions(b, d))
         IN  /\ Holds(p, d)
             /\ p.obs = {o \in b.obs : o.source \notin DOMAIN b.source \ DOMAIN d.source}
  <1> DEFINE u == Upserted(b, d)
             del == Deletions(b, d)
             p == Purged(u, del)
  <1>1. /\ DOMAIN u = Tables
        /\ u.source = Over(b.source, d.source) /\ u.gauge = Over(b.gauge, d.gauge)
        /\ u.reach = Over(b.reach, d.reach) /\ u.links = b.links \cup d.links
        /\ u.urls = d.urls /\ u.obs = b.obs
        /\ DOMAIN u.geom = DOMAIN b.reach \cup DOMAIN d.reach
    BY UpsertedTables
  <1>2. /\ del.source = DOMAIN b.source \ DOMAIN d.source
        /\ del.links = b.links \ d.links
        /\ del.gauge = DOMAIN b.gauge \ DOMAIN d.gauge
        /\ del.reach = DOMAIN b.reach \ DOMAIN d.reach
    BY DeletionFields
  <1> HIDE DEF u, del
  <1>3. /\ DOMAIN p = Tables
        /\ p.source = Without(u.source, del.source) /\ p.gauge = Without(u.gauge, del.gauge)
        /\ p.urls = u.urls \ del.source
        /\ p.links = {l \in u.links \ del.links : /\ l[1] \in DOMAIN u.gauge \ del.gauge
                                                  /\ l[2] \in DOMAIN u.source \ del.source}
        /\ p.reach = [r \in DOMAIN u.reach \ del.reach |->
                        IF u.reach[r] \in del.gauge THEN NoGauge ELSE u.reach[r]]
        /\ p.geom = Without(u.geom, del.reach)
        /\ p.obs = {o \in u.obs : o.source \notin del.source}
    BY DEF Purged, PurgedOf, Tables
  <1> HIDE DEF p
  <1>4. p.source = d.source /\ p.gauge = d.gauge
    BY <1>1, <1>2, <1>3, TableReplaced DEF Loadable
  <1>5. /\ DOMAIN u.gauge \ del.gauge = DOMAIN d.gauge
        /\ DOMAIN u.source \ del.source = DOMAIN d.source
        /\ DOMAIN u.reach \ del.reach = DOMAIN d.reach
    BY <1>1, <1>2 DEF Over
  <1>6. p.links = d.links
    BY <1>1, <1>2, <1>3, <1>5 DEF Loadable, ForeignKeysHold
  <1>7. p.reach = d.reach
    <2>1. NoGauge \notin del.gauge
      BY <1>2, DatasetAssumption
    <2>2. ASSUME NEW r \in DOMAIN d.reach
          PROVE  u.reach[r] = d.reach[r] /\ u.reach[r] \notin del.gauge
      <3>1. u.reach[r] = d.reach[r]
        BY <1>1 DEF Over
      <3> QED
        BY <1>2, <2>1, <3>1 DEF Loadable, ForeignKeysHold
    <2>3. p.reach = [r \in DOMAIN d.reach |-> d.reach[r]]
      BY <1>3, <1>5, <2>2
    <2> QED
      BY <2>3 DEF Loadable, Function
  <1>8. DOMAIN p.geom = DOMAIN d.reach
    BY <1>1, <1>2, <1>3 DEF Without
  <1>9. p.urls = d.urls
    BY <1>1, <1>2, <1>3 DEF Loadable
  <1> QED
    BY <1>1, <1>2, <1>3, <1>4, <1>6, <1>7, <1>8, <1>9 DEF Holds, p, u, del

\* Observations stay unless their source is gone from what is applied.
ObsKept == \A o \in db.obs : o \in db'.obs \/ o.source \notin DOMAIN applied'.source

LEMMA ApplyInv ==
  ASSUME SyncInv, Apply
  PROVE  SyncInv' /\ ObsKept
  <1>1. PICK plan \in syncer :
           /\ \/ Refused(plan)
              \/ /\ db' = IF plan.del = NoDeletions THEN Upserted(db, plan.ds)
                          ELSE Purged(Upserted(db, plan.ds), plan.del)
                 /\ applied' = plan.ds
                 /\ syncer' = {}
           /\ UNCHANGED <<dir, head, ever>>
    BY DEF Apply
  <1>2. CASE Refused(plan)
    BY <1>1, <1>2 DEF Refused, SyncInv, ObsKept
  <1>3. CASE ~ Refused(plan)
    <2> DEFINE d == plan.ds
    <2>1. Loadable(d) /\ plan.del = Deletions(db, d)
      BY DEF SyncInv
    <2>2. /\ DOMAIN db = Tables /\ DOMAIN db.gauge \subseteq Gauge
      BY DEF SyncInv, Holds, Loadable
    <2>3. Holds(db', d) /\ \A o \in db.obs : o \in db'.obs \/ o.source \notin DOMAIN d.source
      <3>1. CASE plan.del = NoDeletions
        <4>1. db' = Upserted(db, d) /\ Deletions(db, d) = NoDeletions
          BY <1>1, <1>3, <2>1, <3>1
        <4>2. Holds(db', d) /\ db'.obs = db.obs
          BY <2>1, <2>2, <4>1, Upserts
        <4> QED
          BY <4>2
      <3>2. CASE plan.del # NoDeletions
        <4>1. db' = Purged(Upserted(db, d), Deletions(db, d))
          BY <1>1, <1>3, <2>1, <3>2
        <4>2. /\ Holds(db', d)
              /\ db'.obs = {o \in db.obs : o.source \notin DOMAIN db.source \ DOMAIN d.source}
          BY <2>1, <2>2, <4>1, Replaces
        <4> QED
          BY <4>2
      <3> QED
        BY <3>1, <3>2
    <2>4. applied' = d /\ syncer' = {} /\ UNCHANGED <<dir, head, ever>>
      BY <1>1, <1>3
    <2> HIDE DEF d
    <2> QED
      BY <2>1, <2>3, <2>4 DEF SyncInv, ObsKept
  <1> QED
    BY <1>2, <1>3

\* What no plan looks at.
LEMMA SameRows ==
  ASSUME SyncInv, UNCHANGED <<dir, head, ever, applied, syncer>>, DOMAIN db' = Tables,
         db'.source = db.source, db'.urls = db.urls, db'.links = db.links,
         db'.gauge = db.gauge, db'.reach = db.reach, DOMAIN db'.geom = DOMAIN db.geom
  PROVE  SyncInv'
  <1>1. Holds(db', applied')
    BY DEF SyncInv, Holds
  <1>2. \A d : Deletions(db', d) = Deletions(db, d)
    BY DEF Deletions
  <1> QED
    BY <1>1, <1>2 DEF SyncInv

LEMMA ImportSidecarsInv ==
  ASSUME SyncInv, ImportSidecars
  PROVE  SyncInv' /\ db'.obs = db.obs
  <1> DEFINE h == Over(db.geom, head.geom)
  <1>1. /\ DOMAIN head.geom \subseteq DOMAIN db.reach /\ db' = [db EXCEPT !.geom = h]
        /\ UNCHANGED <<dir, head, ever, applied, syncer>>
    BY DEF ImportSidecars
  <1>2. DOMAIN db = Tables /\ DOMAIN db.geom = DOMAIN db.reach
    BY DEF SyncInv, Holds
  <1>3. DOMAIN h = DOMAIN db.geom
    BY <1>1, <1>2 DEF Over
  <1> HIDE DEF h
  <1>4. /\ DOMAIN db' = Tables /\ db'.source = db.source /\ db'.urls = db.urls
        /\ db'.links = db.links /\ db'.gauge = db.gauge /\ db'.reach = db.reach
        /\ db'.geom = h /\ db'.obs = db.obs
    BY <1>1, <1>2 DEF Tables
  <1> QED
    BY <1>1, <1>3, <1>4, SameRows

LEMMA FetchInv ==
  ASSUME SyncInv, NEW s, Fetch(s)
  PROVE  SyncInv' /\ db.obs \subseteq db'.obs
  <1>1. PICK o : /\ db' = [db EXCEPT !.obs = @ \cup {o}]
                 /\ UNCHANGED <<dir, head, ever, applied, syncer>>
    BY DEF Fetch
  <1>2. DOMAIN db = Tables
    BY DEF SyncInv, Holds
  <1>3. /\ DOMAIN db' = Tables /\ db'.source = db.source /\ db'.urls = db.urls
        /\ db'.links = db.links /\ db'.gauge = db.gauge /\ db'.reach = db.reach
        /\ db'.geom = db.geom /\ db'.obs = db.obs \cup {o}
    BY <1>1, <1>2 DEF Tables
  <1> QED
    BY <1>1, <1>3, SameRows

-----------------------------------------------------------------------------
(* The induction                                                           *)

LEMMA InitInv == Init => SyncInv
  <1> SUFFICES ASSUME Init
               PROVE  SyncInv
    OBVIOUS
  <1>1. PICK st \in Station, gn \in GaugeName, sh \in Shape, g \in Gauge, r \in Reach :
        /\ dir = [yaml |-> Only(1, [name |-> st, gauge |-> g, ignore |-> TRUE]),
                  source |-> Only(1, st), urls |-> {1}, links |-> {<<g, 1>>},
                  gauge |-> Only(g, gn), reach |-> Only(r, g), geom |-> Only(r, sh),
                  next |-> 2, retired |-> {}]
        /\ head = dir /\ applied = dir
        /\ ever = {1}
        /\ db = Loaded(dir, {})
        /\ syncer = {}
    BY DEF Init
  <1> DEFINE e == [name |-> st, gauge |-> g, ignore |-> TRUE]
  <1>2. EntryRow(e) /\ e.name = st /\ e.gauge = g /\ e.ignore = TRUE
    BY NewEntry
  <1> HIDE DEF e
  <1>3. /\ DOMAIN dir = Fields /\ dir.yaml = Only(1, e) /\ dir.source = Only(1, st)
        /\ dir.urls = {1} /\ dir.links = {<<g, 1>>} /\ dir.gauge = Only(g, gn)
        /\ dir.reach = Only(r, g) /\ dir.geom = Only(r, sh) /\ dir.next = 2
    BY <1>1 DEF Fields, e
  <1>4. 1 \in SourceId
    BY DatasetAssumption DEF SourceId
  <1>5. Registry(dir.yaml)
    BY <1>2, <1>3, <1>4 DEF Registry, Only, Function
  <1>6. Checkout(dir)
    BY <1>3, <1>4, <1>5 DEF Checkout, Only, Function
  <1>7. Loadable(dir)
    BY <1>3 DEF Loadable, Only, Function, ForeignKeysHold, Materializes
  <1>8. Published(dir)
    <2>1. dir.source = SourceRows(dir.yaml)
      BY <1>2, <1>3 DEF SourceRows, Only
    <2>2. dir.links = LinkRows(dir.yaml) /\ dir.urls = UrlRows(dir.yaml)
      BY <1>2, <1>3 DEF LinkRows, UrlRows, Only
    <2> QED
      BY <1>5, <1>7, <2>1, <2>2 DEF Published
  <1>9. Holds(db, dir)
    <2>1. DOMAIN dir.geom = DOMAIN dir.reach
      BY <1>3 DEF Only
    <2> QED
      BY <1>1, <2>1 DEF Holds, Loaded, Tables
  <1>10. \A s \in ever : s \in SourceId /\ s < dir.next
    BY <1>1, <1>3, <1>4
  <1> QED
    BY <1>1, <1>6, <1>7, <1>8, <1>9, <1>10 DEF SyncInv

\* A step of the author does not touch the database.
AuthorStep ==
    \/ \E s \in SourceId : ChangeSource(s) \/ RemoveSource(s)
    \/ \E g \in Gauge : EditGauge(g)
    \/ \E r \in Reach : EditReach(r)
    \/ \E st \in Station, g \in Gauge : AddSource(st, g)
    \/ WriteCounters \/ Generate \/ WriteFetchUrl \/ WriteSource \/ WriteGaugeSource
    \/ Die \/ FromCsv \/ Recover

LEMMA AuthorInv ==
  ASSUME SyncInv, AuthorStep
  PROVE  SyncInv' /\ db' = db
  <1>1. SyncInv'
    BY ChangeSourceInv, RemoveSourceInv, EditGaugeInv, EditReachInv, AddSourceInv, FilesInv,
       FromCsvInv, RecoverInv DEF AuthorStep
  <1>2. db' = db
    BY DEF AuthorStep, ChangeSource, RemoveSource, EditGauge, EditReach, AddSource,
           WriteCounters, Generate, WriteFetchUrl, WriteSource, WriteGaugeSource, Die,
           FromCsv, Recover, Edit, Write
  <1> QED
    BY <1>1, <1>2

LEMMA NextInv == SyncInv /\ [Next]_vars => SyncInv' /\ ObsKept
  <1> SUFFICES ASSUME SyncInv, [Next]_vars
               PROVE  SyncInv' /\ ObsKept
    OBVIOUS
  <1>1. CASE AuthorStep
    BY <1>1, AuthorInv DEF ObsKept
  <1>2. CASE Commit
    BY <1>2, CommitInv DEF Commit, ObsKept
  <1>3. CASE Plan
    BY <1>3, PlanInv DEF Plan, ObsKept
  <1>4. CASE Apply
    BY <1>4, ApplyInv
  <1>5. CASE ImportSidecars
    BY <1>5, ImportSidecarsInv DEF ObsKept
  <1>6. ASSUME NEW s \in SourceId, Fetch(s)
        PROVE  SyncInv' /\ ObsKept
    BY <1>6, FetchInv DEF ObsKept
  <1>7. CASE UNCHANGED vars
    BY <1>7 DEF vars, SyncInv, ObsKept
  <1> QED
    BY <1>1, <1>2, <1>3, <1>4, <1>5, <1>6, <1>7 DEF Next, AuthorStep

LEMMA Inductive == Spec => []SyncInv
  <1>1. SyncInv /\ [Next]_vars => SyncInv'
    BY NextInv
  <1> QED
    BY InitInv, <1>1, PTL DEF Spec

-----------------------------------------------------------------------------
(* The theorems.                                                           *)

\* The id that add-source takes was never in a dataset that passed the checks.
THEOREM FreshIds == Spec => IdsFresh
  <1>1. SyncInv /\ [Next]_vars =>
          [\A st \in Station, g \in Gauge : AddSource(st, g) => AllocateId(dir) \notin ever]_vars
    BY IdsAreNat DEF SyncInv, AllocateId, Checkout
  <1> QED
    BY <1>1, Inductive, PTL DEF Spec, IdsFresh

\* generate-sources --from-csv gives back the registry that was generated from.
THEOREM RoundTrips == Spec => []RegistryRoundTrip
  <1>1. ASSUME SyncInv
        PROVE  RegistryRoundTrip
    <2> DEFINE y == head.yaml
               z == ReverseEngineer(head)
    <2>1. /\ Registry(y) /\ head.source = SourceRows(y) /\ head.links = LinkRows(y)
          /\ head.urls = UrlRows(y)
      BY <1>1 DEF SyncInv, Published
    <2>2. Function(z) /\ DOMAIN z = DOMAIN y
      BY <2>1 DEF ReverseEngineer, SourceRows, Function
    <2>3. ASSUME NEW s \in DOMAIN y
          PROVE  z[s] = y[s]
      <3>1. <<y[s].gauge, s>> \in head.links /\ \A l \in head.links : l[2] = s => l[1] = y[s].gauge
        BY <2>1 DEF LinkRows
      <3>2. (CHOOSE l \in head.links : l[2] = s)[1] = y[s].gauge
        BY <3>1
      <3>3. head.source[s] = y[s].name
        BY <2>1 DEF SourceRows
      <3>4. EntryRow(y[s])
        BY <2>1 DEF Registry
      <3>5. (s \in head.urls) = y[s].ignore
        BY <2>1, <3>4 DEF UrlRows, EntryRow
      <3>6. z[s] = [name |-> head.source[s], gauge |-> (CHOOSE l \in head.links : l[2] = s)[1],
                    ignore |-> s \in head.urls]
        BY <2>1 DEF ReverseEngineer, SourceRows
      <3>7. z[s] = [name |-> y[s].name, gauge |-> y[s].gauge, ignore |-> y[s].ignore]
        BY <3>2, <3>3, <3>5, <3>6
      <3> QED
        BY <3>4, <3>7 DEF EntryRow
    <2>4. Function(y)
      BY <2>1 DEF Registry
    <2> HIDE DEF y, z
    <2>5. z = y
      BY <2>2, <2>3, <2>4, SameFunction
    <2> QED
      BY <2>5 DEF y, z, RegistryRoundTrip
  <1> QED
    BY <1>1, Inductive, PTL

\* The database holds what was applied last, table by table.
THEOREM StaysInStep == Spec => []InStep
  <1>1. ASSUME SyncInv
        PROVE  InStep
    <2> DEFINE a == [db EXCEPT !.obs = {}, !.geom = Empty]
               b == [Loaded(applied, {}) EXCEPT !.geom = Empty]
    <2>1. Holds(db, applied)
      BY <1>1 DEF SyncInv
    <2>2. /\ Function(a) /\ DOMAIN a = Tables /\ a.source = db.source /\ a.urls = db.urls
          /\ a.links = db.links /\ a.gauge = db.gauge /\ a.reach = db.reach
          /\ a.geom = Empty /\ a.obs = {}
      BY <2>1 DEF Holds, Tables, Function
    <2>3. /\ Function(b) /\ DOMAIN b = Tables /\ b.source = applied.source /\ b.urls = applied.urls
          /\ b.links = applied.links /\ b.gauge = applied.gauge /\ b.reach = applied.reach
          /\ b.geom = Empty /\ b.obs = {}
      BY DEF Loaded, Tables, Function
    <2> HIDE DEF a, b
    <2>4. \A x \in Tables : a[x] = b[x]
      BY <2>1, <2>2, <2>3 DEF Holds, Tables
    <2>5. a = b
      BY <2>2, <2>3, <2>4, SameFunction
    <2> QED
      BY <2>1, <2>5 DEF Holds, InStep, a, b
  <1> QED
    BY <1>1, Inductive, PTL

\* What validated is refused by the database only for a gauge name that another
\* row still holds.
THEOREM OnlyNamesBlock == Spec => []SyncBlocked
  <1>1. ASSUME SyncInv
        PROVE  SyncBlocked
    <2> SUFFICES ASSUME NEW plan \in syncer
                 PROVE  /\ ForeignKeysHold(plan.ds)
                        /\ UniqueConflict(db.gauge, plan.ds.gauge) =>
                              \E g \in DOMAIN plan.ds.gauge, h \in DOMAIN db.gauge :
                                  g # h /\ plan.ds.gauge[g] = db.gauge[h]
      BY DEF SyncBlocked
    <2>1. Loadable(plan.ds)
      BY <1>1 DEF SyncInv
    <2> QED
      BY <2>1 DEF Loadable, Materializes, UniqueConflict
  <1> QED
    BY <1>1, Inductive, PTL

\* No sync costs an observation of a source that stays.
THEOREM KeepsObservations == Spec => ObservationsKept
  <1>1. SyncInv /\ [Next]_vars =>
          [\A o \in db.obs : o \in db'.obs \/ o.source \notin DOMAIN applied'.source]_vars
    BY NextInv DEF ObsKept
  <1> QED
    BY <1>1, Inductive, PTL DEF Spec, ObservationsKept
=============================================================================
