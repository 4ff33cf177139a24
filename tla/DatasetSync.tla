---------------------------- MODULE DatasetSync ----------------------------
(***************************************************************************)
(* The dataset (the kayak_data repository) and the way it reaches the live *)
(* database.  An author edits sources.yaml and the other tables, adds      *)
(* sources with `levels add-source' (cli/generate_sources.py), regenerates *)
(* the CSVs and commits what validates (cli/validate_dataset.py); a deploy *)
(* applies the committed dataset with `levels sync-metadata' and `levels   *)
(* import-metadata' (db/metadata_csv.py, db/sidecars.py) while the         *)
(* pipeline keeps storing observations.                                    *)
(*                                                                         *)
(* Tables are partial functions from ids to what the properties tell       *)
(* apart: a source's station, gauge and policy, a gauge's unique name, a   *)
(* reach's gauge; the geometry of a reach stands for its two sidecars.     *)
(***************************************************************************)
EXTENDS Naturals, FiniteSets

CONSTANTS
    MaxId,        \* bound: source ids are 1..MaxId
    Station,      \* what a source is called
    Gauge,        \* gauge ids, numbers
    GaugeName,    \* gauge.name is unique
    Reach,        \* reach ids
    Shape,        \* values of a reach's sidecars
    NoShape,      \* a reach row whose sidecars were not applied yet
    MaxEdits,     \* bound: edits of the author
    MaxObs        \* bound: observations stored

NoGauge == 0

ASSUME DatasetAssumption ==
    /\ MaxId \in Nat \ {0} /\ MaxEdits \in Nat /\ MaxObs \in Nat
    /\ Gauge \subseteq Nat \ {NoGauge} /\ IsFiniteSet(Gauge)
    /\ NoShape \notin Shape

VARIABLES
    dir,          \* the author's checkout
    adder,        \* the file that add-source or generate-sources writes next
    head,         \* the dataset that was committed last
    ever,         \* source ids that a committed dataset has held
    db,           \* the live database
    syncer,       \* a sync-metadata between its plan and its transaction
    applied,      \* the dataset of the last sync that committed
    edits, stored

vars == <<dir, adder, head, ever, db, syncer, applied, edits, stored>>

SourceId == 1..MaxId
Partial(S, T) == UNION {[D -> T] : D \in SUBSET S}

\* One entry of sources.yaml, and what the dataset directory holds.
Entry == [name : Station, gauge : Gauge, ignore : BOOLEAN]
Dataset == [yaml    : Partial(SourceId, Entry),
            source  : Partial(SourceId, Station),
            urls    : SUBSET SourceId,           \* fetch_url.csv: who opts in
            links   : SUBSET (Gauge \X SourceId),  \* gauge_source.csv
            gauge   : Partial(Gauge, GaugeName),
            reach   : Partial(Reach, Gauge \cup {NoGauge}),
            geom    : Partial(Reach, Shape),
            next    : 1..(MaxId + 1),
            retired : SUBSET SourceId]

Observation == [source : SourceId, n : 1..MaxObs]
Database == [source : Partial(SourceId, Station),
             urls   : SUBSET SourceId,
             links  : SUBSET (Gauge \X SourceId),
             gauge  : Partial(Gauge, GaugeName),
             reach  : Partial(Reach, Gauge \cup {NoGauge}),
             geom   : Partial(Reach, Shape \cup {NoShape}),
             obs    : SUBSET Observation]

Empty == [x \in {} |-> x]
Only(x, y) == [z \in {x} |-> y]
Without(f, S) == [x \in DOMAIN f \ S |-> f[x]]
\* The rows of g, and those of f that g does not mention.
Over(f, g) == [x \in DOMAIN f \cup DOMAIN g |-> IF x \in DOMAIN g THEN g[x] ELSE f[x]]

-----------------------------------------------------------------------------
(* generate-sources: the registry projected to three CSVs, and back        *)

\* _registry_to_rows: every entry gives a source row and one gauge_source row.
SourceRows(yaml) == [s \in DOMAIN yaml |-> yaml[s].name]
LinkRows(yaml) == {<<yaml[s].gauge, s>> : s \in DOMAIN yaml}
\* The optional column is written when a URL uses it.
UrlRows(yaml) == {s \in DOMAIN yaml : yaml[s].ignore}

\* Slip: the link of a source to its gauge is read without its source.
ReverseEngineerAnyGauge(d) ==
    [s \in DOMAIN d.source |->
        [name |-> d.source[s], gauge |-> (CHOOSE l \in d.links : TRUE)[1],
         ignore |-> s \in d.urls]]

\* --from-csv, once the required files and one link per source are there.
ReverseEngineer(d) ==
    [s \in DOMAIN d.source |->
        [name |-> d.source[s], gauge |-> (CHOOSE l \in d.links : l[2] = s)[1],
         ignore |-> s \in d.urls]]

\* validate_registry: references resolve, no id has reached the counter.
RegistryOk(d) ==
    /\ \A s \in DOMAIN d.yaml : d.yaml[s].gauge \in DOMAIN d.gauge
    /\ \A s \in DOMAIN d.yaml : s < d.next

\* generate-sources --check.
CheckOk(d) ==
    /\ RegistryOk(d)
    /\ d.source = SourceRows(d.yaml)
    /\ d.links = LinkRows(d.yaml)
    /\ d.urls = UrlRows(d.yaml)

-----------------------------------------------------------------------------
(* validate-dataset: the checks across tables                              *)

\* _check_retired_ids, _check_id_counters: the counter stays above every id in
\* use or retired, and no id is both.
CountersOk(d) ==
    /\ DOMAIN d.source \cap d.retired = {}
    /\ \A s \in DOMAIN d.source \cup d.retired : s < d.next

\* _check_gauge_source: links resolve and every source has exactly one gauge.
GaugeSourceOk(d) ==
    /\ \A l \in d.links : l[1] \in DOMAIN d.gauge /\ l[2] \in DOMAIN d.source
    /\ \A s \in DOMAIN d.source : Cardinality({l \in d.links : l[2] = s}) = 1

\* Slip: the gauge of a reach is not looked up.
ReachGaugeOkLoose(d) == TRUE

\* _check_reach_gauge
ReachGaugeOk(d) == \A r \in DOMAIN d.reach : d.reach[r] \in DOMAIN d.gauge \cup {NoGauge}

\* _check_cross_set: the sidecars have known reaches and every reach a geometry.
CrossSetOk(d) == DOMAIN d.geom = DOMAIN d.reach

\* _check_reaches_on_materialized: the CSVs load into an empty schema.
Materializes(d) == \A g, h \in DOMAIN d.gauge : d.gauge[g] = d.gauge[h] => g = h

Valid(d) ==
    /\ CountersOk(d) /\ GaugeSourceOk(d) /\ ReachGaugeOk(d)
    /\ CrossSetOk(d) /\ Materializes(d)

-----------------------------------------------------------------------------
(* sync-metadata                                                           *)

\* compute_plan: rows that the CSVs do not have.
Deletions(base, ds) ==
    [source |-> DOMAIN base.source \ DOMAIN ds.source,
     links  |-> base.links \ ds.links,
     gauge  |-> DOMAIN base.gauge \ DOMAIN ds.gauge,
     reach  |-> DOMAIN base.reach \ DOMAIN ds.reach]
NoDeletions == [source |-> {}, links |-> {}, gauge |-> {}, reach |-> {}]

\* The rows of gauge.csv are upserted one by one, by id: row g meets rows below
\* it with their new name, the others with their old one.
UniqueConflict(old, new) ==
    \E g \in DOMAIN new, h \in DOMAIN old \cup DOMAIN new :
        /\ g # h
        /\ \/ h < g /\ h \in DOMAIN new /\ new[h] = new[g]
           \/ ~ (h < g /\ h \in DOMAIN new) /\ h \in DOMAIN old /\ old[h] = new[g]

\* Slip: an optional column that the CSV omits is left as it is.
SyncedPolicyKept(base, ds) ==
    IF ds.urls = {} THEN base.urls \cap DOMAIN ds.source ELSE ds.urls

\* _reset_absent_optional_columns: absent means the default.
SyncedPolicy(base, ds) == ds.urls

\* upsert_csvs: omitted columns survive, a new reach has no sidecars yet.
Upserted(base, ds) ==
    [base EXCEPT !.source = Over(@, ds.source), !.gauge = Over(@, ds.gauge),
                 !.links = @ \cup ds.links, !.reach = Over(@, ds.reach),
                 !.urls = SyncedPolicy(base, ds),
                 !.geom = [r \in DOMAIN base.reach \cup DOMAIN ds.reach |->
                              IF r \in DOMAIN base.geom THEN base.geom[r] ELSE NoShape]]

\* Foreign keys are on: what the rows of a dataset refer to must be there.
ForeignKeysHold(ds) ==
    /\ \A l \in ds.links : l[1] \in DOMAIN ds.gauge /\ l[2] \in DOMAIN ds.source
    /\ \A r \in DOMAIN ds.reach : ds.reach[r] \in DOMAIN ds.gauge \cup {NoGauge}

\* apply_deletions, children before parents, with what the schema cascades, once
\* the observations of `gone' are deleted.
PurgedOf(base, del, gone) ==
    LET gauges == DOMAIN base.gauge \ del.gauge
        sources == DOMAIN base.source \ del.source
    IN  [source |-> Without(base.source, del.source),
         urls   |-> base.urls \ del.source,
         links  |-> {l \in base.links \ del.links : l[1] \in gauges /\ l[2] \in sources},
         gauge  |-> Without(base.gauge, del.gauge),
         reach  |-> [r \in DOMAIN base.reach \ del.reach |->
                        IF base.reach[r] \in del.gauge THEN NoGauge ELSE base.reach[r]],
         geom   |-> Without(base.geom, del.reach),
         obs    |-> {o \in base.obs : o.source \notin gone}]

\* Slip: a source counts as removed when a link of it is.
PurgedByLink(base, del) == PurgedOf(base, del, {l[2] : l \in del.links})
Purged(base, del) == PurgedOf(base, del, del.source)

-----------------------------------------------------------------------------
(* A dataset with one source, its gauge and a reach, in step with the       *)
(* database.                                                                *)

Loaded(d, observed) ==
    [source |-> d.source, urls |-> d.urls, links |-> d.links, gauge |-> d.gauge,
     reach |-> d.reach, geom |-> d.geom, obs |-> observed]

Init ==
    \E st \in Station, gn \in GaugeName, sh \in Shape, g \in Gauge, r \in Reach :
        /\ dir = [yaml |-> Only(1, [name |-> st, gauge |-> g, ignore |-> TRUE]),
                  source |-> Only(1, st), urls |-> {1}, links |-> {<<g, 1>>},
                  gauge |-> Only(g, gn), reach |-> Only(r, g), geom |-> Only(r, sh),
                  next |-> 2, retired |-> {}]
        /\ head = dir /\ applied = dir
        /\ ever = {1}
        /\ db = Loaded(dir, {})
        /\ adder = "idle"
        /\ syncer = {}
        /\ edits = 0 /\ stored = 0

-----------------------------------------------------------------------------
(* the author                                                              *)

\* The checkout becomes d, and `file' is written next.
Write(from, to, d) ==
    /\ adder = from /\ adder' = to
    /\ dir' = d
    /\ UNCHANGED <<head, ever, db, syncer, applied, stored>>

Edit(to, d) ==
    /\ edits < MaxEdits /\ edits' = edits + 1
    /\ Write("idle", to, d)

\* sources.yaml is edited by hand.  A removed id is retired, or forgotten.
ChangeSource(s) ==
    /\ s \in DOMAIN dir.yaml
    /\ \E st \in Station, g \in Gauge, p \in BOOLEAN :
          Edit("idle", [dir EXCEPT !.yaml[s] = [name |-> st, gauge |-> g, ignore |-> p]])
RemoveSource(s) ==
    /\ s \in DOMAIN dir.yaml
    /\ \E retire \in SUBSET {s} :
          Edit("idle", [dir EXCEPT !.yaml = Without(@, {s}), !.retired = @ \cup retire])

\* The other tables have no generator: rows come, change and go.
EditGauge(g) ==
    \/ \E gn \in GaugeName : Edit("idle", [dir EXCEPT !.gauge = Over(@, Only(g, gn))])
    \/ g \in DOMAIN dir.gauge /\ Edit("idle", [dir EXCEPT !.gauge = Without(@, {g})])
EditReach(r) ==
    \/ \E g \in Gauge \cup {NoGauge}, sh \in Shape :
          Edit("idle", [dir EXCEPT !.reach = Over(@, Only(r, g)), !.geom = Over(@, Only(r, sh))])
    \/ Edit("idle", [dir EXCEPT !.reach = Without(@, {r}), !.geom = Without(@, {r})])

\* Slip: the next id is taken from the rows that are left.
AllocateIdFromRows(d) ==
    IF DOMAIN d.yaml = {} THEN 1
    ELSE 1 + (CHOOSE s \in DOMAIN d.yaml : \A t \in DOMAIN d.yaml : t <= s)

\* _allocate_id
AllocateId(d) == d.next

\* add-source: the current registry must be valid, and the proposed one with its
\* counter bumped (_validate_proposed); the authority is written first.
AddSource(st, g) ==
    LET id == AllocateId(dir)
    IN  /\ RegistryOk(dir)
        /\ \A s \in DOMAIN dir.yaml : dir.yaml[s].name # st
        /\ g \in DOMAIN dir.gauge
        /\ id \in SourceId
        /\ Edit("counters", [dir EXCEPT !.yaml =
                    Over(@, Only(id, [name |-> st, gauge |-> g, ignore |-> FALSE]))])

\* Then the bookkeeping, then the derived artifacts.
WriteCounters ==
    Write("counters", "fetch_url", [dir EXCEPT !.next = @ + 1]) /\ UNCHANGED edits

\* generate: refuses an invalid registry, then three files one after the other.
Generate ==
    /\ RegistryOk(dir)
    /\ Write("idle", "fetch_url", dir) /\ UNCHANGED edits
WriteFetchUrl ==
    Write("fetch_url", "source", [dir EXCEPT !.urls = UrlRows(dir.yaml)]) /\ UNCHANGED edits
WriteSource ==
    Write("source", "gauge_source", [dir EXCEPT !.source = SourceRows(dir.yaml)])
    /\ UNCHANGED edits
WriteGaugeSource ==
    Write("gauge_source", "idle", [dir EXCEPT !.links = LinkRows(dir.yaml)])
    /\ UNCHANGED edits

\* add-source or generate-sources dies between two files.
Die == adder # "idle" /\ Write(adder, "idle", dir) /\ UNCHANGED edits

\* generate-sources --from-csv: the rows it reads must give a valid registry.
FromCsv ==
    /\ \A s \in DOMAIN dir.source : Cardinality({l \in dir.links : l[2] = s}) = 1
    /\ \A l \in dir.links : l[2] \in DOMAIN dir.source
    /\ RegistryOk([dir EXCEPT !.yaml = ReverseEngineer(dir)])
    /\ Write("idle", "idle", [dir EXCEPT !.yaml = ReverseEngineer(dir)])
    /\ UNCHANGED edits

\* recover-metadata: the tables without a generator are taken from the database;
\* a reach without sidecars has none in the JSON.
Recover ==
    Edit("idle", [dir EXCEPT !.gauge = db.gauge, !.reach = db.reach,
                             !.geom = [r \in {q \in DOMAIN db.geom : db.geom[q] # NoShape}
                                          |-> db.geom[r]]])

\* The data repository's own checks gate what becomes its main branch.
Commit ==
    /\ CheckOk(dir) /\ Valid(dir)
    /\ head' = dir
    /\ ever' = ever \cup DOMAIN dir.source
    /\ UNCHANGED <<dir, adder, db, syncer, applied, edits, stored>>

-----------------------------------------------------------------------------
(* the live database                                                       *)

\* sync-metadata up to its write transaction; a plan with deletions and without
\* --allow-deletes is refused and changes nothing.
Plan ==
    /\ syncer = {}
    /\ syncer' = {[ds |-> head, del |-> Deletions(db, head)]}
    /\ UNCHANGED <<dir, adder, head, ever, db, applied, edits, stored>>

Refused(plan) == syncer' = {} /\ UNCHANGED <<db, applied>>

\* upsert, delete, audit, commit: or nothing at all.
Apply ==
    \E plan \in syncer :
        /\ LET new == Upserted(db, plan.ds)
           IN  \/ plan.del # NoDeletions /\ Refused(plan)
               \/ /\ UniqueConflict(db.gauge, plan.ds.gauge) \/ ~ ForeignKeysHold(plan.ds)
                  /\ Refused(plan)
               \/ /\ ~ UniqueConflict(db.gauge, plan.ds.gauge) /\ ForeignKeysHold(plan.ds)
                  /\ db' = IF plan.del = NoDeletions THEN new ELSE Purged(new, plan.del)
                  /\ applied' = plan.ds
                  /\ syncer' = {}
        /\ UNCHANGED <<dir, adder, head, ever, edits, stored>>

\* import-metadata: a sidecar entry without a reach rolls the apply back.
ImportSidecars ==
    /\ DOMAIN head.geom \subseteq DOMAIN db.reach
    /\ db' = [db EXCEPT !.geom = Over(@, head.geom)]
    /\ UNCHANGED <<dir, adder, head, ever, syncer, applied, edits, stored>>

\* The pipeline stores an observation, also between a plan and its transaction.
Fetch(s) ==
    /\ s \in DOMAIN db.source
    /\ stored < MaxObs /\ stored' = stored + 1
    /\ db' = [db EXCEPT !.obs = @ \cup {[source |-> s, n |-> stored']}]
    /\ UNCHANGED <<dir, adder, head, ever, syncer, applied, edits>>

Next ==
    \/ \E s \in SourceId : ChangeSource(s) \/ RemoveSource(s) \/ Fetch(s)
    \/ \E g \in Gauge : EditGauge(g)
    \/ \E r \in Reach : EditReach(r)
    \/ \E st \in Station, g \in Gauge : AddSource(st, g)
    \/ WriteCounters \/ Generate \/ WriteFetchUrl \/ WriteSource \/ WriteGaugeSource
    \/ Die \/ FromCsv \/ Recover \/ Commit
    \/ Plan \/ Apply \/ ImportSidecars

Spec == Init /\ [][Next]_vars

-----------------------------------------------------------------------------
(* Properties                                                              *)

\* An id that add-source hands out was never published: observations stored under
\* it cannot be another station's, whatever was removed, retired, forgotten or
\* lost in a crash before.
IdsFresh ==
    [][\A st \in Station, g \in Gauge : AddSource(st, g) => AllocateId(dir) \notin ever]_vars

\* The three CSVs carry the whole registry: reading them back gives it.
RegistryRoundTrip == ReverseEngineer(head) = head.yaml

\* After a sync the database holds exactly the dataset it applied: rows, links and
\* policies, a sidecar for every reach that had one.
InStep ==
    /\ [db EXCEPT !.obs = {}, !.geom = Empty] = [Loaded(applied, {}) EXCEPT !.geom = Empty]
    /\ DOMAIN db.geom = DOMAIN applied.reach

\* Observations go only with their source: no edit of a surviving source, and no
\* plan made before they were stored, costs one.
ObservationsKept ==
    [][\A o \in db.obs : o \in db'.obs \/ o.source \notin DOMAIN applied'.source]_vars

\* What passed validation applies: a sync fails only when a unique gauge name is
\* taken over from a row that still holds it.
SyncBlocked ==
    \A plan \in syncer :
        /\ ForeignKeysHold(plan.ds)
        /\ UniqueConflict(db.gauge, plan.ds.gauge) =>
              \E g \in DOMAIN plan.ds.gauge, h \in DOMAIN db.gauge :
                  g # h /\ plan.ds.gauge[g] = db.gauge[h]
=============================================================================
