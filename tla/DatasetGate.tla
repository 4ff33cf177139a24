---------------------------- MODULE DatasetGate ----------------------------
(***************************************************************************)
(* What stands between a dataset and the public site.  `levels init-        *)
(* dataset' makes one, its author changes it, and `levels validate-dataset' *)
(* (cli/validate_dataset.py, dataset/*.py), `levels sync-metadata' behind   *)
(* contract.gate_for_use, and `levels build' (web/build/deploy.py) each     *)
(* judge it by themselves: a deploy runs all three, the hourly pipeline     *)
(* builds whatever the dataset directory holds.                             *)
(*                                                                         *)
(* A dataset is what these three tell apart.  The checks across the tables, *)
(* the ids and the load are in DatasetSync.                                 *)
(***************************************************************************)
EXTENDS Integers, FiniteSets, Sequences

CONSTANT MaxPulls   \* bound: how often the dataset directory changes

VARIABLES
    place,      \* the directory that init-dataset is given
    dataset,    \* what the dataset directory holds
    verdict,    \* of validate-dataset on it
    db,         \* the row with the odd cell, and the rows with the twin keys
    docroot,
    pulls

gvars == <<place, dataset, verdict, db, docroot, pulls>>

-----------------------------------------------------------------------------
(* Cells: a column's kind and the way its text is spelled                   *)

Kind == {"id", "int", "bool", "decimal", "float", "datetime", "enum", "text"}
\* "", 0, 1, 7, 07, twenty digits, 1_0, 1.5, 95.5, 1e2, nan, a word, a member of
\* the enumeration, 2024-01-01 00:00:00, 20240101, more than the column's length
Raw == {"empty", "zero", "one", "seven", "padded", "huge", "underscore", "fraction", "far",
        "exponent", "nan", "word", "member", "iso", "compact", "long"}

Digits == {"zero", "one", "seven", "padded", "compact"}
Numeral == Digits \cup {"huge", "fraction", "far", "exponent"}

\* _KIND_CHECKS.  A decimal is a latitude, NUMERIC(9, 6).
AcceptedRaw == [id       |-> {"one", "seven", "compact"},
                int      |-> Digits,
                bool     |-> {"zero", "one"},
                decimal  |-> {"zero", "one", "seven", "padded", "fraction"},
                float    |-> Numeral,
                datetime |-> {"iso"},
                enum     |-> {"member"},
                text     |-> Raw \ {"empty", "long"}]

\* Slip: a date in digits only is a date as well.
AnyDate == [AcceptedRaw EXCEPT !.datetime = @ \cup {"compact"}]

CellRules == AcceptedRaw

\* _value_problem
CellOk(c) == IF c.raw = "empty" THEN c.nullable ELSE c.raw \in CellRules[c.kind]

\* What SQLite stores under the affinity of the column's declared type.
StorageClass(c) ==
    IF c.raw = "empty" THEN "null"
    ELSE IF c.kind \in {"enum", "text"} \/ c.raw \notin Numeral THEN "text"
    ELSE IF c.kind = "float" \/ c.raw \in {"huge", "fraction", "far"} THEN "real"
    ELSE "integer"

\* What the readers of a column can have.
Belongs(c) ==
    (IF c.nullable THEN {"null"} ELSE {}) \cup
    CASE c.kind \in {"id", "int", "bool"} -> {"integer"}
      [] c.kind = "decimal" -> {"integer", "real"}
      [] c.kind = "float" -> {"real"}
      [] OTHER -> {"text"}

\* Two rows whose key differs in the spelling of one column only.
Value == [one |-> 1, seven |-> 7, padded |-> 7]
NormKey(kind, raw) == IF kind = "text" THEN raw ELSE Value[raw]
TwinsOk(t) == NormKey(t.kind, t.a) # NormKey(t.kind, t.b)
RowsStored(t) == Cardinality({NormKey(t.kind, r) : r \in {t.a, t.b}})

-----------------------------------------------------------------------------
(* The parts of a dataset, and the values the model gives each              *)

Name == {"fit", "lag", "readme"}
Page == {"about", "disclaimer", "privacy", "contact"}
Legal == {"disclaimer", "privacy", "contact"}

GoodManifest == [file |-> "mapping", version |-> 1, status |-> "publishable", keys |-> "known", license |-> "CC0"]
GoodTables == [missing |-> "nothing", undecodable |-> "nothing", header |-> "exact",
               width |-> "full", state |-> "Oregon", gaugeState |-> "Oregon",
               station |-> "digits", policy |-> "ignore", label |-> "AW"]
GoodCell == [kind |-> "int", raw |-> "one", nullable |-> FALSE]
GoodReach == [geom |-> "polyline", elevation |-> TRUE]
GoodProfile == [shape |-> "object", at |-> <<0, 1>>, width |-> 1, drop |-> 1, extra |-> "none"]
GoodTwins == [kind |-> "int", a |-> "one", b |-> "seven"]
Triple(n) == {<<n, "md">>, <<n, "svg">>, <<n, "json">>}
GoodReports == [dir |-> TRUE, slugs |-> {"fit"}, files |-> Triple("fit"), unsafe |-> {}, links |-> {}]
GoodProse == [dir |-> "directory", page |-> [p \in Page |-> "text"]]
GoodLook == [site |-> "good", region |-> {"Oregon"}, regionUrl |-> "http", layers |-> <<>>,
             asset |-> "none", notice |-> "none"]

Example == [manifest |-> GoodManifest, tables |-> GoodTables, cell |-> GoodCell,
            twins |-> GoodTwins, reach |-> GoodReach, profile |-> GoodProfile,
            reports |-> GoodReports, prose |-> GoodProse, look |-> GoodLook]

\* _scaffold: header-only tables, placeholders for the legal pages.
Scaffold == [Example EXCEPT !.manifest.status = "scaffold",
    !.reports = [dir |-> FALSE, slugs |-> {}, files |-> {}, unsafe |-> {}, links |-> {}],
    !.prose.page = [p \in Page |-> IF p \in Legal THEN "text" ELSE "absent"]]

\* The records that differ from r in one field.
OneOff(r, values) == UNION {{[r EXCEPT ![f] = v] : v \in values[f]} : f \in DOMAIN values}

Manifests == [file : {"absent", "unparsable", "twice", "mapping"}, version : 0..2, keys : {"known", "unknown"},
              status : {"scaffold", "publishable", "live"}, license : {"CC0", "blank"}]
Tables == OneOff(GoodTables,
    [missing |-> {"csv", "counters", "sidecar", "retired"}, undecodable |-> {"csv", "report"},
     header |-> {"headerless", "twice", "unknown table", "missing", "unexpected", "no optional"},
     width |-> {"short"}, state |-> {"../Oregon", "Idaho"}, gaugeState |-> {"Utah"},
     station |-> {"letters"}, policy |-> {"", "ingore"}, label |-> {"", "aw"}])
Cells == [kind : Kind, raw : Raw, nullable : BOOLEAN]
Twins == [kind : {"int", "float", "text"}, a : DOMAIN Value, b : DOMAIN Value]
Reaches == [geom : {"polyline", "wkt", "unparsable", "point", "drifts", "none"}, elevation : BOOLEAN]
Profiles == OneOff(GoodProfile,
    [shape |-> {"list", "key twice", "NaN", "samples no list"}, at |-> {<<>>, <<-1>>, <<1, 0>>, <<1, 1>>},
     width |-> {0}, drop |-> {-1, 1001}, extra |-> {"lat 95", "significant 1"}])
\* What a file may refer to: a companion, a sidecar, the README.
Links == {{}, {<<"fit", "lag", "md">>}, {<<"fit", "lag", "svg">>}, {<<"fit", "readme", "md">>},
          {<<"fit", "lag", "md">>, <<"lag", "fit", "md">>}}
Reports == [dir : BOOLEAN, slugs : {{}, {"fit"}, {"fit", "lag"}, {"../fit"}},
            files : {Triple("fit"), Triple("fit") \ {<<"fit", "svg">>}, Triple("fit") \cup {<<"lag", "svg">>},
                     Triple("fit") \cup {<<"readme", "md">>}, Triple("fit") \cup {<<"lag", "md">>, <<"lag", "json">>},
                     Triple("fit") \cup Triple("lag")},
            unsafe : {{}, {<<"fit", "svg">>}, {<<"lag", "svg">>}, {<<"lag", "json">>}, {<<"fit", "md">>}},
            links : Links]
Proses == [dir : {"directory", "symlink", "file", "absent"}, page : {GoodProse.page}]
          \cup {[GoodProse EXCEPT !.page[p] = c] : p \in Page,
                                                   c \in {"absent", "symlink", "directory", "bytes", "raw html", "javascript:"}}
Layer(k, f, s) == [key |-> k, file |-> f, style |-> s]
Looks == OneOff(GoodLook,
    [site |-> {"absent", "empty", "unparsable", "list", "unknown key", "markup", "not a colour", "not http"},
     region |-> {{}, {"Oregon", "Utah"}, {"../Oregon"}}, regionUrl |-> {"javascript"},
     layers |-> {<<Layer("dams", "a", "good")>>, <<Layer("dams", "a", "bad")>>,
                 <<Layer("dams", "a", "good"), Layer("dams", "b", "good")>>,
                 <<Layer("dams", "a", "good"), Layer("access", "a", "good")>>},
     asset |-> {"good", "readme", "symlink", "directory", "unexpected", "too large", "no image", "wrong size"},
     notice |-> {"file", "symlink"}])

\* The commits: one part of the example, or of the scaffold, is anything.
Commits ==
    LET of(base) == {[base EXCEPT !.manifest = v] : v \in Manifests}
               \cup {[base EXCEPT !.tables = v] : v \in Tables}
               \cup {[base EXCEPT !.cell = v] : v \in Cells}
               \cup {[base EXCEPT !.twins = v] : v \in Twins}
               \cup {[base EXCEPT !.reach = v] : v \in Reaches}
               \cup {[base EXCEPT !.profile = v] : v \in Profiles}
               \cup {[base EXCEPT !.reports = v] : v \in Reports}
               \cup {[base EXCEPT !.prose = v] : v \in Proses}
               \cup {[base EXCEPT !.look = v] : v \in Looks}
    IN  of(Example) \cup of(Scaffold)

-----------------------------------------------------------------------------
(* contract.py                                                             *)

\* validate_dataset_meta
MetaOk(m) == /\ m.version = 1 /\ m.keys = "known" /\ m.license # "blank"
             /\ m.status \in {"scaffold", "publishable"}

\* check_contract: a manifest that is absent is contract 0, a key twice is malformed.
ContractOk(d) == d.manifest.file = "mapping" /\ MetaOk(d.manifest)

\* gate_for_use without --allow-scaffold.
GateForUse(d) == ContractOk(d) /\ d.manifest.status # "scaffold"

-----------------------------------------------------------------------------
(* validate-dataset, in the order of its stages                             *)

RequiredFiles(d) == d.tables.missing = "nothing"
Readable(d) == d.tables.undecodable # "csv"
ShapeOk(d) == d.tables.header \in {"exact", "no optional"}

\* Width, cells and composite keys; only of files whose shape is right.
ValuesOk(d) == d.tables.width = "full" /\ CellOk(d.cell) /\ TwinsOk(d.twins)

SafeState(s) == s \in {"Oregon", "Idaho", "Utah"}

\* _check_source_names, _check_fetch_url_policy, _check_guidebook_short_labels
NamesOk(d) == /\ d.tables.station = "digits" /\ d.tables.policy \in {"", "ignore", "reject"}
              /\ d.tables.label \in {"", "AW"}

\* _check_state_names, _check_state_references
StatesOk(d) == /\ SafeState(d.tables.state) /\ d.tables.gaugeState = d.tables.state
               /\ d.look.region \subseteq {d.tables.state}

\* _gradient_profile_problem: positive widths, ordered distances.
SampleOk(p, i) == /\ p.width > 0 /\ p.drop >= 0 /\ p.at[i] >= 0
                  /\ i > 1 => p.at[i] > p.at[i - 1]
ProfileOk(p) == /\ p.shape = "object" /\ p.extra = "none"
                /\ \A i \in DOMAIN p.at : SampleOk(p, i)

\* _regression_slugs
SlugsOk(r) == r.slugs \subseteq Name
Slugs(r) == r.slugs \cap Name

\* What the links of report n lead to; each must be there, unless it is the
\* report of a slug, which its own triple covers.
LinksOf(r, n) == IF <<n, "md">> \in r.files THEN {l \in r.links : l[1] = n} ELSE {}
LinksOk(r, n) == \A l \in LinksOf(r, n) : <<l[2], l[3]>> \in r.files \/ (l[3] = "md" /\ l[2] \in Slugs(r))

\* _regression_closure, from the slugs along the links to other reports.
Linked(r, S) == S \cup {l[2] : l \in {l \in UNION {LinksOf(r, n) : n \in S} : l[3] = "md" /\ <<l[2], "md">> \in r.files}}
Stems(r) == Linked(r, Linked(r, Slugs(r)))
Reachable(r) ==
    {f \in r.files : f[1] \in Stems(r)}
      \cup {f \in r.files : \E n \in Stems(r) : <<n, f[1], f[2]>> \in LinksOf(r, n)}

TriplesOk(r) == \A n \in Slugs(r) : Triple(n) \subseteq r.files

\* _regression_sanitize: what no slug leads to is an orphan, a warning.
Sanitized(r, fs) == \A f \in fs : f \in r.unsafe => f[2] = "md"

ReportsOk(r) == SlugsOk(r) /\ (r.dir => /\ TriplesOk(r) /\ \A n \in Stems(r) : LinksOk(r, n)
                                        /\ Sanitized(r, Reachable(r)))

\* The report of "fit" is not UTF-8: reading it raises.
Undecodable(d) == d.reports.dir /\ <<"fit", "md">> \in d.reports.files /\ d.tables.undecodable = "report"

\* _regression_follow_refs catches an OSError only.
Crashes(d) == Undecodable(d) /\ "fit" \in Stems(d.reports)

\* _check_site_prose
LegalThere(p) == p.dir = "directory" /\ \A l \in Legal : p.page[l] \notin {"absent", "directory"}
ProseOk(d) ==
    /\ d.prose.dir \in {"directory", "absent"}
    /\ d.prose.dir = "directory" =>
          \A p \in Page : d.prose.page[p] \in {"absent", "text", "raw html"}
    /\ d.manifest.status = "publishable" => LegalThere(d.prose)

\* SiteConfig, RegionConfig, MapConfig and the assets.
SiteConfigOk(d) == d.look.site \in {"absent", "empty", "good"}
RegionConfigOk(d) == d.look.regionUrl = "http" /\ \A s \in d.look.region : SafeState(s)
MapConfigOk(d) ==
    /\ \A i \in DOMAIN d.look.layers : d.look.layers[i].style = "good"
    /\ \A i, j \in DOMAIN d.look.layers : i # j =>
          /\ d.look.layers[i].key # d.look.layers[j].key
          /\ d.look.layers[i].file # d.look.layers[j].file
SiteAssetsOk(d) == d.look.asset \in {"none", "good", "readme"}

\* check-reaches, and the geometry that every reach must have.
ReachOk(d) == /\ d.reach.geom = "polyline" /\ d.reach.elevation
              /\ d.profile.drop <= 1000

Verdict(d) ==
    IF ~(ContractOk(d) /\ RequiredFiles(d) /\ Readable(d)) THEN "invalid"
    ELSE IF Crashes(d) THEN "crashed"
    ELSE IF /\ ShapeOk(d) /\ ValuesOk(d) /\ NamesOk(d) /\ StatesOk(d) /\ ProfileOk(d.profile)
            /\ ReportsOk(d.reports) /\ ProseOk(d)
            /\ SiteConfigOk(d) /\ RegionConfigOk(d) /\ MapConfigOk(d) /\ SiteAssetsOk(d) /\ ReachOk(d)
    THEN "valid" ELSE "invalid"

-----------------------------------------------------------------------------
(* levels build                                                            *)

Nothing == [is |-> "nothing"]

\* Files whose stem is a slug; the README is for maintainers.
Published(r) == IF r.dir THEN {f \in r.files : f[2] # "md" \/ f[1] # "readme"} ELSE {}
AsServed(f) == IF f[2] = "md" THEN <<f[1], "html">> ELSE f

\* Slip: the fact boxes are copied as they are.
ReportsBuildAny(d) == \A f \in Published(d.reports) : f \in d.reports.unsafe => f[2] # "svg"

\* _deploy_regression_artifacts: a plot or a fact box that does not conform
\* fails the build, Markdown is rendered and cleaned.
ReportsBuild(d) == ~Undecodable(d) /\ Sanitized(d.reports, Published(d.reports))

ProseBuild(d) == /\ d.prose.dir # "symlink"
                 /\ d.prose.dir = "directory" =>
                       \A p \in Page : d.prose.page[p] \notin {"symlink", "directory", "bytes"}

\* The manifest is read for its licence only.
LicenceBuild(d) == /\ d.look.notice # "symlink"
                   /\ d.manifest.file \in {"absent", "mapping"}
                   /\ d.manifest.file = "mapping" => d.manifest.license # "blank"

Builds(d) == /\ ReportsBuild(d) /\ ProseBuild(d) /\ LicenceBuild(d)
             /\ SiteConfigOk(d) /\ RegionConfigOk(d) /\ MapConfigOk(d) /\ SiteAssetsOk(d)

Docroot(d) == [of     |-> d,
               files  |-> {AsServed(f) : f \in Published(d.reports)},
               unsafe |-> {f \in d.reports.unsafe \cap Published(d.reports) : f[2] # "md"},
               prose  |-> IF d.prose.dir # "directory" THEN {}
                          ELSE {p \in Page : d.prose.page[p] # "absent"}]

NoDocroot == [of |-> Nothing, files |-> {}, unsafe |-> {}, prose |-> {}]
NoRows == [of |-> Nothing, class |-> "null", twins |-> 0]

-----------------------------------------------------------------------------

GateInit == /\ place \in {"absent", "empty", "occupied"} /\ dataset = Nothing
            /\ verdict = "none" /\ db = NoRows /\ docroot = NoDocroot /\ pulls = 0

\* init-dataset, which may fail to write: it removes what it made and leaves a
\* directory that was there.
InitDataset(d) ==
    /\ dataset = Nothing /\ place # "occupied"
    /\ \/ Verdict(d) = "valid" /\ place' = "occupied" /\ dataset' = d
       \/ UNCHANGED <<place, dataset>>
    /\ UNCHANGED <<verdict, db, docroot, pulls>>

\* The author commits, and the dataset directory is at the new commit.
Pull == /\ dataset # Nothing /\ pulls < MaxPulls /\ pulls' = pulls + 1
        /\ dataset' \in Commits /\ dataset' # dataset /\ verdict' = "none"
        /\ UNCHANGED <<place, db, docroot>>

Validate == /\ dataset # Nothing /\ verdict' = Verdict(dataset)
            /\ UNCHANGED <<place, dataset, db, docroot, pulls>>

\* What the upserts of one transaction need.
Loads(d) == /\ RequiredFiles(d) /\ Readable(d) /\ d.tables.width = "full"
            /\ d.tables.header # "unexpected" /\ (d.cell.raw = "empty" => d.cell.nullable)

\* sync-metadata behind its gate.
SyncMetadata ==
    /\ dataset # Nothing /\ GateForUse(dataset) /\ Loads(dataset)
    /\ db' = [of |-> dataset, class |-> StorageClass(dataset.cell), twins |-> RowsStored(dataset.twins)]
    /\ UNCHANGED <<place, dataset, verdict, docroot, pulls>>

\* A build that fails leaves the tree that is served.
BuildSite == /\ dataset # Nothing /\ Builds(dataset)
             /\ docroot' = Docroot(dataset)
             /\ UNCHANGED <<place, dataset, verdict, db, pulls>>

GateNext == \/ \E d \in {Example, Scaffold} : InitDataset(d)
            \/ Pull \/ Validate \/ SyncMetadata \/ BuildSite

GateSpec == GateInit /\ [][GateNext]_gvars

-----------------------------------------------------------------------------
(* Properties                                                              *)

\* Whoever builds, and whether or not anybody validated first: no plot or fact box
\* that does not conform is ever served (deploy.py:298, 310), a dataset that is
\* a scaffold or of another contract never reaches the database
\* (sync_metadata.py:145), and what region.yaml makes a file name is a safe one.
ServedClean ==
    /\ docroot.unsafe = {}
    /\ db # NoRows => db.of.manifest.status = "publishable" /\ db.of.manifest.version = 1
    /\ docroot # NoDocroot => \A s \in docroot.of.look.region : SafeState(s)

\* What validate-dataset lets through loses nothing on the way: the cells have
\* the storage class of their column, no two rows of a composite key fall
\* together (validate_dataset.py:475), every report that a calculation names is
\* served with its sidecars, every link between reports leads somewhere, and a
\* publishable site has its legal pages.
ValidArrivesWhole ==
    verdict = "valid" =>
      /\ db.of = dataset => /\ db.class \in Belongs(dataset.cell)
                            /\ db.twins = 2
      /\ docroot.of = dataset =>
           LET r == dataset.reports
           IN  /\ r.dir => \A n \in Slugs(r) : {<<n, "html">>, <<n, "svg">>, <<n, "json">>} \subseteq docroot.files
               /\ r.dir => \A n \in Stems(r) : \A l \in LinksOf(r, n) :
                     l[2] # "readme" => AsServed(<<l[2], l[3]>>) \in docroot.files
               /\ dataset.manifest.status = "publishable" => Legal \subseteq docroot.prose

=============================================================================
