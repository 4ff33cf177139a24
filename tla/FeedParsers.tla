----------------------------- MODULE FeedParsers -----------------------------
(***************************************************************************)
(* From what an agency publishes to the rows of `observation': the parsers  *)
(* (parsers/*.py) and BaseParser.dump_to_db, for one fetch_url.  Stations   *)
(* measure every hour; the feed says when in a zone of its own, how much in *)
(* a unit of its own and whose reading it is by a name of its own.          *)
(*                                                                         *)
(* What an entry looks like is fixed in a behaviour, its style; the sources *)
(* of the URL change with the dataset.  Hours are UTC; the offsets of zones *)
(* are shrunk, daylight saving time ends at Switch.                         *)
(***************************************************************************)
EXTENDS Integers, FiniteSets, FiniteSetsExt

CONSTANTS
    Switch,
    Back,       \* how many hours a feed goes back
    LastHour,    \* bound
    MaxChanges  \* bound: changes of the URL's sources

ASSUME FeedAssumption == Switch \in Nat /\ Back \in Nat /\ LastHour \in Nat /\ MaxChanges \in Nat

VARIABLES
    utc,        \* the hour it is
    feed,       \* fetch_url.parser
    style,      \* how the agency puts it
    sources,    \* the sources of the URL: id, name, timezone
    changes,
    observation \* rows; whose reading a row was and of when is history

fvars == <<utc, feed, style, sources, changes, observation>>

-----------------------------------------------------------------------------
(* The parsers: what the agency publishes, in which units; the units that   *)
(* are taken, if that is looked at, and those that are converted; whether    *)
(* quality codes are; the zone of the agency's clock; what a column without  *)
(* a known name is taken for; of which types a negative number is kept.     *)

Canonical == [flow |-> "cfs", inflow |-> "cfs", gauge |-> "ft", temperature |-> "F"]
AnyUnit == {"cfs", "kcfs", "cms", "ft", "m", "C", "F"}
Plain == [published |-> {}, units |-> AnyUnit, converts |-> {}, codes |-> FALSE, zone |-> "utc",
          unlabelled |-> "none", negative |-> DOMAIN Canonical \ {"flow"}]

Nwps == [Plain EXCEPT
    !.published = {<<"flow", "cfs">>, <<"flow", "kcfs">>, <<"flow", "cms">>, <<"gauge", "ft">>, <<"gauge", "m">>},
    !.units = {"ft", "cfs", "kcfs"}, !.converts = {"kcfs"}]
Usbr == [Plain EXCEPT
    !.published = {<<"flow", "cfs">>, <<"inflow", "cfs">>, <<"gauge", "ft">>, <<"temperature", "C">>,
                   <<"temperature", "F">>},
    !.converts = {"C"}, !.zone = "saving"]
UsaceCda == [Plain EXCEPT
    !.published = {<<"flow", "cfs">>, <<"flow", "kcfs">>, <<"inflow", "kcfs">>, <<"gauge", "ft">>},
    !.converts = {"kcfs"}]
PacifiCorp == [Plain EXCEPT
    !.published = {<<"flow", "cfs">>, <<"flow", "cms">>},
    !.units = {"cfs"}, !.codes = TRUE, !.zone = "saving"]
\* Its row pattern has no sign.
NwrfcTextPlot == [Plain EXCEPT
    !.published = {<<"flow", "cfs">>, <<"inflow", "cfs">>, <<"gauge", "ft">>, <<"temperature", "F">>},
    !.negative = {}]
\* "cfs" anywhere in the unit.
NwrfcXml == [Plain EXCEPT
    !.published = {<<"flow", "cfs">>, <<"flow", "kcfs">>, <<"inflow", "cfs">>, <<"gauge", "ft">>, <<"gauge", "m">>},
    !.units = {"ft", "cfs", "kcfs"}, !.negative = {"gauge", "temperature"}]
\* It knows Water and Stage and takes the rest for flow.
WaGov == [Plain EXCEPT
    !.published = {<<"flow", "cfs">>, <<"gauge", "ft">>, <<"temperature", "C">>},
    !.converts = {"C"}, !.codes = TRUE, !.zone = "standard", !.unlabelled = "flow"]
Licor == [Plain EXCEPT !.published = {<<"flow", "cfs">>, <<"gauge", "ft">>, <<"temperature", "F">>}]

Registry == [nwps |-> Nwps, usbr |-> Usbr, usace_cda |-> UsaceCda, pacificorp |-> PacifiCorp,
             nwrfc_textplot |-> NwrfcTextPlot, nwrfc_xml |-> NwrfcXml, wa_gov |-> WaGov, licor |-> Licor]
Parser == DOMAIN Registry
Local == {p \in Parser : Registry[p].zone # "utc"}

\* How an entry looks in a behaviour.  A filler is what an agency writes for no
\* reading; label is FALSE for a column, parameter or channel that the parser has no
\* type for; gmt is in the URL.
Styles(p) == [of : Registry[p].published, value : {"reading", "negative", "filler"}, good : BOOLEAN,
              label : BOOLEAN, gmt : BOOLEAN]

-----------------------------------------------------------------------------
(* What is when: the agency's clock, and parse_datetime with _localize      *)

Zone(p) == IF p = "usace_cda" /\ ~style.gmt THEN "standard" ELSE Registry[p].zone
Offset(z, u) == CASE z = "utc" -> 0 [] z = "standard" -> 2 [] z = "saving" -> IF u < Switch THEN 1 ELSE 2
Wall(z, u) == u - Offset(z, u)

\* The hour that the clocks show twice.
Twice(z, u) == \E v \in -2..LastHour + 2 : v # u /\ Wall(z, v) = Wall(z, u)

\* replace(tzinfo=...) without fold: the first of two.
Zones == {"utc", "standard", "saving"}
ToUtc == [z \in Zones |-> [w \in -4..LastHour + 4 |-> Min({u \in -4..LastHour + 6 : Wall(z, u) = w} \cup {LastHour + 99})]]

Named(n) == {s \in sources : s.name = n}
Zoned == {s \in sources : s.zone # "null"}

\* Slip: the zone of the station's own name only.
LocalizeByName(n, w) ==
    IF Named(n) \cap Zoned # {} THEN ToUtc[(CHOOSE s \in Named(n) \cap Zoned : TRUE).zone][w] ELSE w

\* A naive time is in the station's zone, in the only zone of the URL, or left as
\* it is, which is UTC.
Localize(n, w) ==
    IF Named(n) \cap Zoned # {} THEN ToUtc[(CHOOSE s \in Named(n) \cap Zoned : TRUE).zone][w]
    ELSE IF Cardinality(Zoned) = 1 THEN ToUtc[(CHOOSE s \in Zoned : TRUE).zone][w] ELSE w

\* Epochs, GMT and pages that name their zone are UTC at once.
StampOf(n, u) == IF feed \in Local THEN Localize(n, Wall(Zone(feed), u)) ELSE u

-----------------------------------------------------------------------------
(* What is how much: parse_records                                         *)

Type == style.of[1]
UnitOf == style.of[2]

TypeOf == IF style.label THEN Type ELSE Registry[feed].unlabelled
Amount == IF ~style.label THEN "something else"
          ELSE IF UnitOf = Canonical[Type] \/ UnitOf \in Registry[feed].converts THEN "as measured"
          ELSE "other unit"

\* What the parser and store_observations let pass.
Taken ==
    /\ TypeOf # "none" /\ UnitOf \in Registry[feed].units /\ style.value # "filler"
    /\ Registry[feed].codes => style.good
    /\ style.value = "negative" => TypeOf \in Registry[feed].negative

\* Readings from the future; store_observations allows an hour.
InTime(u, at) == IF feed \in Local THEN at <= utc + 1 ELSE u <= utc

-----------------------------------------------------------------------------
(* Whose it is: dump_to_db                                                  *)

\* The stations that a feed may name.
Station == {"A", "B"}
SourceOf(n) == IF Named(n) # {} THEN {s.id : s \in Named(n)}
               ELSE IF Cardinality(sources) = 1 THEN {s.id : s \in sources} ELSE {}

\* fetch-licor refuses a dashboard with two sources or a channel of two types,
\* usace.cda an URL without GMT.
Fetchable ==
    /\ feed = "licor" => Cardinality(sources) = 1 /\ style.label
    /\ feed = "usace_cda" => style.gmt

\* The rows that a fetch makes, of every hour the feed goes back to and the next.
Rows(n) == {[source |-> id, type |-> TypeOf, at |-> StampOf(n, u), amount |-> Amount, of |-> n, hour |-> u,
             by |-> sources] :
               id \in SourceOf(n), u \in {u \in utc - Back .. utc + 1 : u >= 0 /\ InTime(u, StampOf(n, u))}}
Key(row) == <<row.source, row.type, row.at>>

\* Of two rows with one key the later entry wins, and the feed is in order.
Wins(rows) == {r \in rows : \A q \in rows : Key(q) = Key(r) => q.hour < r.hour \/ (q.hour = r.hour /\ (q = r \/ r.of = "B"))}

Fetch ==
    /\ Fetchable /\ Taken
    /\ \E named \in {{"A"}, Station} :
          LET new == Wins(UNION {Rows(n) : n \in named})
          IN  observation' = new \cup {r \in observation : \A q \in new : Key(q) # Key(r)}
    /\ UNCHANGED <<utc, feed, style, sources, changes>>

-----------------------------------------------------------------------------

Source(id, name, zone) == [id |-> id, name |-> name, zone |-> zone]
ZoneThere(p) == IF p \in Local THEN Zone(p) ELSE "null"

\* Station A alone, under its own name or a file's; A and B; B's zone forgotten.
Configs(p) == {{Source(1, "A", ZoneThere(p))}, {Source(1, "A_STG", ZoneThere(p))},
               {Source(1, "A", ZoneThere(p)), Source(2, "B", ZoneThere(p))},
               {Source(1, "A_STG", ZoneThere(p)), Source(2, "B", ZoneThere(p))},
               {Source(1, "A", ZoneThere(p)), Source(2, "B", "null")}}

FeedInit ==
    /\ utc = 0 /\ changes = 0 /\ observation = {}
    /\ feed \in Parser
    /\ style \in {s \in Styles(feed) : /\ (~Registry[feed].codes => s.good)
                                       /\ (feed # "usace_cda" => s.gmt)}
    /\ sources \in Configs(feed)

ChangeSources ==
    /\ changes < MaxChanges /\ changes' = changes + 1
    /\ sources' \in Configs(feed) /\ sources' # sources
    /\ UNCHANGED <<utc, feed, style, observation>>

HourGoes == /\ utc < LastHour /\ utc' = utc + 1
            /\ UNCHANGED <<feed, style, sources, changes, observation>>

FeedNext == Fetch \/ ChangeSources \/ HourGoes

FeedSpec == FeedInit /\ [][FeedNext]_fvars

-----------------------------------------------------------------------------
(* Properties                                                              *)

\* However a URL's sources are renamed, split and merged between fetches, and
\* whatever zone, unit or name the feed uses: a row is the reading of its own
\* source's station, at its time, of its type and in the canonical unit (base.py:159),
\* but for what the code is known not to tell apart: an hour that the clocks show
\* twice, a second station on a URL with one source (warned of, base.py:140), a
\* local feed whose source has no zone, a column of wa.gov that is neither
\* Water nor Stage, kcfs of nwrfc.xml.
ReadingsTrue ==
    \A r \in observation :
      \/ /\ r.source = (IF r.of = "A" THEN 1 ELSE 2)
         /\ r.at = r.hour /\ r.type = Type /\ r.amount = "as measured"
      \/ Twice(Zone(feed), r.hour)
      \/ Cardinality(r.by) = 1 /\ r.of = "B"
      \/ feed \in Local /\ \E s \in r.by : s.id = r.source /\ s.zone = "null"
      \/ feed = "wa_gov" /\ ~style.label
      \/ feed = "nwrfc_xml" /\ UnitOf = "kcfs"
=============================================================================
