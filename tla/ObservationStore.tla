-------------------------- MODULE ObservationStore --------------------------
(***************************************************************************)
(* The observations, the two caches derived from them and the three        *)
(* programs that write them: the hourly pipeline (fetch, fetch-usgs-ogc,    *)
(* fetch-licor, calc-rating, update-gauge-cache, calculator, build, the two *)
(* checks), `levels decimate' and `levels sync-metadata' (of which only the *)
(* removal of a source matters here).  SQLite admits one writer at a time,  *)
(* so a committed transaction is one action; what a program read before its *)
(* transaction began may be stale by then and is kept in the run's record.  *)
(*                                                                         *)
(* Time is counted in ticks; an hour is HourTicks and six hours LongTicks.  *)
(* Values stand for readings, of which the sign is what the store looks at. *)
(***************************************************************************)
EXTENDS Integers, Sequences, FiniteSets, FiniteSetsExt

CONSTANTS
    Source, Gauge, DataType, Value,
    linkOf,        \* gauge_source: the gauge of a source
    urlSources,    \* fetch_url: the sources that a URL feeds
    GetUrl, PostUrl,   \* what fetch requests and what fetch-licor requests
    UsgsSource,    \* sources of agency USGS
    NegativeOk,    \* sources of gauges with allow_negative_flow
    Rated,         \* gauges with a usable rating table
    refs,          \* a calculated source and the <<gauge, type>>s it reads
    calcType,      \* the data type of a calculated source
    flowAt, stageAt,   \* the rating table, both ways; NoReading off its ends
    HourTicks, LongTicks, Lookback, Window, RecentAge, ArchiveAge, Ahead,
    FirstTime, MaxTime,   \* bound: the clock runs from FirstTime to MaxTime
    Jumps,                \* bound: how far the clock may go at once
    MaxBatch,             \* bound: readings per payload
    Budgets               \* bound: how much of everything one behaviour has

NoReading == -9
NoTime == -1
NoSource == 0
Time == 0..(MaxTime + Ahead + 1)
Key == Source \X DataType \X Time
Pair == Source \X DataType
GaugePair == Gauge \X DataType
Url == GetUrl \cup PostUrl
CalcSource == DOMAIN refs

ASSUME StoreAssumption ==
    /\ Source \subseteq Nat \ {NoSource} /\ IsFiniteSet(Source)
    /\ "flow" \in DataType /\ "gauge" \in DataType
    /\ Value \subseteq Int \ {NoReading}
    /\ linkOf \in [Source -> Gauge]
    /\ urlSources \in [Url -> SUBSET Source]
    /\ CalcSource \subseteq Source /\ calcType \in [CalcSource -> DataType]
    /\ \A s \in CalcSource : refs[s] \subseteq GaugePair
    /\ {HourTicks, LongTicks} \subseteq Nat \ {0} /\ LongTicks % HourTicks = 0
    /\ {Lookback, Window, RecentAge, ArchiveAge, Ahead, FirstTime, MaxTime} \subseteq Nat
    /\ Jumps \subseteq Nat /\ Lookback < Window
    /\ RecentAge < ArchiveAge
    /\ Budgets \subseteq [payloads : Nat, runs : Nat, raises : Nat, deaths : Nat,
                          removals : Nat, jumps : Nat, args : SUBSET (BOOLEAN \X BOOLEAN)]

VARIABLES
    now,       \* the clock
    sources,   \* table source
    obs,       \* table observation: (source, data_type, observed_at) -> value
    latest,    \* table latest_observation, by source and type
    glatest,   \* table latest_gauge_observation, by gauge and type
    run,       \* the pipeline
    thin,      \* a decimate run
    budget,    \* what is left of one of Budgets
    covered,   \* history: the six-hour periods a reading was stored for
    stale      \* history: gauge rows that nothing has refreshed since the
               \* clock, decimate or a removed source changed what they show

vars == <<now, sources, obs, latest, glatest, run, thin, budget, covered, stale>>
tables == <<sources, obs, latest, glatest>>

-----------------------------------------------------------------------------
(* db/cache.py                                                             *)

NoRow == [source |-> NoSource, at |-> NoTime, value |-> NoReading,
          prevAt |-> NoTime, prev |-> NoReading]

Readings(o, S, ty, from, upto) ==
    {k \in DOMAIN o : k[1] \in S /\ k[2] = ty /\ k[3] \in from..upto}

\* ORDER BY observed_at DESC, source_id DESC LIMIT 1
Newest(keys) ==
    CHOOSE k \in keys : \A j \in keys : j[3] < k[3] \/ (j[3] = k[3] /\ j[1] <= k[1])

\* The newest reading, and the newest one at least lag before it: the body of
\* update_latest and update_latest_gauge and, with another lag, of the bulk SQL.
\* delta_per_hour is a function of the two.
Summary(o, S, ty, since, lag) ==
    LET keys == Readings(o, S, ty, since, MaxTime + Ahead)
    IN  IF keys = {} THEN NoRow
        ELSE LET top == Newest(keys)
                 older == Readings(o, S, ty, since, top[3] - lag)
                 p == Newest(older)
             IN  [source |-> top[1], at |-> top[3], value |-> o[top],
                  prevAt |-> IF older = {} THEN NoTime ELSE p[3],
                  prev   |-> IF older = {} THEN NoReading ELSE o[p]]

SourcesOf(g, S) == {s \in S : linkOf[s] = g}

UpdateLatest(o, pair) == Summary(o, {pair[1]}, pair[2], 0, Lookback)
UpdateLatestGauge(o, S, pair) ==
    Summary(o, SourcesOf(pair[1], S), pair[2], now - Window, Lookback)

\* The bulk rebuild compares the stored text 'YYYY-MM-DD HH:MM:SS.ffffff' with
\* datetime(newest, '-6 hours'), which has no fraction: of two equal instants
\* the stored one is the greater text, so a reading exactly six hours older is
\* not a previous reading here.
BulkRow(o, S, pair) ==
    Summary(o, SourcesOf(pair[1], S), pair[2], now - Window, Lookback + 1)
UpdateAllLatestGauges(o, S) == [p \in GaugePair |-> BulkRow(o, S, p)]

-----------------------------------------------------------------------------
(* db/observations.py                                                      *)

\* store_observations: what it rejects, and the upsert of the rest.
Accepted(rows) ==
    {k \in DOMAIN rows :
        /\ k[3] <= now + Ahead
        /\ k[2] = "flow" /\ rows[k] < 0 => k[1] \in NegativeOk}

Upserted(o, rows) ==
    [k \in DOMAIN o \cup Accepted(rows) |->
        IF k \in Accepted(rows) THEN rows[k] ELSE o[k]]

PairsOf(rows) == {<<k[1], k[2]>> : k \in DOMAIN rows}
Period(k) == <<k[1], k[2], k[3] \div LongTicks>>

GaugesOf(pairs) == {<<linkOf[p[1]], p[2]>> : p \in {q \in pairs : q[1] \in sources}}

\* A refresh that looks at the sources just stored instead of all the gauge's.
GaugeRowsOfStored(o, pairs) ==
    [p \in GaugePair |-> IF p \in GaugesOf(pairs)
                         THEN UpdateLatestGauge(o, {q[1] : q \in pairs}, p) ELSE glatest[p]]

GaugeRows(o, pairs) ==
    [p \in GaugePair |-> IF p \in GaugesOf(pairs)
                         THEN UpdateLatestGauge(o, sources, p) ELSE glatest[p]]

\* The transaction that every producer runs: upsert, refresh the source rows
\* of the pairs it touched, then the gauge rows of their gauges.
Store(rows, pairs) ==
    LET o == Upserted(obs, rows)
    IN  /\ obs' = o
        /\ latest' = [p \in Pair |-> IF p \in pairs THEN UpdateLatest(o, p) ELSE latest[p]]
        /\ glatest' = GaugeRows(o, pairs)
        /\ stale' = stale \ GaugesOf(pairs)
        /\ covered' = covered \cup {Period(k) : k \in Accepted(rows)}
        /\ UNCHANGED sources

\* A source that was deleted since its id was read fails the foreign key and
\* the whole transaction is rolled back.
ForeignKeysHold(rows) == \A k \in Accepted(rows) : k[1] \in sources

Rollback == UNCHANGED <<sources, obs, latest, glatest, stale, covered>>

-----------------------------------------------------------------------------
(* cli/pipeline.py                                                         *)

Steps == <<
    [name |-> "fetch", requires |-> {}],
    [name |-> "fetch-usgs-ogc", requires |-> {}],
    [name |-> "fetch-licor", requires |-> {}],
    [name |-> "calc-rating", requires |-> {"fetch", "fetch-usgs-ogc"}],
    [name |-> "update-gauge-cache", requires |-> {"calc-rating", "fetch-licor"}],
    [name |-> "calculator", requires |-> {"update-gauge-cache"}],
    [name |-> "build", requires |-> {"update-gauge-cache", "calculator"}],
    [name |-> "orphan-check", requires |-> {"build"}],
    [name |-> "check-reaches", requires |-> {"build"}]>>

StepName == {Steps[i].name : i \in 1..Len(Steps)}

\* Without the cascade: a step behind a skipped one runs.
ShouldSkipFailed(step, results, keep) ==
    ~keep /\ \E r \in step.requires : results[r] = "failed"

\* _should_skip; "none" is a step that was not scheduled.
ShouldSkip(step, results, keep) ==
    /\ ~keep
    /\ \E r \in step.requires : results[r] \in {"failed", "skipped"}

Idle == 0
NoRows == [k \in {} |-> 0]
AtRest == [step |-> Idle, busy |-> FALSE, results |-> [s \in StepName |-> "none"],
           keep |-> FALSE, known |-> [u \in Url |-> {}], todo |-> {},
           rows |-> NoRows, rejected |-> FALSE, refreshed |-> FALSE, exit |-> -1]

Done == Len(Steps) + 1
Current == Steps[run.step]
In(name) == run.step \in 1..Len(Steps) /\ Current.name = name /\ run.busy

\* pipeline: the arguments, then _build_steps.
StartPipeline ==
    /\ run.step = Idle
    /\ budget.runs > 0 /\ budget' = [budget EXCEPT !.runs = @ - 1]
    /\ \E args \in budget.args :   \* --skip-fetch, --continue-on-error
         run' = [AtRest EXCEPT !.step = IF args[1] THEN 2 ELSE 1, !.keep = args[2]]
    /\ UNCHANGED <<now, tables, thin, covered, stale>>

\* _prepare_work_items: the sources of every URL, read once.
KnownSources == [u \in Url |-> urlSources[u] \cap sources]

\* What a step goes through one by one: URLs, the sites of _build_site_map,
\* gauges, calculated sources.
WorkItems(step) ==
    CASE step = "fetch" -> GetUrl
      [] step = "fetch-licor" -> PostUrl
      [] step = "fetch-usgs-ogc" -> UsgsSource \cap sources
      [] step = "calc-rating" -> Rated
      [] step = "calculator" -> CalcSource \cap sources
      [] OTHER -> {}

\* The next step is skipped, or begins with the reads of its short session.
BeginStep ==
    /\ run.step \in 1..Len(Steps) /\ ~run.busy
    /\ IF ShouldSkip(Current, run.results, run.keep)
       THEN run' = [run EXCEPT !.results[Current.name] = "skipped", !.step = @ + 1]
       ELSE run' = [run EXCEPT !.busy = TRUE, !.rejected = FALSE, !.rows = NoRows,
                               !.known = KnownSources, !.todo = WorkItems(Current.name)]
    /\ UNCHANGED <<now, tables, thin, budget, covered, stale>>

\* _execute_step: the outcome of a step, and the next one.
Finish(outcome) ==
    run' = [run EXCEPT !.results[Current.name] = outcome, !.busy = FALSE,
                       !.step = @ + 1, !.todo = {}, !.rows = NoRows, !.known = AtRest.known,
                       !.refreshed = @ \/ (Current.name = "update-gauge-cache" /\ outcome = "ok")]

\* Any step may raise: a locked database, a full disk, a broken build.
StepRaises ==
    /\ run.busy
    /\ budget.raises > 0 /\ budget' = [budget EXCEPT !.raises = @ - 1]
    /\ Finish("failed")
    /\ UNCHANGED <<now, tables, thin, covered, stale>>

\* Payloads: at most MaxBatch readings of the sources S, each recent.
Payload(S) ==
    LET keys == {k \in Key : k[1] \in S /\ k[3] \in (now - 1)..(now + Ahead + 1)}
    IN  UNION {[K -> Value] : K \in UNION {kSubset(i, keys) : i \in 0..MaxBatch}}

SpendPayload == budget.payloads > 0 /\ budget' = [budget EXCEPT !.payloads = @ - 1]

\* What one URL brings, in one transaction.
StoreUrl(u) ==
    /\ \E rows \in Payload(run.known[u]) :
         IF ForeignKeysHold(rows) THEN Store(rows, PairsOf(rows)) ELSE Rollback
    /\ SpendPayload

\* _process_work_item: stations without a source are dropped, and reported, only
\* when the URL had not exactly one source; with one source every reading is
\* that source's.
FetchUrl ==
    /\ In("fetch")
    /\ \E u \in run.todo, unknown \in BOOLEAN :
         /\ run' = [run EXCEPT !.todo = @ \ {u},
                        !.rejected = @ \/ (unknown /\ Cardinality(run.known[u]) # 1)]
         /\ StoreUrl(u)
    /\ UNCHANGED <<now, thin>>

\* _store of fetch-licor: the reply to one request has one station.
FetchLicorUrl ==
    /\ In("fetch-licor")
    /\ \E u \in run.todo : run' = [run EXCEPT !.todo = @ \ {u}] /\ StoreUrl(u)
    /\ UNCHANGED <<now, thin>>

\* No payload, or one that does not parse.
FetchNothing ==
    /\ In("fetch") \/ In("fetch-licor")
    /\ run.todo # {} /\ run' = [run EXCEPT !.todo = {}]
    /\ UNCHANGED <<now, tables, thin, budget, covered, stale>>

\* The exit codes: of fetch for a rejected station, of fetch-licor for an entry of
\* its configuration that it cannot use.
FetchEnds ==
    /\ In("fetch") /\ run.todo = {}
    /\ Finish(IF run.rejected THEN "soft_failed" ELSE "ok")
    /\ UNCHANGED <<now, tables, thin, budget, covered, stale>>

FetchLicorEnds ==
    /\ In("fetch-licor") /\ run.todo = {}
    /\ \/ Finish("ok") /\ UNCHANGED budget
       \/ /\ Finish("soft_failed")
          /\ budget.raises > 0 /\ budget' = [budget EXCEPT !.raises = @ - 1]
    /\ UNCHANGED <<now, tables, thin, covered, stale>>

\* fetch_usgs_ogc: every reading of every site in one transaction; a site
\* whose source is gone makes the step fail.
FetchUsgs ==
    /\ In("fetch-usgs-ogc")
    /\ \E rows \in Payload(run.todo) :
         IF ForeignKeysHold(rows)
         THEN Store(rows, PairsOf(rows)) /\ Finish("ok")
         ELSE Rollback /\ Finish("failed")
    /\ SpendPayload
    /\ UNCHANGED <<now, thin>>

FetchUsgsNothing ==
    /\ In("fetch-usgs-ogc") /\ Finish("ok")
    /\ UNCHANGED <<now, tables, thin, budget, covered, stale>>

-----------------------------------------------------------------------------
(* cli/calc_rating.py and cli/calculator.py: read, then store              *)

\* _fill_gauge_from_flow and _fill_flow_from_gauge of the sources of g: both
\* against the times as they were read; a flow must come out positive.
Fill(g) ==
    LET mine == {k \in DOMAIN obs : linkOf[k[1]] = g}
        stage == {k \in mine : k[2] = "flow" /\ <<k[1], "gauge", k[3]>> \notin mine
                                /\ stageAt[obs[k]] # NoReading}
        flow == {k \in mine : k[2] = "gauge" /\ <<k[1], "flow", k[3]>> \notin mine
                                /\ flowAt[obs[k]] # NoReading /\ flowAt[obs[k]] > 0}
    IN  [j \in {<<k[1], "gauge", k[3]>> : k \in stage}
               \cup {<<k[1], "flow", k[3]>> : k \in flow} |->
            IF j[2] = "gauge" THEN stageAt[obs[<<j[1], "flow", j[3]>>]]
                              ELSE flowAt[obs[<<j[1], "gauge", j[3]>>]]]

RatingReads ==
    /\ In("calc-rating") /\ run.rows = NoRows
    /\ \E g \in run.todo : run' = [run EXCEPT !.todo = @ \ {g}, !.rows = Fill(g)]
    /\ UNCHANGED <<now, tables, thin, budget, covered, stale>>

\* _topo_sort_calc_sources: a source runs once every calculated gauge it reads,
\* other than its own, has had a source of its own run.
CalcGauges(S) == {linkOf[s] : s \in S}
Resolved == CalcGauges((CalcSource \cap sources) \ run.todo)
CalcReady(s) ==
    \A r \in refs[s] : r[1] \in CalcGauges(CalcSource) /\ r[1] # linkOf[s] => r[1] \in Resolved

\* _resolve_refs and _safe_eval: there are references, each with a gauge row; the
\* result, whatever the expression makes of them, is clipped at zero and
\* stamped with the oldest of their times.
CalculatorReads ==
    /\ In("calculator") /\ run.rows = NoRows
    /\ \E s \in run.todo :
         /\ CalcReady(s)
         /\ IF refs[s] # {} /\ \A r \in refs[s] : glatest[r] # NoRow
            THEN \E v \in Value :
                   LET at == Min({glatest[r].at : r \in refs[s]})
                       clipped == IF s \in NegativeOk \/ v > 0 THEN v ELSE 0
                   IN  run' = [run EXCEPT !.todo = @ \ {s},
                                  !.rows = [k \in {<<s, calcType[s], at>>} |-> clipped]]
            ELSE run' = [run EXCEPT !.todo = @ \ {s}]
    /\ UNCHANGED <<now, tables, thin, budget, covered, stale>>

\* The transaction of one gauge or of one calculated source: a failure is
\* logged, rolled back and the loop goes on.
StoreDerived ==
    /\ In("calc-rating") \/ In("calculator")
    /\ run.rows # NoRows
    /\ IF ForeignKeysHold(run.rows)
       THEN Store(run.rows, {<<k[1], k[2]>> : k \in Accepted(run.rows)})
       ELSE Rollback
    /\ run' = [run EXCEPT !.rows = NoRows]
    /\ UNCHANGED <<now, thin, budget>>

DerivedEnds ==
    /\ In("calc-rating") \/ In("calculator")
    /\ run.todo = {} /\ run.rows = NoRows /\ Finish("ok")
    /\ UNCHANGED <<now, tables, thin, budget, covered, stale>>

-----------------------------------------------------------------------------

UpdateGaugeCache ==
    /\ In("update-gauge-cache")
    /\ glatest' = UpdateAllLatestGauges(obs, sources)
    /\ stale' = {}
    /\ Finish("ok")
    /\ UNCHANGED <<now, sources, obs, latest, thin, budget, covered>>

\* build, _orphan_check and _check_reaches read the database; they fail by
\* raising (StepRaises).
ReadOnlyStep ==
    /\ In("build") \/ In("orphan-check") \/ In("check-reaches")
    /\ Finish("ok")
    /\ UNCHANGED <<now, tables, thin, budget, covered, stale>>

Failures == {s \in StepName : run.results[s] \in {"failed", "soft_failed"}}

PipelineEnds ==
    /\ run.step = Done
    /\ run' = [AtRest EXCEPT !.exit = IF Failures # {} /\ ~run.keep THEN 1 ELSE 0]
    /\ UNCHANGED <<now, tables, thin, budget, covered, stale>>

\* The unit is killed or the machine restarts: the open transaction is gone.
PipelineDies ==
    /\ run.step \in 1..Len(Steps)
    /\ budget.deaths > 0 /\ budget' = [budget EXCEPT !.deaths = @ - 1]
    /\ run' = AtRest
    /\ UNCHANGED <<now, tables, thin, covered, stale>>

-----------------------------------------------------------------------------
(* cli/decimate.py                                                         *)

NotThinning == [on |-> FALSE, medium |-> NoTime, archive |-> NoTime,
                todo |-> {}, affected |-> FALSE]

StartDecimate ==
    /\ ~thin.on /\ budget.runs > 0 /\ budget' = [budget EXCEPT !.runs = @ - 1]
    /\ thin' = [on |-> TRUE, medium |-> now - RecentAge, archive |-> now - ArchiveAge,
                todo |-> {k[1] : k \in {j \in DOMAIN obs : j[3] < now - RecentAge}},
                affected |-> FALSE]
    /\ thin'.todo # {}
    /\ UNCHANGED <<now, tables, run, covered, stale>>

\* Without the data type in the partition.
SameSlotAnyType(k, j, w) == k[1] = j[1] /\ k[3] \div w = j[3] \div w

\* PARTITION BY: the readings of a source and type in one period of w ticks.
SameSlot(k, j, w) == k[1] = j[1] /\ k[2] = j[2] /\ k[3] \div w = j[3] \div w
\* ORDER BY ABS(... - the middle); a tie may go either way.
OffMiddle(k, w) == IF 2 * (k[3] % w) >= w THEN 2 * (k[3] % w) - w ELSE w - 2 * (k[3] % w)

\* One reading per slot is kept, of those in the middle.
Survivors(keys, w) ==
    {K \in SUBSET keys :
        /\ \A k \in keys : Cardinality({j \in K : SameSlot(k, j, w)}) = 1
        /\ \A k \in K, j \in keys : SameSlot(k, j, w) => OffMiddle(k, w) <= OffMiddle(j, w)}

\* A refresh that forgets a data type.
AfterThinningFlow(o, s, gone) ==
    [p \in Pair |-> IF gone /\ p = <<s, "flow">> THEN UpdateLatest(o, p) ELSE latest[p]]

AfterThinning(o, s, gone) ==
    [p \in Pair |-> IF gone /\ p[1] = s THEN UpdateLatest(o, p) ELSE latest[p]]

\* One source: both DELETEs and, if anything went, the refresh of all its rows.
DecimateSource ==
    /\ thin.on
    /\ \E s \in thin.todo :
         LET mine == {k \in DOMAIN obs : k[1] = s}
             medium == {k \in mine : k[3] \in thin.archive..(thin.medium - 1)}
             archive == {k \in mine : k[3] < thin.archive}
         IN  \E M \in Survivors(medium, HourTicks), A \in Survivors(archive, LongTicks) :
               LET kept == (DOMAIN obs \ (medium \cup archive)) \cup M \cup A
                   o == [k \in kept |-> obs[k]]
                   gone == kept # DOMAIN obs
               IN  /\ obs' = o
                   /\ latest' = AfterThinning(o, s, gone)
                   /\ thin' = [thin EXCEPT !.todo = @ \ {s}, !.affected = @ \/ gone]
                   /\ stale' = IF gone THEN stale \cup ({linkOf[s]} \X DataType) ELSE stale
    /\ UNCHANGED <<now, sources, glatest, run, budget, covered>>

DecimateEnds ==
    /\ thin.on /\ thin.todo = {}
    /\ thin' = NotThinning
    /\ IF thin.affected
       THEN glatest' = UpdateAllLatestGauges(obs, sources) /\ stale' = {}
       ELSE UNCHANGED <<glatest, stale>>
    /\ UNCHANGED <<now, sources, obs, latest, run, budget, covered>>

DecimateDies ==
    /\ thin.on
    /\ budget.deaths > 0 /\ budget' = [budget EXCEPT !.deaths = @ - 1]
    /\ thin' = NotThinning
    /\ UNCHANGED <<now, tables, run, covered, stale>>

-----------------------------------------------------------------------------

\* sync-metadata deletes a source: its observations are purged first, its
\* source rows cascade, a gauge row that named it keeps its numbers without it.
RemoveSource ==
    /\ \E s \in sources :
         /\ sources' = sources \ {s}
         /\ obs' = [k \in {j \in DOMAIN obs : j[1] # s} |-> obs[k]]
         /\ latest' = [p \in Pair |-> IF p[1] = s THEN NoRow ELSE latest[p]]
         /\ glatest' = [p \in GaugePair |->
                IF glatest[p].source = s THEN [glatest[p] EXCEPT !.source = NoSource] ELSE glatest[p]]
         /\ stale' = stale \cup ({linkOf[s]} \X DataType)
         /\ covered' = {c \in covered : c[1] # s}
    /\ budget.removals > 0 /\ budget' = [budget EXCEPT !.removals = @ - 1]
    /\ UNCHANGED <<now, run, thin>>

Advance ==
    /\ \E d \in Jumps : now' = now + d /\ now' <= MaxTime
    /\ budget.jumps > 0 /\ budget' = [budget EXCEPT !.jumps = @ - 1]
    /\ stale' = GaugePair
    /\ UNCHANGED <<tables, run, thin, covered>>

Init ==
    /\ now = FirstTime /\ sources = Source /\ obs = NoRows
    /\ latest = [p \in Pair |-> NoRow] /\ glatest = [p \in GaugePair |-> NoRow]
    /\ run = AtRest /\ thin = NotThinning
    /\ budget \in Budgets
    /\ covered = {} /\ stale = {}

Pipeline ==
    \/ StartPipeline \/ BeginStep \/ StepRaises \/ FetchUrl \/ FetchLicorUrl
    \/ FetchNothing \/ FetchEnds \/ FetchLicorEnds
    \/ FetchUsgs \/ FetchUsgsNothing \/ RatingReads \/ CalculatorReads \/ StoreDerived
    \/ DerivedEnds \/ UpdateGaugeCache \/ ReadOnlyStep \/ PipelineEnds \/ PipelineDies

Decimate == StartDecimate \/ DecimateSource \/ DecimateEnds \/ DecimateDies

Next == Pipeline \/ Decimate \/ RemoveSource \/ Advance

Spec == Init /\ [][Next]_vars

-----------------------------------------------------------------------------
(* Properties                                                              *)

\* Whatever interleaving of the pipeline, decimate and sync, and wherever one
\* of them dies, a latest_observation row that a committed state shows is what
\* the source's observations say (update_latest runs in the transaction that
\* changes them, cache.py:35 and decimate.py:243).
SourceCacheExact ==
    \A p \in Pair : latest[p] = IF p[1] \in sources THEN UpdateLatest(obs, p) ELSE NoRow

\* A gauge row that was refreshed since the clock moved, since decimate and
\* since a source was removed is what the observations of all the gauge's
\* sources say, whichever of the two refreshes wrote it (cache.py:149, 320).
GaugeCacheExact ==
    \A p \in GaugePair \ stale :
        glatest[p] \in {UpdateLatestGauge(obs, sources, p), BulkRow(obs, sources, p)}

\* Thinning, however often it runs, is interrupted and meets readings that
\* arrive late, never leaves a source without a reading for a six-hour period
\* in which it had one (decimate.py:20).
HistoryCovered == covered = {Period(k) : k \in DOMAIN obs}

\* What a run that ended tells systemd (pipeline.py:260): it fails exactly if
\* a step failed, hard or soft; the site is rebuilt unless one of the steps that
\* lead to it failed hard, and then from a gauge cache of this run.
Upstream == StepName \ {"build", "orphan-check", "check-reaches"}
PipelineVerdict ==
    [][PipelineEnds =>
        /\ run'.exit = 1 <=> ~run.keep /\ \E s \in StepName : run.results[s] \notin {"ok", "none"}
        /\ run.results["build"] = "skipped"
             <=> ~run.keep /\ \E s \in Upstream : run.results[s] = "failed"
        /\ run.results["build"] = "ok" /\ ~run.keep => run.refreshed]_vars

=============================================================================
