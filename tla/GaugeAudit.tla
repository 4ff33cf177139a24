----------------------------- MODULE GaugeAudit -----------------------------
(***************************************************************************)
(* levels audit-gauges (gauge_audit/): refresh the caches of the USGS and   *)
(* NWPS sites, look for sites near reaches without a gauge, and for feeds   *)
(* that stopped or started, twice a month.                                  *)
(*                                                                         *)
(* The two halves have nothing in common: in a behaviour either the feeds   *)
(* of a gauge come and go and the sites stand still, or the clock stands    *)
(* still and the sites are any.                                             *)
(***************************************************************************)
EXTENDS Integers, FiniteSets, FiniteSetsExt

CONSTANTS
    Days,       \* --days
    MaxGap,     \* how far apart the timer's runs may be
    MaxTick,   \* bound
    MaxFlips    \* bound: how often feeds come and go

ASSUME AuditAssumption == Days \in Nat \ {0} /\ MaxGap \in Nat \ {0} /\ {MaxTick, MaxFlips} \subseteq Nat

VARIABLES
    now,
    alive,    \* which feeds deliver
    flips,
    seen,     \* observation: per feed the times
    world,    \* the sites there are and how they lie to the reaches
    cache,    \* usgs_site and nwps_site: what the cache knows of a site
    step,     \* of the audit
    report,   \* until time moves
    audits    \* history: when the last one was, when a stop was last reported, and
              \* whether the refresh of none failed

uvars == <<now, alive, flips, seen, world, cache, step, report, audits>>

\* One gauge with two sources; the first has a gauge height as well.
Flow == {"flow 1", "flow 2"}
Feed == Flow \cup {"gauge 1"}
TimesOf(feeds) == UNION {seen[f] : f \in feeds}
Never == -100
LastOf(feeds) == Max(TimesOf(feeds) \cup {Never})

-----------------------------------------------------------------------------
(* The sites: refresh_caches                                               *)

Service == {"usgs", "nwps"}
Reach == {"r1", "r2"}
\* How a site lies to a reach: on it, near, at more than --candidate-miles.
Lie == [miles : {0, 2, 4}, sameName : BOOLEAN, ignored : BOOLEAN]
Nowhere == [miles |-> 4, sameName |-> FALSE, ignored |-> FALSE]

\* What is known of a site's data: no date, one of the last 30 days, an older one.
Dates == {"none", "recent", "old"}
Lies == {[r1 |-> a, r2 |-> b] : a \in Lie, b \in [miles : {2}, sameName : BOOLEAN, ignored : BOOLEAN]}
Worlds == [of : Service, known : BOOLEAN, date : Dates, lies : Lies, gauged : {{}, {"r1"}}]
PlainWorld == [of |-> "usgs", known |-> TRUE, date |-> "none", lies |-> [r \in Reach |-> Nowhere],
               gauged |-> {}]
Uncached == [there |-> FALSE, date |-> "none"]

\* fetch_usgs_sites, the first commit: INSERT OR REPLACE takes the dates away.
RefreshSites ==
    /\ step = "idle" /\ audits.last < now /\ step' = "dates"
    /\ cache' = IF world.of = "usgs" THEN [there |-> TRUE, date |-> "none"] ELSE cache
    /\ UNCHANGED <<now, alive, flips, seen, world, report, audits>>

\* The second commit, when the time series' metadata have come.
RefreshDates ==
    /\ step = "dates" /\ step' = "nwps"
    /\ cache' = IF world.of = "usgs" THEN [cache EXCEPT !.date = world.date] ELSE cache
    /\ UNCHANGED <<now, alive, flips, seen, world, report, audits>>

\* fetch_nwps_sites.
RefreshNwps ==
    /\ step = "nwps" /\ step' = "report"
    /\ cache' = IF world.of = "nwps" THEN [there |-> TRUE, date |-> "none"] ELSE cache
    /\ UNCHANGED <<now, alive, flips, seen, world, report, audits>>

\* --no-refresh
SkipRefresh ==
    /\ step = "idle" /\ audits.last < now /\ step' = "report"
    /\ UNCHANGED <<now, alive, flips, seen, world, cache, report, audits>>

\* A service gives up: the unit fails, what was committed stays.
RefreshFails ==
    /\ step \in {"idle", "dates", "nwps"} /\ step' = "idle"
    /\ audits' = [audits EXCEPT !.inTime = FALSE]
    /\ UNCHANGED <<now, alive, flips, seen, world, cache, report>>

-----------------------------------------------------------------------------
(* find_new_usgs_gauges, find_new_nwps_gauges, find_candidates_near_reaches  *)

NewSite == cache.there /\ ~world.known /\ (world.of = "usgs" => cache.date = "recent")

\* _match_candidate
Matches(r) ==
    /\ r \notin world.gauged /\ ~world.lies[r].ignored
    /\ world.lies[r].miles <= 3 /\ (world.lies[r].miles > 0 => world.lies[r].sameName)

\* One reach per site, the nearest that matches.
Candidate ==
    LET best == {r \in Reach : Matches(r) /\ \A q \in Reach : Matches(q) =>
                                                world.lies[r].miles <= world.lies[q].miles}
    IN  IF ~NewSite \/ best = {} THEN {} ELSE {CHOOSE r \in best : TRUE}

-----------------------------------------------------------------------------
(* check_data_status                                                       *)

\* Stored times have a fraction and the bounds have none, so that a time equal
\* to a bound is the greater text: "> ?" is >= and "< ?" is <.
Window(feeds) == {t \in TimesOf(feeds) : t >= now - 2 * Days}
Before(times, t) == times = {} \/ Max(times) < t

\* Slip: nothing newer than the cutoff is looked at.
StoppedOfOld == {t \in Window(Flow) : t < now - Days} # {}

\* Flow that ended within the window before the last one, and no gauge height either.
Stopped == /\ Window(Flow) # {} /\ Max(Window(Flow)) < now - Days
           /\ Before(Window({"gauge 1"}), now - Days)

\* Flow that began within the window, after at least a window without, and there
\* was flow before that.
Started == /\ Window(Flow) # {} /\ Min(Window(Flow)) >= now - Days
           /\ \E t \in TimesOf(Flow) : t < now - 2 * Days

\* From latest_observation, for the gauges of reaches that are shown: this is one.
Stale == Before(TimesOf(Feed), now - Days)

\* What is printed and mailed.
Digest == [at |-> now, stopped |-> Stopped, started |-> Started, stale |-> Stale,
           candidates |-> Candidate, cache |-> cache]

\* run_audit, after the refresh; a mail that fails changes nothing.
Report ==
    /\ step = "report" /\ step' = "idle"
    /\ report' = Digest
    /\ audits' = [audits EXCEPT !.last = now, !.stop = IF Stopped THEN now ELSE @]
    /\ UNCHANGED <<now, alive, flips, seen, world, cache>>

-----------------------------------------------------------------------------

NoReport == [at |-> Never]

\* A feed that delivers does so at every tick; a new gauge has no history.
AuditInit ==
    /\ alive = Feed /\ cache = Uncached /\ step = "idle" /\ report = NoReport
    /\ seen \in {[f \in Feed |-> {0}], [f \in Feed |-> {}]}
    /\ \/ now = 0 /\ flips = 0 /\ world = PlainWorld
       \/ now = MaxTick /\ flips = MaxFlips /\ world \in Worlds
    /\ audits = [last |-> Max({now - 1, 0}), stop |-> Never, inTime |-> now = 0]

\* Any of them start or stop.
FeedsChange ==
    /\ step = "idle" /\ flips < MaxFlips /\ flips' = flips + 1
    /\ alive' \in SUBSET Feed /\ alive' # alive
    /\ UNCHANGED <<now, seen, world, cache, step, report, audits>>

Tick ==
    /\ step = "idle" /\ now < MaxTick /\ now - audits.last < MaxGap
    /\ now' = now + 1
    /\ seen' = [f \in Feed |-> IF f \in alive THEN seen[f] \cup {now'} ELSE seen[f]]
    /\ report' = NoReport
    /\ UNCHANGED <<alive, flips, world, cache, step, audits>>

AuditNext ==
    \/ RefreshSites \/ RefreshDates \/ RefreshNwps \/ SkipRefresh \/ RefreshFails
    \/ Report \/ Tick \/ FeedsChange

AuditSpec == AuditInit /\ [][AuditNext]_uvars

-----------------------------------------------------------------------------
(* Properties                                                              *)

\* Whatever the feeds did and whenever the audits ran, a report is true: a gauge
\* that is said to have stopped (audit.py:330, from observation) is silent in every
\* source, is stale as well (audit.py:395, from latest_observation) and has not
\* started; one that is said to have started was quiet for Days before; a site is
\* proposed for the nearest reach it fits, whatever was ignored about others.  With
\* audits at most Days apart, none of which failed, a gauge whose sources fell
\* silent together is reported once at least.
AuditTruthful ==
    report # NoReport =>
      /\ report.stopped => /\ {t \in TimesOf(Feed) : t >= report.at - Days} = {}
                           /\ report.stale
                           /\ ~report.started
      /\ report.started => \E t \in TimesOf(Flow) :
            /\ t < report.at - 2 * Days
            /\ \A d \in t + 1 .. t + Days : d \notin TimesOf(Flow)
      /\ (audits.inTime /\ MaxGap <= Days /\ LastOf(Flow) >= LastOf(Feed) /\ LastOf(Flow) # Never
            /\ report.at - LastOf(Flow) >= 2 * Days) => audits.stop > LastOf(Flow)
      /\ \A r \in report.candidates : /\ ~world.known
                                     /\ world.of = "usgs" => report.cache.date = "recent"
                                     /\ \A q \in Reach : world.lies[q].miles < world.lies[r].miles =>
                                           q \in world.gauged \/ world.lies[q].ignored \/ ~world.lies[q].sameName
      /\ report.candidates = {} /\ report.cache.there /\ ~world.known
           /\ (world.of = "usgs" => report.cache.date = "recent") =>
              \A r \in Reach : ~Matches(r)
=============================================================================
