---------------------------- MODULE KayakDeploy ----------------------------
(***************************************************************************)
(* deploy/kayak-deploy.sh: a release (an engine commit, a dataset commit,  *)
(* the host's configuration) is staged, then activated around stopped      *)
(* consumers, and rolled back when a step of the activation fails.  Beside *)
(* it: the schema migrations it runs (cli/migrate.py), the timers and      *)
(* their services, the web site's writes, the death of the process and     *)
(* reboots.                                                                *)
(*                                                                         *)
(* What the five targets of a deploy hold is named by the release it came  *)
(* from: the link `current', the docroot, PHP's config, the metadata and   *)
(* the geometry sidecars in the database.  The schema is a number of       *)
(* recorded migrations and of DDL statements of the next one.              *)
(***************************************************************************)
EXTENDS Naturals, FiniteSets

CONSTANTS
    Release,      \* release ids
    NoRelease,    \* nothing there yet
    Mixed,        \* a docroot that a build is replacing file by file
    Unit,         \* the units of KAYAK_UNITS, each a timer and its service
    Builder,      \* the unit whose service rebuilds the docroot: the pipeline
    Deployer,     \* processes of kayak-deploy.sh
    Enabled,      \* the units that are switched on: the others are dormant
    Write,        \* rows the web site may write
    Level,        \* Level[r]: how many migrations engine r knows
    Statements,   \* DDL statements in one migration
    Keep,         \* KAYAK_KEEP_RELEASES
    MaxDeploys,   \* bound: runs of the script
    MaxDeaths     \* bound: signals, kills and reboots

ASSUME DeployAssumption ==
    /\ NoRelease \notin Release
    /\ Mixed \notin Release \cup {NoRelease}
    /\ Builder \in Unit /\ Enabled \subseteq Unit
    /\ Level \in [Release -> Nat]
    /\ Statements \in Nat \ {0}
    /\ Keep \in Nat /\ MaxDeploys \in Nat /\ MaxDeaths \in Nat

VARIABLES
    host,         \* what the steps of the script change on the machine
    dir,          \* [Release -> {"absent", "partial", "whole"}], releases/<id>
    mtime,        \* [Release -> Nat], the age order `ls -t' sees
    service,      \* [Unit -> what its oneshot service executes]
    dep,          \* [Deployer -> the script's local state]
    alarm,        \* someone has to act: a restore failed, a run died, or the
                  \* first activation did not come up
    deploys, deaths

vars == <<host, dir, mtime, service, dep, alarm, deploys, deaths>>

MaybeRelease == Release \cup {NoRelease}

\* The schema: recorded migrations and DDL statements of the next one.
Database == [level : Nat, partial : Nat, meta : MaybeRelease,
             geom : MaybeRelease, rows : SUBSET Write]

Host == [current : MaybeRelease, docroot : MaybeRelease \cup {Mixed},
         config : MaybeRelease, db : Database, active : SUBSET Unit,
         maintenance : BOOLEAN]

Resting == [code |-> NoRelease, building |-> FALSE]

\* The steps under the ERR trap, and those of rollback().
Armed == {"maintenance", "quiesce", "drain", "backup", "migrate", "sync",
          "sidecars", "build", "building", "install", "relink", "health"}
RollbackPc == {"restore_config", "restore_db", "restore_link",
               "rebuild", "resume_old"}
Pc == {"idle", "staging", "staged", "resume", "prune"} \cup Armed \cup RollbackPc

\* Slips: a flag is set after the step it covers.
MutatedLate(at) == at \in {"sync", "sidecars", "build", "building",
                           "install", "relink", "health"}
ConfigInstalledLate(at) == at = "health"

\* MUTATED, DOCROOT_BUILT, CONFIG_INSTALLED and SWITCHED when step `at' fails.
Mutated(at) == at \in {"migrate", "sync", "sidecars", "build", "building",
                       "install", "relink", "health"}
DocrootBuilt(at) == at \in {"building", "install", "relink", "health"}
ConfigInstalled(at) == at \in {"relink", "health"}
Switched(at) == at = "health"

EmptyDb == [level |-> 0, partial |-> 0, meta |-> NoRelease, geom |-> NoRelease,
            rows |-> {}]

\* `before' is the host when the trap is armed; the script does not have it.
Idle == [pc |-> "idle", at |-> "idle", rel |-> NoRelease, prev |-> NoRelease,
         snap |-> {}, backup |-> EmptyDb, oldConfig |-> NoRelease,
         migrating |-> FALSE,
         before |-> [current |-> NoRelease, docroot |-> NoRelease,
                     config |-> NoRelease, db |-> EmptyDb, active |-> {},
                     maintenance |-> FALSE]]

-----------------------------------------------------------------------------
(* The host before the first run of the script: a virgin one, or one that  *)
(* serves an activated release.                                            *)

Init ==
    /\ \E r \in MaybeRelease :
          /\ host = [current |-> r, docroot |-> r, config |-> r,
                     db |-> [level |-> IF r = NoRelease THEN 0 ELSE Level[r],
                             partial |-> 0, meta |-> r, geom |-> r, rows |-> {}],
                     active |-> Enabled, maintenance |-> FALSE]
          /\ dir = [s \in Release |-> IF s = r THEN "whole" ELSE "absent"]
    /\ mtime = [s \in Release |-> 0]
    /\ service = [u \in Unit |-> Resting]
    /\ dep = [d \in Deployer |-> Idle]
    /\ alarm = FALSE
    /\ deploys = 0 /\ deaths = 0

\* Deployer d goes from one step to the next and leaves the host as h.
Step(d, from, to, h) ==
    /\ dep[d].pc = from
    /\ dep' = [dep EXCEPT ![d].pc = to]
    /\ host' = h
    /\ UNCHANGED <<dir, mtime, service, alarm, deploys, deaths>>

\* The run is over.
End(d, from, h) ==
    /\ dep[d].pc = from
    /\ dep' = [dep EXCEPT ![d] = Idle]
    /\ host' = h
    /\ UNCHANGED <<dir, mtime, service, deploys, deaths>>

-----------------------------------------------------------------------------
(* validate and stage                                                      *)

\* Refs verified, wheel built, dataset validated: the release directory is
\* filled, unless a whole one with the same identity is there to be verified.
Stage(d, r) ==
    /\ dep[d].pc = "idle"
    /\ deploys < MaxDeploys
    /\ deploys' = deploys + 1
    /\ LET reused == dir[r] = "whole"
       IN  /\ dep' = [dep EXCEPT ![d].pc = IF reused THEN "staged" ELSE "staging",
                                 ![d].rel = r]
           /\ dir' = IF reused THEN dir ELSE [dir EXCEPT ![r] = "partial"]
           /\ mtime' = IF reused THEN mtime ELSE [mtime EXCEPT ![r] = deploys']
    /\ UNCHANGED <<host, service, alarm, deaths>>

\* release.json is written last.
FinishStage(d) ==
    /\ dep[d].pc = "staging"
    /\ dir' = [dir EXCEPT ![dep[d].rel] = "whole"]
    /\ dep' = [dep EXCEPT ![d].pc = "staged"]
    /\ UNCHANGED <<host, mtime, service, alarm, deploys, deaths>>

\* A failure before the trap is armed, --stage-only, a reused release that
\* fails its verification, or the gate: units or web server not cut over.
Refuse(d) ==
    /\ \E pc \in {"staging", "staged"} : End(d, pc, host)
    /\ UNCHANGED alarm

-----------------------------------------------------------------------------
(* activate                                                                *)

\* PREV_TARGET is read, the trap armed.
Arm(d) ==
    /\ dep[d].pc = "staged"
    /\ dep' = [dep EXCEPT ![d].pc = "maintenance", ![d].prev = host.current,
                          ![d].before = host]
    /\ UNCHANGED <<host, dir, mtime, service, alarm, deploys, deaths>>

\* Slip: the units are listed after they were stopped.
EnterMaintenanceBlind(d) ==
    /\ dep[d].pc = "maintenance"
    /\ host' = [host EXCEPT !.maintenance = TRUE]
    /\ dep' = [dep EXCEPT ![d].pc = "quiesce"]
    /\ UNCHANGED <<dir, mtime, service, alarm, deploys, deaths>>

\* The flag, then the list of the units that are active: ACTIVE_UNITS.
EnterMaintenance(d) ==
    /\ dep[d].pc = "maintenance"
    /\ host' = [host EXCEPT !.maintenance = TRUE]
    /\ dep' = [dep EXCEPT ![d].pc = "quiesce", ![d].snap = host.active]
    /\ UNCHANGED <<dir, mtime, service, alarm, deploys, deaths>>

\* Timers are stopped before their services; a service is asked to stop.
StopUnits(d) == Step(d, "quiesce", "drain", [host EXCEPT !.active = {}])

\* Slip: timers are stopped, their services not awaited.
DrainedTimersOnly(d) == Step(d, "drain", "backup", host)

\* Wait until no service runs any more.
Drained(d) ==
    /\ \A u \in Unit : service[u] = Resting
    /\ Step(d, "drain", "backup", host)

\* Slip: the units are left stopped.
ResumedFlagOnly(d) == [host EXCEPT !.maintenance = FALSE]
\* What ACTIVE_UNITS lists is started, the flag removed.
Resumed(d) == [host EXCEPT !.active = @ \cup dep[d].snap, !.maintenance = FALSE]

\* Slip: the exit is left to the trap, which it does not fire.
DrainTimeoutBare(d) ==
    /\ \E u \in Unit : service[u] # Resting
    /\ End(d, "drain", host)
    /\ UNCHANGED alarm

\* KAYAK_DRAIN_TIMEOUT: the explicit exit does not fire the trap, so the
\* script backs out by hand.
DrainTimeout(d) ==
    /\ \E u \in Unit : service[u] # Resting
    /\ End(d, "drain", Resumed(d))
    /\ UNCHANGED alarm

Backup(d) ==
    /\ dep[d].pc = "backup"
    /\ dep' = [dep EXCEPT ![d].pc = "migrate", ![d].backup = host.db]
    /\ UNCHANGED <<host, dir, mtime, service, alarm, deploys, deaths>>

\* apply_pending.  sqlite3 opens a transaction before INSERT, UPDATE and DELETE
\* only, so each DDL statement is on disk at once and the version is recorded
\* after the last.  A statement that an earlier run executed fails: the table
\* or column is there.
MigrateStatement(d) ==
    /\ dep[d].pc = "migrate"
    /\ host.db.level < Level[dep[d].rel]
    /\ host.db.partial < Statements
    /\ host.db.partial > 0 => dep[d].migrating
    /\ host' = [host EXCEPT !.db.partial = @ + 1]
    /\ dep' = [dep EXCEPT ![d].migrating = TRUE]
    /\ UNCHANGED <<dir, mtime, service, alarm, deploys, deaths>>

MigrateRecord(d) ==
    /\ dep[d].pc = "migrate" /\ dep[d].migrating
    /\ host.db.partial = Statements
    /\ host' = [host EXCEPT !.db.level = @ + 1, !.db.partial = 0]
    /\ dep' = [dep EXCEPT ![d].migrating = FALSE]
    /\ UNCHANGED <<dir, mtime, service, alarm, deploys, deaths>>

\* A database ahead of the engine has nothing pending.
MigrateDone(d) ==
    /\ dep[d].pc = "migrate" /\ host.db.level >= Level[dep[d].rel]
    /\ Step(d, "migrate", "sync", host)

\* sync-metadata is one transaction.
Sync(d) == Step(d, "sync", "sidecars", [host EXCEPT !.db.meta = dep[d].rel])

ImportSidecars(d) == Step(d, "sidecars", "build", [host EXCEPT !.db.geom = dep[d].rel])

BeginBuild(d) == Step(d, "build", "building", [host EXCEPT !.docroot = Mixed])

EndBuild(d) == Step(d, "building", "install", [host EXCEPT !.docroot = dep[d].rel])

\* The root wrapper merges the secrets and renames a temporary file.
InstallConfig(d) ==
    /\ dep[d].pc = "install"
    /\ host' = [host EXCEPT !.config = dep[d].rel]
    /\ dep' = [dep EXCEPT ![d].pc = "relink", ![d].oldConfig = host.config]
    /\ UNCHANGED <<dir, mtime, service, alarm, deploys, deaths>>

Relink(d) == Step(d, "relink", "health", [host EXCEPT !.current = dep[d].rel])

Healthy(d) == Step(d, "health", "resume", host)

Resume(d) ==
    /\ dep[d].pc = "resume"
    /\ host' = Resumed(d)
    /\ dep' = [dep EXCEPT ![d].pc = "prune"]
    /\ alarm' = (host.db.partial > 0)
    /\ UNCHANGED <<dir, mtime, service, deploys, deaths>>

\* Slip: only the age and the previous release are looked at.
PrunableByAge(d) ==
    LET others == {r \in Release : dir[r] # "absent"} \ {dep[d].prev}
    IN  {r \in others : Cardinality({s \in others : mtime[s] > mtime[r]}) >= Keep}

\* All but the Keep newest, `current' and the previous release.
Prunable(d) ==
    LET others == {r \in Release : dir[r] # "absent"} \ {host.current, dep[d].prev}
    IN  {r \in others : Cardinality({s \in others : mtime[s] > mtime[r]}) >= Keep}

Prune(d) ==
    /\ dep[d].pc = "prune"
    /\ dir' = [r \in Release |-> IF r \in Prunable(d) THEN "absent" ELSE dir[r]]
    /\ dep' = [dep EXCEPT ![d] = Idle]
    /\ UNCHANGED <<host, mtime, service, alarm, deploys, deaths>>

-----------------------------------------------------------------------------
(* rollback(): the ERR trap                                                *)

\* The commands that stop and await the units cannot fail the script.
Fail(d) ==
    /\ dep[d].pc \in Armed \ {"quiesce", "drain"}
    /\ dep' = [dep EXCEPT ![d].pc = "restore_config", ![d].at = dep[d].pc]
    /\ UNCHANGED <<host, dir, mtime, service, alarm, deploys, deaths>>

\* One step of the rollback: it is not needed, is done, or fails with a message.
Restore(d, from, to, needed, h) ==
    /\ dep[d].pc = from
    /\ dep' = [dep EXCEPT ![d].pc = to]
    /\ \/ needed /\ host' = h /\ UNCHANGED alarm
       \/ needed /\ alarm' = TRUE /\ UNCHANGED host
       \/ ~ needed /\ UNCHANGED <<host, alarm>>
    /\ UNCHANGED <<dir, mtime, service, deploys, deaths>>

\* There is no copy of a config that did not exist: the new one stays.
RestoreConfig(d) ==
    Restore(d, "restore_config", "restore_db",
            ConfigInstalled(dep[d].at) /\ dep[d].oldConfig # NoRelease,
            [host EXCEPT !.config = dep[d].oldConfig])

RestoreDb(d) ==
    Restore(d, "restore_db", "restore_link", Mutated(dep[d].at),
            [host EXCEPT !.db = dep[d].backup])

\* A virgin host stays in maintenance with its units stopped.
LeaveDown(d) ==
    /\ dep[d].prev = NoRelease
    /\ End(d, "restore_link",
           IF Switched(dep[d].at) THEN [host EXCEPT !.current = NoRelease] ELSE host)
    /\ alarm' = TRUE

RestoreLink(d) ==
    /\ dep[d].prev # NoRelease
    /\ Step(d, "restore_link", "rebuild", [host EXCEPT !.current = dep[d].prev])

\* With the previous release's engine, dataset and site_url.
RebuildDocroot(d) ==
    Restore(d, "rebuild", "resume_old", DocrootBuilt(dep[d].at),
            [host EXCEPT !.docroot = dep[d].prev])

ResumeOld(d) ==
    /\ End(d, "resume_old", Resumed(d))
    /\ UNCHANGED alarm

-----------------------------------------------------------------------------
(* around the script                                                       *)

\* A timer starts its service: the code is resolved through `current'.
StartService(u) ==
    /\ u \in host.active /\ service[u] = Resting /\ host.current # NoRelease
    /\ service' = [service EXCEPT ![u].code = host.current]
    /\ UNCHANGED <<host, dir, mtime, dep, alarm, deploys, deaths>>

\* The pipeline builds into the docroot that is served.
ServiceBuilds(u) ==
    /\ u = Builder /\ service[u].code # NoRelease /\ ~ service[u].building
    /\ service' = [service EXCEPT ![u].building = TRUE]
    /\ host' = [host EXCEPT !.docroot = Mixed]
    /\ UNCHANGED <<dir, mtime, dep, alarm, deploys, deaths>>

\* It ends, or `systemctl stop' ends it, possibly in the middle of a build.
ServiceEnds(u) ==
    /\ service[u] # Resting
    /\ service' = [service EXCEPT ![u] = Resting]
    /\ \/ UNCHANGED host
       \/ service[u].building /\ host' = [host EXCEPT !.docroot = service[u].code]
    /\ UNCHANGED <<dir, mtime, dep, alarm, deploys, deaths>>

\* A request of an editor.  PHP does not look at the maintenance flag.
WebWrite(w) ==
    /\ w \notin host.db.rows
    /\ host' = [host EXCEPT !.db.rows = @ \cup {w}]
    /\ UNCHANGED <<dir, mtime, service, dep, alarm, deploys, deaths>>

\* A signal or a kill: neither runs the ERR trap.
Die(d) ==
    /\ deaths < MaxDeaths
    /\ dep[d].pc # "idle"
    /\ dep' = [dep EXCEPT ![d] = Idle]
    /\ alarm' = (alarm \/ dep[d].pc \notin {"staging", "staged", "prune"})
    /\ deaths' = deaths + 1
    /\ UNCHANGED <<host, dir, mtime, service, deploys>>

\* Enabled timers start with the host.
Reboot ==
    /\ deaths < MaxDeaths
    /\ dep' = [d \in Deployer |-> Idle]
    /\ service' = [u \in Unit |-> Resting]
    /\ host' = [host EXCEPT !.active = Enabled]
    /\ alarm' = (alarm \/ \E d \in Deployer :
                    dep[d].pc \notin {"idle", "staging", "staged", "prune"})
    /\ deaths' = deaths + 1
    /\ UNCHANGED <<dir, mtime, deploys>>

-----------------------------------------------------------------------------
Forward(d) ==
    \/ FinishStage(d) \/ Refuse(d) \/ Arm(d)
    \/ EnterMaintenance(d) \/ StopUnits(d) \/ Drained(d) \/ DrainTimeout(d)
    \/ Backup(d) \/ MigrateStatement(d) \/ MigrateRecord(d) \/ MigrateDone(d)
    \/ Sync(d) \/ ImportSidecars(d) \/ BeginBuild(d) \/ EndBuild(d)
    \/ InstallConfig(d) \/ Relink(d) \/ Healthy(d) \/ Resume(d) \/ Prune(d)

Backward(d) ==
    \/ Fail(d) \/ RestoreConfig(d) \/ RestoreDb(d) \/ LeaveDown(d)
    \/ RestoreLink(d) \/ RebuildDocroot(d) \/ ResumeOld(d)

Next ==
    \/ \E d \in Deployer :
          (\E r \in Release : Stage(d, r)) \/ Forward(d) \/ Backward(d) \/ Die(d)
    \/ \E u \in Unit : StartService(u) \/ ServiceBuilds(u) \/ ServiceEnds(u)
    \/ \E w \in Write : WebWrite(w)
    \/ Reboot

Spec == Init /\ [][Next]_vars

\* The script goes on; a service ends (Type=oneshot with a time limit).
FairSpec ==
    /\ Spec
    /\ \A d \in Deployer : WF_vars(Forward(d) \/ Backward(d))
    /\ \A u \in Unit : WF_vars(ServiceEnds(u))

-----------------------------------------------------------------------------
(* Properties                                                              *)

DepType ==
    [pc : Pc, at : Armed \cup {"idle"}, rel : MaybeRelease, prev : MaybeRelease,
     snap : SUBSET Unit, backup : Database, oldConfig : MaybeRelease,
     migrating : BOOLEAN, before : Host]

TypeOK ==
    /\ host \in Host
    /\ dir \in [Release -> {"absent", "partial", "whole"}]
    /\ mtime \in [Release -> Nat]
    /\ service \in [Unit -> [code : MaybeRelease, building : BOOLEAN]]
    /\ dep \in [Deployer -> DepType]
    /\ alarm \in BOOLEAN
    /\ deploys \in 0..MaxDeploys /\ deaths \in 0..MaxDeaths

\* `current', and the release a rollback would go back to, are never a
\* directory that is missing or half filled, whatever is staged, reused,
\* pruned, interrupted or rolled back (atomic_relink, prune_releases).
CurrentWhole ==
    /\ host.current # NoRelease => dir[host.current] = "whole"
    /\ \A d \in Deployer : dep[d].pc \in Armed \cup RollbackPc /\ dep[d].prev # NoRelease
                              => dir[dep[d].prev] = "whole"

\* From the backup to the restart of the units, no service of theirs runs:
\* the database is not mutated, copied or restored under a consumer.
Mutating(d) == dep[d].pc \in (Armed \ {"maintenance", "quiesce", "drain"}) \cup {"resume"}
NoConsumerUnderMutation ==
    (\E d \in Deployer : Mutating(d)) => \A u \in Unit : service[u] = Resting

\* Unless someone has been told to act, the host is in one piece whenever no
\* activation is under way: link, config, metadata and sidecars come from one
\* release, the docroot from it too or from an interrupted build, no migration
\* is half done, and a running service executes that release.
Paired ==
    LET r == host.current
    IN  /\ host.config = r /\ host.db.meta = r /\ host.db.geom = r
        /\ host.docroot \in {r, Mixed}
        /\ host.db.partial = 0
        /\ r # NoRelease => host.db.level >= Level[r]
        /\ \A u \in Unit : service[u].code \in {r, NoRelease}
PairedAtRest ==
    (~ alarm /\ \A d \in Deployer : dep[d].pc \in {"idle", "staging", "staged", "prune"})
        => Paired

\* An activation that succeeds leaves everything to its release, and the units
\* as it found them, whatever state an earlier run had left behind.
SuccessActivates ==
    [][\A d \in Deployer : Resume(d) =>
          LET r == dep[d].rel
          IN  /\ host'.current = r /\ host'.docroot = r /\ host'.config = r
              /\ host'.db.meta = r /\ host'.db.geom = r /\ host'.db.level >= Level[r]
              /\ host'.active = dep[d].before.active]_vars

\* A rollback without a complaint gives back what was there when the trap was
\* armed: link, config, schema, metadata, sidecars, units.  The docroot is the
\* previous release's, or was not touched; web writes may be lost, never
\* invented.
RollbackRestores ==
    [][\A d \in Deployer : ResumeOld(d) /\ ~ alarm =>
          LET was == dep[d].before
          IN  /\ host'.current = was.current /\ host'.config = was.config
              /\ [host'.db EXCEPT !.rows = {}] = [was.db EXCEPT !.rows = {}]
              /\ was.db.rows \subseteq host'.db.rows
              /\ host'.docroot \in {was.current, Mixed}
              /\ DocrootBuilt(dep[d].at) => host'.docroot = was.current
              /\ host'.active = was.active]_vars

\* A deploy is one switch of the host, or none, or someone is told: until it has
\* succeeded the host is what it was when the trap was armed (activate_release,
\* rollback; with several deployers this is not so).
UnderWay(d) == dep[d].pc \in Armed \cup RollbackPc \cup {"resume"}
View(h) == [current |-> h.current, config |-> h.config, meta |-> h.db.meta,
            geom |-> h.db.geom, level |-> h.db.level, partial |-> h.db.partial,
            active |-> h.active]
Committed == IF \E d \in Deployer : UnderWay(d)
               THEN View(dep[CHOOSE d \in Deployer : UnderWay(d)].before)
               ELSE View(host)
Switch == INSTANCE ReleaseSwitch WITH site <- Committed, told <- alarm
ImplementsSwitch == Switch!Spec

\* Every activation comes to an end, with the site out of maintenance unless
\* someone has been told.
MaintenanceEnds == host.maintenance ~> (~ host.maintenance \/ alarm)

-----------------------------------------------------------------------------
(* What is said of the code                                                *)

\* migrate.py: "The runner applies each pending file in a transaction".
MigrationsWhole ==
    (\A d \in Deployer : dep[d].pc = "idle") => host.db.partial = 0
=============================================================================
