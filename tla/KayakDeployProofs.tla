------------------------- MODULE KayakDeployProofs -------------------------
(***************************************************************************)
(* What a deploy guarantees for any number of releases, migrations, units, *)
(* runs of the script, failures, deaths and reboots, when its runs are one *)
(* after the other.                                                        *)
(*                                                                         *)
(* DeployInv says, for each step of the script, which parts of the host    *)
(* come from the new release already (DoneSoFar), which are still those of *)
(* the host the trap was armed on, and which copy gives back the others    *)
(* (Recoverable), that the units are stopped or as they were (UnitsKept),  *)
(* and that link and copies name whole releases (StagedWhole).  One lemma  *)
(* per action shows that it keeps DeployInv.                               *)
(***************************************************************************)
EXTENDS KayakDeploy, TLAPS

-----------------------------------------------------------------------------
(* The inductive invariant.                                                *)

\* The script takes no lock: its runs are one after the other because one
\* operator starts them.
OneDeployer == \A d, e \in Deployer : d = e

Early == {"maintenance", "quiesce"}
Unmutated == {"maintenance", "quiesce", "drain", "backup"}
Engaged(d) == dep[d].pc \in Armed \cup RollbackPc

\* The step of the activation that is being done, or that failed.
Point(d) == IF dep[d].pc \in Armed THEN dep[d].pc ELSE dep[d].at

\* The release is whole from the end of its staging on.
StagedWhole(d) ==
    /\ dep[d].pc \in RollbackPc => dep[d].at \in Armed \ {"quiesce", "drain"}
    /\ dep[d].pc # "idle" => dep[d].rel \in Release
    /\ dep[d].pc \in {"staged", "resume"} \cup Armed \cup RollbackPc
          => dir[dep[d].rel] = "whole"
    /\ dep[d].pc = "staging" => dir[dep[d].rel] # "whole"
    /\ Engaged(d) => dep[d].prev = dep[d].before.current
    /\ Engaged(d) /\ dep[d].prev # NoRelease => dir[dep[d].prev] = "whole"

\* The units are those of `before', or all stopped and in the list to restart.
UnitsKept(d) ==
    /\ dep[d].pc \in {"idle", "staging", "staged"} => dep[d].snap = {}
    /\ Engaged(d) /\ Point(d) = "maintenance"
          => host.active = dep[d].before.active /\ dep[d].snap \subseteq host.active
    /\ Engaged(d) /\ Point(d) = "quiesce" => host.active = dep[d].before.active
    /\ (Engaged(d) /\ Point(d) # "maintenance") \/ dep[d].pc = "resume"
          => dep[d].snap = dep[d].before.active
    /\ (Engaged(d) /\ Point(d) \notin Early) \/ dep[d].pc = "resume"
          => host.active = {}
    /\ (Engaged(d) /\ Point(d) \notin Early \cup {"drain"}) \/ dep[d].pc = "resume"
          => \A u \in Unit : service[u] = Resting

\* What the activation has done so far is done with its release.
DoneSoFar(d) ==
    LET at(S) == dep[d].pc \in S \cup {"resume"}
        r == dep[d].rel
    IN  /\ at({"sync", "sidecars", "build", "building", "install", "relink", "health"})
              => host.db.level >= Level[r]
        /\ at({"sidecars", "build", "building", "install", "relink", "health"})
              => host.db.meta = r
        /\ at({"build", "building", "install", "relink", "health"}) => host.db.geom = r
        /\ at({"install", "relink", "health"}) => host.docroot = r
        /\ at({"relink", "health"}) => host.config = r
        /\ at({"health"}) => host.current = r

\* x is y, and has the rows of y.
Keeps(x, y) ==
    /\ x.level = y.level /\ x.partial = y.partial
    /\ x.meta = y.meta /\ x.geom = y.geom /\ y.rows \subseteq x.rows

\* What the activation has not reached is as before, and what it has replaced
\* is kept or restored; with a complaint, some of it is neither.
Recoverable(d) ==
    Engaged(d) =>
        LET was == dep[d].before
            p == Point(d)
            pc == dep[d].pc
        IN  /\ p # "health" \/ pc \in {"rebuild", "resume_old"}
                  => host.current = was.current
            /\ ~ ConfigInstalled(p) => host.config = was.config
            /\ ConfigInstalled(p) => dep[d].oldConfig = was.config
            /\ pc \in {"restore_db", "restore_link", "rebuild", "resume_old"} /\ ~ alarm
               /\ was.config # NoRelease
                  => host.config = was.config
            /\ p \in Unmutated => Keeps(host.db, was.db)
            /\ p \notin Unmutated => Keeps(dep[d].backup, was.db)
            /\ pc \in {"restore_link", "rebuild", "resume_old"} /\ ~ alarm
                  => Keeps(host.db, was.db)
            /\ pc \in {"rebuild", "resume_old"} => dep[d].prev # NoRelease
            /\ pc = "resume_old" /\ DocrootBuilt(p) /\ ~ alarm
                  => host.docroot = was.current

\* Link, config, metadata, sidecars and schema of one release, the docroot too
\* or in the middle of a build.
OnePiece(h) ==
    /\ h.config = h.current /\ h.db.meta = h.current /\ h.db.geom = h.current
    /\ h.docroot \in {h.current, Mixed}
    /\ h.db.partial = 0
    /\ h.current # NoRelease => h.db.level >= Level[h.current]

\* Without a complaint, an activation has started on a host in one piece, and
\* its docroot is of that release until the build.
StartedWhole(d) ==
    Engaged(d) /\ ~ alarm =>
        LET was == dep[d].before
        IN  /\ OnePiece(was)
            /\ ~ DocrootBuilt(Point(d)) => host.docroot \in {was.current, Mixed}
            /\ \A u \in Unit : service[u].code \in {was.current, NoRelease}

CurrentThere == host.current # NoRelease => dir[host.current] = "whole"

BuildersRun == \A u \in Unit : service[u].building => service[u].code # NoRelease

Held(d) ==
    StagedWhole(d) /\ UnitsKept(d) /\ DoneSoFar(d) /\ Recoverable(d) /\ StartedWhole(d)

DeployInv ==
    /\ TypeOK /\ CurrentThere /\ BuildersRun /\ PairedAtRest
    /\ \A d \in Deployer : Held(d)


-----------------------------------------------------------------------------
(* Types.                                                                  *)

LEMMA PcTyped ==
  ASSUME TypeOK, NEW d \in Deployer, NEW p \in Pc
  PROVE  [dep EXCEPT ![d].pc = p] \in [Deployer -> DepType]
  <1>1. dep \in [Deployer -> DepType]
    BY DEF TypeOK
  <1>2. [dep[d] EXCEPT !.pc = p] \in DepType
    BY <1>1 DEF DepType
  <1> QED
    BY <1>1, <1>2

LEMMA DepTyped ==
  ASSUME TypeOK, NEW d \in Deployer
  PROVE  /\ dep[d].pc \in Pc /\ dep[d].at \in Armed \cup {"idle"}
         /\ dep[d].rel \in MaybeRelease /\ dep[d].prev \in MaybeRelease
         /\ dep[d].snap \in SUBSET Unit /\ dep[d].backup \in Database
         /\ dep[d].oldConfig \in MaybeRelease /\ dep[d].before \in Host
  BY DEF TypeOK, DepType

LEMMA HostTyped ==
  ASSUME TypeOK
  PROVE  /\ host \in Host /\ host.db \in Database
  BY DEF TypeOK, Host

LEMMA LevelTyped ==
  ASSUME NEW x \in Database, NEW n \in Nat
  PROVE  [x EXCEPT !.level = n, !.partial = 0] \in Database
  BY DEF Database

LEMMA IdleTyped == Idle \in DepType
  <1>1. EmptyDb \in Database
    BY DEF EmptyDb, Database, MaybeRelease
  <1> QED
    BY <1>1 DEF Idle, DepType, Pc, Host, MaybeRelease

-----------------------------------------------------------------------------
(* The steps of the activation.                                            *)

LEMMA StopUnitsKeeps ==
  ASSUME NEW d \in Deployer, OneDeployer, DeployInv, StopUnits(d)
  PROVE  DeployInv'
  <1>1. Held(d) /\ TypeOK /\ CurrentThere /\ BuildersRun
    BY DEF DeployInv
  <1>typed. dep[d] \in DepType /\ dep \in [Deployer -> DepType]
    BY <1>1 DEF TypeOK
  <1>2. /\ host'.current = host.current /\ host'.docroot = host.docroot
        /\ host'.config = host.config /\ host'.active = {}
        /\ host'.db.level = host.db.level /\ host'.db.partial = host.db.partial
        /\ host'.db.meta = host.db.meta /\ host'.db.geom = host.db.geom
        /\ host'.db.rows = host.db.rows /\ host' \in Host
    BY <1>1, HostTyped, DepTyped DEF StopUnits, Step, Host, Database
  <1>3. /\ dep[d].pc = "quiesce"
        /\ dep'[d].pc = "drain" /\ dep'[d].rel = dep[d].rel
        /\ dep'[d].prev = dep[d].prev /\ dep'[d].at = dep[d].at
        /\ dep'[d].snap = dep[d].snap /\ dep'[d].backup = dep[d].backup
        /\ dep'[d].oldConfig = dep[d].oldConfig
        /\ dep'[d].before = dep[d].before
        /\ UNCHANGED <<dir, service, alarm>>
    BY <1>1 DEF StopUnits, Step, TypeOK, DepType
  <1>4. dep' \in [Deployer -> DepType]
    BY <1>1, PcTyped DEF StopUnits, Step, Pc, Armed, RollbackPc
  <1>5. TypeOK'
    BY <1>1, <1>2, <1>3, <1>4 DEF StopUnits, Step, TypeOK
  <1>6. Held(d)'
    BY <1>1, <1>2, <1>3
    DEF Held, StagedWhole, UnitsKept, DoneSoFar, Recoverable, StartedWhole,
        Engaged, Armed, RollbackPc, Point, Early, Keeps, OnePiece,
        ConfigInstalled, DocrootBuilt, Unmutated
  <1>7. CurrentThere' /\ BuildersRun'
    BY <1>1, <1>2, <1>3
    DEF CurrentThere, BuildersRun, Held, StagedWhole, Recoverable,
       Engaged, Point, Armed, RollbackPc
  <1>8. PairedAtRest'
    BY <1>3 DEF PairedAtRest
  <1> QED
    BY <1>5, <1>6, <1>7, <1>8, OneDeployer DEF DeployInv, OneDeployer

LEMMA DrainedKeeps ==
  ASSUME NEW d \in Deployer, OneDeployer, DeployInv, Drained(d)
  PROVE  DeployInv'
  <1>1. Held(d) /\ TypeOK /\ CurrentThere /\ BuildersRun
    BY DEF DeployInv
  <1>typed. dep[d] \in DepType /\ dep \in [Deployer -> DepType]
    BY <1>1 DEF TypeOK
  <1>2. /\ host'.current = host.current /\ host'.docroot = host.docroot
        /\ host'.config = host.config /\ host'.active = host.active
        /\ host'.db.level = host.db.level /\ host'.db.partial = host.db.partial
        /\ host'.db.meta = host.db.meta /\ host'.db.geom = host.db.geom
        /\ host'.db.rows = host.db.rows /\ host' \in Host
    BY <1>1, HostTyped, DepTyped DEF Drained, Step, Host, Database
  <1>3. /\ dep[d].pc = "drain"
        /\ \A u \in Unit : service[u] = Resting
        /\ dep'[d].pc = "backup" /\ dep'[d].rel = dep[d].rel
        /\ dep'[d].prev = dep[d].prev /\ dep'[d].at = dep[d].at
        /\ dep'[d].snap = dep[d].snap /\ dep'[d].backup = dep[d].backup
        /\ dep'[d].oldConfig = dep[d].oldConfig
        /\ dep'[d].before = dep[d].before
        /\ UNCHANGED <<dir, service, alarm>>
    BY <1>1 DEF Drained, Step, TypeOK, DepType
  <1>4. dep' \in [Deployer -> DepType]
    BY <1>1, PcTyped DEF Drained, Step, Pc, Armed, RollbackPc
  <1>5. TypeOK'
    BY <1>1, <1>2, <1>3, <1>4 DEF Drained, Step, TypeOK
  <1>6. Held(d)'
    BY <1>1, <1>2, <1>3
    DEF Held, StagedWhole, UnitsKept, DoneSoFar, Recoverable, StartedWhole,
        Engaged, Armed, RollbackPc, Point, Early, Keeps, OnePiece,
        ConfigInstalled, DocrootBuilt, Unmutated
  <1>7. CurrentThere' /\ BuildersRun'
    BY <1>1, <1>2, <1>3
    DEF CurrentThere, BuildersRun, Held, StagedWhole, Recoverable,
       Engaged, Point, Armed, RollbackPc
  <1>8. PairedAtRest'
    BY <1>3 DEF PairedAtRest
  <1> QED
    BY <1>5, <1>6, <1>7, <1>8, OneDeployer DEF DeployInv, OneDeployer

LEMMA MigrateDoneKeeps ==
  ASSUME NEW d \in Deployer, OneDeployer, DeployInv, MigrateDone(d)
  PROVE  DeployInv'
  <1>1. Held(d) /\ TypeOK /\ CurrentThere /\ BuildersRun
    BY DEF DeployInv
  <1>typed. dep[d] \in DepType /\ dep \in [Deployer -> DepType]
    BY <1>1 DEF TypeOK
  <1>2. /\ host'.current = host.current /\ host'.docroot = host.docroot
        /\ host'.config = host.config /\ host'.active = host.active
        /\ host'.db.level = host.db.level /\ host'.db.partial = host.db.partial
        /\ host'.db.meta = host.db.meta /\ host'.db.geom = host.db.geom
        /\ host'.db.rows = host.db.rows /\ host' \in Host
    BY <1>1, HostTyped, DepTyped DEF MigrateDone, Step, Host, Database
  <1>3. /\ dep[d].pc = "migrate"
        /\ host.db.level >= Level[dep[d].rel]
        /\ dep'[d].pc = "sync" /\ dep'[d].rel = dep[d].rel
        /\ dep'[d].prev = dep[d].prev /\ dep'[d].at = dep[d].at
        /\ dep'[d].snap = dep[d].snap /\ dep'[d].backup = dep[d].backup
        /\ dep'[d].oldConfig = dep[d].oldConfig
        /\ dep'[d].before = dep[d].before
        /\ UNCHANGED <<dir, service, alarm>>
    BY <1>1 DEF MigrateDone, Step, TypeOK, DepType
  <1>4. dep' \in [Deployer -> DepType]
    BY <1>1, PcTyped DEF MigrateDone, Step, Pc, Armed, RollbackPc
  <1>5. TypeOK'
    BY <1>1, <1>2, <1>3, <1>4 DEF MigrateDone, Step, TypeOK
  <1>6. Held(d)'
    BY <1>1, <1>2, <1>3
    DEF Held, StagedWhole, UnitsKept, DoneSoFar, Recoverable, StartedWhole,
        Engaged, Armed, RollbackPc, Point, Early, Keeps, OnePiece,
        ConfigInstalled, DocrootBuilt, Unmutated
  <1>7. CurrentThere' /\ BuildersRun'
    BY <1>1, <1>2, <1>3
    DEF CurrentThere, BuildersRun, Held, StagedWhole, Recoverable,
       Engaged, Point, Armed, RollbackPc
  <1>8. PairedAtRest'
    BY <1>3 DEF PairedAtRest
  <1> QED
    BY <1>5, <1>6, <1>7, <1>8, OneDeployer DEF DeployInv, OneDeployer

LEMMA SyncKeeps ==
  ASSUME NEW d \in Deployer, OneDeployer, DeployInv, Sync(d)
  PROVE  DeployInv'
  <1>1. Held(d) /\ TypeOK /\ CurrentThere /\ BuildersRun
    BY DEF DeployInv
  <1>typed. dep[d] \in DepType /\ dep \in [Deployer -> DepType]
    BY <1>1 DEF TypeOK
  <1>2. /\ host'.current = host.current /\ host'.docroot = host.docroot
        /\ host'.config = host.config /\ host'.active = host.active
        /\ host'.db.level = host.db.level /\ host'.db.partial = host.db.partial
        /\ host'.db.meta = dep[d].rel /\ host'.db.geom = host.db.geom
        /\ host'.db.rows = host.db.rows /\ host' \in Host
    BY <1>1, HostTyped, DepTyped DEF Sync, Step, Host, Database
  <1>3. /\ dep[d].pc = "sync"
        /\ dep'[d].pc = "sidecars" /\ dep'[d].rel = dep[d].rel
        /\ dep'[d].prev = dep[d].prev /\ dep'[d].at = dep[d].at
        /\ dep'[d].snap = dep[d].snap /\ dep'[d].backup = dep[d].backup
        /\ dep'[d].oldConfig = dep[d].oldConfig
        /\ dep'[d].before = dep[d].before
        /\ UNCHANGED <<dir, service, alarm>>
    BY <1>1 DEF Sync, Step, TypeOK, DepType
  <1>4. dep' \in [Deployer -> DepType]
    BY <1>1, PcTyped DEF Sync, Step, Pc, Armed, RollbackPc
  <1>5. TypeOK'
    BY <1>1, <1>2, <1>3, <1>4 DEF Sync, Step, TypeOK
  <1>6. Held(d)'
    BY <1>1, <1>2, <1>3
    DEF Held, StagedWhole, UnitsKept, DoneSoFar, Recoverable, StartedWhole,
        Engaged, Armed, RollbackPc, Point, Early, Keeps, OnePiece,
        ConfigInstalled, DocrootBuilt, Unmutated
  <1>7. CurrentThere' /\ BuildersRun'
    BY <1>1, <1>2, <1>3
    DEF CurrentThere, BuildersRun, Held, StagedWhole, Recoverable,
       Engaged, Point, Armed, RollbackPc
  <1>8. PairedAtRest'
    BY <1>3 DEF PairedAtRest
  <1> QED
    BY <1>5, <1>6, <1>7, <1>8, OneDeployer DEF DeployInv, OneDeployer

LEMMA ImportSidecarsKeeps ==
  ASSUME NEW d \in Deployer, OneDeployer, DeployInv, ImportSidecars(d)
  PROVE  DeployInv'
  <1>1. Held(d) /\ TypeOK /\ CurrentThere /\ BuildersRun
    BY DEF DeployInv
  <1>typed. dep[d] \in DepType /\ dep \in [Deployer -> DepType]
    BY <1>1 DEF TypeOK
  <1>2. /\ host'.current = host.current /\ host'.docroot = host.docroot
        /\ host'.config = host.config /\ host'.active = host.active
        /\ host'.db.level = host.db.level /\ host'.db.partial = host.db.partial
        /\ host'.db.meta = host.db.meta /\ host'.db.geom = dep[d].rel
        /\ host'.db.rows = host.db.rows /\ host' \in Host
    BY <1>1, HostTyped, DepTyped DEF ImportSidecars, Step, Host, Database
  <1>3. /\ dep[d].pc = "sidecars"
        /\ dep'[d].pc = "build" /\ dep'[d].rel = dep[d].rel
        /\ dep'[d].prev = dep[d].prev /\ dep'[d].at = dep[d].at
        /\ dep'[d].snap = dep[d].snap /\ dep'[d].backup = dep[d].backup
        /\ dep'[d].oldConfig = dep[d].oldConfig
        /\ dep'[d].before = dep[d].before
        /\ UNCHANGED <<dir, service, alarm>>
    BY <1>1 DEF ImportSidecars, Step, TypeOK, DepType
  <1>4. dep' \in [Deployer -> DepType]
    BY <1>1, PcTyped DEF ImportSidecars, Step, Pc, Armed, RollbackPc
  <1>5. TypeOK'
    BY <1>1, <1>2, <1>3, <1>4 DEF ImportSidecars, Step, TypeOK
  <1>6. Held(d)'
    BY <1>1, <1>2, <1>3
    DEF Held, StagedWhole, UnitsKept, DoneSoFar, Recoverable, StartedWhole,
        Engaged, Armed, RollbackPc, Point, Early, Keeps, OnePiece,
        ConfigInstalled, DocrootBuilt, Unmutated
  <1>7. CurrentThere' /\ BuildersRun'
    BY <1>1, <1>2, <1>3
    DEF CurrentThere, BuildersRun, Held, StagedWhole, Recoverable,
       Engaged, Point, Armed, RollbackPc
  <1>8. PairedAtRest'
    BY <1>3 DEF PairedAtRest
  <1> QED
    BY <1>5, <1>6, <1>7, <1>8, OneDeployer DEF DeployInv, OneDeployer

LEMMA BeginBuildKeeps ==
  ASSUME NEW d \in Deployer, OneDeployer, DeployInv, BeginBuild(d)
  PROVE  DeployInv'
  <1>1. Held(d) /\ TypeOK /\ CurrentThere /\ BuildersRun
    BY DEF DeployInv
  <1>typed. dep[d] \in DepType /\ dep \in [Deployer -> DepType]
    BY <1>1 DEF TypeOK
  <1>2. /\ host'.current = host.current /\ host'.docroot = Mixed
        /\ host'.config = host.config /\ host'.active = host.active
        /\ host'.db.level = host.db.level /\ host'.db.partial = host.db.partial
        /\ host'.db.meta = host.db.meta /\ host'.db.geom = host.db.geom
        /\ host'.db.rows = host.db.rows /\ host' \in Host
    BY <1>1, HostTyped, DepTyped DEF BeginBuild, Step, Host, Database
  <1>3. /\ dep[d].pc = "build"
        /\ dep'[d].pc = "building" /\ dep'[d].rel = dep[d].rel
        /\ dep'[d].prev = dep[d].prev /\ dep'[d].at = dep[d].at
        /\ dep'[d].snap = dep[d].snap /\ dep'[d].backup = dep[d].backup
        /\ dep'[d].oldConfig = dep[d].oldConfig
        /\ dep'[d].before = dep[d].before
        /\ UNCHANGED <<dir, service, alarm>>
    BY <1>1 DEF BeginBuild, Step, TypeOK, DepType
  <1>4. dep' \in [Deployer -> DepType]
    BY <1>1, PcTyped DEF BeginBuild, Step, Pc, Armed, RollbackPc
  <1>5. TypeOK'
    BY <1>1, <1>2, <1>3, <1>4 DEF BeginBuild, Step, TypeOK
  <1>6. Held(d)'
    BY <1>1, <1>2, <1>3
    DEF Held, StagedWhole, UnitsKept, DoneSoFar, Recoverable, StartedWhole,
        Engaged, Armed, RollbackPc, Point, Early, Keeps, OnePiece,
        ConfigInstalled, DocrootBuilt, Unmutated
  <1>7. CurrentThere' /\ BuildersRun'
    BY <1>1, <1>2, <1>3
    DEF CurrentThere, BuildersRun, Held, StagedWhole, Recoverable,
       Engaged, Point, Armed, RollbackPc
  <1>8. PairedAtRest'
    BY <1>3 DEF PairedAtRest
  <1> QED
    BY <1>5, <1>6, <1>7, <1>8, OneDeployer DEF DeployInv, OneDeployer

LEMMA EndBuildKeeps ==
  ASSUME NEW d \in Deployer, OneDeployer, DeployInv, EndBuild(d)
  PROVE  DeployInv'
  <1>1. Held(d) /\ TypeOK /\ CurrentThere /\ BuildersRun
    BY DEF DeployInv
  <1>typed. dep[d] \in DepType /\ dep \in [Deployer -> DepType]
    BY <1>1 DEF TypeOK
  <1>2. /\ host'.current = host.current /\ host'.docroot = dep[d].rel
        /\ host'.config = host.config /\ host'.active = host.active
        /\ host'.db.level = host.db.level /\ host'.db.partial = host.db.partial
        /\ host'.db.meta = host.db.meta /\ host'.db.geom = host.db.geom
        /\ host'.db.rows = host.db.rows /\ host' \in Host
    BY <1>1, HostTyped, DepTyped DEF EndBuild, Step, Host, Database
  <1>3. /\ dep[d].pc = "building"
        /\ dep'[d].pc = "install" /\ dep'[d].rel = dep[d].rel
        /\ dep'[d].prev = dep[d].prev /\ dep'[d].at = dep[d].at
        /\ dep'[d].snap = dep[d].snap /\ dep'[d].backup = dep[d].backup
        /\ dep'[d].oldConfig = dep[d].oldConfig
        /\ dep'[d].before = dep[d].before
        /\ UNCHANGED <<dir, service, alarm>>
    BY <1>1 DEF EndBuild, Step, TypeOK, DepType
  <1>4. dep' \in [Deployer -> DepType]
    BY <1>1, PcTyped DEF EndBuild, Step, Pc, Armed, RollbackPc
  <1>5. TypeOK'
    BY <1>1, <1>2, <1>3, <1>4 DEF EndBuild, Step, TypeOK
  <1>6. Held(d)'
    BY <1>1, <1>2, <1>3
    DEF Held, StagedWhole, UnitsKept, DoneSoFar, Recoverable, StartedWhole,
        Engaged, Armed, RollbackPc, Point, Early, Keeps, OnePiece,
        ConfigInstalled, DocrootBuilt, Unmutated
  <1>7. CurrentThere' /\ BuildersRun'
    BY <1>1, <1>2, <1>3
    DEF CurrentThere, BuildersRun, Held, StagedWhole, Recoverable,
       Engaged, Point, Armed, RollbackPc
  <1>8. PairedAtRest'
    BY <1>3 DEF PairedAtRest
  <1> QED
    BY <1>5, <1>6, <1>7, <1>8, OneDeployer DEF DeployInv, OneDeployer

LEMMA RelinkKeeps ==
  ASSUME NEW d \in Deployer, OneDeployer, DeployInv, Relink(d)
  PROVE  DeployInv'
  <1>1. Held(d) /\ TypeOK /\ CurrentThere /\ BuildersRun
    BY DEF DeployInv
  <1>typed. dep[d] \in DepType /\ dep \in [Deployer -> DepType]
    BY <1>1 DEF TypeOK
  <1>2. /\ host'.current = dep[d].rel /\ host'.docroot = host.docroot
        /\ host'.config = host.config /\ host'.active = host.active
        /\ host'.db.level = host.db.level /\ host'.db.partial = host.db.partial
        /\ host'.db.meta = host.db.meta /\ host'.db.geom = host.db.geom
        /\ host'.db.rows = host.db.rows /\ host' \in Host
    BY <1>1, HostTyped, DepTyped DEF Relink, Step, Host, Database
  <1>3. /\ dep[d].pc = "relink"
        /\ dep'[d].pc = "health" /\ dep'[d].rel = dep[d].rel
        /\ dep'[d].prev = dep[d].prev /\ dep'[d].at = dep[d].at
        /\ dep'[d].snap = dep[d].snap /\ dep'[d].backup = dep[d].backup
        /\ dep'[d].oldConfig = dep[d].oldConfig
        /\ dep'[d].before = dep[d].before
        /\ UNCHANGED <<dir, service, alarm>>
    BY <1>1 DEF Relink, Step, TypeOK, DepType
  <1>4. dep' \in [Deployer -> DepType]
    BY <1>1, PcTyped DEF Relink, Step, Pc, Armed, RollbackPc
  <1>5. TypeOK'
    BY <1>1, <1>2, <1>3, <1>4 DEF Relink, Step, TypeOK
  <1>6. Held(d)'
    BY <1>1, <1>2, <1>3
    DEF Held, StagedWhole, UnitsKept, DoneSoFar, Recoverable, StartedWhole,
        Engaged, Armed, RollbackPc, Point, Early, Keeps, OnePiece,
        ConfigInstalled, DocrootBuilt, Unmutated
  <1>7. CurrentThere' /\ BuildersRun'
    BY <1>1, <1>2, <1>3
    DEF CurrentThere, BuildersRun, Held, StagedWhole, Recoverable,
       Engaged, Point, Armed, RollbackPc
  <1>8. PairedAtRest'
    BY <1>3 DEF PairedAtRest
  <1> QED
    BY <1>5, <1>6, <1>7, <1>8, OneDeployer DEF DeployInv, OneDeployer

LEMMA HealthyKeeps ==
  ASSUME NEW d \in Deployer, OneDeployer, DeployInv, Healthy(d)
  PROVE  DeployInv'
  <1>1. Held(d) /\ TypeOK /\ CurrentThere /\ BuildersRun
    BY DEF DeployInv
  <1>typed. dep[d] \in DepType /\ dep \in [Deployer -> DepType]
    BY <1>1 DEF TypeOK
  <1>2. /\ host'.current = host.current /\ host'.docroot = host.docroot
        /\ host'.config = host.config /\ host'.active = host.active
        /\ host'.db.level = host.db.level /\ host'.db.partial = host.db.partial
        /\ host'.db.meta = host.db.meta /\ host'.db.geom = host.db.geom
        /\ host'.db.rows = host.db.rows /\ host' \in Host
    BY <1>1, HostTyped, DepTyped DEF Healthy, Step, Host, Database
  <1>3. /\ dep[d].pc = "health"
        /\ dep'[d].pc = "resume" /\ dep'[d].rel = dep[d].rel
        /\ dep'[d].prev = dep[d].prev /\ dep'[d].at = dep[d].at
        /\ dep'[d].snap = dep[d].snap /\ dep'[d].backup = dep[d].backup
        /\ dep'[d].oldConfig = dep[d].oldConfig
        /\ dep'[d].before = dep[d].before
        /\ UNCHANGED <<dir, service, alarm>>
    BY <1>1 DEF Healthy, Step, TypeOK, DepType
  <1>4. dep' \in [Deployer -> DepType]
    BY <1>1, PcTyped DEF Healthy, Step, Pc, Armed, RollbackPc
  <1>5. TypeOK'
    BY <1>1, <1>2, <1>3, <1>4 DEF Healthy, Step, TypeOK
  <1>6. Held(d)'
    BY <1>1, <1>2, <1>3
    DEF Held, StagedWhole, UnitsKept, DoneSoFar, Recoverable, StartedWhole,
        Engaged, Armed, RollbackPc, Point, Early, Keeps, OnePiece,
        ConfigInstalled, DocrootBuilt, Unmutated
  <1>7. CurrentThere' /\ BuildersRun'
    BY <1>1, <1>2, <1>3
    DEF CurrentThere, BuildersRun, Held, StagedWhole, Recoverable,
       Engaged, Point, Armed, RollbackPc
  <1>8. PairedAtRest'
    BY <1>3 DEF PairedAtRest
  <1> QED
    BY <1>5, <1>6, <1>7, <1>8, OneDeployer DEF DeployInv, OneDeployer

LEMMA RestoreLinkKeeps ==
  ASSUME NEW d \in Deployer, OneDeployer, DeployInv, RestoreLink(d)
  PROVE  DeployInv'
  <1>1. Held(d) /\ TypeOK /\ CurrentThere /\ BuildersRun
    BY DEF DeployInv
  <1>typed. dep[d] \in DepType /\ dep \in [Deployer -> DepType]
    BY <1>1 DEF TypeOK
  <1>2. /\ host'.current = dep[d].prev /\ host'.docroot = host.docroot
        /\ host'.config = host.config /\ host'.active = host.active
        /\ host'.db.level = host.db.level /\ host'.db.partial = host.db.partial
        /\ host'.db.meta = host.db.meta /\ host'.db.geom = host.db.geom
        /\ host'.db.rows = host.db.rows /\ host' \in Host
    BY <1>1, HostTyped, DepTyped DEF RestoreLink, Step, Host, Database
  <1>3. /\ dep[d].pc = "restore_link"
        /\ dep[d].prev # NoRelease
        /\ dep'[d].pc = "rebuild" /\ dep'[d].rel = dep[d].rel
        /\ dep'[d].prev = dep[d].prev /\ dep'[d].at = dep[d].at
        /\ dep'[d].snap = dep[d].snap /\ dep'[d].backup = dep[d].backup
        /\ dep'[d].oldConfig = dep[d].oldConfig
        /\ dep'[d].before = dep[d].before
        /\ UNCHANGED <<dir, service, alarm>>
    BY <1>1 DEF RestoreLink, Step, TypeOK, DepType
  <1>4. dep' \in [Deployer -> DepType]
    BY <1>1, PcTyped DEF RestoreLink, Step, Pc, Armed, RollbackPc
  <1>5. TypeOK'
    BY <1>1, <1>2, <1>3, <1>4 DEF RestoreLink, Step, TypeOK
  <1>6. Held(d)'
    <2>1. StagedWhole(d)'
      BY <1>1, <1>2, <1>3
      DEF Held, StagedWhole, Engaged, Armed, RollbackPc, Point, Early, Keeps,
          OnePiece, ConfigInstalled, DocrootBuilt, Unmutated
    <2>2. UnitsKept(d)'
      BY <1>1, <1>2, <1>3
      DEF Held, UnitsKept, Engaged, Armed, RollbackPc, Point, Early, Keeps,
          OnePiece, ConfigInstalled, DocrootBuilt, Unmutated
    <2>3. DoneSoFar(d)'
      BY <1>1, <1>2, <1>3 DEF Held, DoneSoFar
    <2>4. Recoverable(d)'
      BY <1>1, <1>2, <1>3
      DEF Held, StagedWhole, Recoverable, Engaged, Armed, RollbackPc, Point,
          Early, Keeps, OnePiece, ConfigInstalled, DocrootBuilt, Unmutated
    <2>5. StartedWhole(d)'
      BY <1>1, <1>2, <1>3
      DEF Held, StagedWhole, UnitsKept, StartedWhole, Resting, Engaged, Armed,
          RollbackPc, Point, Early, Keeps, OnePiece, ConfigInstalled,
          DocrootBuilt, Unmutated
    <2> QED
      BY <2>1, <2>2, <2>3, <2>4, <2>5 DEF Held
  <1>7. CurrentThere' /\ BuildersRun'
    BY <1>1, <1>2, <1>3
    DEF CurrentThere, BuildersRun, Held, StagedWhole, Recoverable,
       Engaged, Point, Armed, RollbackPc
  <1>8. PairedAtRest'
    BY <1>3 DEF PairedAtRest
  <1> QED
    BY <1>5, <1>6, <1>7, <1>8, OneDeployer DEF DeployInv, OneDeployer

LEMMA InstallConfigKeeps ==
  ASSUME NEW d \in Deployer, OneDeployer, DeployInv, InstallConfig(d)
  PROVE  DeployInv'
  <1>1. Held(d) /\ TypeOK /\ CurrentThere /\ BuildersRun
    BY DEF DeployInv
  <1>typed. dep[d] \in DepType /\ dep \in [Deployer -> DepType]
    BY <1>1 DEF TypeOK
  <1>2. /\ host'.current = host.current /\ host'.docroot = host.docroot
        /\ host'.config = dep[d].rel /\ host'.active = host.active
        /\ host'.db.level = host.db.level /\ host'.db.partial = host.db.partial
        /\ host'.db.meta = host.db.meta /\ host'.db.geom = host.db.geom
        /\ host'.db.rows = host.db.rows /\ host' \in Host
    BY <1>1, HostTyped, DepTyped DEF InstallConfig, Host, Database
  <1>3. /\ dep[d].pc = "install"
        /\ dep'[d].pc = "relink" /\ dep'[d].rel = dep[d].rel
        /\ dep'[d].prev = dep[d].prev /\ dep'[d].at = dep[d].at
        /\ dep'[d].snap = dep[d].snap /\ dep'[d].backup = dep[d].backup
        /\ dep'[d].oldConfig = host.config /\ dep'[d].before = dep[d].before
        /\ UNCHANGED <<dir, service, alarm>>
    BY <1>1 DEF InstallConfig, TypeOK, DepType
  <1>4. dep' \in [Deployer -> DepType]
    <2>1. [dep[d] EXCEPT !.pc = "relink", !.oldConfig = host.config] \in DepType
      BY <1>1, <1>typed, HostTyped DEF DepType, Pc, Armed, RollbackPc, Host
    <2> QED
      BY <1>typed, <2>1 DEF InstallConfig
  <1>5. TypeOK'
    BY <1>1, <1>2, <1>3, <1>4 DEF InstallConfig, TypeOK
  <1>6. Held(d)'
    BY <1>1, <1>2, <1>3
    DEF Held, StagedWhole, UnitsKept, DoneSoFar, Recoverable, StartedWhole,
        Engaged, Armed, RollbackPc, Point, Early, Keeps, OnePiece,
        ConfigInstalled, DocrootBuilt, Unmutated
  <1>7. CurrentThere' /\ BuildersRun'
    BY <1>1, <1>2, <1>3
    DEF CurrentThere, BuildersRun, Held, StagedWhole, Recoverable,
       Engaged, Point, Armed, RollbackPc
  <1>8. PairedAtRest'
    BY <1>3 DEF PairedAtRest
  <1> QED
    BY <1>5, <1>6, <1>7, <1>8, OneDeployer DEF DeployInv, OneDeployer

LEMMA BackupKeeps ==
  ASSUME NEW d \in Deployer, OneDeployer, DeployInv, Backup(d)
  PROVE  DeployInv'
  <1>1. Held(d) /\ TypeOK /\ CurrentThere /\ BuildersRun
    BY DEF DeployInv
  <1>typed. dep[d] \in DepType /\ dep \in [Deployer -> DepType]
    BY <1>1 DEF TypeOK
  <1>2. /\ host'.current = host.current /\ host'.docroot = host.docroot
        /\ host'.config = host.config /\ host'.active = host.active
        /\ host'.db.level = host.db.level /\ host'.db.partial = host.db.partial
        /\ host'.db.meta = host.db.meta /\ host'.db.geom = host.db.geom
        /\ host'.db.rows = host.db.rows /\ host' \in Host
    BY <1>1, HostTyped, DepTyped DEF Backup, Host, Database
  <1>3. /\ dep[d].pc = "backup"
        /\ dep'[d].pc = "migrate" /\ dep'[d].rel = dep[d].rel
        /\ dep'[d].prev = dep[d].prev /\ dep'[d].at = dep[d].at
        /\ dep'[d].snap = dep[d].snap /\ dep'[d].backup = host.db
        /\ dep'[d].oldConfig = dep[d].oldConfig
        /\ dep'[d].before = dep[d].before
        /\ UNCHANGED <<dir, service, alarm>>
    BY <1>1 DEF Backup, TypeOK, DepType
  <1>4. dep' \in [Deployer -> DepType]
    <2>1. [dep[d] EXCEPT !.pc = "migrate", !.backup = host.db] \in DepType
      BY <1>1, <1>typed, HostTyped DEF DepType, Pc, Armed, RollbackPc, Host
    <2> QED
      BY <1>typed, <2>1 DEF Backup
  <1>5. TypeOK'
    BY <1>1, <1>2, <1>3, <1>4 DEF Backup, TypeOK
  <1>6. Held(d)'
    BY <1>1, <1>2, <1>3
    DEF Held, StagedWhole, UnitsKept, DoneSoFar, Recoverable, StartedWhole,
        Engaged, Armed, RollbackPc, Point, Early, Keeps, OnePiece,
        ConfigInstalled, DocrootBuilt, Unmutated
  <1>7. CurrentThere' /\ BuildersRun'
    BY <1>1, <1>2, <1>3
    DEF CurrentThere, BuildersRun, Held, StagedWhole, Recoverable,
       Engaged, Point, Armed, RollbackPc
  <1>8. PairedAtRest'
    BY <1>3 DEF PairedAtRest
  <1> QED
    BY <1>5, <1>6, <1>7, <1>8, OneDeployer DEF DeployInv, OneDeployer

LEMMA EnterMaintenanceKeeps ==
  ASSUME NEW d \in Deployer, OneDeployer, DeployInv, EnterMaintenance(d)
  PROVE  DeployInv'
  <1>1. Held(d) /\ TypeOK /\ CurrentThere /\ BuildersRun
    BY DEF DeployInv
  <1>typed. dep[d] \in DepType /\ dep \in [Deployer -> DepType]
    BY <1>1 DEF TypeOK
  <1>2. /\ host'.current = host.current /\ host'.docroot = host.docroot
        /\ host'.config = host.config /\ host'.active = host.active
        /\ host'.db.level = host.db.level /\ host'.db.partial = host.db.partial
        /\ host'.db.meta = host.db.meta /\ host'.db.geom = host.db.geom
        /\ host'.db.rows = host.db.rows /\ host' \in Host
    BY <1>1, HostTyped, DepTyped DEF EnterMaintenance, Host, Database
  <1>3. /\ dep[d].pc = "maintenance"
        /\ dep'[d].pc = "quiesce" /\ dep'[d].rel = dep[d].rel
        /\ dep'[d].prev = dep[d].prev /\ dep'[d].at = dep[d].at
        /\ dep'[d].snap = host.active /\ dep'[d].backup = dep[d].backup
        /\ dep'[d].oldConfig = dep[d].oldConfig
        /\ dep'[d].before = dep[d].before
        /\ UNCHANGED <<dir, service, alarm>>
    BY <1>1 DEF EnterMaintenance, TypeOK, DepType
  <1>4. dep' \in [Deployer -> DepType]
    <2>1. [dep[d] EXCEPT !.pc = "quiesce", !.snap = host.active] \in DepType
      BY <1>1, <1>typed, HostTyped DEF DepType, Pc, Armed, RollbackPc, Host
    <2> QED
      BY <1>typed, <2>1 DEF EnterMaintenance
  <1>5. TypeOK'
    BY <1>1, <1>2, <1>3, <1>4 DEF EnterMaintenance, TypeOK
  <1>6. Held(d)'
    BY <1>1, <1>2, <1>3
    DEF Held, StagedWhole, UnitsKept, DoneSoFar, Recoverable, StartedWhole,
        Engaged, Armed, RollbackPc, Point, Early, Keeps, OnePiece,
        ConfigInstalled, DocrootBuilt, Unmutated
  <1>7. CurrentThere' /\ BuildersRun'
    BY <1>1, <1>2, <1>3
    DEF CurrentThere, BuildersRun, Held, StagedWhole, Recoverable,
       Engaged, Point, Armed, RollbackPc
  <1>8. PairedAtRest'
    BY <1>3 DEF PairedAtRest
  <1> QED
    BY <1>5, <1>6, <1>7, <1>8, OneDeployer DEF DeployInv, OneDeployer

LEMMA MigrateRecordKeeps ==
  ASSUME NEW d \in Deployer, OneDeployer, DeployInv, MigrateRecord(d)
  PROVE  DeployInv'
  <1>1. Held(d) /\ TypeOK /\ CurrentThere /\ BuildersRun
    BY DEF DeployInv
  <1>typed. dep[d] \in DepType /\ dep \in [Deployer -> DepType]
    BY <1>1 DEF TypeOK
  <1>2. /\ host'.current = host.current /\ host'.docroot = host.docroot
        /\ host'.config = host.config /\ host'.active = host.active
        /\ host'.db.level = host.db.level + 1 /\ host'.db.partial = 0
        /\ host'.db.meta = host.db.meta /\ host'.db.geom = host.db.geom
        /\ host'.db.rows = host.db.rows
    BY <1>1, HostTyped, DepTyped DEF MigrateRecord, Host, Database
  <1>host. host' \in Host
    <2>1. host.db.level + 1 \in Nat
      BY <1>1, HostTyped DEF Database
    <2>2. [host.db EXCEPT !.level = @ + 1, !.partial = 0] \in Database
      BY <1>1, <2>1, HostTyped, LevelTyped
    <2>3. host' = [host EXCEPT !.db = [host.db EXCEPT !.level = @ + 1, !.partial = 0]]
      BY <1>1, HostTyped DEF MigrateRecord, Host, Database
    <2> QED
      BY <1>1, <2>2, <2>3, HostTyped DEF Host
  <1>3. /\ dep[d].pc = "migrate"
        /\ dep'[d].pc = "migrate" /\ dep'[d].rel = dep[d].rel
        /\ dep'[d].prev = dep[d].prev /\ dep'[d].at = dep[d].at
        /\ dep'[d].snap = dep[d].snap /\ dep'[d].backup = dep[d].backup
        /\ dep'[d].oldConfig = dep[d].oldConfig
        /\ dep'[d].before = dep[d].before
        /\ UNCHANGED <<dir, service, alarm>>
    BY <1>1 DEF MigrateRecord, TypeOK, DepType
  <1>4. dep' \in [Deployer -> DepType]
    <2>1. [dep[d] EXCEPT !.migrating = FALSE] \in DepType
      BY <1>typed DEF DepType
    <2> QED
      BY <1>1, <1>typed, <2>1 DEF MigrateRecord
  <1>5. TypeOK'
    BY <1>1, <1>2, <1>3, <1>4, <1>host DEF MigrateRecord, TypeOK
  <1>6. Held(d)'
    BY <1>1, <1>2, <1>3
    DEF Held, StagedWhole, UnitsKept, DoneSoFar, Recoverable, StartedWhole,
        Engaged, Armed, RollbackPc, Point, Early, Keeps, OnePiece,
        ConfigInstalled, DocrootBuilt, Unmutated
  <1>7. CurrentThere' /\ BuildersRun'
    BY <1>1, <1>2, <1>3
    DEF CurrentThere, BuildersRun, Held, StagedWhole, Recoverable,
       Engaged, Point, Armed, RollbackPc
  <1>8. PairedAtRest'
    BY <1>3 DEF PairedAtRest
  <1> QED
    BY <1>5, <1>6, <1>7, <1>8, OneDeployer DEF DeployInv, OneDeployer

LEMMA MigrateStatementKeeps ==
  ASSUME NEW d \in Deployer, OneDeployer, DeployInv, MigrateStatement(d)
  PROVE  DeployInv'
  <1>1. Held(d) /\ TypeOK /\ CurrentThere /\ BuildersRun
    BY DEF DeployInv
  <1>typed. dep[d] \in DepType /\ dep \in [Deployer -> DepType]
    BY <1>1 DEF TypeOK
  <1>2. /\ host'.current = host.current /\ host'.docroot = host.docroot
        /\ host'.config = host.config /\ host'.active = host.active
        /\ host'.db.level = host.db.level
        /\ host'.db.partial = host.db.partial + 1
        /\ host'.db.meta = host.db.meta /\ host'.db.geom = host.db.geom
        /\ host'.db.rows = host.db.rows /\ host' \in Host
    BY <1>1, HostTyped, DepTyped DEF MigrateStatement, Host, Database
  <1>3. /\ dep[d].pc = "migrate"
        /\ dep'[d].pc = "migrate" /\ dep'[d].rel = dep[d].rel
        /\ dep'[d].prev = dep[d].prev /\ dep'[d].at = dep[d].at
        /\ dep'[d].snap = dep[d].snap /\ dep'[d].backup = dep[d].backup
        /\ dep'[d].oldConfig = dep[d].oldConfig
        /\ dep'[d].before = dep[d].before
        /\ UNCHANGED <<dir, service, alarm>>
    BY <1>1 DEF MigrateStatement, TypeOK, DepType
  <1>4. dep' \in [Deployer -> DepType]
    <2>1. [dep[d] EXCEPT !.migrating = TRUE] \in DepType
      BY <1>typed DEF DepType
    <2> QED
      BY <1>1, <1>typed, <2>1 DEF MigrateStatement
  <1>5. TypeOK'
    BY <1>1, <1>2, <1>3, <1>4 DEF MigrateStatement, TypeOK
  <1>6. Held(d)'
    BY <1>1, <1>2, <1>3
    DEF Held, StagedWhole, UnitsKept, DoneSoFar, Recoverable, StartedWhole,
        Engaged, Armed, RollbackPc, Point, Early, Keeps, OnePiece,
        ConfigInstalled, DocrootBuilt, Unmutated
  <1>7. CurrentThere' /\ BuildersRun'
    BY <1>1, <1>2, <1>3
    DEF CurrentThere, BuildersRun, Held, StagedWhole, Recoverable,
       Engaged, Point, Armed, RollbackPc
  <1>8. PairedAtRest'
    BY <1>3 DEF PairedAtRest
  <1> QED
    BY <1>5, <1>6, <1>7, <1>8, OneDeployer DEF DeployInv, OneDeployer

-----------------------------------------------------------------------------
(* The steps of the rollback.                                              *)

LEMMA RestoreConfigKeeps ==
  ASSUME NEW d \in Deployer, OneDeployer, DeployInv, RestoreConfig(d)
  PROVE  DeployInv'
  <1> DEFINE new == [host EXCEPT !.config = dep[d].oldConfig]
  <1>1. Held(d) /\ TypeOK /\ CurrentThere /\ BuildersRun
    BY DEF DeployInv
  <1>2. /\ new \in Host
        /\ new.current = host.current /\ new.docroot = host.docroot
        /\ new.config = dep[d].oldConfig /\ new.active = host.active
        /\ new.db.level = host.db.level /\ new.db.partial = host.db.partial
        /\ new.db.meta = host.db.meta /\ new.db.geom = host.db.geom
        /\ new.db.rows = host.db.rows
    BY <1>1, HostTyped, DepTyped DEF Host, Database
  <1>3. /\ dep[d].pc = "restore_config"
        /\ dep'[d].pc = "restore_db" /\ dep'[d].rel = dep[d].rel
        /\ dep'[d].prev = dep[d].prev /\ dep'[d].at = dep[d].at
        /\ dep'[d].snap = dep[d].snap /\ dep'[d].backup = dep[d].backup
        /\ dep'[d].oldConfig = dep[d].oldConfig
        /\ dep'[d].before = dep[d].before
        /\ UNCHANGED <<dir, service>>
    BY <1>1 DEF RestoreConfig, Restore, TypeOK, DepType
  <1>4. \/ host' = new /\ alarm' = alarm /\ ConfigInstalled(dep[d].at) /\ dep[d].oldConfig # NoRelease
        \/ host' = host /\ alarm' = TRUE
        \/ host' = host /\ alarm' = alarm /\ ~ (ConfigInstalled(dep[d].at) /\ dep[d].oldConfig # NoRelease)
    BY DEF RestoreConfig, Restore
  <1>5. TypeOK'
    <2>1. dep' \in [Deployer -> DepType]
      BY <1>1, PcTyped DEF RestoreConfig, Restore, Pc, RollbackPc
    <2>2. host' \in Host /\ alarm' \in BOOLEAN
      BY <1>1, <1>2, <1>4 DEF TypeOK
    <2> QED
      BY <1>1, <2>1, <2>2 DEF RestoreConfig, Restore, TypeOK
  <1>6. Held(d)'
    <2> HIDE DEF new
    <2>1. CASE host' = new /\ alarm' = alarm /\ ConfigInstalled(dep[d].at) /\ dep[d].oldConfig # NoRelease
      <3>1. StagedWhole(d)'
        BY <1>1, <1>2, <1>3, <2>1
        DEF Held, StagedWhole, Engaged, Armed, RollbackPc, Point, Early, Keeps,
            OnePiece, ConfigInstalled, DocrootBuilt, Unmutated
      <3>2. UnitsKept(d)'
        BY <1>1, <1>2, <1>3, <2>1
        DEF Held, UnitsKept, Engaged, Armed, RollbackPc, Point, Early, Keeps,
            OnePiece, ConfigInstalled, DocrootBuilt, Unmutated
      <3>3. DoneSoFar(d)'
        BY <1>1, <1>2, <1>3, <2>1
        DEF Held, DoneSoFar, Engaged, Armed, RollbackPc, Point, Early, Keeps,
            OnePiece, ConfigInstalled, DocrootBuilt, Unmutated
      <3>4. Recoverable(d)'
        BY <1>1, <1>2, <1>3, <2>1
        DEF Held, Recoverable, StagedWhole, Engaged, Armed, RollbackPc, Point,
            Early, Keeps, OnePiece, ConfigInstalled, DocrootBuilt, Unmutated
      <3>5. StartedWhole(d)'
        BY <1>1, <1>2, <1>3, <2>1
        DEF Held, StartedWhole, StagedWhole, UnitsKept, Resting, Engaged, Armed,
            RollbackPc, Point, Early, Keeps, OnePiece, ConfigInstalled,
            DocrootBuilt, Unmutated
      <3> QED
        BY <3>1, <3>2, <3>3, <3>4, <3>5 DEF Held
    <2>2. CASE host' = host /\ alarm' = TRUE
      <3>1. StagedWhole(d)'
        BY <1>1, <1>3, <2>2
        DEF Held, StagedWhole, Engaged, Armed, RollbackPc, Point, Early, Keeps,
            OnePiece, ConfigInstalled, DocrootBuilt, Unmutated
      <3>2. UnitsKept(d)'
        BY <1>1, <1>3, <2>2
        DEF Held, UnitsKept, Engaged, Armed, RollbackPc, Point, Early, Keeps,
            OnePiece, ConfigInstalled, DocrootBuilt, Unmutated
      <3>3. DoneSoFar(d)'
        BY <1>1, <1>3, <2>2
        DEF Held, DoneSoFar, Engaged, Armed, RollbackPc, Point, Early, Keeps,
            OnePiece, ConfigInstalled, DocrootBuilt, Unmutated
      <3>4. Recoverable(d)'
        BY <1>1, <1>3, <2>2
        DEF Held, Recoverable, StagedWhole, Engaged, Armed, RollbackPc, Point,
            Early, Keeps, OnePiece, ConfigInstalled, DocrootBuilt, Unmutated
      <3>5. StartedWhole(d)'
        BY <1>1, <1>3, <2>2
        DEF Held, StartedWhole, StagedWhole, UnitsKept, Resting, Engaged, Armed,
            RollbackPc, Point, Early, Keeps, OnePiece, ConfigInstalled,
            DocrootBuilt, Unmutated
      <3> QED
        BY <3>1, <3>2, <3>3, <3>4, <3>5 DEF Held
    <2>3. CASE host' = host /\ alarm' = alarm /\ ~ (ConfigInstalled(dep[d].at) /\ dep[d].oldConfig # NoRelease)
      <3>1. StagedWhole(d)'
        BY <1>1, <1>3, <2>3
        DEF Held, StagedWhole, Engaged, Armed, RollbackPc, Point, Early, Keeps,
            OnePiece, ConfigInstalled, DocrootBuilt, Unmutated
      <3>2. UnitsKept(d)'
        BY <1>1, <1>3, <2>3
        DEF Held, UnitsKept, Engaged, Armed, RollbackPc, Point, Early, Keeps,
            OnePiece, ConfigInstalled, DocrootBuilt, Unmutated
      <3>3. DoneSoFar(d)'
        BY <1>1, <1>3, <2>3
        DEF Held, DoneSoFar, Engaged, Armed, RollbackPc, Point, Early, Keeps,
            OnePiece, ConfigInstalled, DocrootBuilt, Unmutated
      <3>4. Recoverable(d)'
        BY <1>1, <1>3, <2>3
        DEF Held, Recoverable, StagedWhole, Engaged, Armed, RollbackPc, Point,
            Early, Keeps, OnePiece, ConfigInstalled, DocrootBuilt, Unmutated
      <3>5. StartedWhole(d)'
        BY <1>1, <1>3, <2>3
        DEF Held, StartedWhole, StagedWhole, UnitsKept, Resting, Engaged, Armed,
            RollbackPc, Point, Early, Keeps, OnePiece, ConfigInstalled,
            DocrootBuilt, Unmutated
      <3> QED
        BY <3>1, <3>2, <3>3, <3>4, <3>5 DEF Held
    <2> QED
      BY <1>4, <2>1, <2>2, <2>3
  <1>7. CurrentThere' /\ BuildersRun'
    BY <1>1, <1>2, <1>3, <1>4 DEF CurrentThere, BuildersRun
  <1>8. PairedAtRest'
    BY <1>3 DEF PairedAtRest
  <1> QED
    BY <1>5, <1>6, <1>7, <1>8, OneDeployer DEF DeployInv, OneDeployer

LEMMA RestoreDbKeeps ==
  ASSUME NEW d \in Deployer, OneDeployer, DeployInv, RestoreDb(d)
  PROVE  DeployInv'
  <1> DEFINE new == [host EXCEPT !.db = dep[d].backup]
  <1>1. Held(d) /\ TypeOK /\ CurrentThere /\ BuildersRun
    BY DEF DeployInv
  <1>2. /\ new \in Host
        /\ new.current = host.current /\ new.docroot = host.docroot
        /\ new.config = host.config /\ new.active = host.active
        /\ new.db = dep[d].backup
    BY <1>1, HostTyped, DepTyped DEF Host, Database
  <1>3. /\ dep[d].pc = "restore_db"
        /\ dep'[d].pc = "restore_link" /\ dep'[d].rel = dep[d].rel
        /\ dep'[d].prev = dep[d].prev /\ dep'[d].at = dep[d].at
        /\ dep'[d].snap = dep[d].snap /\ dep'[d].backup = dep[d].backup
        /\ dep'[d].oldConfig = dep[d].oldConfig
        /\ dep'[d].before = dep[d].before
        /\ UNCHANGED <<dir, service>>
    BY <1>1 DEF RestoreDb, Restore, TypeOK, DepType
  <1>4. \/ host' = new /\ alarm' = alarm /\ Mutated(dep[d].at)
        \/ host' = host /\ alarm' = TRUE
        \/ host' = host /\ alarm' = alarm /\ ~ (Mutated(dep[d].at))
    BY DEF RestoreDb, Restore
  <1>5. TypeOK'
    <2>1. dep' \in [Deployer -> DepType]
      BY <1>1, PcTyped DEF RestoreDb, Restore, Pc, RollbackPc
    <2>2. host' \in Host /\ alarm' \in BOOLEAN
      BY <1>1, <1>2, <1>4 DEF TypeOK
    <2> QED
      BY <1>1, <2>1, <2>2 DEF RestoreDb, Restore, TypeOK
  <1>6. Held(d)'
    <2> HIDE DEF new
    <2>1. CASE host' = new /\ alarm' = alarm /\ Mutated(dep[d].at)
      <3>1. StagedWhole(d)'
        BY <1>1, <1>2, <1>3, <2>1
        DEF Held, StagedWhole, Engaged, Armed, RollbackPc, Point, Early, Keeps,
            OnePiece, ConfigInstalled, DocrootBuilt, Unmutated, Mutated
      <3>2. UnitsKept(d)'
        BY <1>1, <1>2, <1>3, <2>1
        DEF Held, UnitsKept, Engaged, Armed, RollbackPc, Point, Early, Keeps,
            OnePiece, ConfigInstalled, DocrootBuilt, Unmutated, Mutated
      <3>3. DoneSoFar(d)'
        BY <1>1, <1>2, <1>3, <2>1
        DEF Held, DoneSoFar, Engaged, Armed, RollbackPc, Point, Early, Keeps,
            OnePiece, ConfigInstalled, DocrootBuilt, Unmutated, Mutated
      <3>4. Recoverable(d)'
        BY <1>1, <1>2, <1>3, <2>1
        DEF Held, Recoverable, StagedWhole, Engaged, Armed, RollbackPc, Point,
            Early, Keeps, OnePiece, ConfigInstalled, DocrootBuilt, Unmutated,
            Mutated
      <3>5. StartedWhole(d)'
        BY <1>1, <1>2, <1>3, <2>1
        DEF Held, StartedWhole, StagedWhole, UnitsKept, Resting, Engaged, Armed,
            RollbackPc, Point, Early, Keeps, OnePiece, ConfigInstalled,
            DocrootBuilt, Unmutated, Mutated
      <3> QED
        BY <3>1, <3>2, <3>3, <3>4, <3>5 DEF Held
    <2>2. CASE host' = host /\ alarm' = TRUE
      <3>1. StagedWhole(d)'
        BY <1>1, <1>3, <2>2
        DEF Held, StagedWhole, Engaged, Armed, RollbackPc, Point, Early, Keeps,
            OnePiece, ConfigInstalled, DocrootBuilt, Unmutated, Mutated
      <3>2. UnitsKept(d)'
        BY <1>1, <1>3, <2>2
        DEF Held, UnitsKept, Engaged, Armed, RollbackPc, Point, Early, Keeps,
            OnePiece, ConfigInstalled, DocrootBuilt, Unmutated, Mutated
      <3>3. DoneSoFar(d)'
        BY <1>1, <1>3, <2>2
        DEF Held, DoneSoFar, Engaged, Armed, RollbackPc, Point, Early, Keeps,
            OnePiece, ConfigInstalled, DocrootBuilt, Unmutated, Mutated
      <3>4. Recoverable(d)'
        BY <1>1, <1>3, <2>2
        DEF Held, Recoverable, StagedWhole, Engaged, Armed, RollbackPc, Point,
            Early, Keeps, OnePiece, ConfigInstalled, DocrootBuilt, Unmutated,
            Mutated
      <3>5. StartedWhole(d)'
        BY <1>1, <1>3, <2>2
        DEF Held, StartedWhole, StagedWhole, UnitsKept, Resting, Engaged, Armed,
            RollbackPc, Point, Early, Keeps, OnePiece, ConfigInstalled,
            DocrootBuilt, Unmutated, Mutated
      <3> QED
        BY <3>1, <3>2, <3>3, <3>4, <3>5 DEF Held
    <2>3. CASE host' = host /\ alarm' = alarm /\ ~ (Mutated(dep[d].at))
      <3>1. StagedWhole(d)'
        BY <1>1, <1>3, <2>3
        DEF Held, StagedWhole, Engaged, Armed, RollbackPc, Point, Early, Keeps,
            OnePiece, ConfigInstalled, DocrootBuilt, Unmutated, Mutated
      <3>2. UnitsKept(d)'
        BY <1>1, <1>3, <2>3
        DEF Held, UnitsKept, Engaged, Armed, RollbackPc, Point, Early, Keeps,
            OnePiece, ConfigInstalled, DocrootBuilt, Unmutated, Mutated
      <3>3. DoneSoFar(d)'
        BY <1>1, <1>3, <2>3
        DEF Held, DoneSoFar, Engaged, Armed, RollbackPc, Point, Early, Keeps,
            OnePiece, ConfigInstalled, DocrootBuilt, Unmutated, Mutated
      <3>4. Recoverable(d)'
        BY <1>1, <1>3, <2>3
        DEF Held, Recoverable, StagedWhole, Engaged, Armed, RollbackPc, Point,
            Early, Keeps, OnePiece, ConfigInstalled, DocrootBuilt, Unmutated,
            Mutated
      <3>5. StartedWhole(d)'
        BY <1>1, <1>3, <2>3
        DEF Held, StartedWhole, StagedWhole, UnitsKept, Resting, Engaged, Armed,
            RollbackPc, Point, Early, Keeps, OnePiece, ConfigInstalled,
            DocrootBuilt, Unmutated, Mutated
      <3> QED
        BY <3>1, <3>2, <3>3, <3>4, <3>5 DEF Held
    <2> QED
      BY <1>4, <2>1, <2>2, <2>3
  <1>7. CurrentThere' /\ BuildersRun'
    BY <1>1, <1>2, <1>3, <1>4 DEF CurrentThere, BuildersRun
  <1>8. PairedAtRest'
    BY <1>3 DEF PairedAtRest
  <1> QED
    BY <1>5, <1>6, <1>7, <1>8, OneDeployer DEF DeployInv, OneDeployer

LEMMA RebuildDocrootKeeps ==
  ASSUME NEW d \in Deployer, OneDeployer, DeployInv, RebuildDocroot(d)
  PROVE  DeployInv'
  <1> DEFINE new == [host EXCEPT !.docroot = dep[d].prev]
  <1>1. Held(d) /\ TypeOK /\ CurrentThere /\ BuildersRun
    BY DEF DeployInv
  <1>2. /\ new \in Host
        /\ new.current = host.current /\ new.docroot = dep[d].prev
        /\ new.config = host.config /\ new.active = host.active
        /\ new.db.level = host.db.level /\ new.db.partial = host.db.partial
        /\ new.db.meta = host.db.meta /\ new.db.geom = host.db.geom
        /\ new.db.rows = host.db.rows
    BY <1>1, HostTyped, DepTyped DEF Host, Database
  <1>3. /\ dep[d].pc = "rebuild"
        /\ dep'[d].pc = "resume_old" /\ dep'[d].rel = dep[d].rel
        /\ dep'[d].prev = dep[d].prev /\ dep'[d].at = dep[d].at
        /\ dep'[d].snap = dep[d].snap /\ dep'[d].backup = dep[d].backup
        /\ dep'[d].oldConfig = dep[d].oldConfig
        /\ dep'[d].before = dep[d].before
        /\ UNCHANGED <<dir, service>>
    BY <1>1 DEF RebuildDocroot, Restore, TypeOK, DepType
  <1>4. \/ host' = new /\ alarm' = alarm /\ DocrootBuilt(dep[d].at)
        \/ host' = host /\ alarm' = TRUE
        \/ host' = host /\ alarm' = alarm /\ ~ (DocrootBuilt(dep[d].at))
    BY DEF RebuildDocroot, Restore
  <1>5. TypeOK'
    <2>1. dep' \in [Deployer -> DepType]
      BY <1>1, PcTyped DEF RebuildDocroot, Restore, Pc, RollbackPc
    <2>2. host' \in Host /\ alarm' \in BOOLEAN
      BY <1>1, <1>2, <1>4 DEF TypeOK
    <2> QED
      BY <1>1, <2>1, <2>2 DEF RebuildDocroot, Restore, TypeOK
  <1>6. Held(d)'
    <2> HIDE DEF new
    <2>1. CASE host' = new /\ alarm' = alarm /\ DocrootBuilt(dep[d].at)
      <3>1. StagedWhole(d)'
        BY <1>1, <1>2, <1>3, <2>1
        DEF Held, StagedWhole, Engaged, Armed, RollbackPc, Point, Early, Keeps,
            OnePiece, ConfigInstalled, DocrootBuilt, Unmutated
      <3>2. UnitsKept(d)'
        BY <1>1, <1>2, <1>3, <2>1
        DEF Held, UnitsKept, Engaged, Armed, RollbackPc, Point, Early, Keeps,
            OnePiece, ConfigInstalled, DocrootBuilt, Unmutated
      <3>3. DoneSoFar(d)'
        BY <1>1, <1>2, <1>3, <2>1
        DEF Held, DoneSoFar, Engaged, Armed, RollbackPc, Point, Early, Keeps,
            OnePiece, ConfigInstalled, DocrootBuilt, Unmutated
      <3>4. Recoverable(d)'
        BY <1>1, <1>2, <1>3, <2>1
        DEF Held, Recoverable, StagedWhole, Engaged, Armed, RollbackPc, Point,
            Early, Keeps, OnePiece, ConfigInstalled, DocrootBuilt, Unmutated
      <3>5. StartedWhole(d)'
        BY <1>1, <1>2, <1>3, <2>1
        DEF Held, StartedWhole, StagedWhole, UnitsKept, Resting, Engaged, Armed,
            RollbackPc, Point, Early, Keeps, OnePiece, ConfigInstalled,
            DocrootBuilt, Unmutated
      <3> QED
        BY <3>1, <3>2, <3>3, <3>4, <3>5 DEF Held
    <2>2. CASE host' = host /\ alarm' = TRUE
      <3>1. StagedWhole(d)'
        BY <1>1, <1>3, <2>2
        DEF Held, StagedWhole, Engaged, Armed, RollbackPc, Point, Early, Keeps,
            OnePiece, ConfigInstalled, DocrootBuilt, Unmutated
      <3>2. UnitsKept(d)'
        BY <1>1, <1>3, <2>2
        DEF Held, UnitsKept, Engaged, Armed, RollbackPc, Point, Early, Keeps,
            OnePiece, ConfigInstalled, DocrootBuilt, Unmutated
      <3>3. DoneSoFar(d)'
        BY <1>1, <1>3, <2>2
        DEF Held, DoneSoFar, Engaged, Armed, RollbackPc, Point, Early, Keeps,
            OnePiece, ConfigInstalled, DocrootBuilt, Unmutated
      <3>4. Recoverable(d)'
        BY <1>1, <1>3, <2>2
        DEF Held, Recoverable, StagedWhole, Engaged, Armed, RollbackPc, Point,
            Early, Keeps, OnePiece, ConfigInstalled, DocrootBuilt, Unmutated
      <3>5. StartedWhole(d)'
        BY <1>1, <1>3, <2>2
        DEF Held, StartedWhole, StagedWhole, UnitsKept, Resting, Engaged, Armed,
            RollbackPc, Point, Early, Keeps, OnePiece, ConfigInstalled,
            DocrootBuilt, Unmutated
      <3> QED
        BY <3>1, <3>2, <3>3, <3>4, <3>5 DEF Held
    <2>3. CASE host' = host /\ alarm' = alarm /\ ~ (DocrootBuilt(dep[d].at))
      <3>1. StagedWhole(d)'
        BY <1>1, <1>3, <2>3
        DEF Held, StagedWhole, Engaged, Armed, RollbackPc, Point, Early, Keeps,
            OnePiece, ConfigInstalled, DocrootBuilt, Unmutated
      <3>2. UnitsKept(d)'
        BY <1>1, <1>3, <2>3
        DEF Held, UnitsKept, Engaged, Armed, RollbackPc, Point, Early, Keeps,
            OnePiece, ConfigInstalled, DocrootBuilt, Unmutated
      <3>3. DoneSoFar(d)'
        BY <1>1, <1>3, <2>3
        DEF Held, DoneSoFar, Engaged, Armed, RollbackPc, Point, Early, Keeps,
            OnePiece, ConfigInstalled, DocrootBuilt, Unmutated
      <3>4. Recoverable(d)'
        BY <1>1, <1>3, <2>3
        DEF Held, Recoverable, StagedWhole, Engaged, Armed, RollbackPc, Point,
            Early, Keeps, OnePiece, ConfigInstalled, DocrootBuilt, Unmutated
      <3>5. StartedWhole(d)'
        BY <1>1, <1>3, <2>3
        DEF Held, StartedWhole, StagedWhole, UnitsKept, Resting, Engaged, Armed,
            RollbackPc, Point, Early, Keeps, OnePiece, ConfigInstalled,
            DocrootBuilt, Unmutated
      <3> QED
        BY <3>1, <3>2, <3>3, <3>4, <3>5 DEF Held
    <2> QED
      BY <1>4, <2>1, <2>2, <2>3
  <1>7. CurrentThere' /\ BuildersRun'
    BY <1>1, <1>2, <1>3, <1>4 DEF CurrentThere, BuildersRun
  <1>8. PairedAtRest'
    BY <1>3 DEF PairedAtRest
  <1> QED
    BY <1>5, <1>6, <1>7, <1>8, OneDeployer DEF DeployInv, OneDeployer

LEMMA RefuseKeeps ==
  ASSUME NEW d \in Deployer, OneDeployer, DeployInv, Refuse(d)
  PROVE  DeployInv'
  <1>1. Held(d) /\ TypeOK /\ CurrentThere /\ BuildersRun /\ PairedAtRest
    BY DEF DeployInv
  <1>2. /\ host'.current = host.current /\ host'.docroot = host.docroot
        /\ host'.config = host.config /\ host'.active = host.active
        /\ host'.db.level = host.db.level /\ host'.db.partial = host.db.partial
        /\ host'.db.meta = host.db.meta /\ host'.db.geom = host.db.geom
        /\ host'.db.rows = host.db.rows /\ host' \in Host
    BY <1>1, HostTyped, DepTyped DEF Refuse, End, Host, Database
  <1>3. /\ dep[d].pc \in {"staging", "staged"}
        /\ dep' = [dep EXCEPT ![d] = Idle] /\ dep'[d].pc = "idle"
        /\ dep'[d].snap = {}
        /\ UNCHANGED <<dir, service>>
        /\ alarm' = alarm
    BY <1>1 DEF Refuse, End, TypeOK, Idle
  <1>4. TypeOK'
    BY <1>1, <1>2, <1>3, IdleTyped DEF Refuse, End, TypeOK
  <1>5. Held(d)'
    BY <1>3
    DEF Held, StagedWhole, UnitsKept, DoneSoFar, Recoverable, StartedWhole,
        Engaged, Armed, RollbackPc
  <1>6. CurrentThere' /\ BuildersRun'
    BY <1>1, <1>2, <1>3 DEF CurrentThere, BuildersRun
  <1>7. PairedAtRest'
    BY <1>1, <1>2, <1>3, OneDeployer DEF PairedAtRest, Paired, OneDeployer
  <1> QED
    BY <1>4, <1>5, <1>6, <1>7, OneDeployer DEF DeployInv, OneDeployer

LEMMA DrainTimeoutKeeps ==
  ASSUME NEW d \in Deployer, OneDeployer, DeployInv, DrainTimeout(d)
  PROVE  DeployInv'
  <1>1. Held(d) /\ TypeOK /\ CurrentThere /\ BuildersRun /\ PairedAtRest
    BY DEF DeployInv
  <1>2. /\ host'.current = host.current /\ host'.docroot = host.docroot
        /\ host'.config = host.config
        /\ host'.active = host.active \cup dep[d].snap
        /\ host'.db.level = host.db.level /\ host'.db.partial = host.db.partial
        /\ host'.db.meta = host.db.meta /\ host'.db.geom = host.db.geom
        /\ host'.db.rows = host.db.rows /\ host' \in Host
    BY <1>1, HostTyped, DepTyped DEF DrainTimeout, End, Host, Database, Resumed
  <1>3. /\ dep[d].pc = "drain"
        /\ dep' = [dep EXCEPT ![d] = Idle] /\ dep'[d].pc = "idle"
        /\ dep'[d].snap = {}
        /\ UNCHANGED <<dir, service>>
        /\ alarm' = alarm
    BY <1>1 DEF DrainTimeout, End, TypeOK, Idle
  <1>4. TypeOK'
    BY <1>1, <1>2, <1>3, IdleTyped DEF DrainTimeout, End, TypeOK
  <1>5. Held(d)'
    BY <1>3
    DEF Held, StagedWhole, UnitsKept, DoneSoFar, Recoverable, StartedWhole,
        Engaged, Armed, RollbackPc
  <1>6. CurrentThere' /\ BuildersRun'
    BY <1>1, <1>2, <1>3 DEF CurrentThere, BuildersRun
  <1>7. PairedAtRest'
    BY <1>1, <1>2, <1>3
    DEF PairedAtRest, Paired, Held, StagedWhole, Recoverable, StartedWhole,
       OnePiece, Engaged, Armed, RollbackPc, Point, Early, ConfigInstalled, DocrootBuilt, Unmutated, Keeps
  <1> QED
    BY <1>4, <1>5, <1>6, <1>7, OneDeployer DEF DeployInv, OneDeployer

LEMMA LeaveDownKeeps ==
  ASSUME NEW d \in Deployer, OneDeployer, DeployInv, LeaveDown(d)
  PROVE  DeployInv'
  <1>1. Held(d) /\ TypeOK /\ CurrentThere /\ BuildersRun /\ PairedAtRest
    BY DEF DeployInv
  <1>2. /\ host'.current = IF Switched(dep[d].at) THEN NoRelease ELSE host.current
        /\ host'.docroot = host.docroot /\ host'.config = host.config
        /\ host'.active = host.active /\ host'.db.level = host.db.level
        /\ host'.db.partial = host.db.partial /\ host'.db.meta = host.db.meta
        /\ host'.db.geom = host.db.geom /\ host'.db.rows = host.db.rows
        /\ host' \in Host
    BY <1>1, HostTyped, DepTyped DEF LeaveDown, End, Host, Database
  <1>3. /\ dep[d].pc = "restore_link" /\ dep[d].prev = NoRelease
        /\ dep' = [dep EXCEPT ![d] = Idle] /\ dep'[d].pc = "idle"
        /\ dep'[d].snap = {}
        /\ UNCHANGED <<dir, service>>
        /\ alarm' = TRUE
    BY <1>1 DEF LeaveDown, End, TypeOK, Idle
  <1>4. TypeOK'
    BY <1>1, <1>2, <1>3, IdleTyped DEF LeaveDown, End, TypeOK
  <1>5. Held(d)'
    BY <1>3
    DEF Held, StagedWhole, UnitsKept, DoneSoFar, Recoverable, StartedWhole,
        Engaged, Armed, RollbackPc
  <1>6. CurrentThere' /\ BuildersRun'
    BY <1>1, <1>2, <1>3 DEF CurrentThere, BuildersRun
  <1>7. PairedAtRest'
    BY <1>3 DEF PairedAtRest
  <1> QED
    BY <1>4, <1>5, <1>6, <1>7, OneDeployer DEF DeployInv, OneDeployer

LEMMA ResumeOldKeeps ==
  ASSUME NEW d \in Deployer, OneDeployer, DeployInv, ResumeOld(d)
  PROVE  DeployInv'
  <1>1. Held(d) /\ TypeOK /\ CurrentThere /\ BuildersRun /\ PairedAtRest
    BY DEF DeployInv
  <1>2. /\ host'.current = host.current /\ host'.docroot = host.docroot
        /\ host'.config = host.config
        /\ host'.active = host.active \cup dep[d].snap
        /\ host'.db.level = host.db.level /\ host'.db.partial = host.db.partial
        /\ host'.db.meta = host.db.meta /\ host'.db.geom = host.db.geom
        /\ host'.db.rows = host.db.rows /\ host' \in Host
    BY <1>1, HostTyped, DepTyped DEF ResumeOld, End, Host, Database, Resumed
  <1>3. /\ dep[d].pc = "resume_old"
        /\ dep' = [dep EXCEPT ![d] = Idle] /\ dep'[d].pc = "idle"
        /\ dep'[d].snap = {}
        /\ UNCHANGED <<dir, service>>
        /\ alarm' = alarm
    BY <1>1 DEF ResumeOld, End, TypeOK, Idle
  <1>4. TypeOK'
    BY <1>1, <1>2, <1>3, IdleTyped DEF ResumeOld, End, TypeOK
  <1>5. Held(d)'
    BY <1>3
    DEF Held, StagedWhole, UnitsKept, DoneSoFar, Recoverable, StartedWhole,
        Engaged, Armed, RollbackPc
  <1>6. CurrentThere' /\ BuildersRun'
    BY <1>1, <1>2, <1>3 DEF CurrentThere, BuildersRun
  <1>7. PairedAtRest'
    <2> SUFFICES ASSUME ~ alarm PROVE Paired'
      BY <1>3 DEF PairedAtRest
    <2> DEFINE was == dep[d].before
    <2>1. /\ host.current = was.current /\ host.current # NoRelease
          /\ OnePiece(was) /\ Keeps(host.db, was.db)
          /\ \A u \in Unit : service[u].code \in {was.current, NoRelease}
      BY <1>1, <1>3
      DEF Held, StagedWhole, Recoverable, StartedWhole, Engaged, Armed,
          RollbackPc
    <2>2. host.config = was.config
      BY <1>1, <1>3, <2>1 DEF Held, Recoverable, OnePiece, Engaged, Armed, RollbackPc
    <2>3. host.docroot \in {was.current, Mixed}
      BY <1>1, <1>3
      DEF Held, Recoverable, StartedWhole, Engaged, Armed, RollbackPc, Point
    <2> QED
      BY <1>2, <1>3, <2>1, <2>2, <2>3 DEF Paired, OnePiece, Keeps
  <1> QED
    BY <1>4, <1>5, <1>6, <1>7, OneDeployer DEF DeployInv, OneDeployer

-----------------------------------------------------------------------------
(* The other steps of the script.                                          *)

LEMMA StageKeeps ==
  ASSUME NEW d \in Deployer, NEW r \in Release, OneDeployer, DeployInv, Stage(d, r)
  PROVE  DeployInv'
  <1>1. Held(d) /\ TypeOK /\ CurrentThere /\ BuildersRun /\ PairedAtRest
    BY DEF DeployInv
  <1>2. dep[d] \in DepType /\ dep \in [Deployer -> DepType]
        /\ dir \in [Release -> {"absent", "partial", "whole"}]
    BY <1>1 DEF TypeOK
  <1> DEFINE to == IF dir[r] = "whole" THEN "staged" ELSE "staging"
  <1>3. /\ dep[d].pc = "idle" /\ dep' = [dep EXCEPT ![d].pc = to, ![d].rel = r]
        /\ dir' = IF dir[r] = "whole" THEN dir ELSE [dir EXCEPT ![r] = "partial"]
        /\ UNCHANGED <<host, service, alarm, deaths>>
    BY DEF Stage
  <1>4. dep'[d].pc = to /\ dep'[d].rel = r /\ dep'[d].snap = dep[d].snap
    BY <1>2, <1>3 DEF DepType
  <1>5. TypeOK'
    <2>1. [dep[d] EXCEPT !.pc = to, !.rel = r] \in DepType
      BY <1>2 DEF DepType, Pc, MaybeRelease
    <2>2. dep' \in [Deployer -> DepType] /\ dir' \in [Release -> {"absent", "partial", "whole"}]
      BY <1>2, <1>3, <2>1
    <2>3. deploys' \in 0..MaxDeploys /\ mtime' \in [Release -> Nat]
      BY <1>1, DeployAssumption DEF TypeOK, Stage
    <2> QED
      BY <1>1, <1>3, <2>2, <2>3 DEF TypeOK
  <1>6. Held(d)'
    BY <1>1, <1>2, <1>3, <1>4
    DEF Held, StagedWhole, UnitsKept, DoneSoFar, Recoverable, StartedWhole,
        Engaged, Armed, RollbackPc
  <1>7. CurrentThere' /\ BuildersRun'
    BY <1>1, <1>2, <1>3, HostTyped DEF CurrentThere, BuildersRun, Host, MaybeRelease
  <1>8. PairedAtRest'
    BY <1>1, <1>3, <1>4, OneDeployer DEF PairedAtRest, Paired, OneDeployer
  <1> QED
    BY <1>5, <1>6, <1>7, <1>8, OneDeployer DEF DeployInv, OneDeployer

LEMMA FinishStageKeeps ==
  ASSUME NEW d \in Deployer, OneDeployer, DeployInv, FinishStage(d)
  PROVE  DeployInv'
  <1>1. Held(d) /\ TypeOK /\ CurrentThere /\ BuildersRun /\ PairedAtRest
    BY DEF DeployInv
  <1>2. dep[d] \in DepType /\ dep \in [Deployer -> DepType]
        /\ dir \in [Release -> {"absent", "partial", "whole"}]
    BY <1>1 DEF TypeOK
  <1>3. /\ dep[d].pc = "staging" /\ dep' = [dep EXCEPT ![d].pc = "staged"]
        /\ dir' = [dir EXCEPT ![dep[d].rel] = "whole"]
        /\ UNCHANGED <<host, service, alarm, deaths>>
    BY DEF FinishStage
  <1>4. dep'[d].pc = "staged" /\ dep'[d].rel = dep[d].rel /\ dep'[d].snap = dep[d].snap
    BY <1>2, <1>3 DEF DepType
  <1>5. TypeOK'
    <2>1. dep' \in [Deployer -> DepType]
      BY <1>1, <1>3, PcTyped DEF Pc
    <2>2. dir' \in [Release -> {"absent", "partial", "whole"}]
      BY <1>2, <1>3
    <2> QED
      BY <1>1, <2>1, <2>2 DEF TypeOK, FinishStage
  <1>6. Held(d)'
    BY <1>1, <1>2, <1>3, <1>4
    DEF Held, StagedWhole, UnitsKept, DoneSoFar, Recoverable, StartedWhole,
        Engaged, Armed, RollbackPc
  <1>7. CurrentThere' /\ BuildersRun'
    BY <1>1, <1>2, <1>3 DEF CurrentThere, BuildersRun
  <1>8. PairedAtRest'
    BY <1>1, <1>3, <1>4, OneDeployer DEF PairedAtRest, Paired, OneDeployer
  <1> QED
    BY <1>5, <1>6, <1>7, <1>8, OneDeployer DEF DeployInv, OneDeployer

LEMMA ArmKeeps ==
  ASSUME NEW d \in Deployer, OneDeployer, DeployInv, Arm(d)
  PROVE  DeployInv'
  <1>1. Held(d) /\ TypeOK /\ CurrentThere /\ BuildersRun /\ PairedAtRest
    BY DEF DeployInv
  <1>2. dep[d] \in DepType /\ dep \in [Deployer -> DepType]
    BY <1>1 DEF TypeOK
  <1>3. /\ dep[d].pc = "staged"
        /\ dep'[d].pc = "maintenance" /\ dep'[d].rel = dep[d].rel
        /\ dep'[d].prev = host.current /\ dep'[d].snap = dep[d].snap
        /\ dep'[d].before = host
        /\ UNCHANGED <<host, dir, service, alarm>>
    BY <1>2 DEF Arm, DepType
  <1>4. TypeOK'
    <2>1. [dep[d] EXCEPT !.pc = "maintenance", !.prev = host.current, !.before = host] \in DepType
      BY <1>1, <1>2, HostTyped DEF DepType, Pc, Armed, Host
    <2>2. dep' \in [Deployer -> DepType]
      BY <1>2, <2>1 DEF Arm
    <2> QED
      BY <1>1, <2>2 DEF TypeOK, Arm
  <1>5. ~ alarm => Paired
    BY <1>1, <1>3, OneDeployer DEF PairedAtRest, OneDeployer
  <1>6. Held(d)'
    <2>1. StagedWhole(d)' /\ UnitsKept(d)' /\ DoneSoFar(d)'
      BY <1>1, <1>3
      DEF Held, StagedWhole, UnitsKept, DoneSoFar, CurrentThere, Engaged, Point,
         Early, Armed, RollbackPc
    <2>2. Recoverable(d)'
      BY <1>1, <1>3, HostTyped
      DEF Recoverable, Engaged, Point, Armed, RollbackPc, Keeps,
         ConfigInstalled, DocrootBuilt, Unmutated
    <2>3. StartedWhole(d)'
      BY <1>3, <1>5
      DEF StartedWhole, Paired, OnePiece, Engaged, Point, Armed, RollbackPc
    <2> QED
      BY <2>1, <2>2, <2>3 DEF Held
  <1>7. CurrentThere' /\ BuildersRun' /\ PairedAtRest'
    BY <1>1, <1>3 DEF CurrentThere, BuildersRun, PairedAtRest
  <1> QED
    BY <1>4, <1>6, <1>7, OneDeployer DEF DeployInv, OneDeployer

LEMMA FailKeeps ==
  ASSUME NEW d \in Deployer, OneDeployer, DeployInv, Fail(d)
  PROVE  DeployInv'
  <1>1. Held(d) /\ TypeOK /\ CurrentThere /\ BuildersRun /\ PairedAtRest
    BY DEF DeployInv
  <1>2. dep[d] \in DepType /\ dep \in [Deployer -> DepType]
    BY <1>1 DEF TypeOK
  <1>3. /\ dep[d].pc \in Armed \ {"quiesce", "drain"}
        /\ dep'[d].pc = "restore_config" /\ dep'[d].at = dep[d].pc
        /\ dep'[d].rel = dep[d].rel /\ dep'[d].prev = dep[d].prev
        /\ dep'[d].snap = dep[d].snap /\ dep'[d].backup = dep[d].backup
        /\ dep'[d].oldConfig = dep[d].oldConfig /\ dep'[d].before = dep[d].before
        /\ UNCHANGED <<host, dir, service, alarm>>
    BY <1>2 DEF Fail, DepType
  <1>4. TypeOK'
    <2>1. [dep[d] EXCEPT !.pc = "restore_config", !.at = dep[d].pc] \in DepType
      BY <1>2, <1>3 DEF DepType, Pc, RollbackPc
    <2>2. dep' \in [Deployer -> DepType]
      BY <1>2, <2>1 DEF Fail
    <2> QED
      BY <1>1, <2>2 DEF TypeOK, Fail
  <1>5. /\ Engaged(d) /\ Engaged(d)' /\ Point(d)' = Point(d)
        /\ dep[d].pc # "resume" /\ dep[d].pc \notin RollbackPc
    BY <1>3 DEF Engaged, Point, Armed, RollbackPc
  <1>6. Held(d)'
    <2>1. StagedWhole(d)' /\ DoneSoFar(d)'
      BY <1>1, <1>3, <1>5 DEF Held, StagedWhole, DoneSoFar, RollbackPc, Armed
    <2>2. UnitsKept(d)' /\ StartedWhole(d)'
      BY <1>1, <1>3, <1>5 DEF Held, UnitsKept, StartedWhole
    <2>3. Recoverable(d)'
      BY <1>1, <1>3, <1>5 DEF Held, Recoverable, RollbackPc
    <2> QED
      BY <2>1, <2>2, <2>3 DEF Held
  <1>7. CurrentThere' /\ BuildersRun' /\ PairedAtRest'
    BY <1>1, <1>3 DEF CurrentThere, BuildersRun, PairedAtRest
  <1> QED
    BY <1>4, <1>6, <1>7, OneDeployer DEF DeployInv, OneDeployer

LEMMA ResumeKeeps ==
  ASSUME NEW d \in Deployer, OneDeployer, DeployInv, Resume(d)
  PROVE  DeployInv'
  <1>1. Held(d) /\ TypeOK /\ CurrentThere /\ BuildersRun /\ PairedAtRest
    BY DEF DeployInv
  <1>2. dep[d] \in DepType /\ dep \in [Deployer -> DepType]
    BY <1>1 DEF TypeOK
  <1>3. /\ dep[d].pc = "resume" /\ dep' = [dep EXCEPT ![d].pc = "prune"]
        /\ dep'[d].pc = "prune" /\ dep'[d].rel = dep[d].rel
        /\ alarm' = (host.db.partial > 0)
        /\ UNCHANGED <<dir, service>>
    BY <1>2 DEF Resume, DepType
  <1>4. /\ host'.current = host.current /\ host'.docroot = host.docroot
        /\ host'.config = host.config /\ host'.db = host.db /\ host' \in Host
    BY <1>1, HostTyped, DepTyped DEF Resume, Resumed, Host
  <1>5. TypeOK'
    <2>1. dep' \in [Deployer -> DepType]
      BY <1>1, <1>3, PcTyped DEF Pc
    <2> QED
      BY <1>1, <1>3, <1>4, <2>1 DEF TypeOK, Resume
  <1>6. Held(d)'
    BY <1>1, <1>3
    DEF Held, StagedWhole, UnitsKept, DoneSoFar, Recoverable, StartedWhole,
        Engaged, Armed, RollbackPc
  <1>7. CurrentThere' /\ BuildersRun'
    BY <1>1, <1>3, <1>4 DEF CurrentThere, BuildersRun
  <1>8. PairedAtRest'
    <2>1. ~ (host.db.partial > 0) => host.db.partial = 0
      BY <1>1, HostTyped DEF Database
    <2>2. /\ host.db.level >= Level[dep[d].rel]
          /\ host.db.meta = dep[d].rel /\ host.db.geom = dep[d].rel
          /\ host.docroot = dep[d].rel /\ host.config = dep[d].rel
          /\ host.current = dep[d].rel
      BY <1>1, <1>3 DEF Held, DoneSoFar
    <2>3. \A u \in Unit : service[u].code = NoRelease
      BY <1>1, <1>3 DEF Held, UnitsKept, Resting
    <2> QED
      BY <1>3, <1>4, <2>1, <2>2, <2>3 DEF PairedAtRest, Paired
  <1> QED
    BY <1>5, <1>6, <1>7, <1>8, OneDeployer DEF DeployInv, OneDeployer

LEMMA PruneKeeps ==
  ASSUME NEW d \in Deployer, OneDeployer, DeployInv, Prune(d)
  PROVE  DeployInv'
  <1>1. Held(d) /\ TypeOK /\ CurrentThere /\ BuildersRun /\ PairedAtRest
    BY DEF DeployInv
  <1>2. /\ dep[d].pc = "prune" /\ dep' = [dep EXCEPT ![d] = Idle]
        /\ dep'[d].pc = "idle" /\ dep'[d].snap = {}
        /\ dir' = [s \in Release |-> IF s \in Prunable(d) THEN "absent" ELSE dir[s]]
        /\ UNCHANGED <<host, mtime, service, alarm, deploys, deaths>>
    BY <1>1 DEF Prune, TypeOK, Idle
  <1>3. host.current \notin Prunable(d)
    BY DEF Prunable
  <1>4. TypeOK'
    <2>1. dep' \in [Deployer -> DepType]
      BY <1>1, <1>2, IdleTyped DEF TypeOK
    <2>2. dir' \in [Release -> {"absent", "partial", "whole"}]
      BY <1>1, <1>2 DEF TypeOK
    <2> QED
      BY <1>1, <1>2, <2>1, <2>2 DEF TypeOK
  <1>5. Held(d)'
    BY <1>2
    DEF Held, StagedWhole, UnitsKept, DoneSoFar, Recoverable, StartedWhole,
        Engaged, Armed, RollbackPc
  <1>6. CurrentThere' /\ BuildersRun'
    BY <1>1, <1>2, <1>3, HostTyped DEF CurrentThere, BuildersRun, Host, MaybeRelease
  <1>7. PairedAtRest'
    BY <1>1, <1>2, OneDeployer DEF PairedAtRest, Paired, OneDeployer
  <1> QED
    BY <1>4, <1>5, <1>6, <1>7, OneDeployer DEF DeployInv, OneDeployer

LEMMA DieKeeps ==
  ASSUME NEW d \in Deployer, OneDeployer, DeployInv, Die(d)
  PROVE  DeployInv'
  <1>1. Held(d) /\ TypeOK /\ CurrentThere /\ BuildersRun /\ PairedAtRest
    BY DEF DeployInv
  <1>2. /\ dep' = [dep EXCEPT ![d] = Idle] /\ dep'[d].pc = "idle" /\ dep'[d].snap = {}
        /\ alarm' = (alarm \/ dep[d].pc \notin {"staging", "staged", "prune"})
        /\ UNCHANGED <<host, dir, mtime, service, deploys>>
    BY <1>1 DEF Die, TypeOK, Idle
  <1>3. TypeOK'
    <2>1. dep' \in [Deployer -> DepType]
      BY <1>1, <1>2, IdleTyped DEF TypeOK
    <2>2. deaths' \in 0..MaxDeaths
      BY <1>1, DeployAssumption DEF TypeOK, Die
    <2> QED
      BY <1>1, <1>2, <2>1, <2>2 DEF TypeOK
  <1>4. Held(d)'
    BY <1>2
    DEF Held, StagedWhole, UnitsKept, DoneSoFar, Recoverable, StartedWhole,
        Engaged, Armed, RollbackPc
  <1>5. CurrentThere' /\ BuildersRun'
    BY <1>1, <1>2 DEF CurrentThere, BuildersRun
  <1>6. PairedAtRest'
    BY <1>1, <1>2, OneDeployer DEF PairedAtRest, Paired, OneDeployer
  <1> QED
    BY <1>3, <1>4, <1>5, <1>6, OneDeployer DEF DeployInv, OneDeployer

\* What does not speak of the services.
LEMMA Unmoved ==
  ASSUME NEW d \in Deployer, StagedWhole(d), DoneSoFar(d), Recoverable(d),
         UNCHANGED <<host, dir, dep, alarm>>
  PROVE  StagedWhole(d)' /\ DoneSoFar(d)' /\ Recoverable(d)'
  <1>1. StagedWhole(d)'
    BY DEF StagedWhole, Engaged
  <1>2. DoneSoFar(d)'
    BY DEF DoneSoFar
  <1>3. Recoverable(d)'
    BY DEF Recoverable, Engaged, Point, Keeps
  <1> QED
    BY <1>1, <1>2, <1>3

LEMMA StartServiceKeeps ==
  ASSUME NEW u \in Unit, DeployInv, StartService(u)
  PROVE  DeployInv'
  <1>1. TypeOK /\ CurrentThere /\ BuildersRun /\ PairedAtRest
    BY DEF DeployInv
  <1>2. /\ u \in host.active /\ host.current # NoRelease
        /\ service' = [service EXCEPT ![u].code = host.current]
        /\ UNCHANGED <<host, dir, mtime, dep, alarm, deploys, deaths>>
    BY DEF StartService
  <1>3. /\ service' \in [Unit -> [code : MaybeRelease, building : BOOLEAN]]
        /\ service'[u].code = host.current
        /\ \A w \in Unit : w # u => service'[w] = service[w]
    BY <1>1, <1>2, HostTyped DEF TypeOK, Host
  <1>4. TypeOK'
    BY <1>1, <1>2, <1>3 DEF TypeOK
  <1>5. ASSUME NEW d \in Deployer
        PROVE  Held(d)'
    <2>1. Held(d)
      BY DEF DeployInv
    <2>2. StagedWhole(d)' /\ DoneSoFar(d)' /\ Recoverable(d)'
      BY <1>2, <2>1, Unmoved DEF Held
    <2>3. UnitsKept(d)'
      BY <1>2, <2>1 DEF Held, UnitsKept, Engaged, Point, Early
    <2>4. Engaged(d) => host.current = dep[d].before.current
      BY <1>2, <2>1 DEF Held, UnitsKept, Recoverable, Early
    <2>5. StartedWhole(d)'
      BY <1>2, <1>3, <2>1, <2>4 DEF Held, StartedWhole, Engaged, Point, OnePiece
    <2> QED
      BY <2>2, <2>3, <2>5 DEF Held
  <1>6. CurrentThere' /\ BuildersRun'
    BY <1>1, <1>2, <1>3 DEF CurrentThere, BuildersRun
  <1>7. PairedAtRest'
    BY <1>1, <1>2, <1>3 DEF PairedAtRest, Paired
  <1> QED
    BY <1>4, <1>5, <1>6, <1>7 DEF DeployInv

\* A service at work means that the units were not stopped.
LEMMA AtWork ==
  ASSUME NEW d \in Deployer, NEW u \in Unit, Held(d), TypeOK, service[u] # Resting
  PROVE  /\ dep[d].pc # "resume"
         /\ Engaged(d) => Point(d) \in {"maintenance", "quiesce", "drain"}
  BY DEF Held, UnitsKept, Early

LEMMA ServiceBuildsKeeps ==
  ASSUME NEW u \in Unit, DeployInv, ServiceBuilds(u)
  PROVE  DeployInv'
  <1>1. TypeOK /\ CurrentThere /\ BuildersRun /\ PairedAtRest
    BY DEF DeployInv
  <1>2. /\ service[u].code # NoRelease
        /\ service' = [service EXCEPT ![u].building = TRUE]
        /\ host' = [host EXCEPT !.docroot = Mixed]
        /\ UNCHANGED <<dir, mtime, dep, alarm, deploys, deaths>>
    BY DEF ServiceBuilds
  <1>3. /\ service' \in [Unit -> [code : MaybeRelease, building : BOOLEAN]]
        /\ \A w \in Unit : service'[w].code = service[w].code
        /\ \A w \in Unit : w # u => service'[w] = service[w]
    BY <1>1, <1>2 DEF TypeOK
  <1>busy. service[u] # Resting
    BY <1>2 DEF Resting
  <1>4. /\ host' \in Host /\ host'.docroot = Mixed /\ host'.current = host.current
        /\ host'.config = host.config /\ host'.db = host.db /\ host'.active = host.active
    BY <1>1, <1>2, HostTyped DEF Host
  <1>5. TypeOK'
    BY <1>1, <1>2, <1>3, <1>4 DEF TypeOK
  <1>6. ASSUME NEW d \in Deployer
        PROVE  Held(d)'
    <2>1. Held(d)
      BY DEF DeployInv
    <2>2. /\ dep[d].pc # "resume"
          /\ Engaged(d) => Point(d) \in {"maintenance", "quiesce", "drain"}
      BY <1>1, <1>busy, <2>1, AtWork
    <2>3. StagedWhole(d)' /\ UnitsKept(d)'
      BY <1>2, <1>4, <2>1, <2>2
      DEF Held, StagedWhole, UnitsKept, Engaged, Point, Early
    <2>4. DoneSoFar(d)'
      BY <1>2, <1>4, <2>1, <2>2 DEF Held, DoneSoFar, Engaged, Point, Armed
    <2>5. Recoverable(d)'
      BY <1>2, <1>4, <2>1, <2>2
      DEF Held, Recoverable, Engaged, Point, Keeps, DocrootBuilt
    <2>6. StartedWhole(d)'
      BY <1>2, <1>3, <1>4, <2>1 DEF Held, StartedWhole, Engaged, Point, OnePiece
    <2> QED
      BY <2>3, <2>4, <2>5, <2>6 DEF Held
  <1>7. CurrentThere' /\ BuildersRun'
    BY <1>1, <1>2, <1>3, <1>4 DEF CurrentThere, BuildersRun
  <1>8. PairedAtRest'
    BY <1>1, <1>2, <1>3, <1>4 DEF PairedAtRest, Paired
  <1> QED
    BY <1>5, <1>6, <1>7, <1>8 DEF DeployInv

LEMMA ServiceEndsKeeps ==
  ASSUME NEW u \in Unit, DeployInv, ServiceEnds(u)
  PROVE  DeployInv'
  <1>1. TypeOK /\ CurrentThere /\ BuildersRun /\ PairedAtRest
    BY DEF DeployInv
  <1>2. /\ service[u] # Resting
        /\ service' = [service EXCEPT ![u] = Resting]
        /\ UNCHANGED <<dir, mtime, dep, alarm, deploys, deaths>>
    BY DEF ServiceEnds
  <1>3. /\ service' \in [Unit -> [code : MaybeRelease, building : BOOLEAN]]
        /\ \A w \in Unit : service'[w].code \in {service[w].code, NoRelease}
        /\ \A w \in Unit : service'[w] \in {service[w], Resting}
    BY <1>1, <1>2 DEF TypeOK, Resting, MaybeRelease
  <1>4. /\ host' \in Host /\ host'.current = host.current
        /\ \/ host'.docroot = host.docroot
           \/ host'.docroot = service[u].code /\ service[u].code # NoRelease
        /\ host'.config = host.config /\ host'.db = host.db /\ host'.active = host.active
    <2>1. service[u].code \in MaybeRelease
      BY <1>1 DEF TypeOK
    <2>2. CASE host' = host
      BY <1>1, <2>2, HostTyped
    <2>3. CASE service[u].building /\ host' = [host EXCEPT !.docroot = service[u].code]
      BY <1>1, <2>1, <2>3, HostTyped DEF Host, BuildersRun
    <2> QED
      BY <2>2, <2>3 DEF ServiceEnds
  <1>5. TypeOK'
    BY <1>1, <1>2, <1>3, <1>4 DEF TypeOK
  <1>6. ASSUME NEW d \in Deployer
        PROVE  Held(d)'
    <2>1. Held(d)
      BY DEF DeployInv
    <2>2. /\ dep[d].pc # "resume"
          /\ Engaged(d) => Point(d) \in {"maintenance", "quiesce", "drain"}
      BY <1>1, <1>2, <2>1, AtWork
    <2>3. StagedWhole(d)' /\ UnitsKept(d)'
      BY <1>2, <1>4, <2>1, <2>2
      DEF Held, StagedWhole, UnitsKept, Engaged, Point, Early
    <2>4. DoneSoFar(d)'
      BY <1>2, <1>4, <2>1, <2>2 DEF Held, DoneSoFar, Engaged, Point, Armed
    <2>5. Recoverable(d)'
      BY <1>2, <1>4, <2>1, <2>2
      DEF Held, Recoverable, Engaged, Point, Keeps, DocrootBuilt
    <2>6. StartedWhole(d)'
      BY <1>2, <1>3, <1>4, <2>1 DEF Held, StartedWhole, Engaged, Point, OnePiece
    <2> QED
      BY <2>3, <2>4, <2>5, <2>6 DEF Held
  <1>7. CurrentThere' /\ BuildersRun'
    BY <1>1, <1>2, <1>3, <1>4 DEF CurrentThere, BuildersRun, Resting
  <1>8. PairedAtRest'
    BY <1>1, <1>2, <1>3, <1>4 DEF PairedAtRest, Paired
  <1> QED
    BY <1>5, <1>6, <1>7, <1>8 DEF DeployInv

-----------------------------------------------------------------------------
(* The web site and the machine.                                           *)

LEMMA WebWriteKeeps ==
  ASSUME NEW w \in Write, DeployInv, WebWrite(w)
  PROVE  DeployInv'
  <1>1. TypeOK /\ CurrentThere /\ BuildersRun /\ PairedAtRest
    BY DEF DeployInv
  <1>2. UNCHANGED <<dir, mtime, service, dep, alarm, deploys, deaths>>
    BY DEF WebWrite
  <1>3. /\ host' \in Host /\ host'.current = host.current /\ host'.docroot = host.docroot
        /\ host'.config = host.config /\ host'.active = host.active
        /\ host'.db.level = host.db.level /\ host'.db.partial = host.db.partial
        /\ host'.db.meta = host.db.meta /\ host'.db.geom = host.db.geom
        /\ host'.db.rows = host.db.rows \cup {w}
    BY <1>1, HostTyped DEF WebWrite, Host, Database
  <1>4. TypeOK'
    BY <1>1, <1>2, <1>3 DEF TypeOK
  <1>5. ASSUME NEW d \in Deployer
        PROVE  Held(d)'
    <2>1. Held(d)
      BY DEF DeployInv
    <2>2. StagedWhole(d)' /\ UnitsKept(d)' /\ DoneSoFar(d)'
      BY <1>2, <1>3, <2>1 DEF Held, StagedWhole, UnitsKept, DoneSoFar, Engaged, Point
    <2>3. Recoverable(d)'
      BY <1>2, <1>3, <2>1 DEF Held, Recoverable, Engaged, Point, Keeps
    <2>4. StartedWhole(d)'
      BY <1>2, <1>3, <2>1 DEF Held, StartedWhole, Engaged, Point, OnePiece
    <2> QED
      BY <2>2, <2>3, <2>4 DEF Held
  <1>6. CurrentThere' /\ BuildersRun' /\ PairedAtRest'
    BY <1>1, <1>2, <1>3 DEF CurrentThere, BuildersRun, PairedAtRest, Paired
  <1> QED
    BY <1>4, <1>5, <1>6 DEF DeployInv

LEMMA RebootKeeps ==
  ASSUME DeployInv, Reboot
  PROVE  DeployInv'
  <1>1. TypeOK /\ CurrentThere /\ BuildersRun /\ PairedAtRest
    BY DEF DeployInv
  <1>2. /\ dep' = [d \in Deployer |-> Idle] /\ service' = [u \in Unit |-> Resting]
        /\ host' = [host EXCEPT !.active = Enabled]
        /\ alarm' = (alarm \/ \E d \in Deployer :
                        dep[d].pc \notin {"idle", "staging", "staged", "prune"})
        /\ UNCHANGED <<dir, mtime, deploys>>
    BY DEF Reboot
  <1>3. /\ host' \in Host /\ host'.current = host.current /\ host'.docroot = host.docroot
        /\ host'.config = host.config /\ host'.db = host.db
    BY <1>1, <1>2, HostTyped, DeployAssumption DEF Host
  <1>4. TypeOK'
    <2>1. dep' \in [Deployer -> DepType]
      BY <1>2, IdleTyped
    <2>2. deaths' \in 0..MaxDeaths
      BY <1>1, DeployAssumption DEF TypeOK, Reboot
    <2>3. service' \in [Unit -> [code : MaybeRelease, building : BOOLEAN]]
      BY <1>2 DEF Resting, MaybeRelease
    <2> QED
      BY <1>1, <1>2, <1>3, <2>1, <2>2, <2>3 DEF TypeOK
  <1>5. ASSUME NEW d \in Deployer
        PROVE  Held(d)'
    <2>1. dep'[d].pc = "idle" /\ dep'[d].snap = {}
      BY <1>2 DEF Idle
    <2> QED
      BY <2>1
      DEF Held, StagedWhole, UnitsKept, DoneSoFar, Recoverable, StartedWhole,
          Engaged, Armed, RollbackPc
  <1>6. CurrentThere' /\ BuildersRun'
    BY <1>1, <1>2, <1>3 DEF CurrentThere, BuildersRun, Resting
  <1>7. PairedAtRest'
    BY <1>1, <1>2, <1>3 DEF PairedAtRest, Paired, Resting
  <1> QED
    BY <1>4, <1>5, <1>6, <1>7 DEF DeployInv

-----------------------------------------------------------------------------
(* DeployInv holds always.                                                 *)

LEMMA InitInv == Init => DeployInv
  <1> SUFFICES ASSUME Init
               PROVE  DeployInv
    OBVIOUS
  <1> USE DEF Init
  <1>1. PICK r \in MaybeRelease :
          /\ host = [current |-> r, docroot |-> r, config |-> r,
                     db |-> [level |-> IF r = NoRelease THEN 0 ELSE Level[r],
                             partial |-> 0, meta |-> r, geom |-> r, rows |-> {}],
                     active |-> Enabled, maintenance |-> FALSE]
          /\ dir = [s \in Release |-> IF s = r THEN "whole" ELSE "absent"]
    OBVIOUS
  <1>2. (IF r = NoRelease THEN 0 ELSE Level[r]) \in Nat
    BY DeployAssumption DEF MaybeRelease
  <1>3. /\ host \in Host /\ host.current = r /\ host.docroot = r /\ host.config = r
        /\ host.db.meta = r /\ host.db.geom = r /\ host.db.partial = 0
        /\ host.db.level = IF r = NoRelease THEN 0 ELSE Level[r]
    BY <1>1, <1>2, DeployAssumption DEF Host, Database
  <1>4. TypeOK
    <2>1. dir \in [Release -> {"absent", "partial", "whole"}]
      BY <1>1
    <2>2. dep \in [Deployer -> DepType]
      BY IdleTyped
    <2>3. service \in [Unit -> [code : MaybeRelease, building : BOOLEAN]]
      BY DEF Resting, MaybeRelease
    <2>4. /\ mtime \in [Release -> Nat] /\ alarm \in BOOLEAN
          /\ deploys = 0 /\ deaths = 0
      OBVIOUS
    <2>5. 0 \in 0..MaxDeploys /\ 0 \in 0..MaxDeaths
      BY DeployAssumption
    <2> QED
      BY <1>3, <2>1, <2>2, <2>3, <2>4, <2>5 DEF TypeOK
  <1>5. ASSUME NEW d \in Deployer
        PROVE  Held(d)
    <2>1. dep[d].pc = "idle" /\ dep[d].snap = {}
      BY DEF Idle
    <2> QED
      BY <2>1
      DEF Held, StagedWhole, UnitsKept, DoneSoFar, Recoverable, StartedWhole,
          Engaged, Armed, RollbackPc
  <1>6. CurrentThere /\ BuildersRun
    BY <1>1, <1>3 DEF CurrentThere, BuildersRun, Resting, MaybeRelease
  <1>7. PairedAtRest
    <2>1. r # NoRelease => host.db.level >= Level[r]
      BY <1>2, <1>3
    <2> QED
      BY <1>3, <2>1 DEF PairedAtRest, Paired, Resting
  <1> QED
    BY <1>4, <1>5, <1>6, <1>7 DEF DeployInv

LEMMA StutterKeeps == DeployInv /\ UNCHANGED vars => DeployInv'
  <1> SUFFICES ASSUME DeployInv, UNCHANGED vars
               PROVE  DeployInv'
    OBVIOUS
  <1> USE DEF vars
  <1>1. TypeOK' /\ CurrentThere' /\ BuildersRun' /\ PairedAtRest'
    BY DEF DeployInv, TypeOK, CurrentThere, BuildersRun, PairedAtRest, Paired
  <1>2. ASSUME NEW d \in Deployer
        PROVE  Held(d)'
    <2>1. Held(d)
      BY DEF DeployInv
    <2>2. StagedWhole(d)' /\ DoneSoFar(d)' /\ Recoverable(d)'
      BY <2>1, Unmoved DEF Held
    <2>3. UnitsKept(d)' /\ StartedWhole(d)'
      BY <2>1 DEF Held, UnitsKept, StartedWhole, Engaged, Point, OnePiece
    <2> QED
      BY <2>2, <2>3 DEF Held
  <1> QED
    BY <1>1, <1>2 DEF DeployInv

LEMMA ForwardKeeps ==
  ASSUME NEW d \in Deployer, OneDeployer, DeployInv, Forward(d)
  PROVE  DeployInv'
  BY FinishStageKeeps, RefuseKeeps, ArmKeeps, EnterMaintenanceKeeps, StopUnitsKeeps,
     DrainedKeeps, DrainTimeoutKeeps, BackupKeeps, MigrateStatementKeeps,
     MigrateRecordKeeps, MigrateDoneKeeps, SyncKeeps, ImportSidecarsKeeps,
     BeginBuildKeeps, EndBuildKeeps, InstallConfigKeeps, RelinkKeeps, HealthyKeeps,
     ResumeKeeps, PruneKeeps
  DEF Forward

LEMMA BackwardKeeps ==
  ASSUME NEW d \in Deployer, OneDeployer, DeployInv, Backward(d)
  PROVE  DeployInv'
  BY FailKeeps, RestoreConfigKeeps, RestoreDbKeeps, LeaveDownKeeps, RestoreLinkKeeps,
     RebuildDocrootKeeps, ResumeOldKeeps
  DEF Backward

LEMMA NextInv == OneDeployer /\ DeployInv /\ [Next]_vars => DeployInv'
  <1> SUFFICES ASSUME OneDeployer, DeployInv, [Next]_vars
               PROVE  DeployInv'
    OBVIOUS
  <1>1. ASSUME NEW d \in Deployer, NEW r \in Release, Stage(d, r)
        PROVE  DeployInv'
    BY <1>1, StageKeeps
  <1>2. ASSUME NEW d \in Deployer, Forward(d) \/ Backward(d) \/ Die(d)
        PROVE  DeployInv'
    BY <1>2, ForwardKeeps, BackwardKeeps, DieKeeps
  <1>3. ASSUME NEW u \in Unit, StartService(u) \/ ServiceBuilds(u) \/ ServiceEnds(u)
        PROVE  DeployInv'
    BY <1>3, StartServiceKeeps, ServiceBuildsKeeps, ServiceEndsKeeps
  <1>4. ASSUME NEW w \in Write, WebWrite(w)
        PROVE  DeployInv'
    BY <1>4, WebWriteKeeps
  <1>5. CASE Reboot
    BY <1>5, RebootKeeps
  <1>6. CASE UNCHANGED vars
    BY <1>6, StutterKeeps
  <1> QED
    BY <1>1, <1>2, <1>3, <1>4, <1>5, <1>6 DEF Next

LEMMA Inductive ==
  ASSUME OneDeployer
  PROVE  Spec => []DeployInv
  <1>1. DeployInv /\ [Next]_vars => DeployInv'
    BY NextInv
  <1> QED
    BY InitInv, <1>1, PTL DEF Spec

-----------------------------------------------------------------------------
(* The theorems, for one deployer at a time.                               *)

\* Types of the machine, the script and the services.
THEOREM TypeCorrect ==
  ASSUME OneDeployer
  PROVE  Spec => []TypeOK
  <1>1. DeployInv => TypeOK
    BY DEF DeployInv
  <1> QED
    BY Inductive, <1>1, PTL

\* The link and the release to roll back to are whole directories, for any
\* number of releases, runs, failures and reboots (prune_releases).
THEOREM CurrentStaysWhole ==
  ASSUME OneDeployer
  PROVE  Spec => []CurrentWhole
  <1>1. DeployInv => CurrentWhole
    BY DEF DeployInv, CurrentThere, CurrentWhole, Held, StagedWhole, Engaged
  <1> QED
    BY Inductive, <1>1, PTL

\* No service of the units runs from the backup of the database to the restart.
THEOREM ConsumersStopped ==
  ASSUME OneDeployer
  PROVE  Spec => []NoConsumerUnderMutation
  <1>1. DeployInv => NoConsumerUnderMutation
    <2> SUFFICES ASSUME DeployInv, NEW d \in Deployer, Mutating(d), NEW u \in Unit
                 PROVE  service[u] = Resting
      BY DEF NoConsumerUnderMutation
    <2> QED
      BY DEF DeployInv, Held, UnitsKept, Mutating, Engaged, Point, Early, Armed
  <1> QED
    BY Inductive, <1>1, PTL

\* Engine, dataset, config, schema, docroot and running code are of one release
\* whenever no activation is under way, unless someone was told to act.
THEOREM AlwaysPaired ==
  ASSUME OneDeployer
  PROVE  Spec => []PairedAtRest
  <1>1. DeployInv => PairedAtRest
    BY DEF DeployInv
  <1> QED
    BY Inductive, <1>1, PTL

\* An activation that reaches its end has replaced everything and brings the
\* units back.
THEOREM ActivationComplete ==
  ASSUME OneDeployer
  PROVE  Spec => SuccessActivates
  <1>1. ASSUME DeployInv, NEW d \in Deployer, Resume(d)
        PROVE  LET r == dep[d].rel
               IN  /\ host'.current = r /\ host'.docroot = r /\ host'.config = r
                   /\ host'.db.meta = r /\ host'.db.geom = r /\ host'.db.level >= Level[r]
                   /\ host'.active = dep[d].before.active
    <2>1. TypeOK /\ Held(d) /\ dep[d].pc = "resume"
      BY <1>1 DEF DeployInv, Resume
    <2>2. /\ host'.current = host.current /\ host'.docroot = host.docroot
          /\ host'.config = host.config /\ host'.db = host.db
          /\ host'.active = host.active \cup dep[d].snap
      BY <1>1, <2>1, HostTyped DEF Resume, Resumed, Host
    <2> QED
      BY <2>1, <2>2 DEF Held, DoneSoFar, UnitsKept
  <1>2. DeployInv /\ [Next]_vars =>
          [\A d \in Deployer : Resume(d) =>
             LET r == dep[d].rel
             IN  /\ host'.current = r /\ host'.docroot = r /\ host'.config = r
                 /\ host'.db.meta = r /\ host'.db.geom = r /\ host'.db.level >= Level[r]
                 /\ host'.active = dep[d].before.active]_vars
    BY <1>1
  <1> QED
    BY Inductive, <1>2, PTL DEF Spec, SuccessActivates

\* A rollback that complains of nothing gives back the host as it was when the
\* trap was armed, at whichever step the activation failed.
THEOREM RollbackComplete ==
  ASSUME OneDeployer
  PROVE  Spec => RollbackRestores
  <1>1. ASSUME DeployInv, NEW d \in Deployer, ResumeOld(d), ~ alarm
        PROVE  LET was == dep[d].before
               IN  /\ host'.current = was.current /\ host'.config = was.config
                   /\ [host'.db EXCEPT !.rows = {}] = [was.db EXCEPT !.rows = {}]
                   /\ was.db.rows \subseteq host'.db.rows
                   /\ host'.docroot \in {was.current, Mixed}
                   /\ DocrootBuilt(dep[d].at) => host'.docroot = was.current
                   /\ host'.active = was.active
    <2> DEFINE was == dep[d].before
    <2>1. /\ TypeOK /\ Held(d) /\ dep[d].pc = "resume_old"
          /\ Engaged(d) /\ Point(d) = dep[d].at
      BY <1>1 DEF DeployInv, ResumeOld, End, Engaged, Point, RollbackPc, Armed
    <2>2. /\ host'.current = host.current /\ host'.docroot = host.docroot
          /\ host'.config = host.config /\ host'.db = host.db
          /\ host'.active = host.active \cup dep[d].snap
      BY <1>1, <2>1, HostTyped DEF ResumeOld, End, Resumed, Host
    <2>3. host.current = was.current /\ was.current # NoRelease /\ OnePiece(was)
      BY <1>1, <2>1 DEF Held, StagedWhole, Recoverable, StartedWhole
    <2>4. host.config = was.config
      BY <1>1, <2>1, <2>3 DEF Held, Recoverable, OnePiece
    <2>5. Keeps(host.db, was.db)
      BY <1>1, <2>1 DEF Held, Recoverable
    <2>6. [host.db EXCEPT !.rows = {}] = [was.db EXCEPT !.rows = {}]
      <3>1. host.db \in Database /\ was.db \in Database
        BY <2>1, HostTyped, DepTyped DEF Host
      <3> QED
        BY <2>5, <3>1 DEF Keeps, Database
    <2>7. /\ host.docroot \in {was.current, Mixed}
          /\ DocrootBuilt(dep[d].at) => host.docroot = was.current
      BY <1>1, <2>1 DEF Held, Recoverable, StartedWhole
    <2>8. host.active \cup dep[d].snap = was.active
      BY <2>1 DEF Held, StagedWhole, UnitsKept, Early
    <2> QED
      BY <2>2, <2>3, <2>4, <2>5, <2>6, <2>7, <2>8 DEF Keeps
  <1>2. DeployInv /\ [Next]_vars =>
          [\A d \in Deployer : ResumeOld(d) /\ ~ alarm =>
             LET was == dep[d].before
             IN  /\ host'.current = was.current /\ host'.config = was.config
                 /\ [host'.db EXCEPT !.rows = {}] = [was.db EXCEPT !.rows = {}]
                 /\ was.db.rows \subseteq host'.db.rows
                 /\ host'.docroot \in {was.current, Mixed}
                 /\ DocrootBuilt(dep[d].at) => host'.docroot = was.current
                 /\ host'.active = was.active]_vars
    BY <1>1
  <1> QED
    BY Inductive, <1>2, PTL DEF Spec, RollbackRestores

-----------------------------------------------------------------------------
(* A deploy is one switch of the host: the refinement of ReleaseSwitch.    *)

SwitchStep == Switch!Next \/ UNCHANGED Switch!vars

LEMMA UnderWayTyped ==
  ASSUME NEW d \in Deployer, TypeOK, UnderWay(d)
  PROVE  Engaged(d) \/ dep[d].pc = "resume"
  BY DEF UnderWay, Engaged

\* What a host is, with its docroot and the rows of the web site hidden.
LEMMA ViewTyped ==
  ASSUME NEW h \in Host
  PROVE  View(h) \in Switch!Site
  BY DEF Host, Database, View, Switch!Site, Switch!MaybeRelease, MaybeRelease

LEMMA SameView ==
  ASSUME NEW h \in Host, NEW g \in Host, Keeps(g.db, h.db),
         g.current = h.current, g.config = h.config, g.active = h.active
  PROVE  View(g) = View(h)
  BY DEF Keeps, View

\* The host that counts: the one a run may still give back, or the one there is.
LEMMA CommittedIs ==
  ASSUME OneDeployer, NEW d \in Deployer
  PROVE  /\ Committed = IF UnderWay(d) THEN View(dep[d].before) ELSE View(host)
         /\ Committed' = IF UnderWay(d)' THEN View(dep'[d].before) ELSE View(host')
  <1>1. \A e \in Deployer : e = d
    BY DEF OneDeployer
  <1>2. UnderWay(d) => (CHOOSE e \in Deployer : UnderWay(e)) = d
    BY <1>1
  <1>3. UnderWay(d)' => (CHOOSE e \in Deployer : UnderWay(e))' = d
    BY <1>1
  <1>4. (\E e \in Deployer : UnderWay(e)) <=> UnderWay(d)
    BY <1>1
  <1>5. (\E e \in Deployer : UnderWay(e))' <=> UnderWay(d)'
    BY <1>1
  <1>6. Committed = IF UnderWay(d) THEN View(dep[d].before) ELSE View(host)
    BY <1>2, <1>4 DEF Committed
  <1>7. Committed' = IF UnderWay(d)' THEN View(dep'[d].before) ELSE View(host')
    BY <1>3, <1>5 DEF Committed, View
  <1> QED
    BY <1>6, <1>7

LEMMA CommittedTyped ==
  ASSUME OneDeployer, TypeOK'
  PROVE  Committed' \in Switch!Site
  <1>1. CASE \E d \in Deployer : TRUE
    <2>1. PICK d \in Deployer : TRUE
      BY <1>1
    <2>2. host' \in Host /\ dep'[d].before \in Host
      BY <2>1 DEF TypeOK, DepType
    <2>3. View(host') \in Switch!Site /\ View(dep'[d].before) \in Switch!Site
      BY <2>2, ViewTyped
    <2> QED
      BY <2>1, <2>3, CommittedIs
  <1>2. CASE ~ \E d \in Deployer : TRUE
    <2>1. Committed' = View(host')
      BY <1>2 DEF Committed, View
    <2> QED
      BY <2>1, ViewTyped DEF TypeOK
  <1> QED
    BY <1>1, <1>2

\* Someone who is told is promised nothing.
LEMMA TellingIsTrouble ==
  ASSUME OneDeployer, TypeOK', alarm'
  PROVE  SwitchStep
  <1>1. alarm' = TRUE
    BY DEF TypeOK
  <1>2. Switch!Trouble
    BY <1>1, CommittedTyped DEF Switch!Trouble
  <1> QED
    BY <1>2 DEF SwitchStep, Switch!Next

\* Before the trap is armed, and after the units are back, the script leaves the
\* host alone.
LEMMA OutsideStays ==
  ASSUME OneDeployer, NEW d \in Deployer, ~ UnderWay(d), ~ UnderWay(d)',
         View(host') = View(host), alarm' = alarm
  PROVE  SwitchStep
  <1>1. Committed' = Committed
    BY CommittedIs
  <1> QED
    BY <1>1 DEF SwitchStep, Switch!vars

\* A step within an activation or a rollback shows nothing.
LEMMA WithinHides ==
  ASSUME OneDeployer, NEW d \in Deployer, UnderWay(d), UnderWay(d)',
         dep'[d].before = dep[d].before, alarm' = alarm
  PROVE  SwitchStep
  <1>1. Committed' = Committed
    BY CommittedIs DEF View
  <1> QED
    BY <1>1 DEF SwitchStep, Switch!vars

LEMMA ActivationHides ==
  ASSUME OneDeployer, DeployInv, NEW d \in Deployer,
         \/ EnterMaintenance(d) \/ StopUnits(d) \/ Drained(d)
         \/ Backup(d) \/ MigrateStatement(d) \/ MigrateRecord(d) \/ MigrateDone(d)
         \/ Sync(d) \/ ImportSidecars(d) \/ BeginBuild(d) \/ EndBuild(d)
         \/ InstallConfig(d) \/ Relink(d) \/ Healthy(d)
         \/ Fail(d) \/ RestoreLink(d)
  PROVE  SwitchStep
  <1>0. dep \in [Deployer -> DepType]
    BY DEF DeployInv, TypeOK
  <1> USE <1>0 DEF DepType
  <1>1. /\ dep[d].pc \in Armed \cup RollbackPc
        /\ dep'[d].pc \in Armed \cup RollbackPc \cup {"resume"}
        /\ dep'[d].before = dep[d].before /\ alarm' = alarm
    <2>1. CASE EnterMaintenance(d) \/ StopUnits(d) \/ Drained(d) \/ Backup(d)
      BY <2>1 DEF EnterMaintenance, StopUnits, Drained, Backup, Step, Armed
    <2>2. CASE MigrateStatement(d) \/ MigrateRecord(d) \/ MigrateDone(d)
      BY <2>2 DEF MigrateStatement, MigrateRecord, MigrateDone, Step, Armed
    <2>3. CASE Sync(d) \/ ImportSidecars(d) \/ BeginBuild(d) \/ EndBuild(d)
      BY <2>3 DEF Sync, ImportSidecars, BeginBuild, EndBuild, Step, Armed
    <2>4. CASE InstallConfig(d) \/ Relink(d) \/ Healthy(d)
      BY <2>4 DEF InstallConfig, Relink, Healthy, Step, Armed
    <2>5. CASE Fail(d) \/ RestoreLink(d)
      BY <2>5 DEF Fail, RestoreLink, Step, RollbackPc
    <2> QED
      BY <2>1, <2>2, <2>3, <2>4, <2>5
  <1> QED
    BY <1>1, WithinHides DEF UnderWay

\* A step of the rollback shows nothing, or fails with a message.
LEMMA RestoringHides ==
  ASSUME OneDeployer, DeployInv, DeployInv', NEW d \in Deployer,
         RestoreConfig(d) \/ RestoreDb(d) \/ RebuildDocroot(d)
  PROVE  SwitchStep
  <1>0. dep \in [Deployer -> DepType] /\ TypeOK'
    BY DEF DeployInv, TypeOK
  <1> USE <1>0 DEF DepType
  <1>1. /\ dep[d].pc \in RollbackPc /\ dep'[d].pc \in RollbackPc
        /\ dep'[d].before = dep[d].before /\ (alarm' = alarm \/ alarm' = TRUE)
    BY DEF RestoreConfig, RestoreDb, RebuildDocroot, Restore, RollbackPc
  <1> QED
    BY <1>1, WithinHides, TellingIsTrouble DEF UnderWay

\* The ends of a run that give the host back: what the units, the link, the
\* config and the database are is what they were.
LEMMA GivenBack ==
  ASSUME OneDeployer, DeployInv, DeployInv', NEW d \in Deployer,
         DrainTimeout(d) \/ ResumeOld(d)
  PROVE  SwitchStep
  <1> DEFINE was == dep[d].before
  <1>1. TypeOK /\ TypeOK' /\ Held(d) /\ was \in Host
    BY DepTyped DEF DeployInv
  <1>2. /\ dep[d].pc \in {"drain", "resume_old"} /\ dep'[d].pc = "idle" /\ alarm' = alarm
        /\ UnderWay(d) /\ Engaged(d) /\ ~ UnderWay(d)'
    <2>1. dep[d].pc \in {"drain", "resume_old"} /\ dep' = [dep EXCEPT ![d] = Idle] /\ alarm' = alarm
      BY DEF DrainTimeout, ResumeOld, End
    <2>2. dep'[d].pc = "idle"
      BY <1>1, <2>1 DEF TypeOK, Idle
    <2> QED
      BY <2>1, <2>2 DEF UnderWay, Engaged, Armed, RollbackPc
  <1>3. CASE alarm
    BY <1>1, <1>2, <1>3, TellingIsTrouble
  <1>4. CASE ~ alarm
    <2>1. /\ host'.current = host.current /\ host'.config = host.config
          /\ host'.db = host.db /\ host'.active = host.active \cup dep[d].snap
          /\ host' \in Host
      BY <1>1, HostTyped DEF DrainTimeout, ResumeOld, End, Resumed, Host, TypeOK
    <2>2. host.current = was.current
      BY <1>1, <1>2 DEF Held, Recoverable, Point, Armed
    <2>3. host.config = was.config
      <3>1. CASE dep[d].pc = "drain"
        BY <1>1, <1>2, <3>1 DEF Held, Recoverable, Point, Armed, ConfigInstalled
      <3>2. CASE dep[d].pc = "resume_old"
        <4>1. was.current # NoRelease /\ OnePiece(was)
          BY <1>1, <1>2, <1>4, <3>2 DEF Held, StagedWhole, Recoverable, StartedWhole
        <4> QED
          BY <1>1, <1>2, <1>4, <3>2, <4>1 DEF Held, Recoverable, OnePiece
      <3> QED
        BY <1>2, <3>1, <3>2
    <2>4. Keeps(host.db, was.db)
      BY <1>1, <1>2, <1>4 DEF Held, Recoverable, Point, Armed, Unmutated
    <2>5. host.active \cup dep[d].snap = was.active
      BY <1>1, <1>2 DEF Held, StagedWhole, UnitsKept, Point, Armed, RollbackPc, Early
    <2>6. View(host') = View(was)
      BY <1>1, <2>1, <2>2, <2>3, <2>4, <2>5, SameView
    <2>7. Committed' = Committed
      BY <1>2, <2>6, CommittedIs
    <2> QED
      BY <1>2, <2>7 DEF SwitchStep, Switch!vars
  <1> QED
    BY <1>3, <1>4

\* The end of an activation is the switch.
LEMMA ResumeSwitches ==
  ASSUME OneDeployer, DeployInv, DeployInv', NEW d \in Deployer, Resume(d)
  PROVE  SwitchStep
  <1> DEFINE r == dep[d].rel
  <1>1. TypeOK /\ TypeOK' /\ Held(d) /\ dep[d].pc = "resume" /\ r \in Release
    BY DEF DeployInv, Resume, Held, StagedWhole
  <1>2. UnderWay(d) /\ ~ UnderWay(d)'
    <2>1. dep'[d].pc = "prune"
      BY <1>1 DEF Resume, TypeOK, DepType
    <2> QED
      BY <1>1, <2>1 DEF UnderWay, Armed, RollbackPc
  <1>3. CASE alarm'
    BY <1>1, <1>3, TellingIsTrouble
  <1>4. CASE ~ alarm'
    <2>1. /\ host'.current = host.current /\ host'.config = host.config
          /\ host'.db = host.db /\ host'.active = host.active \cup dep[d].snap
      BY <1>1, HostTyped DEF Resume, Resumed, Host
    <2>2. /\ host.current = r /\ host.config = r /\ host.db.meta = r
          /\ host.db.geom = r /\ host.db.level >= Level[r]
          /\ host.active \cup dep[d].snap = dep[d].before.active
      BY <1>1 DEF Held, DoneSoFar, UnitsKept
    <2>3. host.db.partial = 0 /\ alarm' = FALSE
      <3>1. alarm' = (host.db.partial > 0) /\ host.db.partial \in Nat
        BY <1>1, HostTyped DEF Resume, Database
      <3>2. ~ (host.db.partial > 0)
        BY <1>4, <3>1
      <3>3. host.db.partial = 0
        BY <3>1, <3>2
      <3>4. alarm' = FALSE
        BY <1>1, <1>4 DEF TypeOK
      <3> QED
        BY <3>3, <3>4
    <2>4. Committed = View(dep[d].before) /\ Committed' = View(host')
      BY <1>2, CommittedIs
    <2>5. Switch!IsOf(Committed', r) /\ Committed'.active = Committed.active
      BY <2>1, <2>2, <2>3, <2>4 DEF View, Switch!IsOf
    <2>6. Switch!Activate
      BY <1>1, <2>3, <2>5, CommittedTyped DEF Switch!Activate
    <2> QED
      BY <2>6 DEF SwitchStep, Switch!Next
  <1> QED
    BY <1>3, <1>4

LEMMA ScriptSwitches ==
  ASSUME OneDeployer, DeployInv, DeployInv', NEW d \in Deployer,
         (\E r \in Release : Stage(d, r)) \/ Forward(d) \/ Backward(d) \/ Die(d)
  PROVE  SwitchStep
  <1>0. TypeOK /\ TypeOK' /\ dep \in [Deployer -> DepType] /\ Idle.pc = "idle"
    BY DEF DeployInv, TypeOK, Idle
  <1>1. CASE \E r \in Release : Stage(d, r)
    <2>1. PICK r \in Release, p \in {"staged", "staging"} :
            /\ dep[d].pc = "idle" /\ dep' = [dep EXCEPT ![d].pc = p, ![d].rel = r]
            /\ UNCHANGED <<host, alarm>>
      BY <1>1 DEF Stage
    <2>2. dep'[d].pc = p
      BY <1>0, <2>1 DEF DepType
    <2>3. ~ UnderWay(d) /\ ~ UnderWay(d)'
      BY <2>1, <2>2 DEF UnderWay, Armed, RollbackPc
    <2> QED
      BY <2>1, <2>3, OutsideStays DEF View
  <1>2. CASE FinishStage(d) \/ Refuse(d) \/ Prune(d)
    <2>1. /\ dep[d].pc \in {"staging", "staged", "prune"} /\ dep'[d].pc \in {"idle", "staged"}
          /\ UNCHANGED <<host, alarm>>
      BY <1>0, <1>2 DEF FinishStage, Refuse, Prune, End, DepType
    <2>2. ~ UnderWay(d) /\ ~ UnderWay(d)'
      BY <2>1 DEF UnderWay, Armed, RollbackPc
    <2> QED
      BY <2>1, <2>2, OutsideStays DEF View
  <1>3. CASE Arm(d)
    <2>1. /\ dep[d].pc = "staged" /\ dep'[d].pc = "maintenance"
          /\ dep'[d].before = host /\ UNCHANGED <<host, alarm>>
      BY <1>0, <1>3 DEF Arm, DepType
    <2>2. ~ UnderWay(d) /\ UnderWay(d)'
      BY <2>1 DEF UnderWay, Armed, RollbackPc
    <2>3. Committed' = Committed
      BY <2>1, <2>2, CommittedIs DEF View
    <2> QED
      BY <2>1, <2>3 DEF SwitchStep, Switch!vars
  <1>4. CASE LeaveDown(d)
    BY <1>0, <1>4, TellingIsTrouble DEF LeaveDown
  <1>5. CASE Die(d)
    <2>1. /\ alarm' = (alarm \/ dep[d].pc \notin {"staging", "staged", "prune"})
          /\ dep'[d].pc = "idle" /\ host' = host /\ alarm \in BOOLEAN
      BY <1>0, <1>5 DEF Die, TypeOK
    <2>2. CASE alarm'
      BY <1>0, <2>2, TellingIsTrouble
    <2>3. CASE ~ alarm'
      <3>1. ~ UnderWay(d) /\ ~ UnderWay(d)' /\ alarm' = alarm
        BY <2>1, <2>3 DEF UnderWay, Armed, RollbackPc
      <3> QED
        BY <2>1, <3>1, OutsideStays DEF View
    <2> QED
      BY <2>2, <2>3
  <1> QED
    BY <1>1, <1>2, <1>3, <1>4, <1>5, ActivationHides, RestoringHides, GivenBack, ResumeSwitches
    DEF Forward, Backward

\* Services, editors and reboots: the first two touch docroot and rows only.
LEMMA AroundSwitches ==
  ASSUME OneDeployer, DeployInv, DeployInv',
         \/ \E u \in Unit : StartService(u) \/ ServiceBuilds(u) \/ ServiceEnds(u)
         \/ \E w \in Write : WebWrite(w)
         \/ UNCHANGED vars
  PROVE  SwitchStep
  <1>1. host \in Host /\ host.db \in Database
    BY HostTyped DEF DeployInv
  <1>2. UNCHANGED <<dep, alarm>> /\ View(host') = View(host)
    <2>1. CASE \E u \in Unit : StartService(u) \/ ServiceBuilds(u) \/ ServiceEnds(u)
      BY <1>1, <2>1 DEF StartService, ServiceBuilds, ServiceEnds, View, Host
    <2>2. CASE \E w \in Write : WebWrite(w)
      BY <1>1, <2>2 DEF WebWrite, View, Host, Database
    <2>3. CASE UNCHANGED vars
      BY <2>3 DEF vars, View
    <2> QED
      BY <2>1, <2>2, <2>3
  <1>3. Committed' = Committed
    BY <1>2 DEF Committed, UnderWay, View
  <1> QED
    BY <1>2, <1>3 DEF SwitchStep, Switch!vars

LEMMA RebootSwitches ==
  ASSUME OneDeployer, DeployInv, DeployInv', Reboot
  PROVE  SwitchStep
  <1>1. TypeOK' /\ alarm \in BOOLEAN /\ host \in Host
    BY DEF DeployInv, TypeOK
  <1>2. /\ host' = [host EXCEPT !.active = Enabled]
        /\ alarm' = (alarm \/ \E d \in Deployer :
                        dep[d].pc \notin {"idle", "staging", "staged", "prune"})
        /\ \A d \in Deployer : dep'[d].pc = "idle"
    BY DEF Reboot, Idle
  <1>3. CASE alarm'
    BY <1>1, <1>3, TellingIsTrouble
  <1>4. CASE ~ alarm'
    <2>1. \A d \in Deployer : ~ UnderWay(d) /\ ~ UnderWay(d)'
      BY <1>2, <1>4 DEF UnderWay, Armed, RollbackPc
    <2>2. Committed = View(host) /\ Committed' = View(host')
      BY <2>1 DEF Committed, View
    <2>3. View(host') = [View(host) EXCEPT !.active = Enabled]
      BY <1>1, <1>2 DEF View, Host
    <2>4. alarm' = alarm
      BY <1>1, <1>2, <1>4
    <2>5. Switch!Reboot
      BY <2>2, <2>3, <2>4 DEF Switch!Reboot
    <2> QED
      BY <2>5 DEF SwitchStep, Switch!Next
  <1> QED
    BY <1>3, <1>4

\* A deploy, for any number of releases, failures and deaths, is one switch of
\* the host or none, unless someone is told (activate_release, rollback).
THEOREM DeploySwitchesOnce ==
  ASSUME OneDeployer
  PROVE  Spec => ImplementsSwitch
  <1>1. Init => Switch!Init
    <2> SUFFICES ASSUME Init PROVE Switch!Init
      OBVIOUS
    <2>1. DeployInv
      BY InitInv
    <2>2. Committed = View(host)
      BY DEF Init, Idle, Committed, UnderWay, Armed, RollbackPc
    <2>3. Committed \in Switch!Site
      BY <2>1, <2>2, ViewTyped DEF DeployInv, TypeOK
    <2>4. alarm = FALSE /\ host.active = Enabled /\ OnePiece(host)
      BY <2>1 DEF DeployInv, PairedAtRest, Paired, OnePiece, Init, Idle
    <2>5. host.current \in Switch!MaybeRelease
      BY <2>1 DEF DeployInv, TypeOK, Host, MaybeRelease, Switch!MaybeRelease
    <2>6. Switch!IsOf(Committed, host.current) /\ Committed.active = Enabled
      BY <2>2, <2>4 DEF View, Switch!IsOf, OnePiece
    <2> QED
      BY <2>3, <2>4, <2>5, <2>6 DEF Switch!Init
  <1>2. DeployInv /\ DeployInv' /\ [Next]_vars => [Switch!Next]_(Switch!vars)
    <2> SUFFICES ASSUME DeployInv, DeployInv', [Next]_vars PROVE SwitchStep
      BY DEF SwitchStep
    <2> QED
      BY ScriptSwitches, AroundSwitches, RebootSwitches DEF Next
  <1>3. Spec => []DeployInv
    BY Inductive
  <1> QED
    BY <1>1, <1>2, <1>3, PTL DEF Spec, ImplementsSwitch, Switch!Spec

-----------------------------------------------------------------------------
(* What MaintenanceEnds rests on, but for fairness: the flag has an owner,  *)
(* and every step of the script brings it nearer to its end.                *)

\* The steps between which the script has the maintenance flag in its care.
Owning(d) == dep[d].pc \in (Armed \ {"maintenance"}) \cup RollbackPc \cup {"resume"}

\* A site is in maintenance only under a run that will lift it, or someone has
\* been told: no exit of the script forgets the flag (drain timeout, rollback,
\* refusal, the end of an activation).
MaintenanceOwned == host.maintenance => alarm \/ \E d \in Deployer : Owning(d)

\* The steps from pc to the end, those of a rollback last.
Left == [pc \in Pc |->
    CASE pc = "idle" -> 0 [] pc = "resume_old" -> 1 [] pc = "rebuild" -> 2
      [] pc = "restore_link" -> 3 [] pc = "restore_db" -> 4
      [] pc = "restore_config" -> 5 [] pc = "prune" -> 6 [] pc = "resume" -> 7
      [] pc = "health" -> 8 [] pc = "relink" -> 9 [] pc = "install" -> 10
      [] pc = "building" -> 11 [] pc = "build" -> 12 [] pc = "sidecars" -> 13
      [] pc = "sync" -> 14 [] pc = "migrate" -> 15 [] pc = "backup" -> 16
      [] pc = "drain" -> 17 [] pc = "quiesce" -> 18 [] pc = "maintenance" -> 19
      [] pc = "staged" -> 20 [] pc = "staging" -> 21]

\* The script is in a migration only where it has one to do.
BeforeMigrate == {"idle", "staging", "staged", "maintenance", "quiesce", "drain", "backup"}
MigratingOK(d) ==
    /\ dep[d].pc \in BeforeMigrate => dep[d].migrating = FALSE
    /\ dep[d].pc = "migrate" /\ dep[d].migrating => host.db.level < Level[dep[d].rel]
MigratingInv == \A d \in Deployer : MigratingOK(d)

\* A later step, or in `migrate' a migration or a statement less to do.
Nearer(d) ==
    \/ Left[dep'[d].pc] < Left[dep[d].pc]
    \/ /\ dep[d].pc = "migrate" /\ dep'[d].pc = "migrate" /\ dep'[d].rel = dep[d].rel
       /\ host.db.level < Level[dep[d].rel]
       /\ \/ host'.db.level = host.db.level + 1
          \/ /\ host'.db.level = host.db.level
             /\ host'.db.partial = host.db.partial + 1 /\ host'.db.partial <= Statements

\* Nothing takes a run back: every step of the script, a death and a reboot too,
\* brings it nearer to its end, and while it is under way nobody but the script
\* touches the schema, so that migrate ends.
RunsAdvance ==
    [][\A d \in Deployer :
          /\ Forward(d) \/ Backward(d) => Nearer(d)
          /\ dep[d].pc # "idle" /\ dep'[d] # dep[d] => Nearer(d)
          /\ dep[d].pc = "migrate" /\ dep'[d].pc = "migrate" /\ ~ Nearer(d)
                => host'.db.level = host.db.level /\ host'.db.partial = host.db.partial]_vars

\* Scripts and host are records with the fields that the steps write.
FieldsThere ==
    /\ DOMAIN dep = Deployer /\ \A d \in Deployer : "pc" \in DOMAIN dep[d]
    /\ "maintenance" \in DOMAIN host

OwnedInv == FieldsThere /\ MaintenanceOwned

\* What each step of a run does with its program counter, the flag and the alarm.
LEMMA StepInCare ==
  ASSUME OwnedInv, NEW d \in Deployer, Forward(d) \/ Backward(d) \/ (\E r \in Release : Stage(d, r)) \/ Die(d)
  PROVE  /\ dep' = [dep EXCEPT ![d] = dep'[d]] /\ "pc" \in DOMAIN dep'[d] /\ "maintenance" \in DOMAIN host'
         /\ \/ host'.maintenance = FALSE
            \/ alarm'
            \/ Owning(d)'
            \/ host'.maintenance = host.maintenance /\ (alarm => alarm') /\ ~ Owning(d)
  <1> USE DEF OwnedInv, FieldsThere
  <1>0. Idle.pc = "idle" /\ "pc" \in DOMAIN Idle
    BY DEF Idle
  <1>1. CASE \E r \in Release : Stage(d, r)
    <2>1. PICK r \in Release, p \in {"staged", "staging"} :
            /\ dep[d].pc = "idle" /\ dep' = [dep EXCEPT ![d].pc = p, ![d].rel = r]
            /\ UNCHANGED <<host, alarm>>
      BY <1>1 DEF Stage
    <2> QED
      BY <2>1 DEF Owning, Armed, RollbackPc
  <1>2. CASE Die(d)
    BY <1>0, <1>2 DEF Die, Owning, Armed, RollbackPc
  <1>3. CASE FinishStage(d) \/ Refuse(d) \/ Arm(d)
    <2>1. dep[d].pc \in {"staging", "staged"} /\ UNCHANGED <<host, alarm>>
      BY <1>3 DEF FinishStage, Refuse, End, Arm
    <2>2. dep' = [dep EXCEPT ![d] = dep'[d]] /\ "pc" \in DOMAIN dep'[d]
      BY <1>0, <1>3 DEF FinishStage, Refuse, End, Arm
    <2> QED
      BY <2>1, <2>2 DEF Owning, Armed, RollbackPc
  <1>4. CASE EnterMaintenance(d) \/ StopUnits(d) \/ Drained(d)
    BY <1>4 DEF EnterMaintenance, StopUnits, Drained, Step, Owning, Armed
  <1>5. CASE DrainTimeout(d)
    BY <1>0, <1>5 DEF DrainTimeout, End, Resumed
  <1>6. CASE Backup(d) \/ MigrateStatement(d) \/ MigrateRecord(d) \/ MigrateDone(d)
    BY <1>6 DEF Backup, MigrateStatement, MigrateRecord, MigrateDone, Step, Owning, Armed
  <1>7. CASE Sync(d) \/ ImportSidecars(d) \/ BeginBuild(d) \/ EndBuild(d)
    BY <1>7 DEF Sync, ImportSidecars, BeginBuild, EndBuild, Step, Owning, Armed
  <1>8. CASE InstallConfig(d) \/ Relink(d) \/ Healthy(d)
    BY <1>8 DEF InstallConfig, Relink, Healthy, Step, Owning, Armed
  <1>9. CASE Resume(d)
    BY <1>9 DEF Resume, Resumed
  <1>10. CASE Prune(d)
    BY <1>0, <1>10 DEF Prune, Owning, Armed, RollbackPc
  <1>11. CASE Fail(d)
    BY <1>11 DEF Fail, Owning, RollbackPc
  <1>12. CASE RestoreConfig(d) \/ RestoreDb(d) \/ RestoreLink(d) \/ RebuildDocroot(d)
    BY <1>12 DEF RestoreConfig, RestoreDb, RestoreLink, RebuildDocroot, Restore, Step, Owning, RollbackPc
  <1>13. CASE LeaveDown(d)
    BY <1>0, <1>13 DEF LeaveDown, End
  <1>14. CASE ResumeOld(d)
    BY <1>0, <1>14 DEF ResumeOld, End, Resumed
  <1> QED
    BY <1>1, <1>2, <1>3, <1>4, <1>5, <1>6, <1>7, <1>8, <1>9, <1>10, <1>11, <1>12, <1>13, <1>14
    DEF Forward, Backward

\* Whoever clears or lacks the flag, and who owns it otherwise.
LEMMA OwnedStep == OwnedInv /\ [Next]_vars => OwnedInv'
  <1> SUFFICES ASSUME OwnedInv, [Next]_vars
               PROVE  OwnedInv'
    OBVIOUS
  <1>1. ASSUME NEW d \in Deployer,
               Forward(d) \/ Backward(d) \/ (\E r \in Release : Stage(d, r)) \/ Die(d)
        PROVE  OwnedInv'
    <2>1. /\ dep' = [dep EXCEPT ![d] = dep'[d]] /\ "pc" \in DOMAIN dep'[d] /\ "maintenance" \in DOMAIN host'
          /\ \/ host'.maintenance = FALSE
             \/ alarm'
             \/ Owning(d)'
             \/ host'.maintenance = host.maintenance /\ (alarm => alarm') /\ ~ Owning(d)
      BY <1>1, StepInCare
    <2>2. \A e \in Deployer : e # d => dep'[e] = dep[e]
      BY <2>1 DEF OwnedInv, FieldsThere
    <2>3. \A e \in Deployer : e # d => (Owning(e)' <=> Owning(e))
      BY <2>2 DEF Owning
    <2>4. FieldsThere'
      BY <2>1, <2>2 DEF OwnedInv, FieldsThere
    <2>5. MaintenanceOwned'
      BY <2>1, <2>3 DEF OwnedInv, MaintenanceOwned
    <2> QED
      BY <2>4, <2>5 DEF OwnedInv
  <1>2. CASE Reboot
    <2>1. /\ dep' = [d \in Deployer |-> Idle] /\ host' = [host EXCEPT !.active = Enabled]
          /\ alarm' = (alarm \/ \E d \in Deployer : dep[d].pc \notin {"idle", "staging", "staged", "prune"})
      BY <1>2 DEF Reboot
    <2>2. host'.maintenance = host.maintenance
      BY <2>1 DEF OwnedInv, FieldsThere
    <2>3. \A d \in Deployer : Owning(d) => dep[d].pc \notin {"idle", "staging", "staged", "prune"}
      BY DEF Owning, Armed, RollbackPc
    <2>4. FieldsThere'
      BY <2>1 DEF OwnedInv, FieldsThere, Idle
    <2> QED
      BY <2>1, <2>2, <2>3, <2>4 DEF OwnedInv, MaintenanceOwned
  <1>3. CASE \/ \E u \in Unit : StartService(u) \/ ServiceBuilds(u) \/ ServiceEnds(u)
             \/ \E w \in Write : WebWrite(w)
             \/ UNCHANGED vars
    <2>1. UNCHANGED <<dep, alarm>> /\ host'.maintenance = host.maintenance /\ "maintenance" \in DOMAIN host'
      BY <1>3 DEF StartService, ServiceBuilds, ServiceEnds, WebWrite, vars, OwnedInv, FieldsThere
    <2> QED
      BY <2>1 DEF OwnedInv, FieldsThere, MaintenanceOwned, Owning
  <1> QED
    BY <1>1, <1>2, <1>3 DEF Next

\* The site is in maintenance only under a run that will lift it, or with someone
\* told: for any number of runs, also side by side (enter_maintenance, on_error).
THEOREM MaintenanceHasOwner == Spec => []MaintenanceOwned
  <1>1. Init => OwnedInv
    BY DEF Init, OwnedInv, FieldsThere, MaintenanceOwned, Idle
  <1>2. OwnedInv => MaintenanceOwned
    BY DEF OwnedInv
  <1> QED
    BY <1>1, <1>2, OwnedStep, PTL DEF Spec

LEMMA LeftOf ==
  /\ Left["idle"] = 0 /\ Left["resume_old"] = 1 /\ Left["rebuild"] = 2
  /\ Left["restore_link"] = 3 /\ Left["restore_db"] = 4 /\ Left["restore_config"] = 5
  /\ Left["prune"] = 6 /\ Left["resume"] = 7 /\ Left["health"] = 8
  /\ Left["relink"] = 9 /\ Left["install"] = 10 /\ Left["building"] = 11
  /\ Left["build"] = 12 /\ Left["sidecars"] = 13 /\ Left["sync"] = 14
  /\ Left["migrate"] = 15 /\ Left["backup"] = 16 /\ Left["drain"] = 17
  /\ Left["quiesce"] = 18 /\ Left["maintenance"] = 19 /\ Left["staged"] = 20
  /\ Left["staging"] = 21
  BY DEF Left, Pc, Armed, RollbackPc

\* The steps of a run that is not in `migrate' for a while.
LEMMA StepAdvances ==
  ASSUME TypeOK, NEW d \in Deployer, Forward(d) \/ Backward(d),
         ~ MigrateStatement(d), ~ MigrateRecord(d)
  PROVE  Left[dep'[d].pc] < Left[dep[d].pc]
  <1>0. dep \in [Deployer -> DepType] /\ dep[d] \in DepType
    BY DEF TypeOK
  <1>1. CASE FinishStage(d) \/ Refuse(d) \/ Arm(d)
    <2>1. \/ dep[d].pc = "staging" /\ dep'[d].pc = "staged"
          \/ dep[d].pc \in {"staging", "staged"} /\ dep'[d].pc = "idle"
          \/ dep[d].pc = "staged" /\ dep'[d].pc = "maintenance"
      BY <1>0, <1>1 DEF FinishStage, Refuse, End, Arm, Idle, DepType
    <2> QED
      BY <2>1, LeftOf
  <1>2. CASE EnterMaintenance(d) \/ StopUnits(d) \/ Drained(d) \/ DrainTimeout(d) \/ Backup(d)
    <2>1. \/ dep[d].pc = "maintenance" /\ dep'[d].pc = "quiesce"
          \/ dep[d].pc = "quiesce" /\ dep'[d].pc = "drain"
          \/ dep[d].pc = "drain" /\ dep'[d].pc = "backup"
          \/ dep[d].pc = "drain" /\ dep'[d].pc = "idle"
          \/ dep[d].pc = "backup" /\ dep'[d].pc = "migrate"
      BY <1>0, <1>2 DEF EnterMaintenance, StopUnits, Drained, DrainTimeout, Step, End, Backup, Idle, DepType
    <2> QED
      BY <2>1, LeftOf
  <1>3. CASE MigrateDone(d) \/ Sync(d) \/ ImportSidecars(d) \/ BeginBuild(d) \/ EndBuild(d)
    <2>1. \/ dep[d].pc = "migrate" /\ dep'[d].pc = "sync"
          \/ dep[d].pc = "sync" /\ dep'[d].pc = "sidecars"
          \/ dep[d].pc = "sidecars" /\ dep'[d].pc = "build"
          \/ dep[d].pc = "build" /\ dep'[d].pc = "building"
          \/ dep[d].pc = "building" /\ dep'[d].pc = "install"
      BY <1>0, <1>3 DEF MigrateDone, Sync, ImportSidecars, BeginBuild, EndBuild, Step, DepType
    <2> QED
      BY <2>1, LeftOf
  <1>4. CASE InstallConfig(d) \/ Relink(d) \/ Healthy(d) \/ Resume(d) \/ Prune(d)
    <2>1. \/ dep[d].pc = "install" /\ dep'[d].pc = "relink"
          \/ dep[d].pc = "relink" /\ dep'[d].pc = "health"
          \/ dep[d].pc = "health" /\ dep'[d].pc = "resume"
          \/ dep[d].pc = "resume" /\ dep'[d].pc = "prune"
          \/ dep[d].pc = "prune" /\ dep'[d].pc = "idle"
      BY <1>0, <1>4 DEF InstallConfig, Relink, Healthy, Resume, Prune, Step, Idle, DepType
    <2> QED
      BY <2>1, LeftOf
  <1>5. CASE Fail(d)
    <2>1. dep[d].pc \in Armed /\ dep'[d].pc = "restore_config"
      BY <1>0, <1>5 DEF Fail, DepType
    <2> QED
      BY <2>1, LeftOf DEF Armed
  <1>6. CASE RestoreConfig(d) \/ RestoreDb(d) \/ LeaveDown(d)
    <2>1. \/ dep[d].pc = "restore_config" /\ dep'[d].pc = "restore_db"
          \/ dep[d].pc = "restore_db" /\ dep'[d].pc = "restore_link"
          \/ dep[d].pc = "restore_link" /\ dep'[d].pc = "idle"
      <3>1. CASE RestoreConfig(d)
        BY <1>0, <3>1 DEF RestoreConfig, Restore, DepType
      <3>2. CASE RestoreDb(d)
        BY <1>0, <3>2 DEF RestoreDb, Restore, DepType
      <3>3. CASE LeaveDown(d)
        BY <1>0, <3>3 DEF LeaveDown, End, Idle
      <3> QED
        BY <1>6, <3>1, <3>2, <3>3
    <2> QED
      BY <2>1, LeftOf
  <1>7. CASE RestoreLink(d) \/ RebuildDocroot(d) \/ ResumeOld(d)
    <2>1. \/ dep[d].pc = "restore_link" /\ dep'[d].pc = "rebuild"
          \/ dep[d].pc = "rebuild" /\ dep'[d].pc = "resume_old"
          \/ dep[d].pc = "resume_old" /\ dep'[d].pc = "idle"
      <3>1. CASE RestoreLink(d)
        BY <1>0, <3>1 DEF RestoreLink, Step, DepType
      <3>2. CASE RebuildDocroot(d)
        BY <1>0, <3>2 DEF RebuildDocroot, Restore, DepType
      <3>3. CASE ResumeOld(d)
        BY <1>0, <3>3 DEF ResumeOld, End, Idle
      <3> QED
        BY <1>7, <3>1, <3>2, <3>3
    <2> QED
      BY <2>1, LeftOf
  <1> QED
    BY <1>1, <1>2, <1>3, <1>4, <1>5, <1>6, <1>7 DEF Forward, Backward

\* A statement or a record of a migration.
LEMMA MigrationAdvances ==
  ASSUME TypeOK, NEW d \in Deployer, MigratingOK(d), MigrateStatement(d) \/ MigrateRecord(d)
  PROVE  Nearer(d)
  <1>1. /\ dep \in [Deployer -> DepType] /\ dep[d] \in DepType /\ host \in Host /\ host.db \in Database
        /\ host.db.partial \in Nat /\ host.db.level \in Nat /\ Statements \in Nat
    BY DeployAssumption DEF TypeOK, Host, Database
  <1>2. /\ dep[d].pc = "migrate" /\ dep'[d].pc = "migrate" /\ dep'[d].rel = dep[d].rel
    BY <1>1 DEF MigrateStatement, MigrateRecord, DepType
  <1>3. CASE MigrateStatement(d)
    <2>1. host'.db.level = host.db.level /\ host'.db.partial = host.db.partial + 1
      BY <1>1, <1>3 DEF MigrateStatement, Host, Database
    <2> QED
      BY <1>1, <1>2, <1>3, <2>1 DEF MigrateStatement, Nearer
  <1>4. CASE MigrateRecord(d)
    <2>1. host'.db.level = host.db.level + 1
      BY <1>1, <1>4 DEF MigrateRecord, Host, Database
    <2>2. host.db.level < Level[dep[d].rel]
      BY <1>2, <1>4 DEF MigrateRecord, MigratingOK
    <2> QED
      BY <1>2, <2>1, <2>2 DEF Nearer
  <1> QED
    BY <1>3, <1>4

\* The steps before migrate.
LEMMA MigratingBegins == Init => MigratingInv
  BY DEF MigratingInv, Init, MigratingOK, Idle

\* Services and the web site leave the script and the schema alone.
LEMMA SchemaKept ==
  ASSUME TypeOK, \/ \E u \in Unit : StartService(u) \/ ServiceBuilds(u) \/ ServiceEnds(u)
                 \/ \E w \in Write : WebWrite(w)
                 \/ UNCHANGED vars
  PROVE  UNCHANGED dep /\ host'.db.level = host.db.level /\ host'.db.partial = host.db.partial
  <1>1. host \in Host /\ host.db \in Database
    BY DEF TypeOK, Host
  <1>2. CASE \E u \in Unit : StartService(u) \/ ServiceBuilds(u) \/ ServiceEnds(u)
    <2>1. UNCHANGED dep /\ (host' = host \/ \E x : host' = [host EXCEPT !.docroot = x])
      BY <1>2 DEF StartService, ServiceBuilds, ServiceEnds
    <2> QED
      BY <1>1, <2>1 DEF Host
  <1>3. CASE \E w \in Write : WebWrite(w)
    BY <1>1, <1>3 DEF WebWrite, Host, Database
  <1> QED
    BY <1>2, <1>3 DEF vars

LEMMA MigratingStep ==
  ASSUME OneDeployer, TypeOK, [Next]_vars, NEW d \in Deployer, MigratingOK(d)
  PROVE  MigratingOK(d)'
  <1>0. dep \in [Deployer -> DepType] /\ dep[d] \in DepType /\ host \in Host /\ host.db \in Database
    BY DEF TypeOK, Host
  <1>1. CASE \E r \in Release : Stage(d, r)
    <2>1. dep'[d].pc \in {"staged", "staging"} /\ dep'[d].migrating = dep[d].migrating /\ dep[d].pc = "idle"
      BY <1>0, <1>1 DEF Stage, DepType
    <2> QED
      BY <2>1 DEF MigratingOK, BeforeMigrate
  <1>2. CASE MigrateStatement(d)
    <2>1. /\ dep'[d].pc = "migrate" /\ dep'[d].rel = dep[d].rel
          /\ host'.db.level = host.db.level /\ host.db.level < Level[dep[d].rel]
      BY <1>0, <1>2 DEF MigrateStatement, DepType, Host, Database
    <2> QED
      BY <2>1 DEF MigratingOK, BeforeMigrate
  <1>3. CASE MigrateRecord(d)
    <2>1. dep'[d].pc = "migrate" /\ dep'[d].migrating = FALSE
      BY <1>0, <1>3 DEF MigrateRecord, DepType
    <2> QED
      BY <2>1 DEF MigratingOK, BeforeMigrate
  <1>4. CASE Arm(d) \/ EnterMaintenance(d) \/ StopUnits(d) \/ Drained(d) \/ Backup(d) \/ FinishStage(d)
    <2>1. dep[d].pc \in BeforeMigrate /\ dep'[d].migrating = dep[d].migrating
      BY <1>0, <1>4
      DEF Arm, EnterMaintenance, StopUnits, Drained, Backup, FinishStage, Step, BeforeMigrate, DepType
    <2> QED
      BY <2>1 DEF MigratingOK
  <1>5. CASE \/ MigrateDone(d) \/ Sync(d) \/ ImportSidecars(d) \/ BeginBuild(d) \/ EndBuild(d)
             \/ InstallConfig(d) \/ Relink(d) \/ Healthy(d) \/ Resume(d) \/ Fail(d)
    <2>1. dep'[d].pc \in {"sync", "sidecars", "build", "building", "install", "relink", "health", "resume", "prune",
                         "restore_config"}
      BY <1>0, <1>5
      DEF MigrateDone, Sync, ImportSidecars, BeginBuild, EndBuild, InstallConfig, Relink, Healthy, Resume, Fail,
          Step, DepType
    <2> QED
      BY <2>1 DEF MigratingOK, BeforeMigrate
  <1>6. CASE RestoreConfig(d) \/ RestoreDb(d) \/ RestoreLink(d) \/ RebuildDocroot(d)
    <2>1. ASSUME NEW from, NEW to, NEW needed, NEW h, Restore(d, from, to, needed, h) \/ Step(d, from, to, h)
          PROVE  dep'[d].pc = to
      BY <1>0, <2>1 DEF Restore, Step, DepType
    <2>2. dep'[d].pc \in {"restore_db", "restore_link", "rebuild", "resume_old"}
      BY <1>6, <2>1 DEF RestoreConfig, RestoreDb, RestoreLink, RebuildDocroot
    <2> QED
      BY <2>2 DEF MigratingOK, BeforeMigrate
  <1>7. CASE dep'[d] = Idle
    BY <1>7 DEF MigratingOK, BeforeMigrate, Idle
  <1>8. CASE Refuse(d) \/ DrainTimeout(d) \/ Prune(d) \/ LeaveDown(d) \/ ResumeOld(d) \/ Die(d) \/ Reboot
    <2>1. dep'[d] = Idle
      BY <1>0, <1>8 DEF Refuse, DrainTimeout, Prune, LeaveDown, ResumeOld, End, Die, Reboot
    <2> QED
      BY <1>7, <2>1
  <1>9. CASE UNCHANGED dep /\ host'.db.level = host.db.level
    BY <1>9 DEF MigratingOK
  <1>10. CASE \/ \E u \in Unit : StartService(u) \/ ServiceBuilds(u) \/ ServiceEnds(u)
              \/ \E w \in Write : WebWrite(w)
              \/ UNCHANGED vars
    BY <1>9, <1>10, SchemaKept
  <1>11. \A e \in Deployer : e = d
    BY DEF OneDeployer
  <1> QED
    BY <1>1, <1>2, <1>3, <1>4, <1>5, <1>6, <1>8, <1>10, <1>11 DEF Next, Forward, Backward

\* No step takes a run back, whatever fails or dies and whatever the services and the
\* web site do meanwhile: a run takes at most 21 steps beside the statements of the
\* migrations it found to do and their records.
THEOREM RunsOnlyAdvance ==
  ASSUME OneDeployer
  PROVE  Spec => RunsAdvance
  <1>1. ASSUME TypeOK, MigratingInv, Next, NEW d \in Deployer
        PROVE  /\ Forward(d) \/ Backward(d) => Nearer(d)
               /\ dep[d].pc # "idle" /\ dep'[d] # dep[d] => Nearer(d)
               /\ dep[d].pc = "migrate" /\ dep'[d].pc = "migrate" /\ ~ Nearer(d)
                     => host'.db.level = host.db.level /\ host'.db.partial = host.db.partial
    <2>0. \A e \in Deployer : e = d
      BY DEF OneDeployer
    <2>1. Forward(d) \/ Backward(d) => Nearer(d)
      BY <1>1, StepAdvances, MigrationAdvances DEF Nearer, MigratingInv
    <2>2. CASE \E r \in Release : Stage(d, r)
      BY <2>1, <2>2 DEF Stage
    <2>3. CASE Die(d) \/ Reboot
      <3>1. dep[d].pc \in Pc /\ dep'[d].pc = "idle"
        BY <1>1, <2>3, DepTyped DEF Die, Reboot, Idle, TypeOK
      <3>2. dep[d].pc # "idle" => Left["idle"] < Left[dep[d].pc]
        BY <3>1, LeftOf DEF Pc, Armed, RollbackPc
      <3> QED
        BY <2>1, <3>1, <3>2 DEF Nearer
    <2>4. CASE \/ \E u \in Unit : StartService(u) \/ ServiceBuilds(u) \/ ServiceEnds(u)
               \/ \E w \in Write : WebWrite(w)
      BY <1>1, <2>1, <2>4, SchemaKept
    <2> QED
      BY <1>1, <2>0, <2>1, <2>2, <2>3, <2>4 DEF Next
  <1>2. /\ Spec => []TypeOK
        /\ Spec => []MigratingInv
    <2>1. TypeOK /\ MigratingInv /\ [Next]_vars => MigratingInv'
      BY MigratingStep DEF MigratingInv
    <2>2. Spec => []TypeOK
      BY TypeCorrect
    <2> QED
      BY <2>1, <2>2, MigratingBegins, PTL DEF Spec
  <1>3. TypeOK /\ MigratingInv /\ [Next]_vars =>
          [\A d \in Deployer :
             /\ Forward(d) \/ Backward(d) => Nearer(d)
             /\ dep[d].pc # "idle" /\ dep'[d] # dep[d] => Nearer(d)
             /\ dep[d].pc = "migrate" /\ dep'[d].pc = "migrate" /\ ~ Nearer(d)
                   => host'.db.level = host.db.level /\ host'.db.partial = host.db.partial]_vars
    BY <1>1
  <1> QED
    BY <1>2, <1>3, PTL DEF Spec, RunsAdvance
=============================================================================
