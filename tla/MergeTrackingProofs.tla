------------------------ MODULE MergeTrackingProofs ------------------------
(***************************************************************************)
(* A row follows its own pull request to the commit that carries the       *)
(* frozen value, and from there to the live dataset.                       *)
(*                                                                         *)
(* Which request a pull request is for never depends on leases: a worker   *)
(* looks for and opens those of the request in its hand, and GitHub does   *)
(* not move them.  So what is deployed was shipped even when runs outlive  *)
(* their leases (MergeInv); that the pull request is also the current      *)
(* attempt's needs that they do not (Held, of EditorBridgeProofs).         *)
(***************************************************************************)
EXTENDS EditorBridgeProofs

\* Pull request n is for request c; commit i has the value frozen for c.
IsFor(n, c) == n \in 1..Len(prs) /\ prs[n].cr = c
Carries(i, c) == i \in 2..Len(main) /\ main[i][Target[c]] = Proposed[c]

RowTracks(c) ==
    /\ row[c].state = "pr_open" => IsFor(row[c].pr, c)
    /\ row[c].state \in {"merged", "deployed"} => Carries(row[c].mergeSha, c)

\* A worker that has a pull request in hand has its attempt's.
HasPr(w) == \/ At(w, "looked") /\ worker[w].pr # 0
            \/ At(w, "decided") /\ worker[w].verdict = "pr_open"
WorkerTracks(w) ==
    HasPr(w) => IsFor(worker[w].pr, MyCR(w)) /\ prs[worker[w].pr].attempt = worker[w].attempt

SawMerged(x) == recon[x].pc = "got" /\ recon[x].seen = "merged"
ReconcilerTracks(x) ==
    /\ recon[x].pc # "idle" => IsFor(recon[x].pr, recon[x].cr)
    /\ SawMerged(x) => prs[recon[x].pr].state = "merged" /\ prs[recon[x].pr].sha = recon[x].sha

InMain(n) == prs[n].state \in {"merging", "merged"}
PrTracks(n) == InMain(n) => Carries(prs[n].sha, prs[n].cr)

MergeInv ==
    /\ \A c \in CR : RowTracks(c)
    /\ \A w \in Worker : WorkerTracks(w)
    /\ \A x \in Reconciler : ReconcilerTracks(x)
    /\ \A n \in 1..Len(prs) : PrTracks(n)
    /\ hook # 0 => hook = live

\* GitHub forgets nothing: a pull request stays what it is for, a merged one stays
\* merged by its commit, and main only grows.
Grows ==
    /\ Len(prs) \in Nat /\ Len(prs') \in Nat /\ Len(prs) <= Len(prs')
    /\ Len(main) \in Nat /\ Len(main') \in Nat /\ Len(main) <= Len(main')
    /\ \A n \in 1..Len(prs) :
         /\ prs'[n].cr = prs[n].cr /\ prs'[n].attempt = prs[n].attempt
         /\ prs[n].state = "merged" => prs'[n].state = "merged" /\ prs'[n].sha = prs[n].sha
    /\ \A i \in 1..Len(main) : main'[i] = main[i]

LEMMA StaysFor ==
  ASSUME Grows, NEW n, NEW c, IsFor(n, c)
  PROVE  IsFor(n, c)'
  BY DEF Grows, IsFor

LEMMA StillCarries ==
  ASSUME Grows, NEW i, NEW c, Carries(i, c)
  PROVE  Carries(i, c)'
  BY DEF Grows, Carries

LEMMA Stutters ==
  ASSUME TypeOK, UNCHANGED <<prs, main>>
  PROVE  Grows
  BY LenTyped DEF Grows

\* The rows, processes and pull requests that a step leaves alone.
LEMMA TrackFrame ==
  ASSUME MergeInv, Grows,
         \A c \in CR : row'[c] = row[c] \/ RowTracks(c)',
         \A w \in Worker : worker'[w] = worker[w] \/ WorkerTracks(w)',
         \A x \in Reconciler : recon'[x] = recon[x] \/ ReconcilerTracks(x)',
         \A n \in 1..Len(prs') : (n \in 1..Len(prs) /\ prs'[n] = prs[n]) \/ PrTracks(n)',
         hook' # 0 => hook' = live'
  PROVE  MergeInv'
  <1>1. ASSUME NEW c \in CR PROVE RowTracks(c)'
    <2>1. CASE row'[c] = row[c]
      <3>1. RowTracks(c)
        BY DEF MergeInv
      <3> QED
        BY <2>1, <3>1, StaysFor, StillCarries DEF RowTracks
    <2> QED
      BY <2>1
  <1>2. ASSUME NEW w \in Worker PROVE WorkerTracks(w)'
    <2>1. CASE worker'[w] = worker[w]
      <3>1. WorkerTracks(w)
        BY DEF MergeInv
      <3>2. HasPr(w)' = HasPr(w) /\ MyCR(w)' = MyCR(w)
        BY <2>1 DEF HasPr, At, MyCR
      <3>3. ASSUME HasPr(w)
            PROVE  IsFor(worker[w].pr, MyCR(w))' /\ prs'[worker[w].pr].attempt = worker[w].attempt
        <4>1. IsFor(worker[w].pr, MyCR(w)) /\ prs[worker[w].pr].attempt = worker[w].attempt
          BY <3>1, <3>3 DEF WorkerTracks
        <4> QED
          BY <2>1, <3>2, <4>1 DEF Grows, IsFor
      <3> QED
        BY <2>1, <3>2, <3>3 DEF WorkerTracks
    <2> QED
      BY <2>1
  <1>3. ASSUME NEW x \in Reconciler PROVE ReconcilerTracks(x)'
    <2>1. CASE recon'[x] = recon[x]
      <3>1. ReconcilerTracks(x)
        BY DEF MergeInv
      <3>2. recon[x].pc # "idle" => IsFor(recon[x].pr, recon[x].cr)'
        BY <2>1, <3>1 DEF ReconcilerTracks, Grows, IsFor
      <3>3. SawMerged(x) => prs'[recon[x].pr].state = "merged" /\ prs'[recon[x].pr].sha = recon[x].sha
        BY <3>1 DEF ReconcilerTracks, SawMerged, Grows, IsFor
      <3> QED
        BY <2>1, <3>2, <3>3 DEF ReconcilerTracks, SawMerged, IsFor
    <2> QED
      BY <2>1
  <1>4. ASSUME NEW n \in 1..Len(prs)' PROVE PrTracks(n)'
    <2>1. CASE n \in 1..Len(prs) /\ prs'[n] = prs[n]
      <3>1. PrTracks(n)
        BY <2>1 DEF MergeInv
      <3> QED
        BY <2>1, <3>1 DEF PrTracks, InMain, Grows, Carries
    <2> QED
      BY <2>1
  <1> QED
    BY <1>1, <1>2, <1>3, <1>4 DEF MergeInv

-----------------------------------------------------------------------------
(* Workers                                                                 *)

\* A step that changes one worker and neither rows nor GitHub.
LEMMA MovedTracks ==
  ASSUME BridgeInv, MergeInv, NEW w \in Worker, UNCHANGED <<row, prs, main, deployVars, recon>>,
         \A u \in Worker : u # w => worker'[u] = worker[u],
         WorkerTracks(w)'
  PROVE  MergeInv'
  BY Stutters, TrackFrame DEF BridgeInv, deployVars, MergeInv

LEMMA WorkerTracksNothing ==
  ASSUME NEW w \in Worker, worker'[w].pc \notin {"looked", "decided"}
  PROVE  WorkerTracks(w)'
  BY DEF WorkerTracks, HasPr, At

LEMMA LocalTracks ==
  ASSUME BridgeInv, MergeInv, NEW w \in Worker,
         \/ Prepare(w) \/ CloneAndPatch(w) \/ Push(w) \/ FindPr(w) \/ UpdatePr(w)
         \/ InfraError(w) \/ UnexpectedError(w) \/ PushResponseLost(w) \/ Crash(w)
  PROVE  MergeInv'
  <1>0. TypeOK /\ worker[w] \in WorkerType /\ worker \in [Worker -> WorkerType]
    BY WorkerTyped DEF BridgeInv, TypeOK
  <1>1. UNCHANGED <<row, prs, main, deployVars, recon>>
    BY DEF Prepare, CloneAndPatch, Push, FindPr, UpdatePr, InfraError, UnexpectedError,
           PushResponseLost, Crash, dbVars, githubVars
  <1>2. \A u \in Worker : u # w => worker'[u] = worker[u]
    BY <1>0 DEF Prepare, CloneAndPatch, Push, FindPr, UpdatePr, InfraError, UnexpectedError,
           PushResponseLost, Crash, Goto, Decide
  <1>3. ASSUME NEW pc \in {"prepared", "pushed", "failed"}, Goto(w, pc) PROVE WorkerTracks(w)'
    <2>1. worker'[w].pc = pc
      BY <1>0, <1>3 DEF Goto, WorkerType
    <2> QED
      BY <1>3, <2>1, WorkerTracksNothing
  <1>4. ASSUME NEW v \in {"conflict", "worker_error"}, Decide(w, v) PROVE WorkerTracks(w)'
    <2>1. worker'[w].pc = "decided" /\ worker'[w].verdict = v
      BY <1>0, <1>4 DEF Decide, WorkerType
    <2> QED
      BY <1>4, <2>1 DEF WorkerTracks, HasPr, At
  <1>5. CASE Prepare(w)
    BY <1>1, <1>2, <1>3, <1>4, <1>5, MovedTracks DEF Prepare
  <1>6. CASE CloneAndPatch(w)
    <2>1. CASE PatchVerdict(MyCR(w)) = "pr_open"
      <3>1. worker'[w].pc = "patched"
        BY <1>0, <1>6, <2>1 DEF CloneAndPatch, WorkerType
      <3> QED
        BY <1>1, <1>2, <3>1, WorkerTracksNothing, MovedTracks
    <2>2. CASE PatchVerdict(MyCR(w)) # "pr_open"
      <3>1. PatchVerdict(MyCR(w)) \in {"conflict", "worker_error"}
        BY <2>2 DEF PatchVerdict
      <3> QED
        BY <1>1, <1>2, <1>4, <1>6, <2>2, <3>1, MovedTracks DEF CloneAndPatch
    <2> QED
      BY <2>1, <2>2
  <1>7. CASE Push(w) \/ PushResponseLost(w) \/ InfraError(w)
    BY <1>1, <1>2, <1>3, <1>7, MovedTracks DEF Push, PushResponseLost, InfraError
  <1>8. CASE UnexpectedError(w)
    BY <1>1, <1>2, <1>4, <1>8, MovedTracks DEF UnexpectedError
  <1>9. CASE Crash(w)
    <2>1. worker'[w].pc = "idle"
      BY <1>0, <1>9 DEF Crash, IdleWorker
    <2> QED
      BY <1>1, <1>2, <2>1, WorkerTracksNothing, MovedTracks
  <1>10. CASE FindPr(w)
    <2> DEFINE open == OpenPr(MyCR(w), worker[w].attempt)
               n == IF open = {} THEN 0 ELSE CHOOSE m \in open : TRUE
    <2>1. n # 0 => n \in open
      OBVIOUS
    <2>2. worker' = [worker EXCEPT ![w] = [@ EXCEPT !.pc = "looked", !.pr = n]]
      BY <1>10 DEF FindPr
    <2> HIDE DEF n, open
    <2>3. /\ worker'[w].pc = "looked" /\ worker'[w].pr = n
          /\ worker'[w].cr = worker[w].cr /\ worker'[w].attempt = worker[w].attempt
      BY <1>0, <2>2 DEF WorkerType
    <2>4. n # 0 => IsFor(n, worker[w].cr) /\ prs[n].attempt = worker[w].attempt
      BY <2>1 DEF open, OpenPr, IsFor, MyCR
    <2>5. WorkerTracks(w)'
      BY <1>1, <2>3, <2>4 DEF WorkerTracks, HasPr, At, IsFor, MyCR
    <2> QED
      BY <1>1, <1>2, <2>5, MovedTracks
  <1>11. CASE UpdatePr(w)
    <2>1. /\ worker'[w].pr = worker[w].pr /\ worker'[w].cr = worker[w].cr
          /\ worker'[w].attempt = worker[w].attempt
      BY <1>0, <1>11 DEF UpdatePr, Decide, WorkerType
    <2>2. HasPr(w) /\ WorkerTracks(w)
      BY <1>11 DEF UpdatePr, HasPr, MergeInv
    <2>3. WorkerTracks(w)'
      BY <1>1, <2>1, <2>2 DEF WorkerTracks, IsFor, MyCR
    <2> QED
      BY <1>1, <1>2, <2>3, MovedTracks
  <1> QED
    BY <1>5, <1>6, <1>7, <1>8, <1>9, <1>10, <1>11

LEMMA NewPrTracks ==
  ASSUME BridgeInv, MergeInv, NEW w \in Worker, CreatePr(w) \/ CreateResponseLost(w)
  PROVE  MergeInv'
  <1> DEFINE p == [cr |-> MyCR(w), attempt |-> worker[w].attempt, state |-> "open", sha |-> 0]
  <1>0. /\ TypeOK /\ worker[w] \in WorkerType /\ worker \in [Worker -> WorkerType]
        /\ Len(prs) \in Nat /\ Len(main) \in Nat /\ prs \in Seq(PrType)
    BY WorkerTyped, LenTyped DEF BridgeInv, TypeOK
  <1>1. UNCHANGED <<row, main, deployVars, recon>> /\ prs' = Append(prs, p)
    BY DEF CreatePr, CreateResponseLost, NewPr, dbVars
  <1>2. /\ Len(prs') = Len(prs) + 1 /\ prs'[Len(prs) + 1] = p
        /\ \A n \in 1..Len(prs) : prs'[n] = prs[n]
    BY <1>0, <1>1
  <1>3. \A u \in Worker : u # w => worker'[u] = worker[u]
    BY <1>0 DEF CreatePr, CreateResponseLost, Goto, Decide
  <1>4. WorkerTracks(w)'
    <2>1. CASE CreatePr(w)
      <3>1. /\ worker'[w].pr = Len(prs) + 1 /\ worker'[w].cr = worker[w].cr
            /\ worker'[w].attempt = worker[w].attempt
        BY <1>0, <2>1 DEF CreatePr, WorkerType
      <3> QED
        BY <1>0, <1>2, <3>1 DEF WorkerTracks, IsFor, MyCR
    <2>2. CASE CreateResponseLost(w)
      <3>1. Goto(w, "failed") \/ Decide(w, "worker_error")
        BY <2>2 DEF CreateResponseLost
      <3>2. CASE Goto(w, "failed")
        BY <1>0, <3>2, WorkerTracksNothing DEF Goto, WorkerType
      <3>3. CASE Decide(w, "worker_error")
        BY <1>0, <3>3 DEF Decide, WorkerType, WorkerTracks, HasPr, At
      <3> QED
        BY <3>1, <3>2, <3>3
    <2> QED
      BY <2>1, <2>2
  <1>5. Grows
    BY <1>0, <1>1, <1>2 DEF Grows
  <1>6. \A n \in 1..Len(prs') : (n \in 1..Len(prs) /\ prs'[n] = prs[n]) \/ PrTracks(n)'
    BY <1>0, <1>2 DEF PrTracks, InMain
  <1> QED
    BY <1>1, <1>3, <1>4, <1>5, <1>6, TrackFrame DEF MergeInv, deployVars

\* A step that writes one row and does not touch GitHub.
LEMMA WrittenTracks ==
  ASSUME BridgeInv, MergeInv, NEW c \in CR,
         UNCHANGED <<prs, main, deployVars>>,
         \A d \in CR : d # c => row'[d] = row[d],
         RowTracks(c)',
         \A w \in Worker : worker'[w] = worker[w] \/ WorkerTracks(w)',
         \A x \in Reconciler : recon'[x] = recon[x] \/ ReconcilerTracks(x)'
  PROVE  MergeInv'
  BY Stutters, TrackFrame DEF BridgeInv, deployVars, MergeInv

LEMMA ClaimTracks ==
  ASSUME BridgeInv, MergeInv, NEW w \in Worker, NEW c \in CR, Claim(w, c)
  PROVE  MergeInv'
  <1>0. TypeOK /\ row[c] \in RowType /\ worker \in [Worker -> WorkerType]
    BY RowTyped DEF BridgeInv, TypeOK
  <1>1. /\ UNCHANGED <<prs, main, deployVars, recon>>
        /\ \A d \in CR : d # c => row'[d] = row[d]
        /\ row'[c].state = "queued"
    BY <1>0 DEF Claim, githubVars, TypeOK, RowType
  <1>2. worker'[w].pc = "claimed" /\ \A u \in Worker : u # w => worker'[u] = worker[u]
    BY <1>0 DEF Claim
  <1>3. \A u \in Worker : worker'[u] = worker[u] \/ WorkerTracks(u)'
    BY <1>2, WorkerTracksNothing
  <1>4. RowTracks(c)'
    BY <1>1 DEF RowTracks
  <1> QED
    BY <1>1, <1>3, <1>4, WrittenTracks

LEMMA RecordTracks ==
  ASSUME BridgeInv, MergeInv, NEW w \in Worker, RecordFailure(w) \/ RecordOutcome(w)
  PROVE  MergeInv'
  <1>c. MyCR(w) \in CR
    BY DEF BridgeInv, WorkerOK, RecordFailure, RecordOutcome, At
  <1> PICK c \in CR : c = MyCR(w)
    BY <1>c
  <1>0. /\ TypeOK /\ c = MyCR(w) /\ row[c] \in RowType /\ worker \in [Worker -> WorkerType]
        /\ row \in [CR -> RowType]
        /\ worker[w].verdict \in {"none", "pr_open", "conflict", "worker_error"}
        /\ At(w, "decided") => worker[w].verdict # "none"
    BY RowTyped, WorkerTyped DEF BridgeInv, TypeOK, WorkerOK, RecordFailure, RecordOutcome, At
  <1>1. /\ UNCHANGED <<prs, main, deployVars, recon>>
        /\ \A d \in CR : d # c => row'[d] = row[d]
    BY <1>0 DEF RecordFailure, RecordOutcome, githubVars
  <1>2. worker'[w].pc = "idle" /\ \A u \in Worker : u # w => worker'[u] = worker[u]
    BY <1>0 DEF RecordFailure, RecordOutcome, IdleWorker
  <1>3. \A u \in Worker : worker'[u] = worker[u] \/ WorkerTracks(u)'
    BY <1>2, WorkerTracksNothing
  <1>4. RowTracks(c)'
    <2>1. CASE RecordOutcome(w)
      <3>1. CASE worker[w].verdict = "pr_open"
        <4> DEFINE m == worker[w].pr
        <4>0. row' = [row EXCEPT ![c] = [@ EXCEPT !.state = "pr_open", !.lease = Free,
                                                  !.pr = m, !.retries = 0]]
          BY <1>0, <2>1, <3>1 DEF RecordOutcome
        <4> HIDE DEF m
        <4>3. row'[c].state = "pr_open" /\ row'[c].pr = m
          BY <1>0, <4>0 DEF RowType
        <4>1. row'[c].state = "pr_open" /\ row'[c].pr = worker[w].pr
          BY <4>3 DEF m
        <4>2. IsFor(worker[w].pr, c)
          BY <1>0, <2>1, <3>1 DEF RecordOutcome, MergeInv, WorkerTracks, HasPr
        <4> QED
          BY <1>1, <4>1, <4>2 DEF RowTracks, IsFor
      <3>2. CASE worker[w].verdict # "pr_open"
        <4>1. row'[c].state = worker[w].verdict
          BY <1>0, <2>1, <3>2 DEF RecordOutcome, RowType
        <4> QED
          BY <1>0, <3>2, <4>1 DEF RowTracks
      <3> QED
        BY <3>1, <3>2
    <2>2. CASE RecordFailure(w)
      <3> DEFINE n == worker[w].retries + 1
      <3>1. \/ row' = [row EXCEPT ![c] = [@ EXCEPT !.retries = n, !.lease = Free, !.state = "worker_error"]]
            \/ row' = [row EXCEPT ![c] = [@ EXCEPT !.retries = n, !.lease = Backoff]]
        BY <1>0, <2>2 DEF RecordFailure
      <3> HIDE DEF n
      <3>2. CASE row' = [row EXCEPT ![c] = [@ EXCEPT !.retries = n, !.lease = Free, !.state = "worker_error"]]
        <4>1. row'[c].state = "worker_error"
          BY <1>0, <3>2 DEF RowType
        <4> QED
          BY <4>1 DEF RowTracks
      <3>3. CASE row' = [row EXCEPT ![c] = [@ EXCEPT !.retries = n, !.lease = Backoff]]
        <4>1. /\ row'[c].state = row[c].state /\ row'[c].pr = row[c].pr
              /\ row'[c].mergeSha = row[c].mergeSha
          BY <1>0, <3>3 DEF RowType
        <4> QED
          BY <1>0, <1>1, <4>1 DEF RowTracks, MergeInv, IsFor, Carries
      <3> QED
        BY <3>1, <3>2, <3>3
    <2> QED
      BY <2>1, <2>2
  <1> QED
    BY <1>0, <1>1, <1>3, <1>4, WrittenTracks

-----------------------------------------------------------------------------
(* Maintainers, the clock, the hook and reconcile                          *)

LEMMA RequestTracks ==
  ASSUME BridgeInv, MergeInv, NEW c \in CR, RequestStep(c)
  PROVE  MergeInv'
  <1>0. TypeOK /\ row[c] \in RowType /\ row \in [CR -> RowType]
    BY RowTyped DEF BridgeInv, TypeOK
  <1>1. /\ UNCHANGED <<prs, main, deployVars, recon, worker>>
        /\ \A d \in CR : d # c => row'[d] = row[d]
    BY <1>0 DEF RequestStep, Endorse, Resolve, Requeue, LeaseExpires, MarkDeployed, githubVars
  <1>2. RowTracks(c)
    BY DEF MergeInv
  <1>3. RowTracks(c)'
    <2>1. CASE Endorse(c) \/ Requeue(c)
      <3>1. row'[c].state = "queued"
        <4>1. CASE Endorse(c)
          BY <1>0, <4>1 DEF Endorse
        <4>2. CASE Requeue(c)
          BY <1>0, <4>2 DEF Requeue, RowType
        <4> QED
          BY <2>1, <4>1, <4>2
      <3> QED
        BY <3>1 DEF RowTracks
    <2>2. CASE Resolve(c) \/ LeaseExpires(c)
      <3>1. /\ row'[c].state = row[c].state /\ row'[c].pr = row[c].pr
            /\ row'[c].mergeSha = row[c].mergeSha
        BY <1>0, <2>2 DEF Resolve, LeaseExpires, RowType
      <3> QED
        BY <1>1, <1>2, <3>1 DEF RowTracks, IsFor, Carries
    <2>3. CASE MarkDeployed(c)
      <3>1. /\ row'[c].state = "deployed" /\ row[c].state = "merged"
            /\ row'[c].mergeSha = row[c].mergeSha
        BY <1>0, <2>3 DEF MarkDeployed, RowType
      <3> QED
        BY <1>1, <1>2, <3>1 DEF RowTracks, Carries
    <2> QED
      BY <2>1, <2>2, <2>3 DEF RequestStep
  <1> QED
    BY <1>1, <1>3, WrittenTracks

LEMMA ReconcilerStepTracks ==
  ASSUME BridgeInv, MergeInv, NEW x \in Reconciler, ReconcilerStep(x)
  PROVE  MergeInv'
  <1>0. /\ TypeOK /\ recon[x] \in ReconcilerType /\ recon \in [Reconciler -> ReconcilerType]
        /\ row \in [CR -> RowType]
    BY DEF BridgeInv, TypeOK
  <1>1. UNCHANGED <<prs, main, deployVars, worker>>
        /\ \A z \in Reconciler : z # x => recon'[z] = recon[z]
    BY <1>0 DEF ReconcilerStep, ReconcileRead, ReconcileGet, ReconcileWrite, ReconcileAbort, githubVars
  <1>2. ReconcilerTracks(x)
    BY DEF MergeInv
  <1>3. ASSUME recon'[x].pc = "idle" PROVE ReconcilerTracks(x)'
    BY <1>3 DEF ReconcilerTracks, SawMerged
  <1>4. ASSUME row' = row, ReconcilerTracks(x)' PROVE MergeInv'
    <2>1. \A c \in CR : row'[c] = row[c]
      BY <1>4
    <2> QED
      BY <1>0, <1>1, <1>4, <2>1, Stutters, TrackFrame DEF deployVars, MergeInv
  <1>5. CASE \E c \in CR : ReconcileRead(x, c)
    <2>1. PICK c \in CR : ReconcileRead(x, c)
      BY <1>5
    <2>2. row' = row /\ recon'[x].pc = "read" /\ recon'[x].cr = c /\ recon'[x].pr = row[c].pr
      BY <1>0, <2>1 DEF ReconcileRead, dbVars
    <2>3. IsFor(row[c].pr, c)
      BY <2>1 DEF ReconcileRead, MergeInv, RowTracks
    <2>4. ReconcilerTracks(x)'
      BY <1>1, <2>2, <2>3 DEF ReconcilerTracks, SawMerged, IsFor
    <2> QED
      BY <1>4, <2>2, <2>4
  <1>6. CASE ReconcileGet(x)
    <2> DEFINE p == prs[recon[x].pr]
    <2>1. row' = row /\ recon[x].pc = "read"
          /\ recon' = [recon EXCEPT ![x] =
               IF p.state \in {"closed", "merged"}
                 THEN [@ EXCEPT !.pc = "got", !.seen = p.state, !.sha = p.sha]
                 ELSE IdleReconciler]
      BY <1>6 DEF ReconcileGet, dbVars
    <2>2. CASE p.state \in {"closed", "merged"}
      <3>1. recon' = [recon EXCEPT ![x] = [@ EXCEPT !.pc = "got", !.seen = p.state, !.sha = p.sha]]
        BY <2>1, <2>2
      <3> HIDE DEF p
      <3>2. /\ recon'[x].cr = recon[x].cr /\ recon'[x].pr = recon[x].pr
            /\ recon'[x].seen = p.state /\ recon'[x].sha = p.sha
        BY <1>0, <3>1 DEF ReconcilerType
      <3>3. IsFor(recon[x].pr, recon[x].cr)
        BY <1>2, <2>1 DEF ReconcilerTracks
      <3>4. ReconcilerTracks(x)'
        BY <1>1, <3>2, <3>3 DEF ReconcilerTracks, SawMerged, IsFor, p
      <3> QED
        BY <1>4, <2>1, <3>4
    <2>3. CASE p.state \notin {"closed", "merged"}
      <3>1. recon'[x].pc = "idle"
        BY <1>0, <2>1, <2>3 DEF IdleReconciler
      <3> QED
        BY <1>3, <1>4, <2>1, <3>1
    <2> QED
      BY <2>2, <2>3
  <1>7. CASE ReconcileAbort(x)
    <2>1. row' = row /\ recon'[x].pc = "idle"
      BY <1>0, <1>7 DEF ReconcileAbort, dbVars, IdleReconciler
    <2> QED
      BY <1>3, <1>4, <2>1
  <1>8. CASE ReconcileWrite(x)
    <2>c. recon[x].cr \in CR
      BY <1>8 DEF ReconcileWrite, BridgeInv, ReconcilerOK
    <2> PICK c \in CR : c = recon[x].cr
      BY <2>c
    <2>1. c = recon[x].cr /\ recon'[x].pc = "idle" /\ IsFor(recon[x].pr, c)
      BY <1>0, <1>2, <1>8 DEF ReconcileWrite, IdleReconciler, BridgeInv, ReconcilerOK, ReconcilerTracks
    <2>2. row[c] \in RowType /\ \A d \in CR : d # c => row'[d] = row[d]
      BY <1>0, <1>8, <2>1 DEF ReconcileWrite
    <2>3. CASE recon[x].seen = "merged"
      <3>1. row'[c].state = "merged" /\ row'[c].mergeSha = recon[x].sha
        BY <1>0, <1>8, <2>1, <2>2, <2>3 DEF ReconcileWrite, RowType
      <3>2. prs[recon[x].pr].state = "merged" /\ prs[recon[x].pr].sha = recon[x].sha
        BY <1>2, <1>8, <2>3 DEF ReconcileWrite, ReconcilerTracks, SawMerged
      <3>3. Carries(recon[x].sha, c)
        BY <2>1, <3>2 DEF MergeInv, PrTracks, InMain, IsFor
      <3>4. RowTracks(c)'
        BY <1>1, <3>1, <3>3 DEF RowTracks, Carries
      <3> QED
        BY <1>1, <1>3, <2>1, <2>2, <3>4, WrittenTracks
    <2>4. CASE recon[x].seen # "merged"
      <3>1. row'[c].state = "pr_closed"
        BY <1>0, <1>8, <2>1, <2>2, <2>4 DEF ReconcileWrite, RowType
      <3>2. RowTracks(c)'
        BY <3>1 DEF RowTracks
      <3> QED
        BY <1>1, <1>3, <2>1, <2>2, <3>2, WrittenTracks
    <2> QED
      BY <2>3, <2>4
  <1> QED
    BY <1>5, <1>6, <1>7, <1>8 DEF ReconcilerStep

-----------------------------------------------------------------------------
(* GitHub, the main branch and deploys                                     *)

LEMMA PrStepTracks ==
  ASSUME BridgeInv, MergeInv, NEW n \in 1..Len(prs), PrStep(n)
  PROVE  MergeInv'
  <1>0. /\ TypeOK /\ prs[n] \in PrType /\ prs[n].cr \in CR /\ prs \in Seq(PrType)
        /\ Len(main) \in Nat \ {0} /\ Len(prs) \in Nat /\ main \in Seq([Cell -> Val])
    BY PrTyped, LenTyped DEF BridgeInv, TypeOK
  <1>1. UNCHANGED <<row, deployVars, worker, recon>>
    BY DEF PrStep, Merge, SettleSha, ClosePr, ReopenPr, dbVars
  <1>2. ASSUME NEW p \in PrType, p.cr = prs[n].cr, p.attempt = prs[n].attempt,
               prs[n].state # "merged", prs' = [prs EXCEPT ![n] = p],
               Len(main') \in Nat, Len(main) <= Len(main'), \A i \in 1..Len(main) : main'[i] = main[i],
               p.state \in {"merging", "merged"} => Carries(p.sha, p.cr)'
        PROVE  MergeInv'
    <2>1. /\ Len(prs') = Len(prs) /\ prs'[n] = p
          /\ \A m \in 1..Len(prs) : m # n => prs'[m] = prs[m]
      BY <1>0, <1>2
    <2>2. Grows
      BY <1>0, <1>2, <2>1 DEF Grows
    <2>3. PrTracks(n)'
      BY <1>2, <2>1 DEF PrTracks, InMain
    <2> QED
      BY <1>1, <2>1, <2>2, <2>3, TrackFrame DEF MergeInv, deployVars
  <1>3. CASE Merge(n)
    <2> PICK k \in Nat : k = Len(main) + 1
      BY <1>0
    <2> PICK c \in CR : c = prs[n].cr
      BY <1>0
    <2> PICK p \in {[prs[n] EXCEPT !.state = "merging", !.sha = k]} : TRUE
      OBVIOUS
    <2>1. /\ prs' = [prs EXCEPT ![n] = p]
          /\ main' = Append(main, [Tip EXCEPT ![Target[c]] = Proposed[c]])
          /\ prs[n].state = "open"
      BY <1>3 DEF Merge
    <2>2. k \in Nat \ {0, 1} /\ Target[c] \in Cell /\ Tip \in [Cell -> Val]
      BY <1>0, DiffAssumption DEF Tip
    <2>3. /\ Len(main') = k /\ main'[k] = [Tip EXCEPT ![Target[c]] = Proposed[c]]
          /\ \A i \in 1..Len(main) : main'[i] = main[i]
      BY <1>0, <2>1
    <2>4. main'[k][Target[c]] = Proposed[c]
      BY <2>2, <2>3
    <2>5. Len(main) <= k
      BY <1>0
    <2>6. /\ p \in PrType /\ p.cr = prs[n].cr /\ p.attempt = prs[n].attempt /\ p.sha = k
      BY <1>0, <2>2 DEF PrType
    <2>7. Carries(k, c)'
      BY <2>2, <2>3, <2>4 DEF Carries
    <2>8. p.state \in {"merging", "merged"} => Carries(p.sha, p.cr)'
      BY <2>6, <2>7
    <2> QED
      BY <1>0, <1>2, <2>1, <2>3, <2>5, <2>6, <2>8
  <1>4. CASE SettleSha(n) \/ ClosePr(n) \/ ReopenPr(n)
    <2>1. PICK s \in {"open", "closed", "merged"} :
            /\ prs' = [prs EXCEPT ![n].state = s] /\ main' = main /\ prs[n].state # "merged"
            /\ s = "merged" => prs[n].state = "merging"
      BY <1>4 DEF SettleSha, ClosePr, ReopenPr
    <2> PICK p \in {[prs[n] EXCEPT !.state = s]} : TRUE
      OBVIOUS
    <2>2. prs' = [prs EXCEPT ![n] = p]
      BY <2>1
    <2>3. /\ p \in PrType /\ p.cr = prs[n].cr /\ p.attempt = prs[n].attempt
          /\ p.sha = prs[n].sha /\ p.state = s
      BY <1>0 DEF PrType
    <2>4. p.state \in {"merging", "merged"} => Carries(p.sha, p.cr)'
      <3>1. s = "merged" => Carries(prs[n].sha, prs[n].cr)
        BY <2>1 DEF MergeInv, PrTracks, InMain
      <3> QED
        BY <2>1, <2>3, <3>1 DEF Carries
    <2> QED
      BY <1>0, <1>2, <2>1, <2>2, <2>3, <2>4, main' = main, Len(main) <= Len(main')
  <1> QED
    BY <1>3, <1>4 DEF PrStep

LEMMA DatasetTracks ==
  ASSUME BridgeInv, MergeInv, DatasetStep
  PROVE  MergeInv'
  <1>0. TypeOK /\ Len(prs) \in Nat /\ Len(main) \in Nat
    BY LenTyped DEF BridgeInv
  <1>1. UNCHANGED <<row, prs, worker, recon>>
    BY DEF DatasetStep, ManualCommit, Deploy, HookEnds, githubVars, dbVars
  <1>2. Len(main') \in Nat /\ Len(main) <= Len(main') /\ \A i \in 1..Len(main) : main'[i] = main[i]
    <2>1. ASSUME NEW y \in Cell, NEW v \in Val, ManualCommit(y, v)
          PROVE  Len(main') \in Nat /\ Len(main) <= Len(main') /\ \A i \in 1..Len(main) : main'[i] = main[i]
      BY <1>0, <2>1 DEF ManualCommit, TypeOK
    <2>2. CASE main' = main
      BY <1>0, <2>2
    <2> QED
      BY <2>1, <2>2 DEF DatasetStep, Deploy, HookEnds, githubVars
  <1>3. hook' # 0 => hook' = live'
    BY DEF DatasetStep, ManualCommit, Deploy, HookEnds, deployVars, MergeInv
  <1>4. Grows
    BY <1>0, <1>1, <1>2 DEF Grows
  <1> QED
    BY <1>1, <1>3, <1>4, TrackFrame DEF MergeInv

LEMMA MergeNext ==
  ASSUME BridgeInv, MergeInv, [Next]_vars
  PROVE  MergeInv'
  <1>1. ASSUME NEW w \in Worker, WorkerStep(w) PROVE MergeInv'
    BY <1>1, ClaimTracks, LocalTracks, NewPrTracks, RecordTracks DEF WorkerStep
  <1>2. CASE UNCHANGED vars
    <2>1. \A n \in 1..Len(prs') : n \in 1..Len(prs) /\ prs'[n] = prs[n]
      BY <1>2 DEF vars
    <2> QED
      BY <1>2, <2>1, Stutters, TrackFrame DEF vars, BridgeInv, MergeInv
  <1> QED
    BY <1>1, <1>2, ReconcilerStepTracks, RequestTracks, PrStepTracks, DatasetTracks DEF Next

\* Rows, processes and pull requests name the same request, and what is merged
\* is in main, with or without overlapping runs.
THEOREM MergesTracked == Spec => []MergeInv
  <1>1. Init => MergeInv
    BY DEF Init, MergeInv, RowTracks, NoRow, WorkerTracks, HasPr, At, IdleWorker,
           ReconcilerTracks, SawMerged, IdleReconciler
  <1> QED
    BY <1>1, MergeNext, BridgeInvariant, PTL DEF Spec

\* mark-deployed closes a request only when a commit with its frozen value is part
\* of the dataset that is live, however long a run outlives its lease.
THEOREM ShippedBeforeDeployed == Spec => DeployedWasShipped
  <1> DEFINE Shipped ==
        \A c \in CR :
          row[c].state # "deployed" /\ row'[c].state = "deployed" =>
            /\ \E i \in 2..live : main[i][Target[c]] = Proposed[c]
            /\ crStatus'[c] = "resolved"
  <1>1. ASSUME BridgeInv, MergeInv, [Next]_vars PROVE [Shipped]_vars
    <2> SUFFICES ASSUME NEW c \in CR, row[c].state # "deployed", row'[c].state = "deployed"
                 PROVE  /\ \E i \in 2..live : main[i][Target[c]] = Proposed[c]
                        /\ crStatus'[c] = "resolved"
      OBVIOUS
    <2>0. /\ TypeOK /\ row \in [CR -> RowType] /\ crStatus \in [CR -> {"pending", "approved", "resolved"}]
          /\ live \in 1..Len(main) /\ Len(main) \in Nat
      BY <1>1, LenTyped DEF BridgeInv, TypeOK
    <2>1. MarkDeployed(c)
      <3>1. ASSUME NEW w \in Worker, WorkerStep(w) PROVE FALSE
        <4>1. row' = row \/ (\E d \in CR : Claim(w, d)) \/ RecordFailure(w) \/ RecordOutcome(w)
          BY <3>1 DEF WorkerStep, Prepare, CloneAndPatch, Push, FindPr, UpdatePr, CreatePr, NewPr,
                 InfraError, UnexpectedError, PushResponseLost, CreateResponseLost, Crash, dbVars
        <4>2. ASSUME NEW d \in CR, Claim(w, d) PROVE FALSE
          BY <2>0, <4>2 DEF Claim, RowType
        <4>3. CASE RecordFailure(w)
          <5> DEFINE k == worker[w].retries + 1
                     e == MyCR(w)
          <5>1. \/ row' = [row EXCEPT ![e] = [@ EXCEPT !.retries = k, !.lease = Free, !.state = "worker_error"]]
                \/ row' = [row EXCEPT ![e] = [@ EXCEPT !.retries = k, !.lease = Backoff]]
            BY <4>3 DEF RecordFailure
          <5> HIDE DEF k, e
          <5>2. CASE row' = [row EXCEPT ![e] = [@ EXCEPT !.retries = k, !.lease = Free, !.state = "worker_error"]]
            BY <2>0, <5>2 DEF RowType
          <5>3. CASE row' = [row EXCEPT ![e] = [@ EXCEPT !.retries = k, !.lease = Backoff]]
            BY <2>0, <5>3 DEF RowType
          <5> QED
            BY <5>1, <5>2, <5>3
        <4>4. CASE RecordOutcome(w)
          BY <2>0, <4>4, WorkerTyped DEF RecordOutcome, RowType
        <4> QED
          BY <4>1, <4>2, <4>3, <4>4
      <3>2. ASSUME NEW x \in Reconciler, ReconcilerStep(x) PROVE FALSE
        <4>1. row' = row \/ ReconcileWrite(x)
          BY <3>2 DEF ReconcilerStep, ReconcileRead, ReconcileGet, ReconcileAbort, dbVars
        <4> DEFINE e == recon[x].cr
                   k == recon[x].sha
        <4>2. \/ row' = row
              \/ row' = [row EXCEPT ![e] = [@ EXCEPT !.state = "merged", !.mergeSha = k]]
              \/ row' = [row EXCEPT ![e].state = "pr_closed"]
          BY <4>1 DEF ReconcileWrite
        <4> HIDE DEF e, k
        <4>3. CASE row' = [row EXCEPT ![e] = [@ EXCEPT !.state = "merged", !.mergeSha = k]]
          BY <2>0, <4>3 DEF RowType
        <4>4. CASE row' = [row EXCEPT ![e].state = "pr_closed"]
          BY <2>0, <4>4 DEF RowType
        <4> QED
          BY <4>2, <4>3, <4>4
      <3>3. ASSUME NEW d \in CR, RequestStep(d), ~MarkDeployed(d) PROVE FALSE
        <4>1. CASE Endorse(d)
          BY <2>0, <4>1 DEF Endorse
        <4>2. CASE Requeue(d)
          BY <2>0, <4>2 DEF Requeue, RowType
        <4>3. CASE Resolve(d)
          BY <2>0, <4>3 DEF Resolve
        <4>4. CASE LeaseExpires(d)
          <5>1. row' = [row EXCEPT ![d].lease = Free]
            BY <4>4 DEF LeaseExpires
          <5> QED
            BY <2>0, <5>1 DEF RowType
        <4> QED
          BY <3>3, <4>1, <4>2, <4>3, <4>4 DEF RequestStep
      <3>4. ASSUME NEW d \in CR, MarkDeployed(d) PROVE d = c
        BY <2>0, <3>4 DEF MarkDeployed
      <3>5. ASSUME \/ \E n \in 1..Len(prs) : PrStep(n)
                   \/ DatasetStep \/ UNCHANGED vars
            PROVE  FALSE
        BY <3>5 DEF PrStep, Merge, SettleSha, ClosePr, ReopenPr, DatasetStep, ManualCommit,
                    Deploy, HookEnds, dbVars, vars
      <3> QED
        BY <1>1, <3>1, <3>2, <3>3, <3>4, <3>5 DEF Next
    <2>2. Carries(row[c].mergeSha, c) /\ hook = live /\ row[c].mergeSha <= hook
      BY <1>1, <2>1 DEF MarkDeployed, MergeInv, RowTracks
    <2>3. row[c].mergeSha \in 2..live
      BY <2>0, <2>2 DEF Carries
    <2> QED
      BY <2>0, <2>1, <2>2, <2>3 DEF MarkDeployed, Carries
  <1>2. Spec => [][Shipped]_vars
    BY <1>1, BridgeInvariant, MergesTracked, PTL DEF Spec
  <1> QED
    BY <1>2 DEF DeployedWasShipped

-----------------------------------------------------------------------------
(* The pull request of the current attempt                                 *)

\* A row past "queued" names a pull request of its request and its attempt, a
\* merged one by its merge commit.
RowFollows(c) ==
    /\ row[c].state \in {"pr_open", "merged", "deployed"} =>
         IsFor(row[c].pr, c) /\ prs[row[c].pr].attempt = row[c].attempt
    /\ row[c].state \in {"merged", "deployed"} =>
         prs[row[c].pr].state = "merged" /\ row[c].mergeSha = prs[row[c].pr].sha
Tracked == \A c \in CR : RowFollows(c)

\* What a step may do to a row without looking at GitHub.
KeepsPr(c) ==
    /\ row'[c].pr = row[c].pr /\ row'[c].attempt = row[c].attempt
    /\ row'[c].mergeSha = row[c].mergeSha
    /\ row'[c].state = row[c].state \/ (row[c].state = "merged" /\ row'[c].state = "deployed")
DropsPr(c) == row'[c].state \notin {"pr_open", "merged", "deployed"}

LEMMA StillFollows ==
  ASSUME Grows, NEW c, RowFollows(c), KeepsPr(c) \/ DropsPr(c)
  PROVE  RowFollows(c)'
  <1>1. CASE KeepsPr(c)
    <2>1. ASSUME row[c].state \in {"pr_open", "merged", "deployed"}
          PROVE  IsFor(row[c].pr, c)' /\ prs'[row'[c].pr].attempt = row'[c].attempt
      BY <1>1, <2>1 DEF RowFollows, KeepsPr, Grows, IsFor
    <2>2. ASSUME row[c].state \in {"merged", "deployed"}
          PROVE  prs'[row'[c].pr].state = "merged" /\ row'[c].mergeSha = prs'[row'[c].pr].sha
      BY <1>1, <2>2 DEF RowFollows, KeepsPr, Grows, IsFor
    <2> QED
      BY <1>1, <2>1, <2>2 DEF RowFollows, KeepsPr, IsFor
  <1>2. CASE DropsPr(c)
    BY <1>2 DEF DropsPr, RowFollows
  <1> QED
    BY <1>1, <1>2

LEMMA SameRow ==
  ASSUME NEW c, row'[c] = row[c]
  PROVE  KeepsPr(c)
  BY DEF KeepsPr

\* The only writes that take a pull request over are a worker's last and reconcile's.
LEMMA WorkerRows ==
  ASSUME BridgeInv, NEW w \in Worker, WorkerStep(w), NEW c \in CR
  PROVE  \/ KeepsPr(c) \/ DropsPr(c)
         \/ RecordOutcome(w) /\ c = MyCR(w) /\ worker[w].verdict = "pr_open"
  <1>0. row \in [CR -> RowType] /\ row[c] \in RowType
    BY DEF BridgeInv, TypeOK
  <1>1. row' = row \/ (\E d \in CR : Claim(w, d)) \/ RecordFailure(w) \/ RecordOutcome(w)
    BY DEF WorkerStep, Prepare, CloneAndPatch, Push, FindPr, UpdatePr, CreatePr, NewPr,
           InfraError, UnexpectedError, PushResponseLost, CreateResponseLost, Crash, dbVars
  <1>2. ASSUME NEW d \in CR, Claim(w, d) PROVE KeepsPr(c)
    BY <1>0, <1>2 DEF Claim, KeepsPr, RowType
  <1>3. CASE RecordFailure(w)
    <2> DEFINE e == MyCR(w)
               n == worker[w].retries + 1
    <2>1. \/ row' = [row EXCEPT ![e] = [@ EXCEPT !.retries = n, !.lease = Free, !.state = "worker_error"]]
          \/ row' = [row EXCEPT ![e] = [@ EXCEPT !.retries = n, !.lease = Backoff]]
      BY <1>3 DEF RecordFailure
    <2> HIDE DEF e, n
    <2>2. CASE c # e
      BY <1>0, <2>1, <2>2, SameRow
    <2>3. CASE c = e /\ row' = [row EXCEPT ![e] = [@ EXCEPT !.retries = n, !.lease = Free, !.state = "worker_error"]]
      BY <1>0, <2>3 DEF DropsPr, RowType
    <2>4. CASE c = e /\ row' = [row EXCEPT ![e] = [@ EXCEPT !.retries = n, !.lease = Backoff]]
      BY <1>0, <2>4 DEF KeepsPr, RowType
    <2> QED
      BY <2>1, <2>2, <2>3, <2>4
  <1>4. CASE RecordOutcome(w) /\ ~(c = MyCR(w) /\ worker[w].verdict = "pr_open")
    <2> DEFINE e == MyCR(w)
               v == worker[w].verdict
    <2>1. CASE c # e
      <3>1. row'[c] = row[c]
        BY <1>0, <1>4, <2>1 DEF RecordOutcome
      <3> QED
        BY <3>1, SameRow
    <2>2. CASE c = e
      <3>1. row' = [row EXCEPT ![e] = [@ EXCEPT !.state = v, !.lease = Free]] /\ v # "pr_open"
        BY <1>4, <2>2 DEF RecordOutcome
      <3>2. v \in {"none", "pr_open", "conflict", "worker_error"}
        BY WorkerTyped DEF BridgeInv
      <3> HIDE DEF e, v
      <3>3. row'[c].state = v
        BY <1>0, <2>2, <3>1 DEF RowType
      <3> QED
        BY <3>1, <3>2, <3>3 DEF DropsPr
    <2> QED
      BY <2>1, <2>2
  <1> QED
    BY <1>1, <1>2, <1>3, <1>4, SameRow

LEMMA ReconcilerRows ==
  ASSUME BridgeInv, NEW x \in Reconciler, ReconcilerStep(x), NEW c \in CR
  PROVE  \/ KeepsPr(c) \/ DropsPr(c)
         \/ ReconcileWrite(x) /\ c = recon[x].cr /\ recon[x].seen = "merged"
  <1>0. row \in [CR -> RowType] /\ row[c] \in RowType
    BY DEF BridgeInv, TypeOK
  <1>1. row' = row \/ ReconcileWrite(x)
    BY DEF ReconcilerStep, ReconcileRead, ReconcileGet, ReconcileAbort, dbVars
  <1>2. CASE ReconcileWrite(x) /\ c # recon[x].cr
    <2>1. row'[c] = row[c]
      BY <1>0, <1>2 DEF ReconcileWrite
    <2> QED
      BY <2>1, SameRow
  <1>3. CASE ReconcileWrite(x) /\ c = recon[x].cr /\ recon[x].seen # "merged"
    <2>1. row' = [row EXCEPT ![c].state = "pr_closed"]
      BY <1>3 DEF ReconcileWrite
    <2> QED
      BY <1>0, <2>1 DEF DropsPr, RowType
  <1> QED
    BY <1>1, <1>2, <1>3, SameRow

LEMMA RequestRows ==
  ASSUME BridgeInv, NEW d \in CR, RequestStep(d), NEW c \in CR
  PROVE  KeepsPr(c) \/ DropsPr(c)
  <1>0. row \in [CR -> RowType] /\ row[c] \in RowType
    BY DEF BridgeInv, TypeOK
  <1>1. CASE c # d
    <2>1. row'[c] = row[c]
      BY <1>0, <1>1 DEF RequestStep, Endorse, Resolve, Requeue, LeaseExpires, MarkDeployed
    <2> QED
      BY <2>1, SameRow
  <1>2. CASE c = d
    <2>1. CASE Endorse(d)
      BY <1>0, <1>2, <2>1 DEF Endorse, DropsPr
    <2>2. CASE Requeue(d)
      BY <1>0, <1>2, <2>2 DEF Requeue, DropsPr, RowType
    <2>3. CASE Resolve(d)
      BY <2>3, SameRow DEF Resolve
    <2>4. CASE LeaseExpires(d)
      <3>1. row' = [row EXCEPT ![d].lease = Free]
        BY <2>4 DEF LeaseExpires
      <3> QED
        BY <1>0, <1>2, <3>1 DEF KeepsPr, RowType
    <2>5. CASE MarkDeployed(d)
      <3>1. row' = [row EXCEPT ![d].state = "deployed"] /\ row[d].state = "merged"
        BY <2>5 DEF MarkDeployed
      <3> QED
        BY <1>0, <1>2, <3>1 DEF KeepsPr, RowType
    <2> QED
      BY <2>1, <2>2, <2>3, <2>4, <2>5 DEF RequestStep
  <1> QED
    BY <1>1, <1>2

LEMMA NextGrows ==
  ASSUME BridgeInv, [Next]_vars
  PROVE  Grows
  <1>0. /\ TypeOK /\ Len(prs) \in Nat /\ Len(main) \in Nat
        /\ prs \in Seq(PrType) /\ main \in Seq([Cell -> Val])
    BY LenTyped DEF BridgeInv, TypeOK
  <1>1. ASSUME NEW n \in 1..Len(prs), NEW p \in PrType, p.cr = prs[n].cr,
               p.attempt = prs[n].attempt, prs[n].state # "merged", prs' = [prs EXCEPT ![n] = p],
               Len(main') \in Nat, Len(main) <= Len(main'), \A i \in 1..Len(main) : main'[i] = main[i]
        PROVE  Grows
    <2>1. /\ Len(prs') = Len(prs) /\ prs'[n] = p
          /\ \A m \in 1..Len(prs) : m # n => prs'[m] = prs[m]
      BY <1>0, <1>1
    <2> QED
      BY <1>0, <1>1, <2>1 DEF Grows
  <1>2. ASSUME NEW w \in Worker, NewPr(w), main' = main PROVE Grows
    BY <1>0, <1>2 DEF NewPr, Grows
  <1>3. ASSUME NEW n \in 1..Len(prs), PrStep(n) PROVE Grows
    <2>0. prs[n] \in PrType
      BY <1>0
    <2>1. CASE Merge(n)
      <3> PICK k \in Nat : k = Len(main) + 1
        BY <1>0
      <3> PICK p \in {[prs[n] EXCEPT !.state = "merging", !.sha = k]} : TRUE
        OBVIOUS
      <3>1. prs' = [prs EXCEPT ![n] = p] /\ prs[n].state = "open"
        BY <2>1 DEF Merge
      <3>2. /\ Len(main') \in Nat /\ Len(main) <= Len(main')
            /\ \A i \in 1..Len(main) : main'[i] = main[i]
        BY <1>0, <2>1 DEF Merge
      <3>3. p \in PrType /\ p.cr = prs[n].cr /\ p.attempt = prs[n].attempt
        BY <1>0, <2>0 DEF PrType
      <3> QED
        BY <1>1, <3>1, <3>2, <3>3
    <2>2. CASE SettleSha(n) \/ ClosePr(n) \/ ReopenPr(n)
      <3>1. PICK s \in {"open", "closed", "merged"} :
              prs' = [prs EXCEPT ![n].state = s] /\ main' = main /\ prs[n].state # "merged"
        BY <2>2 DEF SettleSha, ClosePr, ReopenPr
      <3> PICK p \in {[prs[n] EXCEPT !.state = s]} : TRUE
        OBVIOUS
      <3>2. prs' = [prs EXCEPT ![n] = p]
        BY <3>1
      <3>3. p \in PrType /\ p.cr = prs[n].cr /\ p.attempt = prs[n].attempt
        BY <2>0 DEF PrType
      <3>4. Len(main') \in Nat /\ Len(main) <= Len(main') /\ \A i \in 1..Len(main) : main'[i] = main[i]
        BY <1>0, <3>1
      <3> QED
        BY <1>1, <3>1, <3>2, <3>3, <3>4
    <2> QED
      BY <1>3, <2>1, <2>2 DEF PrStep
  <1>4. ASSUME NEW z \in Cell, NEW v \in Val, ManualCommit(z, v) PROVE Grows
    BY <1>0, <1>4 DEF ManualCommit, Grows
  <1>5. ASSUME NEW w \in Worker, WorkerStep(w)
        PROVE  UNCHANGED <<prs, main>> \/ (NewPr(w) /\ main' = main)
    BY <1>5 DEF WorkerStep, Claim, Prepare, CloneAndPatch, Push, FindPr, UpdatePr, CreatePr,
           InfraError, UnexpectedError, PushResponseLost, CreateResponseLost, RecordFailure,
           RecordOutcome, Crash, githubVars
  <1>6. CASE \/ \E x \in Reconciler : ReconcilerStep(x)
             \/ \E c \in CR : RequestStep(c)
             \/ UNCHANGED vars
    <2>1. UNCHANGED <<prs, main>>
      BY <1>6 DEF ReconcilerStep, ReconcileRead, ReconcileGet, ReconcileWrite, ReconcileAbort,
           RequestStep, Endorse, Resolve, Requeue, LeaseExpires, MarkDeployed, githubVars, vars
    <2> QED
      BY <1>0, <2>1, Stutters
  <1>7. CASE DatasetStep
    <2>1. (\E z \in Cell, v \in Val : ManualCommit(z, v)) \/ UNCHANGED <<prs, main>>
      BY <1>7 DEF DatasetStep, Deploy, HookEnds, githubVars
    <2> QED
      BY <1>0, <1>4, <2>1, Stutters
  <1> QED
    BY <1>0, <1>2, <1>3, <1>5, <1>6, <1>7, Stutters DEF Next

LEMMA TrackedNext ==
  ASSUME BridgeInv, MergeInv, Held, Tracked, [Next]_vars
  PROVE  Tracked'
  <1> SUFFICES ASSUME NEW c \in CR PROVE RowFollows(c)'
    BY DEF Tracked
  <1>0. Grows /\ RowFollows(c) /\ row \in [CR -> RowType] /\ row[c] \in RowType
    BY NextGrows DEF Tracked, BridgeInv, TypeOK
  <1>1. ASSUME NEW w \in Worker, RecordOutcome(w), c = MyCR(w), worker[w].verdict = "pr_open"
        PROVE  RowFollows(c)'
    <2> DEFINE n == worker[w].pr
    <2>1. row' = [row EXCEPT ![c] = [@ EXCEPT !.state = "pr_open", !.lease = Free, !.pr = n, !.retries = 0]]
      BY <1>1 DEF RecordOutcome
    <2>2. IsFor(n, c) /\ prs[n].attempt = worker[w].attempt
      BY <1>1 DEF RecordOutcome, MergeInv, WorkerTracks, HasPr
    <2>3. row[c].attempt = worker[w].attempt
      BY <1>1 DEF RecordOutcome, Held, Busy, At, HoldsLease
    <2>4. prs' = prs
      BY <1>1 DEF RecordOutcome, githubVars
    <2> HIDE DEF n
    <2>5. row'[c].state = "pr_open" /\ row'[c].pr = n /\ row'[c].attempt = row[c].attempt
      BY <1>0, <2>1 DEF RowType
    <2> QED
      BY <2>2, <2>3, <2>4, <2>5 DEF RowFollows, IsFor
  <1>2. ASSUME NEW x \in Reconciler, ReconcileWrite(x), c = recon[x].cr, recon[x].seen = "merged"
        PROVE  RowFollows(c)'
    <2>1. row' = [row EXCEPT ![c] = [@ EXCEPT !.state = "merged", !.mergeSha = recon[x].sha]]
      BY <1>2 DEF ReconcileWrite
    <2>2. row[c].state = "pr_open" /\ row[c].pr = recon[x].pr
      BY <1>2 DEF ReconcileWrite, Held, Reading, HoldsRow
    <2>3. prs[recon[x].pr].state = "merged" /\ prs[recon[x].pr].sha = recon[x].sha
      BY <1>2 DEF ReconcileWrite, MergeInv, ReconcilerTracks, SawMerged
    <2>4. prs' = prs
      BY <1>2 DEF ReconcileWrite, githubVars
    <2>5. /\ row'[c].state = "merged" /\ row'[c].mergeSha = recon[x].sha
          /\ row'[c].pr = row[c].pr /\ row'[c].attempt = row[c].attempt
      BY <1>0, <2>1 DEF RowType
    <2> QED
      BY <1>0, <2>2, <2>3, <2>4, <2>5 DEF RowFollows, IsFor
  <1>3. CASE \/ \E n \in 1..Len(prs) : PrStep(n)
             \/ DatasetStep \/ UNCHANGED vars
    <2>1. row' = row
      BY <1>3 DEF PrStep, Merge, SettleSha, ClosePr, ReopenPr, DatasetStep, ManualCommit,
                  Deploy, HookEnds, dbVars, vars
    <2> QED
      BY <1>0, <2>1, SameRow, StillFollows
  <1> QED
    BY <1>0, <1>1, <1>2, <1>3, WorkerRows, ReconcilerRows, RequestRows, StillFollows DEF Next

\* While runs die before their leases do and reconcile runs do not overlap, a row
\* names the pull request of its current attempt and, once merged, the commit on
\* main that carries the frozen value.
THEOREM PrsTracked == Spec => [](BoundedRuns /\ OneReconciler => PrTracked)
  <1> DEFINE Follows == BoundedRuns /\ OneReconciler => Tracked
  <1>1. Init => Follows
    BY DEF Init, Tracked, RowFollows, NoRow
  <1>2. ASSUME BridgeInv, MergeInv, LeaseInv, Follows, [Next]_vars PROVE Follows'
    <2> SUFFICES ASSUME BoundedRuns, OneReconciler PROVE Tracked'
      BY DEF OneReconciler
    <2>1. Held
      BY <1>2 DEF LeaseInv, Held, Busy, Reading, At
    <2>2. Tracked
      BY <1>2
    <2> QED
      BY <1>2, <2>1, <2>2, TrackedNext
  <1>3. MergeInv /\ Follows => (BoundedRuns /\ OneReconciler => PrTracked)
    <2> SUFFICES ASSUME MergeInv, Tracked, NEW c \in CR
                 PROVE  /\ row[c].state \in {"pr_open", "merged", "deployed"} =>
                             /\ row[c].pr \in 1..Len(prs)
                             /\ prs[row[c].pr].cr = c /\ prs[row[c].pr].attempt = row[c].attempt
                        /\ row[c].state \in {"merged", "deployed"} =>
                             /\ prs[row[c].pr].state = "merged"
                             /\ row[c].mergeSha = prs[row[c].pr].sha
                             /\ main[row[c].mergeSha][Target[c]] = Proposed[c]
      BY DEF PrTracked
    <2> QED
      BY DEF Tracked, RowFollows, MergeInv, RowTracks, IsFor, Carries
  <1>4. Spec => []LeaseInv
    BY LeaseInvariant
  <1> QED
    BY <1>1, <1>2, <1>3, <1>4, BridgeInvariant, MergesTracked, PTL DEF Spec

-----------------------------------------------------------------------------
(* What MergeObserved rests on, but for fairness.                          *)

\* A row whose pull request GitHub has merged leaves pr_open only as merged, by its
\* merge commit: nothing records it as closed (worker.py:241, :247) and nothing else
\* writes it, so it waits for a reconcile that reads it.
MergeKept ==
    [][\A c \in CR : row[c].state = "pr_open" /\ prs[row[c].pr].state = "merged" =>
         /\ prs'[row[c].pr].state = "merged" /\ row'[c].pr = row[c].pr
         /\ \/ row'[c].state = "pr_open"
            \/ row'[c].state = "merged" /\ row'[c].mergeSha = prs[row[c].pr].sha]_vars

\* A reconcile between its GET and its write: what it saw closed is closed still.
SawClosed(x) ==
    recon[x].pc = "got" =>
        /\ recon[x].seen \in {"merged", "closed"}
        /\ recon[x].seen = "closed" => prs[recon[x].pr].state = "closed"
ClosedSeen == \A x \in Reconciler : SawClosed(x)

LEMMA ClosedStays ==
  ASSUME BridgeInv, ~HumansReopen, [Next]_vars, NEW n \in 1..Len(prs), prs[n].state = "closed"
  PROVE  prs'[n].state = "closed"
  <1>0. /\ Len(prs) \in Nat /\ prs \in Seq(PrType)
    BY LenTyped DEF BridgeInv, TypeOK
  <1>1. CASE \E w \in Worker : WorkerStep(w)
    <2>1. prs' = prs \/ \E p : prs' = Append(prs, p)
      BY <1>1 DEF WorkerStep, Claim, Prepare, CloneAndPatch, Push, FindPr, UpdatePr, CreatePr, NewPr,
           InfraError, UnexpectedError, PushResponseLost, CreateResponseLost, RecordFailure,
           RecordOutcome, Crash, githubVars
    <2> QED
      BY <1>0, <2>1
  <1>2. ASSUME NEW m \in 1..Len(prs), PrStep(m) PROVE prs'[n].state = "closed"
    <2>1. prs[m].state # "closed"
      BY <1>2 DEF PrStep, Merge, SettleSha, ClosePr, ReopenPr
    <2>2. m # n
      BY <2>1
    <2>3. \E p : prs' = [prs EXCEPT ![m] = p]
      BY <1>2 DEF PrStep, Merge, SettleSha, ClosePr, ReopenPr
    <2> QED
      BY <1>0, <2>2, <2>3
  <1>3. CASE \/ \E x \in Reconciler : ReconcilerStep(x)
             \/ \E c \in CR : RequestStep(c)
             \/ DatasetStep \/ UNCHANGED vars
    BY <1>3 DEF ReconcilerStep, ReconcileRead, ReconcileGet, ReconcileWrite, ReconcileAbort,
         RequestStep, Endorse, Resolve, Requeue, LeaseExpires, MarkDeployed,
         DatasetStep, ManualCommit, Deploy, HookEnds, githubVars, vars
  <1> QED
    BY <1>1, <1>2, <1>3 DEF Next

LEMMA ClosedSeenNext ==
  ASSUME BridgeInv, ClosedSeen, ~HumansReopen, [Next]_vars
  PROVE  ClosedSeen'
  <1> SUFFICES ASSUME NEW x \in Reconciler PROVE SawClosed(x)'
    BY DEF ClosedSeen
  <1>0. recon \in [Reconciler -> ReconcilerType] /\ SawClosed(x)
    BY DEF BridgeInv, TypeOK, ClosedSeen
  <1>1. CASE recon'[x] = recon[x]
    <2>1. CASE recon[x].pc = "got"
      <3>1. recon[x].pr \in 1..Len(prs)
        BY <2>1 DEF BridgeInv, ReconcilerOK
      <3> QED
        BY <1>0, <1>1, <2>1, <3>1, ClosedStays DEF SawClosed
    <2>2. CASE recon[x].pc # "got"
      BY <1>1, <2>2 DEF SawClosed
    <2> QED
      BY <2>1, <2>2
  <1>2. CASE ReconcileGet(x)
    <2> PICK p \in {prs[recon[x].pr]} : TRUE
      OBVIOUS
    <2>1. /\ prs' = prs
          /\ recon' = [recon EXCEPT ![x] = IF p.state \in {"closed", "merged"}
                          THEN [@ EXCEPT !.pc = "got", !.seen = p.state, !.sha = p.sha]
                          ELSE IdleReconciler]
      BY <1>2 DEF ReconcileGet, githubVars
    <2>2. CASE p.state \in {"closed", "merged"}
      <3>1. recon'[x].pc = "got" /\ recon'[x].seen = p.state /\ recon'[x].pr = recon[x].pr
        BY <1>0, <2>1, <2>2 DEF ReconcilerType
      <3> QED
        BY <2>1, <2>2, <3>1 DEF SawClosed
    <2>3. CASE p.state \notin {"closed", "merged"}
      BY <1>0, <2>1, <2>3 DEF SawClosed, IdleReconciler
    <2> QED
      BY <2>2, <2>3
  <1>3. CASE (\E c \in CR : ReconcileRead(x, c)) \/ ReconcileWrite(x) \/ ReconcileAbort(x)
    <2>1. recon'[x].pc # "got"
      BY <1>0, <1>3 DEF ReconcileRead, ReconcileWrite, ReconcileAbort, IdleReconciler
    <2> QED
      BY <2>1 DEF SawClosed
  <1>4. ASSUME NEW z \in Reconciler, ReconcilerStep(z), z # x PROVE recon'[x] = recon[x]
    BY <1>0, <1>4 DEF ReconcilerStep, ReconcileRead, ReconcileGet, ReconcileWrite, ReconcileAbort
  <1>5. CASE ~ \E z \in Reconciler : ReconcilerStep(z)
    <2>1. recon' = recon
      BY <1>5 DEF Next, WorkerStep, Claim, Prepare, CloneAndPatch, Push, FindPr, UpdatePr, CreatePr,
           InfraError, UnexpectedError, PushResponseLost, CreateResponseLost, RecordFailure,
           RecordOutcome, Crash, RequestStep, Endorse, Resolve, Requeue, LeaseExpires, MarkDeployed,
           PrStep, Merge, SettleSha, ClosePr, ReopenPr, DatasetStep, ManualCommit, Deploy, HookEnds, vars
    <2> QED
      BY <1>1, <2>1
  <1>6. CASE ReconcilerStep(x)
    BY <1>2, <1>3, <1>6 DEF ReconcilerStep
  <1> QED
    BY <1>1, <1>4, <1>5, <1>6

\* Only a reconcile's write moves a row that is pr_open.
LEMMA OpenRowStep ==
  ASSUME BridgeInv, Held, Next, NEW c \in CR, row[c].state = "pr_open"
  PROVE  \/ KeepsPr(c)
         \/ \E x \in Reconciler : ReconcileWrite(x) /\ c = recon[x].cr
  <1>0. row \in [CR -> RowType] /\ row[c] \in RowType /\ crStatus[c] # "pending"
    BY DEF BridgeInv, TypeOK, PendingUntouched
  <1>1. ASSUME NEW w \in Worker, WorkerStep(w) PROVE KeepsPr(c)
    <2>1. row' = row \/ (\E d \in CR : Claim(w, d)) \/ RecordFailure(w) \/ RecordOutcome(w)
      BY <1>1 DEF WorkerStep, Prepare, CloneAndPatch, Push, FindPr, UpdatePr, CreatePr, NewPr,
             InfraError, UnexpectedError, PushResponseLost, CreateResponseLost, Crash, dbVars
    <2>2. ASSUME NEW d \in CR, Claim(w, d) PROVE KeepsPr(c)
      BY <1>0, <2>2 DEF Claim, KeepsPr, RowType
    <2>3. CASE RecordFailure(w) \/ RecordOutcome(w)
      <3>1. Busy(w)
        BY <2>3 DEF RecordFailure, RecordOutcome, At, Busy
      <3>2. MyCR(w) # c
        BY <3>1 DEF Held, HoldsLease
      <3>3. row'[c] = row[c]
        BY <1>0, <2>3, <3>2 DEF RecordFailure, RecordOutcome
      <3> QED
        BY <3>3, SameRow
    <2> QED
      BY <2>1, <2>2, <2>3, SameRow
  <1>2. ASSUME NEW x \in Reconciler, ReconcilerStep(x), ~(ReconcileWrite(x) /\ c = recon[x].cr)
        PROVE  KeepsPr(c)
    <2>1. row'[c] = row[c]
      BY <1>0, <1>2 DEF ReconcilerStep, ReconcileRead, ReconcileGet, ReconcileWrite, ReconcileAbort, dbVars
    <2> QED
      BY <2>1, SameRow
  <1>3. ASSUME NEW d \in CR, RequestStep(d) PROVE KeepsPr(c)
    <2>1. CASE Endorse(d) \/ Requeue(d)
      <3>1. d # c
        BY <1>0, <2>1 DEF Endorse, Requeue, Requeueable
      <3>2. row'[c] = row[c]
        BY <1>0, <2>1, <3>1 DEF Endorse, Requeue
      <3> QED
        BY <3>2, SameRow
    <2>2. CASE ~(Endorse(d) \/ Requeue(d))
      <3>1. CASE Resolve(d)
        BY <3>1, SameRow DEF Resolve
      <3>2. CASE LeaseExpires(d)
        BY <1>0, <3>2 DEF LeaseExpires, KeepsPr, RowType
      <3>3. CASE MarkDeployed(d)
        BY <1>0, <3>3 DEF MarkDeployed, KeepsPr, RowType
      <3> QED
        BY <1>3, <2>2, <3>1, <3>2, <3>3 DEF RequestStep
    <2> QED
      BY <2>1, <2>2
  <1>4. CASE (\E n \in 1..Len(prs) : PrStep(n)) \/ DatasetStep
    <2>1. row' = row
      BY <1>4 DEF PrStep, Merge, SettleSha, ClosePr, ReopenPr, DatasetStep, ManualCommit,
                  Deploy, HookEnds, dbVars
    <2> QED
      BY <2>1, SameRow
  <1> QED
    BY <1>1, <1>2, <1>3, <1>4 DEF Next

\* The safety half of MergeObserved, while runs die before their leases do, reconcile
\* runs do not overlap and closed pull requests stay closed: no merge is ever recorded
\* as anything else.
THEOREM MergesNeverMisrecorded ==
  ASSUME BoundedRuns, OneReconciler, ~HumansReopen
  PROVE  Spec => MergeKept
  <1> DEFINE Kept(c) ==
         /\ prs'[row[c].pr].state = "merged" /\ row'[c].pr = row[c].pr
         /\ \/ row'[c].state = "pr_open"
            \/ row'[c].state = "merged" /\ row'[c].mergeSha = prs[row[c].pr].sha
  <1>1. Init => ClosedSeen
    BY DEF Init, ClosedSeen, SawClosed, IdleReconciler
  <1>2. BridgeInv /\ ClosedSeen /\ [Next]_vars => ClosedSeen'
    BY ClosedSeenNext
  <1>3. ASSUME BridgeInv, MergeInv, Held, ClosedSeen, Next,
               NEW c \in CR, row[c].state = "pr_open", prs[row[c].pr].state = "merged"
        PROVE  Kept(c)
    <2>0. row[c].pr \in 1..Len(prs) /\ row \in [CR -> RowType] /\ row[c] \in RowType
      BY <1>3 DEF BridgeInv, TypeOK, RowOK
    <2>1. prs'[row[c].pr].state = "merged"
      BY <1>3, <2>0, NextGrows DEF Grows
    <2>2. CASE KeepsPr(c)
      BY <1>3, <2>1, <2>2 DEF KeepsPr
    <2>3. ASSUME NEW x \in Reconciler, ReconcileWrite(x), c = recon[x].cr
          PROVE  Kept(c)
      <3>1. recon[x].pc = "got" /\ row[c].pr = recon[x].pr
        BY <1>3, <2>3 DEF ReconcileWrite, Held, Reading, HoldsRow
      <3>2. recon[x].seen = "merged"
        BY <1>3, <3>1 DEF ClosedSeen, SawClosed
      <3>3. prs[recon[x].pr].sha = recon[x].sha
        BY <1>3, <3>1, <3>2 DEF MergeInv, ReconcilerTracks, SawMerged
      <3>4. row' = [row EXCEPT ![c] = [@ EXCEPT !.state = "merged", !.mergeSha = recon[x].sha]]
        BY <2>3, <3>2 DEF ReconcileWrite
      <3>5. row'[c].state = "merged" /\ row'[c].mergeSha = recon[x].sha /\ row'[c].pr = row[c].pr
        BY <2>0, <3>4 DEF RowType
      <3> QED
        BY <2>1, <3>1, <3>3, <3>5
    <2> QED
      BY <1>3, <2>2, <2>3, OpenRowStep
  <1>4. LeaseInv => Held
    BY DEF LeaseInv, Held, Busy, Reading, At
  <1>5. BridgeInv /\ MergeInv /\ Held /\ ClosedSeen /\ [Next]_vars =>
          [\A c \in CR : row[c].state = "pr_open" /\ prs[row[c].pr].state = "merged" => Kept(c)]_vars
    BY <1>3
  <1>6. Spec => []BridgeInv
    BY BridgeInvariant
  <1>7. Spec => []MergeInv
    BY MergesTracked
  <1>8. Spec => []LeaseInv
    BY LeaseInvariant
  <1>9. MergeKept <=> [][\A c \in CR : row[c].state = "pr_open" /\ prs[row[c].pr].state = "merged" => Kept(c)]_vars
    BY DEF MergeKept
  <1> QED
    BY <1>1, <1>2, <1>4, <1>5, <1>6, <1>7, <1>8, <1>9, PTL DEF Spec
=============================================================================
