---------------------------- MODULE EditorBridge ----------------------------
(***************************************************************************)
(* The editor -> kayak_data pull-request bridge.                           *)
(*                                                                         *)
(* A maintainer endorses a change request in the PHP editor; the endorse   *)
(* freezes the diff, captures the value it was reviewed against and queues *)
(* a change_request_bridge row.  `levels editor-bridge run-once` workers   *)
(* lease queued rows, clone the dataset, apply the diff under a drift      *)
(* guard, force-push the branch <cr>-<attempt> and open or reuse its pull  *)
(* request.  Humans merge or close it on GitHub; `reconcile` copies the    *)
(* outcome back; the deploy hook `mark-deployed` closes the request.       *)
(*                                                                         *)
(* Every database write below is a short transaction, so it is one step;   *)
(* every call to git or GitHub is a step of its own, and between two steps *)
(* of one process anything else may happen, its own death included.        *)
(***************************************************************************)
EXTENDS Integers, Sequences, FiniteSets

CONSTANTS
    CR,              \* bridgeable requests, numbered in the order they are endorsed
                     \* (change_request_bridge.id is AUTOINCREMENT)
    Cell,            \* the dataset cells those diffs touch
    Val,             \* cell contents
    Absent,          \* the content of a cell whose CSV row was deleted
    Target,          \* Target[c]: the cell request c changes
    Proposed,        \* Proposed[c]: the frozen value (change_request.applied_json)
    InitialValue,    \* InitialValue[x]: cell x in the first deployed dataset
    Worker,          \* concurrent run-once processes
    Reconciler,      \* concurrent reconcile processes
    NoCR,            \* "no request", for idle processes
    Free,            \* lease_expires_at is NULL or in the past
    Backoff,         \* no owner, lease_expires_at in the future
    ReconcileLimit,  \* reconcile(limit=50): rows looked at per run
    MaxInfraRetries, \* worker._MAX_INFRA_RETRIES
    MaxAttempt,      \* bound: attempts a maintainer asks for
    MaxMain,         \* bound: commits on the dataset's main branch
    MaxCrashes,      \* bound: worker processes that die mid-row
    HumansReopen,    \* TRUE: people reopen closed pull requests on GitHub; FALSE: they
                     \* ask for a new attempt, as requeue's docstring assumes
    BoundedRuns      \* TRUE: a run dies (TimeoutStartSec=600) before its lease
                     \* (_LEASE_TTL, 15 min) runs out; FALSE: a manual run may not

ASSUME DiffAssumption ==
    /\ Target \in [CR -> Cell]
    /\ Proposed \in [CR -> Val \ {Absent}]
    /\ InitialValue \in [Cell -> Val]
    /\ Absent \in Val
ASSUME LeaseAssumption ==
    /\ CR \subseteq Nat
    /\ NoCR \notin CR
    /\ Free # Backoff
    /\ Free \notin Worker /\ Backoff \notin Worker
ASSUME BoundAssumption ==
    /\ MaxInfraRetries \in Nat \ {0}
    /\ ReconcileLimit \in Nat \ {0}
    /\ MaxAttempt \in Nat \ {0}
    /\ MaxMain \in Nat \ {0}
    /\ MaxCrashes \in Nat
    /\ BoundedRuns \in BOOLEAN /\ HumansReopen \in BOOLEAN

VARIABLES
    crStatus,  \* change_request.status
    row,       \* the change_request_bridge row
    branch,    \* branch[c][a]: the main commit proposal branch c-a was cut from, 0 = not pushed
    prs,       \* pull requests, in number order
    main,      \* the dataset's main branch: a sequence of contents
    live,      \* the commit the live database was synced from
    hook,      \* the --dataset-ref of the mark-deployed hook that is running, 0 = none
    worker,    \* run-once processes
    recon,     \* reconcile processes
    crashes    \* worker processes that have died so far

vars == <<crStatus, row, branch, prs, main, live, hook, worker, recon, crashes>>
dbVars == <<crStatus, row>>
githubVars == <<branch, prs, main>>
deployVars == <<live, hook>>

BridgeState == {"none", "queued", "pr_open", "merged", "deployed",
                "pr_closed", "conflict", "worker_error"}
\* Slip: a conflict, too, can be requeued against its old base.
RequeueableConflict == {"worker_error", "pr_closed", "conflict"}
Requeueable == {"worker_error", "pr_closed"}
Attempt == 1..MaxAttempt

NoRow == [state |-> "none", attempt |-> 0, retries |-> 0, lease |-> Free,
          pr |-> 0, mergeSha |-> 0, base |-> Absent]
IdleWorker == [pc |-> "idle", cr |-> NoCR, attempt |-> 0, retries |-> 0,
               seen |-> 0, pr |-> 0, verdict |-> "none"]
IdleReconciler == [pc |-> "idle", cr |-> NoCR, pr |-> 0, seen |-> "open", sha |-> 0]

Tip == main[Len(main)]
LiveValue(x) == main[live][x]

Init ==
    /\ crStatus = [c \in CR |-> "pending"]
    /\ row = [c \in CR |-> NoRow]
    /\ branch = [c \in CR |-> [a \in Attempt |-> 0]]
    /\ prs = <<>>
    /\ main = <<InitialValue>>
    /\ live = 1
    /\ hook = 0
    /\ worker = [w \in Worker |-> IdleWorker]
    /\ recon = [x \in Reconciler |-> IdleReconciler]
    /\ crashes = 0

-----------------------------------------------------------------------------
(* Maintainers, in the web editor and on the command line.                 *)

\* Slip: the base is what the dataset's main branch has, not what is live.
EndorseOnTip(c) ==
    /\ crStatus[c] = "pending"
    /\ \A d \in CR : d < c => crStatus[d] # "pending"
    /\ LiveValue(Target[c]) # Absent
    /\ crStatus' = [crStatus EXCEPT ![c] = "approved"]
    /\ row' = [row EXCEPT ![c] =
                 [state |-> "queued", attempt |-> 1, retries |-> 0, lease |-> Free,
                  pr |-> 0, mergeSha |-> 0, base |-> Tip[Target[c]]]]
    /\ UNCHANGED <<githubVars, deployVars, worker, recon, crashes>>

\* review_approve + bridge_enqueue: one transaction flips the status, freezes
\* the diff and queues the row with the live value the maintainer reviewed.
Endorse(c) ==
    /\ crStatus[c] = "pending"
    /\ \A d \in CR : d < c => crStatus[d] # "pending"
    /\ LiveValue(Target[c]) # Absent
    /\ crStatus' = [crStatus EXCEPT ![c] = "approved"]
    /\ row' = [row EXCEPT ![c] =
                 [state |-> "queued", attempt |-> 1, retries |-> 0, lease |-> Free,
                  pr |-> 0, mergeSha |-> 0, base |-> LiveValue(Target[c])]]
    /\ UNCHANGED <<githubVars, deployVars, worker, recon, crashes>>

\* review_resolve on an endorsed request: the bridge row is left as it is.
Resolve(c) ==
    /\ crStatus[c] = "approved"
    /\ crStatus' = [crStatus EXCEPT ![c] = "resolved"]
    /\ UNCHANGED <<row, githubVars, deployVars, worker, recon, crashes>>

\* Slip: the retry counter of the last attempt is kept.
RequeueKeepsRetries(c) ==
    /\ crStatus[c] = "approved"
    /\ row[c].state \in Requeueable
    /\ row[c].attempt < MaxAttempt
    /\ row' = [row EXCEPT ![c] = [@ EXCEPT !.attempt = row[c].attempt + 1,
                                           !.state = "queued", !.lease = Free]]
    /\ UNCHANGED <<crStatus, githubVars, deployVars, worker, recon, crashes>>

\* `levels editor-bridge queue --cr`: a new attempt, same reviewed base.
Requeue(c) ==
    /\ crStatus[c] = "approved"
    /\ row[c].state \in Requeueable
    /\ row[c].attempt < MaxAttempt
    /\ row' = [row EXCEPT ![c] = [@ EXCEPT !.attempt = row[c].attempt + 1,
                                           !.state = "queued", !.retries = 0, !.lease = Free]]
    /\ UNCHANGED <<crStatus, githubVars, deployVars, worker, recon, crashes>>

-----------------------------------------------------------------------------
(* A run-once worker, one row at a time.                                   *)

At(w, pc) == worker[w].pc = pc
MyCR(w) == worker[w].cr
Goto(w, pc) == worker' = [worker EXCEPT ![w].pc = pc]
Decide(w, verdict) ==
    worker' = [worker EXCEPT ![w] = [@ EXCEPT !.pc = "decided", !.verdict = verdict]]

\* Slip: the claim does not look at the lease.
ClaimLeased(w, c) ==
    /\ At(w, "idle")
    /\ row[c].state = "queued"
    /\ row' = [row EXCEPT ![c].lease = w]
    /\ worker' = [worker EXCEPT ![w] =
                    [pc |-> "claimed", cr |-> c, attempt |-> row[c].attempt,
                     retries |-> row[c].retries, seen |-> 0, pr |-> 0,
                     verdict |-> "none"]]
    /\ UNCHANGED <<crStatus, githubVars, deployVars, recon, crashes>>

\* _claim: a compare-and-set on (state, lease), then a refresh of the row.
Claim(w, c) ==
    /\ At(w, "idle")
    /\ row[c].state = "queued"
    /\ row[c].lease = Free
    /\ row' = [row EXCEPT ![c].lease = w]
    /\ worker' = [worker EXCEPT ![w] =
                    [pc |-> "claimed", cr |-> c, attempt |-> row[c].attempt,
                     retries |-> row[c].retries, seen |-> 0, pr |-> 0,
                     verdict |-> "none"]]
    /\ UNCHANGED <<crStatus, githubVars, deployVars, recon, crashes>>

\* _prepare: a request that is no longer approved is retired, not bridged.
Prepare(w) ==
    /\ At(w, "claimed")
    /\ IF crStatus[MyCR(w)] = "approved" THEN Goto(w, "prepared")
                                         ELSE Decide(w, "worker_error")
    /\ UNCHANGED <<dbVars, githubVars, deployVars, recon, crashes>>

\* Slip: the patch is applied without the drift guard.
PatchVerdictUnguarded(c) ==
    IF Tip[Target[c]] = Absent THEN "worker_error"
    ELSE IF Proposed[c] = Tip[Target[c]] THEN "worker_error" ELSE "pr_open"

\* dataset_patch.apply_change on the current tip: a missing row is rejected, a
\* drifted cell is a conflict, a cell that already has the value a no-op.
PatchVerdict(c) ==
    CASE Tip[Target[c]] = Absent -> "worker_error"
      [] Tip[Target[c]] # Absent /\ Tip[Target[c]] # row[c].base -> "conflict"
      [] Tip[Target[c]] # Absent /\ Tip[Target[c]] = row[c].base ->
           IF Proposed[c] = row[c].base THEN "worker_error" ELSE "pr_open"

\* git clone --depth 1, apply_change, stage and commit in the throwaway clone.
CloneAndPatch(w) ==
    /\ At(w, "prepared")
    /\ IF PatchVerdict(MyCR(w)) = "pr_open"
         THEN worker' = [worker EXCEPT ![w] = [@ EXCEPT !.pc = "patched", !.seen = Len(main)]]
         ELSE Decide(w, PatchVerdict(MyCR(w)))
    /\ UNCHANGED <<dbVars, githubVars, deployVars, recon, crashes>>

\* git push --force of the deterministic branch.
PushBranch(w) ==
    branch' = [branch EXCEPT ![MyCR(w)][worker[w].attempt] = worker[w].seen]
Push(w) ==
    /\ At(w, "patched")
    /\ PushBranch(w)
    /\ Goto(w, "pushed")
    /\ UNCHANGED <<dbVars, prs, main, deployVars, recon, crashes>>

\* Slip: any open pull request of the request is taken for this attempt's.
OpenPrAnyAttempt(c, a) == {n \in 1..Len(prs) : prs[n].cr = c /\ prs[n].state = "open"}

\* The open pull requests whose head is branch c-a (GitHub allows one).
OpenPr(c, a) == {n \in 1..Len(prs) : /\ prs[n].cr = c /\ prs[n].attempt = a
                                     /\ prs[n].state = "open"}

\* find_open_pr
FindPr(w) ==
    /\ At(w, "pushed")
    /\ LET open == OpenPr(MyCR(w), worker[w].attempt)
       IN  worker' = [worker EXCEPT ![w] = [@ EXCEPT !.pc = "looked",
                        !.pr = IF open = {} THEN 0 ELSE CHOOSE n \in open : TRUE]]
    /\ UNCHANGED <<dbVars, githubVars, deployVars, recon, crashes>>

\* update_pr: PATCH /pulls/n succeeds whatever became of the pull request.
UpdatePr(w) ==
    /\ At(w, "looked")
    /\ worker[w].pr # 0
    /\ Decide(w, "pr_open")
    /\ UNCHANGED <<dbVars, githubVars, deployVars, recon, crashes>>

\* POST /pulls: GitHub refuses a second open pull request for the same head.
NewPr(w) ==
    /\ At(w, "looked")
    /\ worker[w].pr = 0
    /\ OpenPr(MyCR(w), worker[w].attempt) = {}
    /\ prs' = Append(prs, [cr |-> MyCR(w), attempt |-> worker[w].attempt,
                           state |-> "open", sha |-> 0])
CreatePr(w) ==
    /\ NewPr(w)
    /\ worker' = [worker EXCEPT ![w] = [@ EXCEPT !.pc = "decided", !.verdict = "pr_open",
                                                 !.pr = Len(prs) + 1]]
    /\ UNCHANGED <<dbVars, branch, main, deployVars, recon, crashes>>

\* A remote call fails: GitOpError, GitHubApiError and GitHubAuthError are
\* counted, any other exception (a 2xx answer that is not JSON) parks the row.
RemoteCall(w) == worker[w].pc \in {"prepared", "patched", "pushed", "looked"}
InfraError(w) ==
    /\ RemoteCall(w)
    /\ Goto(w, "failed")
    /\ UNCHANGED <<dbVars, githubVars, deployVars, recon, crashes>>
UnexpectedError(w) ==
    /\ RemoteCall(w)
    /\ Decide(w, "worker_error")
    /\ UNCHANGED <<dbVars, githubVars, deployVars, recon, crashes>>

\* The call took effect although its response was lost or could not be read.
PushResponseLost(w) ==
    /\ At(w, "patched")
    /\ PushBranch(w)
    /\ Goto(w, "failed")
    /\ UNCHANGED <<dbVars, prs, main, deployVars, recon, crashes>>
CreateResponseLost(w) ==
    /\ NewPr(w)
    /\ Goto(w, "failed") \/ Decide(w, "worker_error")
    /\ UNCHANGED <<dbVars, branch, main, deployVars, recon, crashes>>

\* Slip: the failure is not counted.
RecordFailureUncounted(w) ==
    /\ At(w, "failed")
    /\ row' = [row EXCEPT ![MyCR(w)].lease = Backoff]
    /\ worker' = [worker EXCEPT ![w] = IdleWorker]
    /\ UNCHANGED <<crStatus, githubVars, deployVars, recon, crashes>>

\* The infrastructure-error arm of _process_row: count it; below the cap the
\* row stays queued behind a backoff, at the cap it is parked.
RecordFailure(w) ==
    /\ At(w, "failed")
    /\ LET c == MyCR(w)
           n == worker[w].retries + 1
       IN  IF n >= MaxInfraRetries
             THEN row' = [row EXCEPT ![c] = [@ EXCEPT !.retries = n, !.lease = Free,
                                                      !.state = "worker_error"]]
             ELSE row' = [row EXCEPT ![c] = [@ EXCEPT !.retries = n, !.lease = Backoff]]
    /\ worker' = [worker EXCEPT ![w] = IdleWorker]
    /\ UNCHANGED <<crStatus, githubVars, deployVars, recon, crashes>>

\* The last write of _process_row, and _terminal: by row id alone, whatever
\* the row holds by now; both release the lease.
RecordOutcome(w) ==
    /\ At(w, "decided")
    /\ LET c == MyCR(w)
       IN  IF worker[w].verdict = "pr_open"
             THEN row' = [row EXCEPT ![c] = [@ EXCEPT !.state = "pr_open", !.lease = Free,
                                                      !.pr = worker[w].pr, !.retries = 0]]
             ELSE row' = [row EXCEPT ![c] = [@ EXCEPT !.state = worker[w].verdict,
                                                      !.lease = Free]]
    /\ worker' = [worker EXCEPT ![w] = IdleWorker]
    /\ UNCHANGED <<crStatus, githubVars, deployVars, recon, crashes>>

\* The process dies with a row in hand: killed by TimeoutStartSec, by the
\* deploy's quiesce, by a reboot, or by a failed commit.
Crash(w) ==
    /\ ~At(w, "idle")
    /\ crashes < MaxCrashes
    /\ crashes' = crashes + 1
    /\ worker' = [worker EXCEPT ![w] = IdleWorker]
    /\ UNCHANGED <<dbVars, githubVars, deployVars, recon>>

\* lease_expires_at passes.  Under BoundedRuns a held lease outlives its run.
LeaseExpires(c) ==
    /\ row[c].lease # Free
    /\ BoundedRuns => \A w \in Worker : MyCR(w) # c
    /\ row' = [row EXCEPT ![c].lease = Free]
    /\ UNCHANGED <<crStatus, githubVars, deployVars, worker, recon, crashes>>

-----------------------------------------------------------------------------
(* reconcile: read a row, ask GitHub, write what it said - by row id alone. *)

\* SELECT ... WHERE state = 'pr_open' LIMIT ReconcileLimit, in id order: the
\* same oldest rows every time, however long their pull requests stay open.
InWindow(c) == Cardinality({d \in CR : d < c /\ row[d].state = "pr_open"}) < ReconcileLimit

ReconcileRead(x, c) ==
    /\ recon[x].pc = "idle"
    /\ row[c].state = "pr_open"
    /\ InWindow(c)
    /\ recon' = [recon EXCEPT ![x] = [pc |-> "read", cr |-> c, pr |-> row[c].pr,
                                      seen |-> "open", sha |-> 0]]
    /\ UNCHANGED <<dbVars, githubVars, deployVars, worker, crashes>>

\* Slip: GitHub's state = closed is read before its merged flag.
ReconcileGetClosedFirst(x) ==
    /\ recon[x].pc = "read"
    /\ LET p == prs[recon[x].pr]
       IN  recon' = [recon EXCEPT ![x] =
             IF p.state # "open" THEN [@ EXCEPT !.pc = "got", !.seen = "closed"]
                                 ELSE IdleReconciler]
    /\ UNCHANGED <<dbVars, githubVars, deployVars, worker, crashes>>

\* A pull request still open, or merged with its merge_commit_sha not settled
\* yet, leaves the row for the next pass.
ReconcileGet(x) ==
    /\ recon[x].pc = "read"
    /\ LET p == prs[recon[x].pr]
       IN  recon' = [recon EXCEPT ![x] =
             IF p.state \in {"closed", "merged"}
               THEN [@ EXCEPT !.pc = "got", !.seen = p.state, !.sha = p.sha]
               ELSE IdleReconciler]
    /\ UNCHANGED <<dbVars, githubVars, deployVars, worker, crashes>>

ReconcileWrite(x) ==
    /\ recon[x].pc = "got"
    /\ LET c == recon[x].cr
       IN  IF recon[x].seen = "merged"
             THEN row' = [row EXCEPT ![c] = [@ EXCEPT !.state = "merged",
                                                      !.mergeSha = recon[x].sha]]
             ELSE row' = [row EXCEPT ![c].state = "pr_closed"]
    /\ recon' = [recon EXCEPT ![x] = IdleReconciler]
    /\ UNCHANGED <<crStatus, githubVars, deployVars, worker, crashes>>

\* A REST error, or the process dies: the row is left as it was.
ReconcileAbort(x) ==
    /\ recon[x].pc # "idle"
    /\ recon' = [recon EXCEPT ![x] = IdleReconciler]
    /\ UNCHANGED <<dbVars, githubVars, deployVars, worker, crashes>>

-----------------------------------------------------------------------------
(* GitHub and the people who use it.                                       *)

\* The cell the branch of pull request n was cut from.
BranchBase(n) == main[branch[prs[n].cr][prs[n].attempt]][Target[prs[n].cr]]

\* A maintainer merges: git refuses when main changed the cell since the
\* branch was cut, unless it changed to the very same value.
Merge(n) ==
    LET c == prs[n].cr IN
    /\ prs[n].state = "open"
    /\ Len(main) < MaxMain
    /\ Tip[Target[c]] \in {BranchBase(n), Proposed[c]}
    /\ main' = Append(main, [Tip EXCEPT ![Target[c]] = Proposed[c]])
    /\ prs' = [prs EXCEPT ![n] = [@ EXCEPT !.state = "merging", !.sha = Len(main) + 1]]
    /\ UNCHANGED <<dbVars, branch, deployVars, worker, recon, crashes>>

\* merge_commit_sha becomes readable.
SettleSha(n) ==
    /\ prs[n].state = "merging"
    /\ prs' = [prs EXCEPT ![n].state = "merged"]
    /\ UNCHANGED <<dbVars, branch, main, deployVars, worker, recon, crashes>>

ClosePr(n) ==
    /\ prs[n].state = "open"
    /\ prs' = [prs EXCEPT ![n].state = "closed"]
    /\ UNCHANGED <<dbVars, branch, main, deployVars, worker, recon, crashes>>

ReopenPr(n) ==
    /\ HumansReopen
    /\ prs[n].state = "closed"
    /\ OpenPr(prs[n].cr, prs[n].attempt) = {}
    /\ prs' = [prs EXCEPT ![n].state = "open"]
    /\ UNCHANGED <<dbVars, branch, main, deployVars, worker, recon, crashes>>

\* The dataset's owners commit to main by other ways than the bridge.
ManualCommit(x, v) ==
    /\ Len(main) < MaxMain
    /\ v # Tip[x]
    /\ main' = Append(main, [Tip EXCEPT ![x] = v])
    /\ UNCHANGED <<dbVars, branch, prs, deployVars, worker, recon, crashes>>

-----------------------------------------------------------------------------
(* Deploys: any commit of main, an older one included; then the hook.      *)

Deploy(i) ==
    /\ hook = 0
    /\ live' = i
    /\ hook' = i
    /\ UNCHANGED <<dbVars, githubVars, worker, recon, crashes>>

\* Slip: the merge commit is not looked for in --dataset-ref.
MarkDeployedUnverified(c) ==
    /\ hook # 0
    /\ row[c].state = "merged"
    /\ row' = [row EXCEPT ![c].state = "deployed"]
    /\ crStatus' = [crStatus EXCEPT ![c] = "resolved"]
    /\ UNCHANGED <<githubVars, deployVars, worker, recon, crashes>>

\* mark_deployed for one merged row whose merge commit is in --dataset-ref:
\* the row and its parent move in one transaction.
MarkDeployed(c) ==
    /\ hook # 0
    /\ row[c].state = "merged"
    /\ row[c].mergeSha <= hook
    /\ row' = [row EXCEPT ![c].state = "deployed"]
    /\ crStatus' = [crStatus EXCEPT ![c] = "resolved"]
    /\ UNCHANGED <<githubVars, deployVars, worker, recon, crashes>>

\* The hook returns: done, or it failed (it is best-effort, and so is the
\* fetch that lets it resolve the commits).
HookEnds ==
    /\ hook # 0
    /\ hook' = 0
    /\ UNCHANGED <<dbVars, githubVars, live, worker, recon, crashes>>

-----------------------------------------------------------------------------
WorkerStep(w) ==
    \/ \E c \in CR : Claim(w, c)
    \/ Prepare(w) \/ CloneAndPatch(w) \/ Push(w) \/ FindPr(w)
    \/ UpdatePr(w) \/ CreatePr(w)
    \/ InfraError(w) \/ UnexpectedError(w)
    \/ PushResponseLost(w) \/ CreateResponseLost(w)
    \/ RecordFailure(w) \/ RecordOutcome(w) \/ Crash(w)
ReconcilerStep(x) ==
    \/ \E c \in CR : ReconcileRead(x, c)
    \/ ReconcileGet(x) \/ ReconcileWrite(x) \/ ReconcileAbort(x)
RequestStep(c) ==
    Endorse(c) \/ Resolve(c) \/ Requeue(c) \/ LeaseExpires(c) \/ MarkDeployed(c)
PrStep(n) == Merge(n) \/ SettleSha(n) \/ ClosePr(n) \/ ReopenPr(n)
DatasetStep ==
    \/ \E x \in Cell, v \in Val : ManualCommit(x, v)
    \/ \E i \in 1..Len(main) : Deploy(i)
    \/ HookEnds

Next ==
    \/ \E w \in Worker : WorkerStep(w)
    \/ \E x \in Reconciler : ReconcilerStep(x)
    \/ \E c \in CR : RequestStep(c)
    \/ \E n \in 1..Len(prs) : PrStep(n)
    \/ DatasetStep

Spec == Init /\ [][Next]_vars

\* The run timer fires every 15 minutes and takes every ready row (oldest
\* first; a handled row leaves the queue or backs off); a run that is alive
\* goes on; leases and backoffs are wall-clock times; the reconcile timer
\* fires hourly and its REST calls do not fail for ever; GitHub settles.
\* Nothing is assumed of maintainers, of deploys or of the deploy hook.
WorkerProgress(w) ==
    \/ Prepare(w) \/ CloneAndPatch(w) \/ Push(w) \/ FindPr(w)
    \/ UpdatePr(w) \/ CreatePr(w)
    \/ InfraError(w) \/ UnexpectedError(w)
    \/ PushResponseLost(w) \/ CreateResponseLost(w)
    \/ RecordFailure(w) \/ RecordOutcome(w)
Fairness ==
    /\ \A c \in CR : /\ SF_vars(\E w \in Worker : Claim(w, c))
                     /\ WF_vars(LeaseExpires(c))
                     /\ SF_vars(\E x \in Reconciler : ReconcileRead(x, c))
    /\ \A w \in Worker : WF_vars(WorkerProgress(w))
    /\ \A x \in Reconciler : SF_vars(ReconcileGet(x)) /\ SF_vars(ReconcileWrite(x))
    /\ WF_vars(\E n \in 1..Len(prs) : SettleSha(n))
FairSpec == Spec /\ Fairness

-----------------------------------------------------------------------------
(* Properties.                                                             *)

RowType ==
    [state : BridgeState, attempt : 0..MaxAttempt, retries : 0..MaxInfraRetries,
     lease : Worker \cup {Free, Backoff}, pr : Nat, mergeSha : Nat, base : Val]
PrType == [cr : CR, attempt : Attempt, sha : Nat,
           state : {"open", "closed", "merging", "merged"}]
WorkerType ==
    [pc : {"idle", "claimed", "prepared", "patched", "pushed", "looked",
           "failed", "decided"},
     cr : CR \cup {NoCR}, attempt : 0..MaxAttempt, retries : 0..MaxInfraRetries,
     seen : Nat, pr : Nat, verdict : {"none", "pr_open", "conflict", "worker_error"}]
ReconcilerType ==
    [pc : {"idle", "read", "got"}, cr : CR \cup {NoCR}, pr : Nat,
     seen : {"open", "closed", "merged"}, sha : Nat]

\* Every variable stays in its domain (the row type is BridgeState and the
\* columns of change_request_bridge).
TypeOK ==
    /\ crStatus \in [CR -> {"pending", "approved", "resolved"}]
    /\ row \in [CR -> RowType]
    /\ branch \in [CR -> [Attempt -> Nat]]
    /\ prs \in Seq(PrType)
    /\ main \in Seq([Cell -> Val])
    /\ live \in 1..Len(main)
    /\ hook \in 0..Len(main)
    /\ worker \in [Worker -> WorkerType]
    /\ recon \in [Reconciler -> ReconcilerType]
    /\ crashes \in 0..MaxCrashes

\* While runs die before their leases do, and reconcile runs do not overlap, a
\* worker with a row in hand holds its lease, and the row is still queued for
\* the attempt the worker loaded - so two overlapping runs never act on one row
\* and no write of a worker is stale.
OneReconciler == \A x1, x2 \in Reconciler : x1 = x2
HoldsLease(w) ==
    LET r == row[MyCR(w)]
    IN  /\ r.state = "queued" /\ r.lease = w
        /\ r.attempt = worker[w].attempt /\ r.retries = worker[w].retries
LeaseExclusion ==
    BoundedRuns /\ OneReconciler => \A w \in Worker : ~At(w, "idle") => HoldsLease(w)

\* A proposal branch is only ever cut from a dataset commit whose cell holds
\* the value the maintainer reviewed, on every attempt and every retry.
BranchesReviewed ==
    \A c \in CR, a \in Attempt :
      branch[c][a] # 0 => main[branch[c][a]][Target[c]] = row[c].base

\* Merging a proposal never replaces a dataset value nobody reviewed: the cell
\* held the reviewed base, or already the proposed value.
NoUnseenOverwrite ==
    [][\A n \in 1..Len(prs) :
         prs[n].state = "open" /\ prs'[n].state = "merging" =>
           LET c == prs[n].cr IN Tip[Target[c]] \in {row[c].base, Proposed[c]}]_vars

\* A row that says pr_open, merged or deployed names a pull request of that
\* request and that attempt; merged and deployed name its merge commit, and
\* that commit carries the frozen value.
PrTracked ==
    \A c \in CR :
      LET r == row[c] IN
      /\ r.state \in {"pr_open", "merged", "deployed"} =>
           /\ r.pr \in 1..Len(prs)
           /\ prs[r.pr].cr = c /\ prs[r.pr].attempt = r.attempt
      /\ r.state \in {"merged", "deployed"} =>
           /\ prs[r.pr].state = "merged" /\ r.mergeSha = prs[r.pr].sha
           /\ main[r.mergeSha][Target[c]] = Proposed[c]

\* The bridge reports a change deployed, and closes its request, only when a
\* commit with the frozen value is part of the dataset that is live.
DeployedWasShipped ==
    [][\A c \in CR :
         row[c].state # "deployed" /\ row'[c].state = "deployed" =>
           /\ \E i \in 2..live : main[i][Target[c]] = Proposed[c]
           /\ crStatus'[c] = "resolved"]_vars

\* EditorBridge implements the life cycle BridgeLifecycle promises.
Lifecycle == INSTANCE BridgeLifecycle WITH
    state <- [c \in CR |-> row[c].state],
    attempt <- [c \in CR |-> row[c].attempt],
    parent <- crStatus
ImplementsLifecycle == Lifecycle!Spec

\* The bridge works on decisions as ReviewQueue makes them - both implement
\* Moderation: whatever workers, reconcile runs, requeues and the deploy hook do,
\* the base a request was reviewed against stays that of its endorsement, and
\* its status only moves on to resolved.
Endorsed(c) == {x \in {Target[c]} : crStatus[c] # "pending"}
Moderated == INSTANCE Moderation WITH
    Id <- CR, Field <- Cell, Bridged <- Cell,
    live <- main[live],
    status <- crStatus,
    frozen <- [c \in CR |-> [x \in Endorsed(c) |-> Proposed[c]]],
    base <- [c \in CR |-> [x \in Endorsed(c) |-> row[c].base]]
ImplementsModeration == Moderated!Spec

\* A queued row does not stay queued: whatever fails, the retry cap, the
\* backoff and the lease make every endorsement end in a pull request or in a
\* state a maintainer sees.
QueuedSettles ==
    \A c \in CR : row[c].state = "queued" ~> row[c].state # "queued"

\* A merge on GitHub is noticed: reconcile records it and its merge commit
\* (as long as closed pull requests stay closed).
MergeObserved ==
    \A c \in CR : (row[c].state = "pr_open" /\ prs[row[c].pr].state = "merged")
                  ~> row[c].state \in {"merged", "deployed"}

-----------------------------------------------------------------------------
(* The inductive strengthening of TypeOK and BranchesReviewed.             *)

\* A request has a row once it is endorsed, and until then no branch either.
PendingUntouched ==
    \A c \in CR :
      /\ crStatus[c] = "pending" <=> row[c].state = "none"
      /\ crStatus[c] = "pending" => \A a \in Attempt : branch[c][a] = 0

RowOK(c) ==
    /\ row[c].state # "none" => row[c].attempt \in Attempt
    /\ row[c].state = "queued" => row[c].retries < MaxInfraRetries
    /\ row[c].state = "pr_open" => row[c].pr \in 1..Len(prs)

\* What a worker with a row in hand has established by each point.
WorkerOK(w) ==
    ~At(w, "idle") =>
      LET c == MyCR(w) a == worker[w].attempt IN
      /\ c \in CR /\ a \in Attempt
      /\ crStatus[c] # "pending"
      /\ worker[w].retries < MaxInfraRetries
      /\ At(w, "patched") => /\ worker[w].seen \in 1..Len(main)
                             /\ main[worker[w].seen][Target[c]] = row[c].base
      /\ worker[w].pc \in {"pushed", "looked"} => branch[c][a] # 0
      /\ At(w, "looked") => worker[w].pr \in 0..Len(prs)
      /\ At(w, "decided") => worker[w].verdict # "none"
      /\ At(w, "decided") /\ worker[w].verdict = "pr_open" => worker[w].pr \in 1..Len(prs)

ReconcilerOK(x) ==
    recon[x].pc # "idle" => /\ recon[x].cr \in CR /\ recon[x].pr \in 1..Len(prs)
                            /\ crStatus[recon[x].cr] # "pending"

\* Every pushed branch hangs off a reviewed commit; every pull request has one.
BranchOK(c, a) ==
    branch[c][a] # 0 => /\ branch[c][a] \in 1..Len(main)
                        /\ main[branch[c][a]][Target[c]] = row[c].base
PrOK(n) == branch[prs[n].cr][prs[n].attempt] # 0

BridgeInv ==
    /\ TypeOK
    /\ PendingUntouched
    /\ \A c \in CR : RowOK(c)
    /\ \A w \in Worker : WorkerOK(w)
    /\ \A x \in Reconciler : ReconcilerOK(x)
    /\ \A c \in CR, a \in Attempt : BranchOK(c, a)
    /\ \A n \in 1..Len(prs) : PrOK(n)

\* The strengthening of LeaseExclusion: the row a reconcile run has in hand is
\* still the pr_open row it read.
HoldsRow(x) == /\ row[recon[x].cr].state = "pr_open"
               /\ row[recon[x].cr].pr = recon[x].pr
LeaseInv ==
    BoundedRuns /\ OneReconciler =>
      /\ \A w \in Worker : ~At(w, "idle") => HoldsLease(w)
      /\ \A x \in Reconciler : recon[x].pc # "idle" => HoldsRow(x)

-----------------------------------------------------------------------------
(* What the comments say and the code does not do; each is refuted by a    *)
(* run of its own.                                                         *)

\* "opens exactly one kayak_data PR ... never a duplicate" (worker.py:4,18).
OneOpenPr ==
    \A c \in CR : \A m, n \in 1..Len(prs) :
      prs[m].cr = c /\ prs[m].state = "open" /\ prs[n].cr = c /\ prs[n].state = "open"
        => m = n
=============================================================================
