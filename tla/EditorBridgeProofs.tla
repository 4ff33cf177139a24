------------------------ MODULE EditorBridgeProofs ------------------------
(***************************************************************************)
(* What the bridge guarantees for every number of requests, workers,       *)
(* reconcilers, retries, attempts, commits and crashes.                    *)
(***************************************************************************)
EXTENDS EditorBridge, TLAPS

LEMMA InitInv == Init => BridgeInv
  <1> SUFFICES ASSUME Init PROVE BridgeInv
    OBVIOUS
  <1> USE DiffAssumption, LeaseAssumption, BoundAssumption DEF Init
  <1>1. TypeOK
    BY DEF TypeOK, NoRow, RowType, BridgeState, IdleWorker, WorkerType, IdleReconciler,
           ReconcilerType, PrType, Attempt
  <1>2. PendingUntouched
    BY DEF PendingUntouched, NoRow
  <1>3. \A c \in CR : RowOK(c)
    BY DEF RowOK, NoRow
  <1>4. \A w \in Worker : WorkerOK(w)
    BY DEF WorkerOK, At, IdleWorker
  <1>5. \A x \in Reconciler : ReconcilerOK(x)
    BY DEF ReconcilerOK, IdleReconciler
  <1>6. \A c \in CR, a \in Attempt : BranchOK(c, a)
    BY DEF BranchOK
  <1>7. \A n \in 1..Len(prs) : PrOK(n)
    OBVIOUS
  <1> QED
    BY <1>1, <1>2, <1>3, <1>4, <1>5, <1>6, <1>7 DEF BridgeInv

-----------------------------------------------------------------------------
(* Most steps move one process or one row.  What they leave alone keeps its *)
(* part of the invariant because the rest of the state only grows.          *)

Monotone ==
    /\ \A c \in CR : crStatus[c] # "pending" =>
         crStatus'[c] # "pending" /\ row'[c].base = row[c].base
    /\ \A c \in CR, a \in Attempt : branch[c][a] # 0 => branch'[c][a] # 0
    /\ Len(prs) \in Nat /\ Len(prs') \in Nat /\ Len(prs) <= Len(prs')
    /\ \A n \in 1..Len(prs) :
         prs'[n].cr = prs[n].cr /\ prs'[n].attempt = prs[n].attempt
    /\ Len(main) \in Nat /\ Len(main') \in Nat /\ Len(main) <= Len(main')
    /\ \A i \in 1..Len(main) : main'[i] = main[i]

LEMMA PrTyped ==
  ASSUME TypeOK, NEW n \in 1..Len(prs)
  PROVE  /\ prs[n] \in PrType
         /\ prs[n].cr \in CR /\ prs[n].attempt \in Attempt /\ prs[n].sha \in Nat
         /\ prs[n].state \in {"open", "closed", "merging", "merged"}
  <1>1. prs \in Seq(PrType)
    BY DEF TypeOK
  <1>2. prs[n] \in PrType
    BY <1>1
  <1> QED
    BY <1>2 DEF PrType

LEMMA Frame ==
  ASSUME BridgeInv, Monotone, TypeOK', PendingUntouched',
         \A c \in CR : row'[c] = row[c] \/ RowOK(c)',
         \A w \in Worker : worker'[w] = worker[w] \/ WorkerOK(w)',
         \A x \in Reconciler : recon'[x] = recon[x] \/ ReconcilerOK(x)',
         \A c \in CR, a \in Attempt : branch'[c][a] = branch[c][a] \/ BranchOK(c, a)',
         \A n \in (Len(prs) + 1)..Len(prs') : PrOK(n)'
  PROVE  BridgeInv'
  <1>1. \A c \in CR : RowOK(c)'
    BY DEF BridgeInv, Monotone, RowOK
  <1>2. ASSUME NEW w \in Worker PROVE WorkerOK(w)'
    <2>1. CASE worker'[w] # worker[w]
      BY <2>1
    <2>2. CASE worker'[w] = worker[w] /\ worker[w].pc = "idle"
      BY <2>2 DEF WorkerOK, At
    <2>3. CASE worker'[w] = worker[w] /\ worker[w].pc # "idle"
      <3> DEFINE c == worker[w].cr
      <3> DEFINE a == worker[w].attempt
      <3>1. WorkerOK(w)
        BY DEF BridgeInv
      <3>2. c \in CR /\ a \in Attempt /\ crStatus[c] # "pending"
        BY <2>3, <3>1 DEF WorkerOK, At, MyCR
      <3>3. crStatus'[c] # "pending" /\ row'[c].base = row[c].base
            /\ (branch[c][a] # 0 => branch'[c][a] # 0)
        BY <3>2 DEF Monotone
      <3>4. worker[w].pc = "patched" =>
              /\ worker[w].seen \in 1..Len(main')
              /\ main'[worker[w].seen][Target[c]] = row'[c].base
        BY <2>3, <3>1, <3>3 DEF WorkerOK, At, MyCR, Monotone
      <3>5. /\ worker[w].pc = "looked" => worker[w].pr \in 0..Len(prs')
            /\ worker[w].pc = "decided" /\ worker[w].verdict = "pr_open" =>
                 worker[w].pr \in 1..Len(prs')
        BY <2>3, <3>1 DEF WorkerOK, At, MyCR, Monotone
      <3> QED
        BY <2>3, <3>1, <3>2, <3>3, <3>4, <3>5 DEF WorkerOK, At, MyCR
    <2> QED
      BY <2>1, <2>2, <2>3
  <1>3. ASSUME NEW x \in Reconciler PROVE ReconcilerOK(x)'
    <2>1. CASE recon'[x] # recon[x]
      BY <2>1
    <2>2. CASE recon'[x] = recon[x]
      BY <2>2 DEF BridgeInv, ReconcilerOK, Monotone
    <2> QED
      BY <2>1, <2>2
  <1>4. ASSUME NEW c \in CR, NEW a \in Attempt PROVE BranchOK(c, a)'
    <2>1. CASE branch'[c][a] # branch[c][a]
      BY <2>1
    <2>2. CASE branch'[c][a] = branch[c][a]
      <3>1. branch[c][a] # 0 => crStatus[c] # "pending"
        BY DEF BridgeInv, PendingUntouched
      <3> QED
        BY <2>2, <3>1 DEF BridgeInv, BranchOK, Monotone
    <2> QED
      BY <2>1, <2>2
  <1>5. ASSUME NEW n \in 1..Len(prs)' PROVE PrOK(n)'
    <2>1. CASE n \in 1..Len(prs)
      <3>1. prs[n].cr \in CR /\ prs[n].attempt \in Attempt
        BY <2>1, PrTyped DEF BridgeInv
      <3> QED
        BY <2>1, <3>1 DEF BridgeInv, PrOK, Monotone
    <2>2. CASE n \notin 1..Len(prs)
      BY <2>2 DEF Monotone
    <2> QED
      BY <2>1, <2>2
  <1> QED
    BY <1>1, <1>2, <1>3, <1>4, <1>5 DEF BridgeInv

-----------------------------------------------------------------------------
(* The fields of the records in the state, and steps of one process alone. *)

LEMMA RowTyped ==
  ASSUME TypeOK, NEW c \in CR
  PROVE  /\ row[c] \in RowType
         /\ row[c].attempt \in 0..MaxAttempt /\ row[c].retries \in 0..MaxInfraRetries
         /\ row[c].pr \in Nat /\ row[c].base \in Val
  <1>1. row[c] \in RowType
    BY DEF TypeOK
  <1> QED
    BY <1>1 DEF RowType

LEMMA WorkerTyped ==
  ASSUME TypeOK, NEW w \in Worker
  PROVE  /\ worker[w] \in WorkerType
         /\ worker[w].attempt \in 0..MaxAttempt /\ worker[w].retries \in 0..MaxInfraRetries
         /\ worker[w].seen \in Nat /\ worker[w].pr \in Nat
         /\ worker[w].verdict \in {"none", "pr_open", "conflict", "worker_error"}
  <1>1. worker[w] \in WorkerType
    BY DEF TypeOK
  <1> QED
    BY <1>1 DEF WorkerType

LEMMA LenTyped == ASSUME TypeOK PROVE Len(prs) \in Nat /\ Len(main) \in Nat \ {0}
  BY DEF TypeOK

\* A step that changes one worker's variables and nothing else.
LEMMA WorkerFrame ==
  ASSUME BridgeInv, NEW w \in Worker, NEW v \in WorkerType,
         worker' = [worker EXCEPT ![w] = v],
         UNCHANGED <<dbVars, githubVars, deployVars, recon>>,
         crashes' \in 0..MaxCrashes, WorkerOK(w)'
  PROVE  BridgeInv'
  <1> USE DEF dbVars, githubVars, deployVars
  <1>1. TypeOK'
    BY DEF BridgeInv, TypeOK
  <1>2. Monotone
    BY LenTyped DEF BridgeInv, Monotone
  <1>3. PendingUntouched'
    BY DEF BridgeInv, PendingUntouched
  <1>4. \A u \in Worker : worker'[u] = worker[u] \/ WorkerOK(u)'
    BY DEF BridgeInv, TypeOK
  <1> QED
    BY <1>1, <1>2, <1>3, <1>4, LenTyped, Frame DEF BridgeInv

\* A step that changes one reconciler's variables and nothing else.
LEMMA ReconcilerFrame ==
  ASSUME BridgeInv, NEW x \in Reconciler, NEW v \in ReconcilerType,
         recon' = [recon EXCEPT ![x] = v],
         UNCHANGED <<dbVars, githubVars, deployVars, worker, crashes>>,
         ReconcilerOK(x)'
  PROVE  BridgeInv'
  <1> USE DEF dbVars, githubVars, deployVars
  <1>1. TypeOK'
    BY DEF BridgeInv, TypeOK
  <1>2. Monotone
    BY LenTyped DEF BridgeInv, Monotone
  <1>3. PendingUntouched'
    BY DEF BridgeInv, PendingUntouched
  <1>4. \A u \in Reconciler : recon'[u] = recon[u] \/ ReconcilerOK(u)'
    BY DEF BridgeInv, TypeOK
  <1> QED
    BY <1>1, <1>2, <1>3, <1>4, LenTyped, Frame DEF BridgeInv

\* A step that writes one row (and maybe its request's status) after it was endorsed.
LEMMA RowFrame ==
  ASSUME BridgeInv, NEW c \in CR, NEW r \in RowType,
         row' = [row EXCEPT ![c] = r],
         crStatus[c] # "pending", r.base = row[c].base, r.state # "none",
         crStatus' \in [CR -> {"pending", "approved", "resolved"}],
         \A d \in CR : (crStatus'[d] = "pending") = (crStatus[d] = "pending"),
         UNCHANGED <<githubVars, deployVars, crashes>>,
         worker' \in [Worker -> WorkerType],
         \A u \in Worker : worker'[u] = worker[u] \/ WorkerOK(u)',
         recon' \in [Reconciler -> ReconcilerType],
         \A x \in Reconciler : recon'[x] = recon[x] \/ ReconcilerOK(x)',
         RowOK(c)'
  PROVE  BridgeInv'
  <1> USE DEF githubVars, deployVars
  <1>0. row'[c] = r /\ \A d \in CR \ {c} : row'[d] = row[d]
    BY DEF BridgeInv, TypeOK
  <1>1. TypeOK'
    BY DEF BridgeInv, TypeOK
  <1>2. Monotone
    BY <1>0, LenTyped DEF BridgeInv, Monotone
  <1>3. PendingUntouched'
    BY <1>0 DEF BridgeInv, PendingUntouched
  <1>4. \A d \in CR : row'[d] = row[d] \/ RowOK(d)'
    BY <1>0
  <1> QED
    BY <1>1, <1>2, <1>3, <1>4, LenTyped, Frame DEF BridgeInv

-----------------------------------------------------------------------------
(* The steps of a worker.                                                  *)

LEMMA ClaimInv ==
  ASSUME BridgeInv, NEW w \in Worker, NEW c \in CR, Claim(w, c)
  PROVE  BridgeInv'
  <1> DEFINE r == [row[c] EXCEPT !.lease = w]
  <1> DEFINE v == [pc |-> "claimed", cr |-> c, attempt |-> row[c].attempt,
                   retries |-> row[c].retries, seen |-> 0, pr |-> 0, verdict |-> "none"]
  <1>0. TypeOK
    BY DEF BridgeInv
  <1>1. /\ row[c] \in RowType /\ row[c].attempt \in Attempt
        /\ row[c].retries \in 0..MaxInfraRetries /\ row[c].retries < MaxInfraRetries
        /\ crStatus[c] # "pending" /\ row[c].state # "none"
    BY <1>0, RowTyped DEF BridgeInv, RowOK, PendingUntouched, Claim
  <1>2. r \in RowType
    BY <1>1 DEF RowType
  <1>3. v \in WorkerType
    BY <1>1 DEF WorkerType, Attempt
  <1>4. row' = [row EXCEPT ![c] = r] /\ worker' = [worker EXCEPT ![w] = v]
    BY DEF Claim
  <1>5. row'[c] = r /\ worker'[w] = v /\ \A u \in Worker \ {w} : worker'[u] = worker[u]
    BY <1>0, <1>4 DEF TypeOK
  <1>6. worker' \in [Worker -> WorkerType]
    BY <1>0, <1>3, <1>4 DEF TypeOK
  <1>7. UNCHANGED <<crStatus, githubVars, deployVars, recon, crashes>>
    BY DEF Claim
  <1>8. r.base = row[c].base /\ r.state = row[c].state /\ r.attempt = row[c].attempt
        /\ r.retries = row[c].retries /\ r.pr = row[c].pr
    BY <1>1 DEF RowType
  <1>9. RowOK(c)'
    BY <1>5, <1>7, <1>8 DEF BridgeInv, RowOK, githubVars
  <1>10. WorkerOK(w)'
    BY <1>1, <1>5, <1>7 DEF WorkerOK, At, MyCR
  <1> HIDE DEF r, v
  <1> QED
    BY <1>0, <1>1, <1>2, <1>4, <1>5, <1>6, <1>7, <1>8, <1>9, <1>10, RowFrame DEF TypeOK

\* A worker that moves on with the row it has in hand, and learns v on the way.
LEMMA MovedOK ==
  ASSUME BridgeInv, NEW w \in Worker, ~At(w, "idle"), NEW v \in WorkerType,
         worker' = [worker EXCEPT ![w] = v], UNCHANGED dbVars,
         v.cr = MyCR(w), v.attempt = worker[w].attempt, v.retries = worker[w].retries,
         v.pc = "patched" =>
           v.seen \in 1..Len(main') /\ main'[v.seen][Target[MyCR(w)]] = row[MyCR(w)].base,
         v.pc \in {"pushed", "looked"} => branch'[MyCR(w)][worker[w].attempt] # 0,
         v.pc = "looked" => v.pr \in 0..Len(prs'),
         v.pc = "decided" => v.verdict # "none",
         v.pc = "decided" /\ v.verdict = "pr_open" => v.pr \in 1..Len(prs')
  PROVE  WorkerOK(w)' /\ worker' \in [Worker -> WorkerType]
  <1>1. TypeOK /\ WorkerOK(w)
    BY DEF BridgeInv
  <1>2. /\ MyCR(w) \in CR /\ worker[w].attempt \in Attempt /\ crStatus[MyCR(w)] # "pending"
        /\ worker[w].retries < MaxInfraRetries
    BY <1>1 DEF WorkerOK
  <1>3. worker'[w] = v /\ worker' \in [Worker -> WorkerType]
    BY <1>1 DEF TypeOK
  <1>4. WorkerOK(w)'
    BY <1>2, <1>3 DEF WorkerOK, At, MyCR, dbVars
  <1> QED
    BY <1>3, <1>4

\* The same, when nothing but the worker changes.
LEMMA MovedInv ==
  ASSUME BridgeInv, NEW w \in Worker, ~At(w, "idle"), NEW v \in WorkerType,
         worker' = [worker EXCEPT ![w] = v],
         UNCHANGED <<dbVars, githubVars, deployVars, recon, crashes>>,
         v.cr = MyCR(w), v.attempt = worker[w].attempt, v.retries = worker[w].retries,
         v.pc = "patched" =>
           v.seen \in 1..Len(main) /\ main[v.seen][Target[MyCR(w)]] = row[MyCR(w)].base,
         v.pc \in {"pushed", "looked"} => branch[MyCR(w)][worker[w].attempt] # 0,
         v.pc = "looked" => v.pr \in 0..Len(prs),
         v.pc = "decided" => v.verdict # "none",
         v.pc = "decided" /\ v.verdict = "pr_open" => v.pr \in 1..Len(prs)
  PROVE  BridgeInv'
  <1>1. UNCHANGED dbVars /\ branch' = branch /\ prs' = prs /\ main' = main
        /\ crashes' \in 0..MaxCrashes
    BY DEF githubVars, BridgeInv, TypeOK
  <1>2. WorkerOK(w)'
    BY <1>1, MovedOK
  <1> QED
    BY <1>1, <1>2, WorkerFrame

LEMMA PrepareInv ==
  ASSUME BridgeInv, NEW w \in Worker, Prepare(w)
  PROVE  BridgeInv'
  <1>0. worker[w] \in WorkerType /\ ~At(w, "idle")
    BY WorkerTyped DEF BridgeInv, Prepare, At
  <1>1. PICK v \in WorkerType :
          /\ worker' = [worker EXCEPT ![w] = v]
          /\ v.cr = worker[w].cr /\ v.attempt = worker[w].attempt
          /\ v.retries = worker[w].retries
          /\ v.pc = "prepared" \/ (v.pc = "decided" /\ v.verdict = "worker_error")
    <2> DEFINE v1 == [worker[w] EXCEPT !.pc = "prepared"]
    <2> DEFINE v2 == [worker[w] EXCEPT !.pc = "decided", !.verdict = "worker_error"]
    <2>1. /\ v1 \in WorkerType /\ v1.cr = worker[w].cr /\ v1.attempt = worker[w].attempt
          /\ v1.retries = worker[w].retries /\ v1.pc = "prepared"
      BY <1>0 DEF WorkerType
    <2>2. /\ v2 \in WorkerType /\ v2.cr = worker[w].cr /\ v2.attempt = worker[w].attempt
          /\ v2.retries = worker[w].retries
          /\ v2.pc = "decided" /\ v2.verdict = "worker_error"
      BY <1>0 DEF WorkerType
    <2>3. worker' = [worker EXCEPT ![w] = v1] \/ worker' = [worker EXCEPT ![w] = v2]
      BY DEF Prepare, Goto, Decide
    <2> HIDE DEF v1, v2
    <2> QED
      BY <2>1, <2>2, <2>3
  <1>2. UNCHANGED <<dbVars, githubVars, deployVars, recon, crashes>>
    BY DEF Prepare
  <1> QED
    BY <1>0, <1>1, <1>2, MovedInv DEF MyCR

LEMMA CloneAndPatchInv ==
  ASSUME BridgeInv, NEW w \in Worker, CloneAndPatch(w)
  PROVE  BridgeInv'
  <1>0. worker[w] \in WorkerType /\ ~At(w, "idle") /\ Len(main) \in Nat \ {0}
    BY WorkerTyped, LenTyped DEF BridgeInv, CloneAndPatch, At
  <1>1. UNCHANGED <<dbVars, githubVars, deployVars, recon, crashes>>
    BY DEF CloneAndPatch
  <1>2. CASE PatchVerdict(MyCR(w)) = "pr_open"
    <2> DEFINE v == [worker[w] EXCEPT !.pc = "patched", !.seen = Len(main)]
    <2>1. /\ v \in WorkerType /\ v.cr = worker[w].cr /\ v.attempt = worker[w].attempt
          /\ v.retries = worker[w].retries /\ v.pc = "patched" /\ v.seen = Len(main)
      BY <1>0 DEF WorkerType
    <2>2. worker' = [worker EXCEPT ![w] = v]
      BY <1>2 DEF CloneAndPatch
    <2>3. main[Len(main)][Target[MyCR(w)]] = row[MyCR(w)].base
      BY <1>2 DEF PatchVerdict, Tip
    <2> HIDE DEF v
    <2>4. v.seen \in 1..Len(main) /\ main[v.seen][Target[MyCR(w)]] = row[MyCR(w)].base
      BY <1>0, <2>1, <2>3
    <2>5. v.cr = MyCR(w)
      BY <2>1 DEF MyCR
    <2> QED
      BY <1>0, <1>1, <2>1, <2>2, <2>4, <2>5, MovedInv
  <1>3. CASE PatchVerdict(MyCR(w)) # "pr_open"
    <2>1. PICK z \in {"conflict", "worker_error"} :
            worker' = [worker EXCEPT ![w] = [@ EXCEPT !.pc = "decided", !.verdict = z]]
      BY <1>3 DEF PatchVerdict, CloneAndPatch, Decide
    <2> DEFINE v == [worker[w] EXCEPT !.pc = "decided", !.verdict = z]
    <2>2. worker' = [worker EXCEPT ![w] = v]
      BY <2>1
    <2>3. /\ v \in WorkerType /\ v.cr = worker[w].cr /\ v.attempt = worker[w].attempt
          /\ v.retries = worker[w].retries /\ v.pc = "decided" /\ v.verdict = z
      BY <1>0 DEF WorkerType
    <2> HIDE DEF v
    <2> QED
      BY <1>0, <1>1, <2>2, <2>3, MovedInv DEF MyCR
  <1> QED
    BY <1>2, <1>3

LEMMA FindPrInv ==
  ASSUME BridgeInv, NEW w \in Worker, FindPr(w)
  PROVE  BridgeInv'
  <1>0. worker[w] \in WorkerType /\ ~At(w, "idle") /\ WorkerOK(w) /\ Len(prs) \in Nat
    BY WorkerTyped, LenTyped DEF BridgeInv, FindPr, At
  <1>1. UNCHANGED <<dbVars, githubVars, deployVars, recon, crashes>>
    BY DEF FindPr
  <1> DEFINE open == OpenPr(MyCR(w), worker[w].attempt)
  <1> DEFINE n == IF open = {} THEN 0 ELSE CHOOSE m \in open : TRUE
  <1> DEFINE v == [worker[w] EXCEPT !.pc = "looked", !.pr = n]
  <1>2. worker' = [worker EXCEPT ![w] = v]
    BY DEF FindPr
  <1>3. n \in 0..Len(prs) /\ n \in Nat
    <2>1. open \subseteq 1..Len(prs)
      BY DEF OpenPr
    <2> QED
      BY <1>0, <2>1
  <1> HIDE DEF n
  <1>4. /\ v \in WorkerType /\ v.cr = worker[w].cr /\ v.attempt = worker[w].attempt
        /\ v.retries = worker[w].retries /\ v.pc = "looked" /\ v.pr = n
    BY <1>0, <1>3 DEF WorkerType
  <1>5. branch[MyCR(w)][worker[w].attempt] # 0
    BY <1>0 DEF WorkerOK, FindPr, At
  <1> HIDE DEF v
  <1> QED
    BY <1>0, <1>1, <1>2, <1>3, <1>4, <1>5, MovedInv DEF MyCR

LEMMA UpdatePrInv ==
  ASSUME BridgeInv, NEW w \in Worker, UpdatePr(w)
  PROVE  BridgeInv'
  <1>0. worker[w] \in WorkerType /\ ~At(w, "idle") /\ WorkerOK(w) /\ Len(prs) \in Nat
    BY WorkerTyped, LenTyped DEF BridgeInv, UpdatePr, At
  <1>1. UNCHANGED <<dbVars, githubVars, deployVars, recon, crashes>>
    BY DEF UpdatePr
  <1> DEFINE v == [worker[w] EXCEPT !.pc = "decided", !.verdict = "pr_open"]
  <1>2. worker' = [worker EXCEPT ![w] = v]
    BY DEF UpdatePr, Decide
  <1>3. /\ v \in WorkerType /\ v.cr = worker[w].cr /\ v.attempt = worker[w].attempt
        /\ v.retries = worker[w].retries /\ v.pc = "decided" /\ v.verdict = "pr_open"
        /\ v.pr = worker[w].pr
    BY <1>0 DEF WorkerType
  <1>4. worker[w].pr \in 1..Len(prs)
    BY <1>0 DEF WorkerOK, UpdatePr, At
  <1> HIDE DEF v
  <1> QED
    BY <1>0, <1>1, <1>2, <1>3, <1>4, MovedInv DEF MyCR

LEMMA InfraErrorInv ==
  ASSUME BridgeInv, NEW w \in Worker, InfraError(w)
  PROVE  BridgeInv'
  <1>0. worker[w] \in WorkerType /\ ~At(w, "idle")
    BY WorkerTyped DEF BridgeInv, InfraError, RemoteCall, At
  <1>1. UNCHANGED <<dbVars, githubVars, deployVars, recon, crashes>>
    BY DEF InfraError
  <1> DEFINE v == [worker[w] EXCEPT !.pc = "failed"]
  <1>2. worker' = [worker EXCEPT ![w] = v]
    BY DEF InfraError, Goto
  <1>3. /\ v \in WorkerType /\ v.cr = worker[w].cr /\ v.attempt = worker[w].attempt
        /\ v.retries = worker[w].retries /\ v.pc = "failed"
    BY <1>0 DEF WorkerType
  <1> HIDE DEF v
  <1> QED
    BY <1>0, <1>1, <1>2, <1>3, MovedInv DEF MyCR

LEMMA UnexpectedErrorInv ==
  ASSUME BridgeInv, NEW w \in Worker, UnexpectedError(w)
  PROVE  BridgeInv'
  <1>0. worker[w] \in WorkerType /\ ~At(w, "idle")
    BY WorkerTyped DEF BridgeInv, UnexpectedError, RemoteCall, At
  <1>1. UNCHANGED <<dbVars, githubVars, deployVars, recon, crashes>>
    BY DEF UnexpectedError
  <1> DEFINE v == [worker[w] EXCEPT !.pc = "decided", !.verdict = "worker_error"]
  <1>2. worker' = [worker EXCEPT ![w] = v]
    BY DEF UnexpectedError, Decide
  <1>3. /\ v \in WorkerType /\ v.cr = worker[w].cr /\ v.attempt = worker[w].attempt
        /\ v.retries = worker[w].retries /\ v.pc = "decided" /\ v.verdict = "worker_error"
    BY <1>0 DEF WorkerType
  <1> HIDE DEF v
  <1> QED
    BY <1>0, <1>1, <1>2, <1>3, MovedInv DEF MyCR

LEMMA PushInv ==
  ASSUME BridgeInv, NEW w \in Worker, Push(w) \/ PushResponseLost(w)
  PROVE  BridgeInv'
  <1> DEFINE c == MyCR(w)
  <1> DEFINE a == worker[w].attempt
  <1>0. worker[w] \in WorkerType /\ ~At(w, "idle") /\ At(w, "patched") /\ TypeOK
        /\ Len(main) \in Nat \ {0}
    BY WorkerTyped, LenTyped DEF BridgeInv, Push, PushResponseLost, At
  <1>1. /\ c \in CR /\ a \in Attempt /\ crStatus[c] # "pending"
        /\ worker[w].seen \in 1..Len(main) /\ worker[w].seen \in Nat \ {0}
        /\ main[worker[w].seen][Target[c]] = row[c].base
    BY <1>0 DEF BridgeInv, WorkerOK
  <1>2. UNCHANGED <<dbVars, prs, main, deployVars, recon, crashes>>
        /\ branch' = [branch EXCEPT ![c][a] = worker[w].seen]
    BY DEF Push, PushResponseLost, PushBranch
  <1>3. PICK pc \in {"pushed", "failed"} : worker' = [worker EXCEPT ![w].pc = pc]
    BY DEF Push, PushResponseLost, Goto
  <1> DEFINE v == [worker[w] EXCEPT !.pc = pc]
  <1>4. /\ v \in WorkerType /\ v.cr = worker[w].cr /\ v.attempt = worker[w].attempt
        /\ v.retries = worker[w].retries /\ v.pc = pc
    BY <1>0 DEF WorkerType
  <1>5. worker' = [worker EXCEPT ![w] = v]
    BY <1>3
  <1>6. /\ branch' \in [CR -> [Attempt -> Nat]] /\ branch'[c][a] = worker[w].seen
        /\ \A d \in CR, b \in Attempt :
             branch'[d][b] = branch[d][b] \/ (d = c /\ b = a)
    BY <1>0, <1>1, <1>2 DEF TypeOK
  <1> HIDE DEF v
  <1>7. WorkerOK(w)' /\ worker' \in [Worker -> WorkerType]
    <2>1. v.cr = MyCR(w) /\ branch'[MyCR(w)][worker[w].attempt] # 0
      BY <1>1, <1>4, <1>6 DEF MyCR
    <2> QED
      BY <1>0, <1>2, <1>4, <1>5, <2>1, MovedOK
  <1>8. TypeOK'
    BY <1>0, <1>2, <1>6, <1>7 DEF TypeOK, dbVars, deployVars
  <1>9. Monotone
    BY <1>0, <1>1, <1>2, <1>6, LenTyped DEF Monotone, dbVars
  <1>10. PendingUntouched'
    BY <1>1, <1>2, <1>6 DEF BridgeInv, PendingUntouched, dbVars
  <1>11. \A u \in Worker : worker'[u] = worker[u] \/ WorkerOK(u)'
    BY <1>0, <1>5, <1>7 DEF TypeOK
  <1>12. \A d \in CR, b \in Attempt : branch'[d][b] = branch[d][b] \/ BranchOK(d, b)'
    BY <1>1, <1>2, <1>6 DEF BranchOK, dbVars
  <1> QED
    BY <1>0, <1>2, <1>8, <1>9, <1>10, <1>11, <1>12, LenTyped, Frame DEF dbVars

LEMMA NewPrInv ==
  ASSUME BridgeInv, NEW w \in Worker, CreatePr(w) \/ CreateResponseLost(w)
  PROVE  BridgeInv'
  <1> DEFINE c == MyCR(w)
  <1> DEFINE a == worker[w].attempt
  <1> DEFINE p == [cr |-> c, attempt |-> a, state |-> "open", sha |-> 0]
  <1>0. worker[w] \in WorkerType /\ ~At(w, "idle") /\ At(w, "looked") /\ TypeOK
        /\ Len(prs) \in Nat
    BY WorkerTyped, LenTyped DEF BridgeInv, CreatePr, CreateResponseLost, NewPr, At
  <1>1. c \in CR /\ a \in Attempt /\ branch[c][a] # 0
    BY <1>0 DEF BridgeInv, WorkerOK, At
  <1>2. UNCHANGED <<dbVars, branch, main, deployVars, recon, crashes>>
        /\ prs' = Append(prs, p)
    BY DEF CreatePr, CreateResponseLost, NewPr
  <1>3. PICK v \in WorkerType :
          /\ worker' = [worker EXCEPT ![w] = v]
          /\ v.cr = c /\ v.attempt = a /\ v.retries = worker[w].retries
          /\ \/ v.pc = "failed"
             \/ (v.pc = "decided" /\ v.verdict = "worker_error")
             \/ (v.pc = "decided" /\ v.verdict = "pr_open" /\ v.pr = Len(prs) + 1)
    <2>1. CASE CreatePr(w)
      <3> DEFINE n == Len(prs) + 1
      <3> DEFINE v1 == [worker[w] EXCEPT !.pc = "decided", !.verdict = "pr_open", !.pr = n]
      <3>1. n \in Nat
        BY <1>0
      <3>2. worker' = [worker EXCEPT ![w] = v1]
        BY <2>1 DEF CreatePr
      <3> HIDE DEF n
      <3>3. /\ v1 \in WorkerType /\ v1.cr = worker[w].cr /\ v1.attempt = a
            /\ v1.retries = worker[w].retries
            /\ v1.pc = "decided" /\ v1.verdict = "pr_open" /\ v1.pr = n
        BY <1>0, <3>1 DEF WorkerType
      <3> HIDE DEF v1
      <3> QED
        BY <3>2, <3>3 DEF MyCR, n
    <2>2. CASE CreateResponseLost(w)
      <3> DEFINE v1 == [worker[w] EXCEPT !.pc = "failed"]
      <3>1. /\ v1 \in WorkerType /\ v1.cr = worker[w].cr /\ v1.attempt = a
            /\ v1.retries = worker[w].retries /\ v1.pc = "failed"
        BY <1>0 DEF WorkerType
      <3> DEFINE v2 == [worker[w] EXCEPT !.pc = "decided", !.verdict = "worker_error"]
      <3>2. /\ v2 \in WorkerType /\ v2.cr = worker[w].cr /\ v2.attempt = a
            /\ v2.retries = worker[w].retries
            /\ v2.pc = "decided" /\ v2.verdict = "worker_error"
        BY <1>0 DEF WorkerType
      <3>3. worker' = [worker EXCEPT ![w] = v1] \/ worker' = [worker EXCEPT ![w] = v2]
        BY <2>2 DEF CreateResponseLost, Goto, Decide
      <3> HIDE DEF v1, v2
      <3> QED
        BY <3>1, <3>2, <3>3 DEF MyCR
    <2> QED
      BY <2>1, <2>2
  <1>4. p \in PrType
    BY <1>1 DEF PrType
  <1>5. /\ prs' \in Seq(PrType) /\ Len(prs') = Len(prs) + 1 /\ prs'[Len(prs) + 1] = p
        /\ \A n \in 1..Len(prs) : prs'[n] = prs[n]
    BY <1>0, <1>2, <1>4 DEF TypeOK
  <1>6. WorkerOK(w)' /\ worker' \in [Worker -> WorkerType]
    <2>1. v.pc = "decided" => /\ v.verdict # "none"
                              /\ v.verdict = "pr_open" => v.pr \in 1..Len(prs')
      BY <1>0, <1>3, <1>5
    <2>2. v.pc \notin {"patched", "pushed", "looked"}
      BY <1>3
    <2> QED
      BY <1>0, <1>2, <1>3, <2>1, <2>2, MovedOK
  <1>7. TypeOK'
    BY <1>0, <1>2, <1>5, <1>6 DEF TypeOK, dbVars, deployVars
  <1>8. Monotone
    BY <1>0, <1>2, <1>5, LenTyped DEF Monotone, dbVars
  <1>9. PendingUntouched'
    BY <1>2 DEF BridgeInv, PendingUntouched, dbVars
  <1>10. \A u \in Worker : worker'[u] = worker[u] \/ WorkerOK(u)'
    BY <1>0, <1>3, <1>6 DEF TypeOK
  <1>11. \A n \in (Len(prs) + 1)..Len(prs') : PrOK(n)'
    BY <1>0, <1>1, <1>2, <1>5 DEF PrOK
  <1> QED
    BY <1>0, <1>2, <1>7, <1>8, <1>9, <1>10, <1>11, Frame DEF dbVars

LEMMA IdleTyped == IdleWorker \in WorkerType /\ IdleReconciler \in ReconcilerType
  BY BoundAssumption DEF IdleWorker, WorkerType, IdleReconciler, ReconcilerType

\* The two writes that end a worker's turn with a row.
LEMMA WorkerDone ==
  ASSUME BridgeInv, NEW w \in Worker, ~At(w, "idle"), NEW c \in CR, c = MyCR(w),
         NEW r \in RowType,
         row' = [row EXCEPT ![c] = r],
         r.base = row[c].base, r.attempt = row[c].attempt,
         r.state = "queued" => r.retries < MaxInfraRetries,
         r.state = "pr_open" => r.pr \in 1..Len(prs), r.state # "none",
         worker' = [worker EXCEPT ![w] = IdleWorker],
         UNCHANGED <<crStatus, githubVars, deployVars, recon, crashes>>
  PROVE  BridgeInv'
  <1>0. TypeOK /\ WorkerOK(w)
    BY DEF BridgeInv
  <1>1. crStatus[c] # "pending"
    BY <1>0 DEF WorkerOK
  <1>2. worker' \in [Worker -> WorkerType]
    BY <1>0, IdleTyped DEF TypeOK
  <1>3. \A u \in Worker : worker'[u] = worker[u] \/ WorkerOK(u)'
    BY <1>0 DEF TypeOK, WorkerOK, At, IdleWorker
  <1>4. row[c].attempt \in Attempt
    BY <1>1 DEF BridgeInv, PendingUntouched, RowOK
  <1>5. row'[c] = r
    BY <1>0, <1>1 DEF TypeOK
  <1>6. crStatus' = crStatus /\ recon' = recon /\ prs' = prs
        /\ UNCHANGED <<githubVars, deployVars, crashes>>
    BY DEF githubVars
  <1>7. RowOK(c)'
    BY <1>4, <1>5, <1>6 DEF RowOK
  <1> QED
    BY <1>0, <1>1, <1>2, <1>3, <1>6, <1>7, RowFrame DEF TypeOK

LEMMA RecordFailureInv ==
  ASSUME BridgeInv, NEW w \in Worker, RecordFailure(w)
  PROVE  BridgeInv'
  <1> DEFINE c == MyCR(w)
  <1> DEFINE n == worker[w].retries + 1
  <1>0. TypeOK /\ ~At(w, "idle")
    BY DEF BridgeInv, RecordFailure, At
  <1>1. c \in CR /\ crStatus[c] # "pending" /\ n \in 0..MaxInfraRetries
    BY <1>0, WorkerTyped, BoundAssumption DEF BridgeInv, WorkerOK
  <1>2. row[c] \in RowType /\ row[c].state # "none"
    BY <1>0, <1>1, RowTyped DEF BridgeInv, PendingUntouched
  <1>3. /\ worker' = [worker EXCEPT ![w] = IdleWorker]
        /\ UNCHANGED <<crStatus, githubVars, deployVars, recon, crashes>>
    BY DEF RecordFailure
  <1>4. CASE n >= MaxInfraRetries
    <2> DEFINE r == [row[c] EXCEPT !.retries = n, !.lease = Free, !.state = "worker_error"]
    <2>1. row' = [row EXCEPT ![c] = r]
      BY <1>4 DEF RecordFailure
    <2> HIDE DEF n, c
    <2>2. /\ r \in RowType /\ r.base = row[c].base /\ r.attempt = row[c].attempt
          /\ r.state = "worker_error"
      BY <1>1, <1>2 DEF RowType, BridgeState
    <2> HIDE DEF r
    <2> QED
      BY <1>0, <1>1, <1>3, <2>1, <2>2, WorkerDone DEF c
  <1>5. CASE ~(n >= MaxInfraRetries)
    <2> DEFINE r == [row[c] EXCEPT !.retries = n, !.lease = Backoff]
    <2>1. row' = [row EXCEPT ![c] = r]
      BY <1>5 DEF RecordFailure
    <2>2. n < MaxInfraRetries
      BY <1>1, <1>5, BoundAssumption
    <2> HIDE DEF n, c
    <2>3. /\ r \in RowType /\ r.base = row[c].base /\ r.attempt = row[c].attempt
          /\ r.state = row[c].state /\ r.retries = n /\ r.pr = row[c].pr
      BY <1>1, <1>2 DEF RowType
    <2>4. r.state = "pr_open" => r.pr \in 1..Len(prs)
      BY <1>1, <2>3 DEF BridgeInv, RowOK
    <2> HIDE DEF r
    <2> QED
      BY <1>0, <1>1, <1>2, <1>3, <2>1, <2>2, <2>3, <2>4, WorkerDone DEF c
  <1> QED
    BY <1>4, <1>5

LEMMA RecordOutcomeInv ==
  ASSUME BridgeInv, NEW w \in Worker, RecordOutcome(w)
  PROVE  BridgeInv'
  <1> DEFINE c == MyCR(w)
  <1>0. TypeOK /\ ~At(w, "idle") /\ At(w, "decided") /\ WorkerOK(w)
    BY DEF BridgeInv, RecordOutcome, At
  <1>1. /\ c \in CR /\ crStatus[c] # "pending" /\ worker[w].pr \in Nat
        /\ worker[w].verdict \in {"pr_open", "conflict", "worker_error"}
        /\ worker[w].verdict = "pr_open" => worker[w].pr \in 1..Len(prs)
    BY <1>0, WorkerTyped DEF WorkerOK
  <1>2. row[c] \in RowType
    BY <1>0, <1>1, RowTyped
  <1>3. /\ worker' = [worker EXCEPT ![w] = IdleWorker]
        /\ UNCHANGED <<crStatus, githubVars, deployVars, recon, crashes>>
    BY DEF RecordOutcome
  <1>4. CASE worker[w].verdict = "pr_open"
    <2> DEFINE n == worker[w].pr
    <2> DEFINE r == [row[c] EXCEPT !.state = "pr_open", !.lease = Free,
                                   !.pr = n, !.retries = 0]
    <2>1. row' = [row EXCEPT ![c] = r]
      BY <1>4 DEF RecordOutcome
    <2>2. n \in Nat /\ n \in 1..Len(prs) /\ 0 \in 0..MaxInfraRetries
      BY <1>1, <1>4, BoundAssumption
    <2> HIDE DEF c, n
    <2>3. /\ r \in RowType /\ r.base = row[c].base /\ r.attempt = row[c].attempt
          /\ r.state = "pr_open" /\ r.pr = n
      BY <1>1, <1>2, <2>2 DEF RowType, BridgeState
    <2> HIDE DEF r
    <2> QED
      BY <1>0, <1>1, <1>3, <2>1, <2>2, <2>3, WorkerDone DEF c
  <1>5. CASE worker[w].verdict # "pr_open"
    <2> DEFINE r == [row[c] EXCEPT !.state = worker[w].verdict, !.lease = Free]
    <2>1. row' = [row EXCEPT ![c] = r]
      BY <1>5 DEF RecordOutcome
    <2> HIDE DEF c
    <2>2. /\ r \in RowType /\ r.base = row[c].base /\ r.attempt = row[c].attempt
          /\ r.state \in {"conflict", "worker_error"}
      BY <1>1, <1>2, <1>5 DEF RowType, BridgeState
    <2> HIDE DEF r
    <2> QED
      BY <1>0, <1>1, <1>3, <2>1, <2>2, WorkerDone DEF c
  <1> QED
    BY <1>4, <1>5

LEMMA CrashInv ==
  ASSUME BridgeInv, NEW w \in Worker, Crash(w)
  PROVE  BridgeInv'
  <1>1. worker' = [worker EXCEPT ![w] = IdleWorker]
        /\ UNCHANGED <<dbVars, githubVars, deployVars, recon>>
    BY DEF Crash
  <1>2. crashes' \in 0..MaxCrashes
    BY BoundAssumption DEF BridgeInv, TypeOK, Crash
  <1>3. WorkerOK(w)'
    BY <1>1 DEF BridgeInv, TypeOK, WorkerOK, At, IdleWorker
  <1> QED
    BY <1>1, <1>2, <1>3, IdleTyped, WorkerFrame

-----------------------------------------------------------------------------
(* The steps of maintainers, of the clock and of the deploy hook on a row. *)

\* RowFrame for a step of no process.
LEMMA RowWritten ==
  ASSUME BridgeInv, NEW c \in CR, NEW r \in RowType,
         row' = [row EXCEPT ![c] = r],
         crStatus[c] # "pending", r.base = row[c].base, r.state # "none",
         r.attempt \in Attempt,
         r.state = "queued" => r.retries < MaxInfraRetries,
         r.state = "pr_open" => r.pr \in 1..Len(prs),
         crStatus' \in [CR -> {"pending", "approved", "resolved"}],
         \A d \in CR : (crStatus'[d] = "pending") = (crStatus[d] = "pending"),
         UNCHANGED <<githubVars, deployVars, worker, crashes>>,
         recon' \in [Reconciler -> ReconcilerType],
         \A x \in Reconciler : recon'[x] = recon[x] \/ ReconcilerOK(x)'
  PROVE  BridgeInv'
  <1>0. TypeOK
    BY DEF BridgeInv
  <1>1. row'[c] = r /\ prs' = prs /\ UNCHANGED <<githubVars, deployVars, crashes>>
        /\ worker' = worker
    BY <1>0 DEF TypeOK, githubVars
  <1>2. RowOK(c)'
    BY <1>1 DEF RowOK
  <1>3. worker' \in [Worker -> WorkerType] /\ \A u \in Worker : worker'[u] = worker[u]
    BY <1>0, <1>1 DEF TypeOK
  <1> QED
    BY <1>1, <1>2, <1>3, RowFrame

LEMMA EndorseInv ==
  ASSUME BridgeInv, NEW c \in CR, Endorse(c)
  PROVE  BridgeInv'
  <1> DEFINE b == LiveValue(Target[c])
  <1> DEFINE r == [state |-> "queued", attempt |-> 1, retries |-> 0, lease |-> Free,
                   pr |-> 0, mergeSha |-> 0, base |-> b]
  <1>0. TypeOK /\ crStatus[c] = "pending" /\ \A a \in Attempt : branch[c][a] = 0
    BY DEF BridgeInv, Endorse, PendingUntouched
  <1>1. row' = [row EXCEPT ![c] = r] /\ crStatus' = [crStatus EXCEPT ![c] = "approved"]
        /\ UNCHANGED <<githubVars, deployVars, worker, recon, crashes>>
    BY DEF Endorse
  <1>2. b \in Val
    <2>1. main[live] \in [Cell -> Val] /\ Target[c] \in Cell
      BY <1>0, DiffAssumption DEF TypeOK
    <2> QED
      BY <2>1 DEF LiveValue
  <1> HIDE DEF b
  <1>3. r \in RowType /\ r.state = "queued" /\ r.attempt \in Attempt /\ r.retries = 0
    BY <1>2, BoundAssumption DEF RowType, BridgeState, Attempt
  <1> HIDE DEF r
  <1>4. /\ row'[c] = r /\ crStatus'[c] = "approved"
        /\ \A d \in CR \ {c} : row'[d] = row[d] /\ crStatus'[d] = crStatus[d]
        /\ row' \in [CR -> RowType]
        /\ crStatus' \in [CR -> {"pending", "approved", "resolved"}]
    BY <1>0, <1>1, <1>3 DEF TypeOK
  <1>5. TypeOK'
    BY <1>0, <1>1, <1>4 DEF TypeOK, githubVars, deployVars
  <1>6. Monotone
    BY <1>0, <1>1, <1>4, LenTyped DEF Monotone, githubVars
  <1>7. PendingUntouched'
    BY <1>1, <1>3, <1>4 DEF BridgeInv, PendingUntouched, githubVars
  <1>8. RowOK(c)'
    BY <1>3, <1>4, BoundAssumption DEF RowOK
  <1> QED
    BY <1>0, <1>1, <1>4, <1>5, <1>6, <1>7, <1>8, LenTyped, Frame DEF githubVars

LEMMA ResolveInv ==
  ASSUME BridgeInv, NEW c \in CR, Resolve(c)
  PROVE  BridgeInv'
  <1>0. TypeOK /\ crStatus[c] = "approved"
    BY DEF BridgeInv, Resolve
  <1>1. crStatus' = [crStatus EXCEPT ![c] = "resolved"]
        /\ UNCHANGED <<row, githubVars, deployVars, worker, recon, crashes>>
    BY DEF Resolve
  <1>2. /\ crStatus' \in [CR -> {"pending", "approved", "resolved"}]
        /\ \A d \in CR : (crStatus'[d] = "pending") = (crStatus[d] = "pending")
    BY <1>0, <1>1 DEF TypeOK
  <1>3. TypeOK'
    BY <1>0, <1>1, <1>2 DEF TypeOK, githubVars, deployVars
  <1>4. Monotone
    BY <1>0, <1>1, <1>2, LenTyped DEF Monotone, githubVars
  <1>5. PendingUntouched'
    BY <1>1, <1>2 DEF BridgeInv, PendingUntouched, githubVars
  <1> QED
    BY <1>0, <1>1, <1>3, <1>4, <1>5, LenTyped, Frame DEF githubVars

LEMMA RequeueInv ==
  ASSUME BridgeInv, NEW c \in CR, Requeue(c)
  PROVE  BridgeInv'
  <1> DEFINE n == row[c].attempt + 1
  <1> DEFINE r == [row[c] EXCEPT !.attempt = n, !.state = "queued", !.retries = 0,
                                 !.lease = Free]
  <1>0. TypeOK /\ crStatus[c] = "approved" /\ row[c] \in RowType
    BY RowTyped DEF BridgeInv, Requeue
  <1>1. n \in Attempt /\ n \in 0..MaxAttempt /\ 0 \in 0..MaxInfraRetries
        /\ 0 < MaxInfraRetries
    BY <1>0, RowTyped, BoundAssumption DEF Requeue, Attempt
  <1>2. row' = [row EXCEPT ![c] = r]
        /\ UNCHANGED <<crStatus, githubVars, deployVars, worker, recon, crashes>>
    BY DEF Requeue
  <1> HIDE DEF n
  <1>3. /\ r \in RowType /\ r.base = row[c].base /\ r.state = "queued"
        /\ r.attempt = n /\ r.retries = 0
    BY <1>0, <1>1 DEF RowType, BridgeState
  <1> HIDE DEF r
  <1> QED
    BY <1>0, <1>1, <1>2, <1>3, RowWritten DEF TypeOK

LEMMA LeaseExpiresInv ==
  ASSUME BridgeInv, NEW c \in CR, LeaseExpires(c)
  PROVE  BridgeInv'
  <1> DEFINE r == [row[c] EXCEPT !.lease = Free]
  <1>0. TypeOK /\ row[c] \in RowType /\ RowOK(c)
    BY RowTyped DEF BridgeInv
  <1>1. row' = [row EXCEPT ![c] = r]
        /\ UNCHANGED <<crStatus, githubVars, deployVars, worker, recon, crashes>>
    BY DEF LeaseExpires
  <1>2. /\ r \in RowType /\ r.base = row[c].base /\ r.state = row[c].state
        /\ r.attempt = row[c].attempt /\ r.retries = row[c].retries /\ r.pr = row[c].pr
    BY <1>0 DEF RowType
  <1> HIDE DEF r
  <1>3. CASE crStatus[c] # "pending"
    BY <1>0, <1>1, <1>2, <1>3, RowWritten DEF TypeOK, RowOK, BridgeInv, PendingUntouched
  <1>4. CASE crStatus[c] = "pending"
    <2>1. /\ row'[c] = r /\ \A d \in CR \ {c} : row'[d] = row[d]
          /\ row' \in [CR -> RowType]
      BY <1>0, <1>1, <1>2 DEF TypeOK
    <2>2. TypeOK'
      BY <1>0, <1>1, <2>1 DEF TypeOK, githubVars, deployVars
    <2>3. Monotone
      BY <1>0, <1>1, <1>4, <2>1, LenTyped DEF Monotone, githubVars
    <2>4. PendingUntouched'
      BY <1>1, <1>2, <2>1 DEF BridgeInv, PendingUntouched, githubVars
    <2>5. RowOK(c)'
      BY <1>0, <1>1, <1>2, <2>1 DEF RowOK, githubVars
    <2> QED
      BY <1>0, <1>1, <2>1, <2>2, <2>3, <2>4, <2>5, LenTyped, Frame DEF githubVars
  <1> QED
    BY <1>3, <1>4

LEMMA MarkDeployedInv ==
  ASSUME BridgeInv, NEW c \in CR, MarkDeployed(c)
  PROVE  BridgeInv'
  <1> DEFINE r == [row[c] EXCEPT !.state = "deployed"]
  <1>0. TypeOK /\ row[c] \in RowType /\ crStatus[c] # "pending"
        /\ row[c].attempt \in Attempt
    BY RowTyped DEF BridgeInv, MarkDeployed, PendingUntouched, RowOK
  <1>1. row' = [row EXCEPT ![c] = r] /\ crStatus' = [crStatus EXCEPT ![c] = "resolved"]
        /\ UNCHANGED <<githubVars, deployVars, worker, recon, crashes>>
    BY DEF MarkDeployed
  <1>2. /\ r \in RowType /\ r.base = row[c].base /\ r.state = "deployed"
        /\ r.attempt = row[c].attempt
    BY <1>0 DEF RowType, BridgeState
  <1>3. /\ crStatus' \in [CR -> {"pending", "approved", "resolved"}]
        /\ \A d \in CR : (crStatus'[d] = "pending") = (crStatus[d] = "pending")
    BY <1>0, <1>1 DEF TypeOK
  <1> HIDE DEF r
  <1> QED
    BY <1>0, <1>1, <1>2, <1>3, RowWritten DEF TypeOK

-----------------------------------------------------------------------------
(* The steps of a reconcile run.                                           *)

LEMMA ReconcileReadInv ==
  ASSUME BridgeInv, NEW x \in Reconciler, NEW c \in CR, ReconcileRead(x, c)
  PROVE  BridgeInv'
  <1> DEFINE v == [pc |-> "read", cr |-> c, pr |-> row[c].pr, seen |-> "open", sha |-> 0]
  <1>0. TypeOK /\ row[c].pr \in Nat /\ row[c].pr \in 1..Len(prs) /\ crStatus[c] # "pending"
    BY RowTyped DEF BridgeInv, ReconcileRead, RowOK, PendingUntouched
  <1>1. recon' = [recon EXCEPT ![x] = v]
        /\ UNCHANGED <<dbVars, githubVars, deployVars, worker, crashes>>
    BY DEF ReconcileRead
  <1>2. v \in ReconcilerType
    BY <1>0 DEF ReconcilerType
  <1>3. recon'[x] = v /\ crStatus' = crStatus /\ prs' = prs
    BY <1>0, <1>1 DEF TypeOK, dbVars, githubVars
  <1>4. ReconcilerOK(x)'
    BY <1>0, <1>3 DEF ReconcilerOK
  <1> QED
    BY <1>1, <1>2, <1>4, ReconcilerFrame

LEMMA ReconcileGetInv ==
  ASSUME BridgeInv, NEW x \in Reconciler, ReconcileGet(x)
  PROVE  BridgeInv'
  <1> DEFINE p == prs[recon[x].pr]
  <1> DEFINE v == [recon[x] EXCEPT !.pc = "got", !.seen = p.state, !.sha = p.sha]
  <1>0. TypeOK /\ ReconcilerOK(x) /\ recon[x] \in ReconcilerType /\ recon[x].pc = "read"
    BY DEF BridgeInv, TypeOK, ReconcileGet
  <1>1. recon[x].pr \in 1..Len(prs) /\ recon[x].cr \in CR
        /\ crStatus[recon[x].cr] # "pending"
    BY <1>0 DEF ReconcilerOK
  <1>2. p.sha \in Nat
    BY <1>0, <1>1, PrTyped
  <1>3. UNCHANGED <<dbVars, githubVars, deployVars, worker, crashes>>
        /\ crStatus' = crStatus /\ prs' = prs
    BY DEF ReconcileGet, dbVars, githubVars
  <1>4. CASE p.state \in {"closed", "merged"}
    <2>1. recon' = [recon EXCEPT ![x] = v]
      BY <1>4 DEF ReconcileGet
    <2> HIDE DEF p
    <2>2. v \in ReconcilerType /\ v.cr = recon[x].cr /\ v.pr = recon[x].pr
      BY <1>0, <1>2, <1>4 DEF ReconcilerType
    <2> HIDE DEF v
    <2>3. ReconcilerOK(x)'
      BY <1>0, <1>1, <1>3, <2>1, <2>2 DEF ReconcilerOK, TypeOK
    <2> QED
      BY <1>3, <2>1, <2>2, <2>3, ReconcilerFrame
  <1>5. CASE p.state \notin {"closed", "merged"}
    <2>1. recon' = [recon EXCEPT ![x] = IdleReconciler]
      BY <1>5 DEF ReconcileGet
    <2>2. ReconcilerOK(x)'
      BY <1>0, <2>1 DEF ReconcilerOK, TypeOK, IdleReconciler
    <2> QED
      BY <1>3, <2>1, <2>2, IdleTyped, ReconcilerFrame
  <1> QED
    BY <1>4, <1>5

LEMMA ReconcileWriteInv ==
  ASSUME BridgeInv, NEW x \in Reconciler, ReconcileWrite(x)
  PROVE  BridgeInv'
  <1> DEFINE c == recon[x].cr
  <1>0. TypeOK /\ recon[x] \in ReconcilerType /\ c \in CR /\ crStatus[c] # "pending"
    BY DEF BridgeInv, TypeOK, ReconcileWrite, ReconcilerOK
  <1>1. row[c] \in RowType /\ row[c].attempt \in Attempt /\ recon[x].sha \in Nat
    BY <1>0, RowTyped DEF BridgeInv, RowOK, PendingUntouched, ReconcilerType
  <1>2. recon' = [recon EXCEPT ![x] = IdleReconciler]
        /\ UNCHANGED <<crStatus, githubVars, deployVars, worker, crashes>>
    BY DEF ReconcileWrite
  <1>3. PICK r \in RowType : /\ row' = [row EXCEPT ![c] = r]
                             /\ r.base = row[c].base /\ r.attempt = row[c].attempt
                             /\ r.state \in {"merged", "pr_closed"}
    <2> DEFINE n == recon[x].sha
    <2> DEFINE r1 == [row[c] EXCEPT !.state = "merged", !.mergeSha = n]
    <2> DEFINE r2 == [row[c] EXCEPT !.state = "pr_closed"]
    <2>1. row' = [row EXCEPT ![c] = r1] \/ row' = [row EXCEPT ![c] = r2]
      BY DEF ReconcileWrite
    <2> HIDE DEF n, c
    <2>2. /\ r1 \in RowType /\ r1.base = row[c].base /\ r1.attempt = row[c].attempt
          /\ r1.state = "merged"
      BY <1>1 DEF RowType, BridgeState, n
    <2>3. /\ r2 \in RowType /\ r2.base = row[c].base /\ r2.attempt = row[c].attempt
          /\ r2.state = "pr_closed"
      BY <1>1 DEF RowType, BridgeState
    <2> HIDE DEF r1, r2
    <2> QED
      BY <2>1, <2>2, <2>3
  <1>4. /\ recon' \in [Reconciler -> ReconcilerType]
        /\ \A z \in Reconciler : recon'[z] = recon[z] \/ ReconcilerOK(z)'
    BY <1>0, <1>2, IdleTyped DEF TypeOK, ReconcilerOK, IdleReconciler
  <1> HIDE DEF c
  <1> QED
    BY <1>0, <1>1, <1>2, <1>3, <1>4, RowWritten DEF TypeOK

LEMMA ReconcileAbortInv ==
  ASSUME BridgeInv, NEW x \in Reconciler, ReconcileAbort(x)
  PROVE  BridgeInv'
  <1>1. recon' = [recon EXCEPT ![x] = IdleReconciler]
        /\ UNCHANGED <<dbVars, githubVars, deployVars, worker, crashes>>
    BY DEF ReconcileAbort
  <1>2. ReconcilerOK(x)'
    BY <1>1 DEF BridgeInv, ReconcilerOK, TypeOK, IdleReconciler
  <1> QED
    BY <1>1, <1>2, IdleTyped, ReconcilerFrame

-----------------------------------------------------------------------------
(* The steps of GitHub, of the dataset's main branch and of deploys.       *)

\* A step that changes one pull request's state, and may add a commit to main.
LEMMA PrFrame ==
  ASSUME BridgeInv, NEW n \in 1..Len(prs), NEW p \in PrType,
         p.cr = prs[n].cr, p.attempt = prs[n].attempt, prs' = [prs EXCEPT ![n] = p],
         main' \in Seq([Cell -> Val]), Len(main) <= Len(main'),
         \A i \in 1..Len(main) : main'[i] = main[i],
         UNCHANGED <<dbVars, branch, deployVars, worker, recon, crashes>>
  PROVE  BridgeInv'
  <1>0. TypeOK /\ Len(prs) \in Nat /\ Len(main) \in Nat \ {0} /\ Len(main') \in Nat
    BY LenTyped DEF BridgeInv
  <1>1. /\ prs' \in Seq(PrType) /\ Len(prs') = Len(prs) /\ prs'[n] = p
        /\ \A m \in 1..Len(prs) : m # n => prs'[m] = prs[m]
    BY <1>0 DEF TypeOK
  <1>2. live \in 1..Len(main') /\ hook \in 0..Len(main')
    BY <1>0 DEF TypeOK
  <1>3. TypeOK'
    BY <1>0, <1>1, <1>2 DEF TypeOK, dbVars, deployVars
  <1>4. Monotone
    BY <1>0, <1>1 DEF Monotone, dbVars
  <1>5. PendingUntouched'
    BY DEF BridgeInv, PendingUntouched, dbVars
  <1> QED
    BY <1>0, <1>1, <1>3, <1>4, <1>5, Frame DEF dbVars

LEMMA CommitGrows ==
  ASSUME TypeOK, NEW x \in Cell, NEW v \in Val, main' = Append(main, [Tip EXCEPT ![x] = v])
  PROVE  /\ main' \in Seq([Cell -> Val]) /\ Len(main') = Len(main) + 1
         /\ Len(main) <= Len(main')
         /\ \A i \in 1..Len(main) : main'[i] = main[i]
  <1>1. Len(main) \in Nat \ {0} /\ main \in Seq([Cell -> Val])
    BY LenTyped DEF TypeOK
  <1>2. Tip \in [Cell -> Val]
    BY <1>1 DEF Tip
  <1>3. [Tip EXCEPT ![x] = v] \in [Cell -> Val]
    BY <1>2
  <1> QED
    BY <1>1, <1>3

LEMMA PrStepInv ==
  ASSUME BridgeInv, NEW n \in 1..Len(prs), PrStep(n)
  PROVE  BridgeInv'
  <1>0. TypeOK /\ prs[n] \in PrType /\ prs[n].cr \in CR
        /\ Len(main) \in Nat \ {0} /\ main \in Seq([Cell -> Val])
    BY PrTyped, LenTyped DEF BridgeInv, TypeOK
  <1>1. CASE Merge(n)
    <2> DEFINE k == Len(main) + 1
    <2> DEFINE p == [prs[n] EXCEPT !.state = "merging", !.sha = k]
    <2>1. /\ prs' = [prs EXCEPT ![n] = p]
          /\ main' = Append(main, [Tip EXCEPT ![Target[prs[n].cr]] = Proposed[prs[n].cr]])
          /\ UNCHANGED <<dbVars, branch, deployVars, worker, recon, crashes>>
      BY <1>1 DEF Merge
    <2>2. k \in Nat
      BY <1>0
    <2> HIDE DEF k
    <2>3. p \in PrType /\ p.cr = prs[n].cr /\ p.attempt = prs[n].attempt
      BY <1>0, <2>2 DEF PrType
    <2> HIDE DEF p
    <2>4. Target[prs[n].cr] \in Cell /\ Proposed[prs[n].cr] \in Val
      BY <1>0, DiffAssumption
    <2> QED
      BY <1>0, <2>1, <2>3, <2>4, CommitGrows, PrFrame
  <1>2. CASE SettleSha(n) \/ ClosePr(n) \/ ReopenPr(n)
    <2>1. PICK s \in {"open", "closed", "merged"} : prs' = [prs EXCEPT ![n].state = s]
      BY <1>2 DEF SettleSha, ClosePr, ReopenPr
    <2> DEFINE p == [prs[n] EXCEPT !.state = s]
    <2>2. /\ prs' = [prs EXCEPT ![n] = p] /\ main' = main
          /\ UNCHANGED <<dbVars, branch, deployVars, worker, recon, crashes>>
      BY <1>2, <2>1 DEF SettleSha, ClosePr, ReopenPr
    <2>3. p \in PrType /\ p.cr = prs[n].cr /\ p.attempt = prs[n].attempt
      BY <1>0 DEF PrType
    <2> HIDE DEF p
    <2>4. /\ main' \in Seq([Cell -> Val]) /\ Len(main) <= Len(main')
          /\ \A i \in 1..Len(main) : main'[i] = main[i]
      BY <1>0, <2>2
    <2> QED
      BY <2>2, <2>3, <2>4, PrFrame
  <1> QED
    BY <1>1, <1>2 DEF PrStep

LEMMA DatasetStepInv ==
  ASSUME BridgeInv, DatasetStep
  PROVE  BridgeInv'
  <1>0. TypeOK /\ Len(prs) \in Nat /\ Len(main) \in Nat \ {0}
    BY LenTyped DEF BridgeInv
  <1>1. UNCHANGED <<dbVars, branch, prs, worker, recon, crashes>>
    BY DEF DatasetStep, ManualCommit, Deploy, HookEnds, githubVars
  <1>2. /\ main' \in Seq([Cell -> Val]) /\ Len(main) <= Len(main') /\ Len(main') \in Nat
        /\ \A i \in 1..Len(main) : main'[i] = main[i]
        /\ live' \in 1..Len(main') /\ hook' \in 0..Len(main')
    <2>1. CASE \E x \in Cell, v \in Val : ManualCommit(x, v)
      <3>1. PICK x \in Cell, v \in Val : ManualCommit(x, v)
        BY <2>1
      <3>2. /\ main' \in Seq([Cell -> Val]) /\ Len(main') = Len(main) + 1
            /\ \A i \in 1..Len(main) : main'[i] = main[i]
        BY <1>0, <3>1, CommitGrows DEF ManualCommit
      <3> QED
        BY <1>0, <3>1, <3>2 DEF ManualCommit, deployVars, TypeOK
    <2>2. CASE \E i \in 1..Len(main) : Deploy(i)
      BY <1>0, <2>2 DEF Deploy, githubVars, TypeOK
    <2>3. CASE HookEnds
      BY <1>0, <2>3 DEF HookEnds, githubVars, TypeOK
    <2> QED
      BY <2>1, <2>2, <2>3 DEF DatasetStep
  <1>3. TypeOK'
    BY <1>0, <1>1, <1>2 DEF TypeOK, dbVars
  <1>4. Monotone
    BY <1>0, <1>1, <1>2 DEF Monotone, dbVars
  <1>5. PendingUntouched'
    BY <1>1 DEF BridgeInv, PendingUntouched, dbVars
  <1> QED
    BY <1>0, <1>1, <1>3, <1>4, <1>5, Frame DEF dbVars

-----------------------------------------------------------------------------
(* The invariant, and what follows from it.                                *)

LEMMA NextInv == BridgeInv /\ [Next]_vars => BridgeInv'
  <1> SUFFICES ASSUME BridgeInv, [Next]_vars PROVE BridgeInv'
    OBVIOUS
  <1>1. ASSUME NEW w \in Worker, WorkerStep(w) PROVE BridgeInv'
    BY <1>1, ClaimInv, PrepareInv, CloneAndPatchInv, PushInv, FindPrInv, UpdatePrInv,
       NewPrInv, InfraErrorInv, UnexpectedErrorInv, RecordFailureInv, RecordOutcomeInv, CrashInv DEF WorkerStep
  <1>2. ASSUME NEW x \in Reconciler, ReconcilerStep(x) PROVE BridgeInv'
    BY <1>2, ReconcileReadInv, ReconcileGetInv, ReconcileWriteInv, ReconcileAbortInv
       DEF ReconcilerStep
  <1>3. ASSUME NEW c \in CR, RequestStep(c) PROVE BridgeInv'
    BY <1>3, EndorseInv, ResolveInv, RequeueInv, LeaseExpiresInv, MarkDeployedInv
       DEF RequestStep
  <1>4. ASSUME NEW n \in 1..Len(prs), PrStep(n) PROVE BridgeInv'
    BY <1>4, PrStepInv
  <1>5. CASE DatasetStep
    BY <1>5, DatasetStepInv
  <1>6. CASE UNCHANGED vars
    BY <1>6 DEF vars, BridgeInv, TypeOK, PendingUntouched, RowOK, WorkerOK, At, MyCR,
                ReconcilerOK, BranchOK, PrOK
  <1> QED
    BY <1>1, <1>2, <1>3, <1>4, <1>5, <1>6 DEF Next

\* The state of every process, row, branch and pull request stays well formed:
\* in particular a process that has a row in hand has one that exists.
THEOREM BridgeInvariant == Spec => []BridgeInv
  BY InitInv, NextInv, PTL DEF Spec

\* Every variable stays in its domain, for every number of requests, workers
\* and reconcile runs and every bound.
THEOREM TypeCorrect == Spec => []TypeOK
  <1>1. BridgeInv => TypeOK
    BY DEF BridgeInv
  <1> QED
    BY <1>1, BridgeInvariant, PTL

\* The drift guard of dataset_patch holds through every retry, crash, stale
\* worker and re-queue: a proposal branch hangs off a reviewed commit.
THEOREM BranchesAreReviewed == Spec => []BranchesReviewed
  <1>1. BridgeInv => BranchesReviewed
    BY DEF BridgeInv, BranchOK, BranchesReviewed
  <1> QED
    BY <1>1, BridgeInvariant, PTL

\* Merging a proposal never replaces a dataset value nobody reviewed.
THEOREM NoUnseenOverwrites == Spec => NoUnseenOverwrite
  <1> DEFINE Safe ==
        \A n \in 1..Len(prs) :
          prs[n].state = "open" /\ prs'[n].state = "merging" =>
            LET c == prs[n].cr IN Tip[Target[c]] \in {row[c].base, Proposed[c]}
  <1>1. ASSUME BridgeInv, [Next]_vars PROVE [Safe]_vars
    <2> SUFFICES ASSUME NEW n \in 1..Len(prs),
                        prs[n].state = "open", prs'[n].state = "merging"
                 PROVE  Tip[Target[prs[n].cr]] \in {row[prs[n].cr].base, Proposed[prs[n].cr]}
      OBVIOUS
    <2>1. Merge(n)
      <3>1. TypeOK /\ Len(prs) \in Nat /\ prs \in Seq(PrType)
        BY <1>1, LenTyped DEF BridgeInv, TypeOK
      <3>2. CASE \E w \in Worker : WorkerStep(w)
        <4>1. PICK w \in Worker : WorkerStep(w)
          BY <3>2
        <4>2. prs' = prs \/ NewPr(w)
          BY <4>1 DEF WorkerStep, Claim, Prepare, CloneAndPatch, Push, FindPr, UpdatePr,
                 CreatePr, InfraError, UnexpectedError, PushResponseLost, CreateResponseLost,
                 RecordFailure, RecordOutcome, Crash, githubVars
        <4>3. prs'[n] = prs[n]
          BY <3>1, <4>2 DEF NewPr
        <4> QED
          BY <4>3
      <3>3. CASE \E x \in Reconciler : ReconcilerStep(x)
        BY <3>3 DEF ReconcilerStep, ReconcileRead, ReconcileGet, ReconcileWrite,
                    ReconcileAbort, githubVars
      <3>4. CASE \E c \in CR : RequestStep(c)
        BY <3>4 DEF RequestStep, Endorse, Resolve, Requeue, LeaseExpires, MarkDeployed,
                    githubVars
      <3>5. CASE \E m \in 1..Len(prs) : PrStep(m)
        <4>1. PICK m \in 1..Len(prs) : PrStep(m)
          BY <3>5
        <4>2. CASE m # n
          <5>1. prs'[n] = prs[n]
            BY <3>1, <4>1, <4>2 DEF PrStep, Merge, SettleSha, ClosePr, ReopenPr
          <5> QED
            BY <5>1
        <4>3. CASE m = n
          <5>1. ~SettleSha(n) /\ ~ReopenPr(n)
            BY DEF SettleSha, ReopenPr
          <5>2. ~ClosePr(n)
            <6> SUFFICES ASSUME ClosePr(n) PROVE FALSE
              OBVIOUS
            <6>1. prs'[n].state = "closed"
              BY <3>1, PrTyped DEF ClosePr, PrType
            <6> QED
              BY <6>1
          <5> QED
            BY <4>1, <4>3, <5>1, <5>2 DEF PrStep
        <4> QED
          BY <4>2, <4>3
      <3>6. CASE DatasetStep
        BY <3>6 DEF DatasetStep, ManualCommit, Deploy, HookEnds, githubVars
      <3>7. CASE UNCHANGED vars
        BY <3>7 DEF vars
      <3> QED
        BY <1>1, <3>2, <3>3, <3>4, <3>5, <3>6, <3>7 DEF Next
    <2>2. BranchBase(n) = row[prs[n].cr].base
      <3>1. TypeOK /\ PrOK(n) /\ \A c \in CR, a \in Attempt : BranchOK(c, a)
        BY <1>1 DEF BridgeInv
      <3> QED
        BY <3>1, PrTyped DEF PrOK, BranchOK, BranchBase
    <2> QED
      BY <2>1, <2>2 DEF Merge
  <1>2. Spec => [][Safe]_vars
    BY <1>1, BridgeInvariant, PTL DEF Spec
  <1> QED
    BY <1>2 DEF NoUnseenOverwrite

-----------------------------------------------------------------------------
(* Leases: no two runs ever have the same row in hand.                     *)

Busy(w) == worker[w].pc # "idle"
Reading(x) == recon[x].pc # "idle"
Held == /\ \A w \in Worker : Busy(w) => HoldsLease(w)
        /\ \A x \in Reconciler : Reading(x) => HoldsRow(x)

\* A step that writes at most row c, which nobody else has in hand.
LEMMA HeldFrame ==
  ASSUME BridgeInv, Held, NEW c \in CR,
         \A d \in CR : d # c => row'[d] = row[d],
         \A w \in Worker :
           \/ Busy(w)' => HoldsLease(w)'
           \/ worker'[w] = worker[w] /\ MyCR(w) # c,
         \A x \in Reconciler :
           \/ Reading(x)' => HoldsRow(x)'
           \/ recon'[x] = recon[x] /\ recon[x].cr # c
  PROVE  Held'
  <1>1. ASSUME NEW w \in Worker, Busy(w)' PROVE HoldsLease(w)'
    <2>1. CASE worker'[w] = worker[w] /\ MyCR(w) # c
      <3>1. HoldsLease(w) /\ MyCR(w) \in CR
        BY <1>1, <2>1 DEF Held, Busy, BridgeInv, WorkerOK, At
      <3> QED
        BY <2>1, <3>1 DEF HoldsLease, MyCR
    <2> QED
      BY <1>1, <2>1
  <1>2. ASSUME NEW x \in Reconciler, Reading(x)' PROVE HoldsRow(x)'
    <2>1. CASE recon'[x] = recon[x] /\ recon[x].cr # c
      <3>1. HoldsRow(x) /\ recon[x].cr \in CR
        BY <1>2, <2>1 DEF Held, Reading, BridgeInv, ReconcilerOK
      <3> QED
        BY <2>1, <3>1 DEF HoldsRow
    <2> QED
      BY <1>2, <2>1
  <1> QED
    BY <1>1, <1>2 DEF Held

\* A step that writes no row and changes no process beyond what it has in hand.
LEMMA HeldStays ==
  ASSUME Held, row' = row,
         \A w \in Worker : Busy(w)' =>
           /\ Busy(w) /\ worker'[w].cr = worker[w].cr
           /\ worker'[w].attempt = worker[w].attempt /\ worker'[w].retries = worker[w].retries,
         \A x \in Reconciler : Reading(x)' =>
           Reading(x) /\ recon'[x].cr = recon[x].cr /\ recon'[x].pr = recon[x].pr
  PROVE  Held'
  BY DEF Held, HoldsLease, HoldsRow, MyCR

\* What a busy worker's row excludes.
LEMMA HeldApart ==
  ASSUME BridgeInv, Held, NEW w \in Worker, Busy(w)
  PROVE  /\ MyCR(w) \in CR /\ row[MyCR(w)].state = "queued" /\ row[MyCR(w)].lease = w
         /\ \A u \in Worker : u # w /\ Busy(u) => MyCR(u) # MyCR(w)
         /\ \A x \in Reconciler : Reading(x) => recon[x].cr # MyCR(w)
  BY DEF Held, HoldsLease, HoldsRow, BridgeInv, WorkerOK, At, Busy

LEMMA HeldWorkerStep ==
  ASSUME BridgeInv, Held, NEW w \in Worker, WorkerStep(w)
  PROVE  Held'
  <1>0. TypeOK /\ recon' = recon
    BY DEF BridgeInv, WorkerStep, Claim, Prepare, CloneAndPatch, Push, FindPr, UpdatePr,
           CreatePr, InfraError, UnexpectedError, PushResponseLost, CreateResponseLost,
           RecordFailure, RecordOutcome, Crash
  <1>1. CASE \E c \in CR : Claim(w, c)
    <2>1. PICK c \in CR : Claim(w, c)
      BY <1>1
    <2>2. /\ worker'[w].cr = c /\ worker'[w].attempt = row[c].attempt
          /\ worker'[w].retries = row[c].retries
          /\ \A u \in Worker : u # w => worker'[u] = worker[u]
      BY <1>0, <2>1 DEF Claim, TypeOK
    <2>3. /\ row'[c] = [row[c] EXCEPT !.lease = w] /\ row[c] \in RowType
          /\ \A d \in CR : d # c => row'[d] = row[d]
      BY <1>0, <2>1, RowTyped DEF Claim, TypeOK
    <2>4. /\ row'[c].state = "queued" /\ row'[c].lease = w
          /\ row'[c].attempt = row[c].attempt /\ row'[c].retries = row[c].retries
      BY <2>1, <2>3 DEF Claim, RowType
    <2>5. HoldsLease(w)'
      BY <2>2, <2>4 DEF HoldsLease, MyCR
    <2>6. ASSUME NEW u \in Worker, u # w, Busy(u) PROVE MyCR(u) # c
      BY <2>1, <2>6, HeldApart, LeaseAssumption DEF Claim
    <2>7. ASSUME NEW x \in Reconciler, Reading(x) PROVE recon[x].cr # c
      BY <2>1, <2>7 DEF Held, HoldsRow, Claim
    <2>8. \A u \in Worker : \/ Busy(u)' => HoldsLease(u)'
                            \/ worker'[u] = worker[u] /\ MyCR(u) # c
      BY <2>2, <2>5, <2>6 DEF Busy
    <2>9. \A x \in Reconciler : \/ Reading(x)' => HoldsRow(x)'
                                \/ recon'[x] = recon[x] /\ recon[x].cr # c
      BY <1>0, <2>7 DEF Reading
    <2> QED
      BY <2>3, <2>8, <2>9, HeldFrame
  <1>2. CASE \/ Prepare(w) \/ CloneAndPatch(w) \/ Push(w) \/ FindPr(w) \/ UpdatePr(w)
             \/ CreatePr(w) \/ InfraError(w) \/ UnexpectedError(w)
             \/ PushResponseLost(w) \/ CreateResponseLost(w)
    <2>1. row' = row /\ Busy(w)
      BY <1>2 DEF Prepare, CloneAndPatch, Push, FindPr, UpdatePr, CreatePr, NewPr, InfraError,
                  UnexpectedError, RemoteCall, PushResponseLost, CreateResponseLost, dbVars, At, Busy
    <2>2. worker[w] \in WorkerType
      BY <1>0, WorkerTyped
    <2>3. /\ worker'[w].cr = worker[w].cr /\ worker'[w].attempt = worker[w].attempt
          /\ worker'[w].retries = worker[w].retries
          /\ \A u \in Worker : u # w => worker'[u] = worker[u]
      <3>1. CASE Prepare(w)
        <4>1. Goto(w, "prepared") \/ Decide(w, "worker_error")
          BY <3>1 DEF Prepare
        <4>2. CASE Goto(w, "prepared")
          BY <1>0, <2>2, <4>2 DEF Goto, TypeOK, WorkerType
        <4>3. CASE Decide(w, "worker_error")
          BY <1>0, <2>2, <4>3 DEF Decide, TypeOK, WorkerType
        <4> QED
          BY <4>1, <4>2, <4>3
      <3>2. CASE CloneAndPatch(w)
        <4>1. \/ worker' = [worker EXCEPT ![w] = [@ EXCEPT !.pc = "patched", !.seen = Len(main)]]
              \/ Decide(w, PatchVerdict(MyCR(w)))
          BY <3>2 DEF CloneAndPatch
        <4>2. CASE worker' = [worker EXCEPT ![w] = [@ EXCEPT !.pc = "patched", !.seen = Len(main)]]
          BY <1>0, <2>2, <4>2 DEF TypeOK, WorkerType
        <4>3. CASE Decide(w, PatchVerdict(MyCR(w)))
          BY <1>0, <2>2, <4>3 DEF Decide, TypeOK, WorkerType
        <4> QED
          BY <4>1, <4>2, <4>3
      <3>3. CASE Push(w) \/ PushResponseLost(w) \/ InfraError(w)
        BY <1>0, <2>2, <3>3 DEF Push, PushResponseLost, InfraError, Goto, TypeOK, WorkerType
      <3>7. CASE UnexpectedError(w)
        BY <1>0, <2>2, <3>7 DEF UnexpectedError, Decide, TypeOK, WorkerType
      <3>8. CASE CreateResponseLost(w)
        <4>1. CASE Goto(w, "failed")
          BY <1>0, <2>2, <4>1 DEF Goto, TypeOK, WorkerType
        <4>2. CASE Decide(w, "worker_error")
          BY <1>0, <2>2, <4>2 DEF Decide, TypeOK, WorkerType
        <4> QED
          BY <3>8, <4>1, <4>2 DEF CreateResponseLost
      <3>4. CASE FindPr(w)
        BY <1>0, <2>2, <3>4 DEF FindPr, TypeOK, WorkerType
      <3>5. CASE UpdatePr(w)
        BY <1>0, <2>2, <3>5 DEF UpdatePr, Decide, TypeOK, WorkerType
      <3>6. CASE CreatePr(w)
        BY <1>0, <2>2, <3>6 DEF CreatePr, TypeOK, WorkerType
      <3> QED
        BY <1>2, <3>1, <3>2, <3>3, <3>4, <3>5, <3>6, <3>7, <3>8
    <2> QED
      BY <1>0, <2>1, <2>3, HeldStays DEF Busy, Reading
  <1>3. CASE Crash(w)
    <2>1. row' = row /\ worker'[w].pc = "idle"
          /\ \A u \in Worker : u # w => worker'[u] = worker[u]
      BY <1>0, <1>3 DEF Crash, dbVars, TypeOK, IdleWorker
    <2> QED
      BY <1>0, <2>1, HeldStays DEF Busy, Reading
  <1>4. CASE RecordFailure(w) \/ RecordOutcome(w)
    <2> DEFINE c == MyCR(w)
    <2>1. Busy(w)
      BY <1>4 DEF RecordFailure, RecordOutcome, At, Busy
    <2>2. worker'[w].pc = "idle" /\ \A u \in Worker : u # w => worker'[u] = worker[u]
      BY <1>0, <1>4 DEF RecordFailure, RecordOutcome, TypeOK, IdleWorker
    <2>3. c \in CR /\ \A d \in CR : d # c => row'[d] = row[d]
      BY <1>0, <1>4, <2>1, HeldApart DEF RecordFailure, RecordOutcome, TypeOK
    <2>4. \A u \in Worker : \/ Busy(u)' => HoldsLease(u)'
                            \/ worker'[u] = worker[u] /\ MyCR(u) # c
      BY <2>1, <2>2, HeldApart DEF Busy
    <2>5. \A x \in Reconciler : \/ Reading(x)' => HoldsRow(x)'
                                \/ recon'[x] = recon[x] /\ recon[x].cr # c
      BY <1>0, <2>1, HeldApart DEF Reading
    <2> QED
      BY <2>3, <2>4, <2>5, HeldFrame
  <1> QED
    BY <1>1, <1>2, <1>3, <1>4 DEF WorkerStep

LEMMA HeldReconcilerStep ==
  ASSUME BridgeInv, Held, OneReconciler, NEW x \in Reconciler, ReconcilerStep(x)
  PROVE  Held'
  <1>0. TypeOK /\ worker' = worker
    BY DEF BridgeInv, ReconcilerStep, ReconcileRead, ReconcileGet, ReconcileWrite,
           ReconcileAbort
  <1>1. CASE \E c \in CR : ReconcileRead(x, c)
    <2>1. PICK c \in CR : ReconcileRead(x, c)
      BY <1>1
    <2>2. /\ row' = row /\ recon'[x].cr = c /\ recon'[x].pr = row[c].pr
          /\ \A z \in Reconciler : z # x => recon'[z] = recon[z]
      BY <1>0, <2>1 DEF ReconcileRead, TypeOK, dbVars
    <2>3. HoldsRow(x)'
      BY <2>1, <2>2 DEF HoldsRow, ReconcileRead
    <2> QED
      BY <1>0, <2>2, <2>3 DEF Held, HoldsLease, HoldsRow, Busy, Reading, MyCR
  <1>2. CASE ReconcileGet(x) \/ ReconcileAbort(x)
    <2>1. row' = row /\ Reading(x)
      BY <1>2 DEF ReconcileGet, ReconcileAbort, dbVars, Reading
    <2>2. recon[x] \in ReconcilerType
      BY <1>0 DEF TypeOK
    <2> DEFINE p == prs[recon[x].pr]
    <2>3. \/ recon' = [recon EXCEPT ![x] = IdleReconciler]
          \/ recon' = [recon EXCEPT ![x] =
                         [@ EXCEPT !.pc = "got", !.seen = p.state, !.sha = p.sha]]
      BY <1>2 DEF ReconcileGet, ReconcileAbort
    <2> HIDE DEF p
    <2>4. \A z \in Reconciler : z # x => recon'[z] = recon[z]
      BY <1>0, <2>3 DEF TypeOK
    <2>5. recon'[x].pc = "idle" \/ (recon'[x].cr = recon[x].cr /\ recon'[x].pr = recon[x].pr)
      <3>1. CASE recon' = [recon EXCEPT ![x] = IdleReconciler]
        BY <1>0, <3>1 DEF TypeOK, IdleReconciler
      <3>2. CASE recon' = [recon EXCEPT ![x] =
                            [@ EXCEPT !.pc = "got", !.seen = p.state, !.sha = p.sha]]
        BY <1>0, <2>2, <3>2 DEF TypeOK, ReconcilerType
      <3> QED
        BY <2>3, <3>1, <3>2
    <2> QED
      BY <1>0, <2>1, <2>4, <2>5, HeldStays DEF Busy, Reading
  <1>3. CASE ReconcileWrite(x)
    <2> DEFINE c == recon[x].cr
    <2>1. c \in CR /\ row[c].state = "pr_open"
      BY <1>3 DEF ReconcileWrite, BridgeInv, ReconcilerOK, Held, Reading, HoldsRow
    <2>2. /\ \A d \in CR : d # c => row'[d] = row[d]
          /\ recon'[x].pc = "idle"
      BY <1>0, <1>3 DEF ReconcileWrite, TypeOK, IdleReconciler
    <2>3. \A w \in Worker : \/ Busy(w)' => HoldsLease(w)'
                            \/ worker'[w] = worker[w] /\ MyCR(w) # c
      BY <1>0, <2>1, HeldApart DEF Busy
    <2>4. \A z \in Reconciler : z = x
      BY DEF OneReconciler
    <2>5. \A z \in Reconciler : \/ Reading(z)' => HoldsRow(z)'
                                \/ recon'[z] = recon[z] /\ recon[z].cr # c
      BY <2>2, <2>4 DEF Reading
    <2> QED
      BY <2>1, <2>2, <2>3, <2>5, HeldFrame
  <1> QED
    BY <1>1, <1>2, <1>3 DEF ReconcilerStep

LEMMA HeldRequestStep ==
  ASSUME BridgeInv, Held, BoundedRuns, NEW c \in CR, RequestStep(c)
  PROVE  Held'
  <1>0. TypeOK /\ worker' = worker /\ recon' = recon
    BY DEF BridgeInv, RequestStep, Endorse, Resolve, Requeue, LeaseExpires, MarkDeployed
  <1>1. CASE Resolve(c)
    BY <1>0, <1>1, HeldStays DEF Resolve, Busy, Reading
  <1>2. CASE LeaseExpires(c)
    <2>1. row'[c] = [row[c] EXCEPT !.lease = Free] /\ row[c] \in RowType
          /\ \A d \in CR : d # c => row'[d] = row[d]
      BY <1>0, <1>2, RowTyped DEF LeaseExpires, TypeOK
    <2>2. row'[c].state = row[c].state /\ row'[c].pr = row[c].pr
      BY <2>1 DEF RowType
    <2>3. \A w \in Worker : worker'[w] = worker[w] /\ MyCR(w) # c
      BY <1>0, <1>2 DEF LeaseExpires
    <2>4. ASSUME NEW x \in Reconciler, recon[x].cr = c PROVE Reading(x)' => HoldsRow(x)'
      BY <1>0, <2>2, <2>4 DEF Held, Reading, HoldsRow
    <2> QED
      BY <1>0, <2>1, <2>3, <2>4, HeldFrame
  <1>3. CASE Endorse(c) \/ Requeue(c) \/ MarkDeployed(c)
    <2>1. row[c].state \notin {"queued", "pr_open"}
      BY <1>3 DEF Endorse, Requeue, Requeueable, MarkDeployed, BridgeInv, PendingUntouched
    <2>2. \A d \in CR : d # c => row'[d] = row[d]
      BY <1>0, <1>3 DEF Endorse, Requeue, MarkDeployed, TypeOK
    <2>3. \A w \in Worker : \/ Busy(w)' => HoldsLease(w)'
                            \/ worker'[w] = worker[w] /\ MyCR(w) # c
      BY <1>0, <2>1, HeldApart DEF Busy
    <2>4. \A x \in Reconciler : \/ Reading(x)' => HoldsRow(x)'
                                \/ recon'[x] = recon[x] /\ recon[x].cr # c
      BY <1>0, <2>1 DEF Held, Reading, HoldsRow
    <2> QED
      BY <2>2, <2>3, <2>4, HeldFrame
  <1> QED
    BY <1>1, <1>2, <1>3 DEF RequestStep

\* While runs die before their leases and one reconcile runs at a time, each
\* process finds the row it has in hand as it loaded it.
THEOREM LeaseInvariant == Spec => []LeaseInv
  <1>1. Init => LeaseInv
    BY DEF Init, LeaseInv, At, IdleWorker, IdleReconciler
  <1>2. BridgeInv /\ LeaseInv /\ [Next]_vars => LeaseInv'
    <2> SUFFICES ASSUME BridgeInv, LeaseInv, [Next]_vars, BoundedRuns, OneReconciler
                 PROVE  Held'
      BY DEF LeaseInv, Held, Busy, Reading, At, OneReconciler
    <2>0. Held
      BY DEF LeaseInv, Held, Busy, Reading, At
    <2>1. ASSUME NEW n \in 1..Len(prs), PrStep(n) PROVE Held'
      BY <2>0, <2>1, HeldStays DEF PrStep, Merge, SettleSha, ClosePr, ReopenPr, dbVars,
                                   Busy, Reading
    <2>2. CASE DatasetStep
      BY <2>0, <2>2, HeldStays DEF DatasetStep, ManualCommit, Deploy, HookEnds, dbVars,
                                   Busy, Reading
    <2>3. CASE UNCHANGED vars
      BY <2>0, <2>3, HeldStays DEF vars, Busy, Reading
    <2> QED
      BY <2>0, <2>1, <2>2, <2>3, HeldWorkerStep, HeldReconcilerStep, HeldRequestStep DEF Next
  <1> QED
    BY <1>1, <1>2, BridgeInvariant, PTL DEF Spec

\* While runs die before their leases and one reconcile runs at a time, a worker
\* with a row in hand holds the row's lease, and the row is as it loaded it: two
\* overlapping run-once processes never act on one row.
THEOREM LeasesExclude == Spec => []LeaseExclusion
  <1>1. LeaseInv => LeaseExclusion
    BY DEF LeaseInv, LeaseExclusion
  <1> QED
    BY <1>1, LeaseInvariant, PTL

-----------------------------------------------------------------------------
(* The refinement of BridgeLifecycle.                                      *)

LifeState == [c \in CR |-> row[c].state]
LifeAttempt == [c \in CR |-> row[c].attempt]

LEMMA LifeRow ==
  ASSUME BridgeInv, NEW c \in CR, \A d \in CR : d # c => row'[d] = row[d]
  PROVE  /\ LifeState' = [LifeState EXCEPT ![c] = row'[c].state]
         /\ LifeAttempt' = [LifeAttempt EXCEPT ![c] = row'[c].attempt]
         /\ row'[c].state = row[c].state => LifeState' = LifeState
         /\ row'[c].attempt = row[c].attempt => LifeAttempt' = LifeAttempt
  BY DEF LifeState, LifeAttempt

\* A step that moves neither a state nor an attempt nor a request is hidden.
LEMMA LifeStutter ==
  ASSUME LifeState' = LifeState, LifeAttempt' = LifeAttempt, crStatus' = crStatus
  PROVE  UNCHANGED Lifecycle!vars
  BY DEF LifeState, LifeAttempt, Lifecycle!vars

\* A worker settles, and reconcile observes, a row that is still where they read it.
LEMMA LifeMove ==
  ASSUME BridgeInv, NEW c \in CR, \A d \in CR : d # c => row'[d] = row[d],
         row'[c].attempt = row[c].attempt, crStatus' = crStatus,
         \/ row[c].state = "queued" /\ row'[c].state \in {"pr_open", "conflict", "worker_error"}
         \/ row[c].state = "pr_open" /\ row'[c].state \in {"merged", "pr_closed"}
  PROVE  Lifecycle!Next
  <1>1. /\ LifeState' = [LifeState EXCEPT ![c] = row'[c].state] /\ LifeAttempt' = LifeAttempt
        /\ LifeState[c] = row[c].state
    BY LifeRow DEF LifeState
  <1>2. CASE row[c].state = "queued" /\ row'[c].state \in {"pr_open", "conflict", "worker_error"}
    <2>1. Lifecycle!Settle(c)
      BY <1>1, <1>2 DEF Lifecycle!Settle, Lifecycle!Move, LifeState, LifeAttempt
    <2> QED
      BY <2>1 DEF Lifecycle!Next
  <1>3. CASE row[c].state = "pr_open" /\ row'[c].state \in {"merged", "pr_closed"}
    <2>1. Lifecycle!Observe(c)
      BY <1>1, <1>3 DEF Lifecycle!Observe, Lifecycle!Move, LifeState, LifeAttempt
    <2> QED
      BY <2>1 DEF Lifecycle!Next
  <1> QED
    BY <1>2, <1>3

LEMMA LifeWorker ==
  ASSUME BridgeInv, Held, NEW w \in Worker, WorkerStep(w)
  PROVE  Lifecycle!Next \/ UNCHANGED Lifecycle!vars
  <1>0. TypeOK /\ row \in [CR -> RowType]
    BY DEF BridgeInv, TypeOK
  <1>1. \/ UNCHANGED dbVars \/ (\E d \in CR : Claim(w, d))
        \/ RecordFailure(w) \/ RecordOutcome(w)
    BY DEF WorkerStep, Prepare, CloneAndPatch, Push, FindPr, UpdatePr, CreatePr,
           InfraError, UnexpectedError, PushResponseLost, CreateResponseLost, Crash
  <1>2. CASE UNCHANGED dbVars
    BY <1>2, LifeStutter DEF dbVars, LifeState, LifeAttempt
  <1>3. ASSUME NEW c \in CR, Claim(w, c) PROVE UNCHANGED Lifecycle!vars
    <2>1. /\ row' = [row EXCEPT ![c].lease = w] /\ crStatus' = crStatus
      BY <1>3 DEF Claim
    <2>2. /\ \A d \in CR : d # c => row'[d] = row[d]
          /\ row'[c].state = row[c].state /\ row'[c].attempt = row[c].attempt
      BY <1>0, <2>1 DEF RowType
    <2> QED
      BY <2>1, <2>2, LifeRow, LifeStutter
  <1>4. CASE RecordFailure(w) \/ RecordOutcome(w)
    <2>1. Busy(w) /\ crStatus' = crStatus
      BY <1>4 DEF RecordFailure, RecordOutcome, At, Busy
    <2>2. PICK c \in CR : c = MyCR(w) /\ row[c].state = "queued"
      BY <2>1, HeldApart
    <2>3. row[c] \in RowType /\ \A d \in CR : d # c => row'[d] = row[d]
      BY <1>0, <1>4, <2>2 DEF RecordFailure, RecordOutcome
    <2>4. CASE RecordFailure(w)
      <3> PICK n \in {worker[w].retries + 1} : TRUE
        OBVIOUS
      <3>1. \/ row' = [row EXCEPT ![c] = [@ EXCEPT !.retries = n, !.lease = Free, !.state = "worker_error"]]
            \/ row' = [row EXCEPT ![c] = [@ EXCEPT !.retries = n, !.lease = Backoff]]
        BY <2>2, <2>4 DEF RecordFailure
      <3>2. CASE row' = [row EXCEPT ![c] = [@ EXCEPT !.retries = n, !.lease = Free, !.state = "worker_error"]]
        <4>1. row'[c].state = "worker_error" /\ row'[c].attempt = row[c].attempt
          BY <1>0, <2>3, <3>2 DEF RowType
        <4> QED
          BY <2>1, <2>2, <2>3, <4>1, LifeMove
      <3>3. CASE row' = [row EXCEPT ![c] = [@ EXCEPT !.retries = n, !.lease = Backoff]]
        <4>1. row'[c].state = row[c].state /\ row'[c].attempt = row[c].attempt
          BY <1>0, <2>3, <3>3 DEF RowType
        <4> QED
          BY <2>1, <2>3, <4>1, LifeRow, LifeStutter
      <3> QED
        BY <3>1, <3>2, <3>3
    <2>5. CASE RecordOutcome(w)
      <3> PICK v \in {worker[w].verdict}, n \in {worker[w].pr} : TRUE
        OBVIOUS
      <3>1. v \in {"pr_open", "conflict", "worker_error"}
        BY <2>5, WorkerTyped DEF RecordOutcome, BridgeInv, WorkerOK, At
      <3>2. \/ /\ row' = [row EXCEPT ![c] = [@ EXCEPT !.state = "pr_open", !.lease = Free,
                                                      !.pr = n, !.retries = 0]]
               /\ v = "pr_open"
            \/ row' = [row EXCEPT ![c] = [@ EXCEPT !.state = v, !.lease = Free]]
        BY <2>2, <2>5 DEF RecordOutcome
      <3>3. row'[c].state = v /\ row'[c].attempt = row[c].attempt
        BY <1>0, <2>3, <3>2 DEF RowType
      <3> QED
        BY <2>1, <2>2, <2>3, <3>1, <3>3, LifeMove
    <2> QED
      BY <1>4, <2>4, <2>5
  <1> QED
    BY <1>1, <1>2, <1>3, <1>4

LEMMA LifeReconciler ==
  ASSUME BridgeInv, Held, NEW x \in Reconciler, ReconcilerStep(x)
  PROVE  Lifecycle!Next \/ UNCHANGED Lifecycle!vars
  <1>0. TypeOK /\ row \in [CR -> RowType]
    BY DEF BridgeInv, TypeOK
  <1>1. UNCHANGED dbVars \/ ReconcileWrite(x)
    BY DEF ReconcilerStep, ReconcileRead, ReconcileGet, ReconcileAbort
  <1>2. CASE UNCHANGED dbVars
    BY <1>2, LifeStutter DEF dbVars, LifeState, LifeAttempt
  <1>3. CASE ReconcileWrite(x)
    <2>1. Reading(x) /\ crStatus' = crStatus
      BY <1>3 DEF ReconcileWrite, Reading
    <2>2. PICK c \in CR : c = recon[x].cr /\ row[c].state = "pr_open"
      BY <2>1 DEF Held, HoldsRow, Reading, BridgeInv, ReconcilerOK
    <2> PICK sha \in {recon[x].sha} : TRUE
      OBVIOUS
    <2>3. \/ row' = [row EXCEPT ![c] = [@ EXCEPT !.state = "merged", !.mergeSha = sha]]
          \/ row' = [row EXCEPT ![c].state = "pr_closed"]
      BY <1>3, <2>2 DEF ReconcileWrite
    <2>4. /\ \A d \in CR : d # c => row'[d] = row[d]
          /\ row'[c].state \in {"merged", "pr_closed"} /\ row'[c].attempt = row[c].attempt
      BY <1>0, <2>3 DEF RowType
    <2> QED
      BY <2>1, <2>2, <2>4, LifeMove
  <1> QED
    BY <1>1, <1>2, <1>3

LEMMA LifeRequest ==
  ASSUME BridgeInv, NEW c \in CR, RequestStep(c)
  PROVE  Lifecycle!Next \/ UNCHANGED Lifecycle!vars
  <1>0. TypeOK /\ row \in [CR -> RowType] /\ row[c] \in RowType
        /\ (crStatus[c] = "pending" <=> row[c].state = "none")
    BY DEF BridgeInv, TypeOK, PendingUntouched
  <1>1. \A d \in CR : d # c => row'[d] = row[d]
    BY <1>0 DEF RequestStep, Endorse, Resolve, Requeue, LeaseExpires, MarkDeployed
  <1>2. /\ LifeState' = [LifeState EXCEPT ![c] = row'[c].state]
        /\ LifeAttempt' = [LifeAttempt EXCEPT ![c] = row'[c].attempt]
        /\ row'[c].state = row[c].state => LifeState' = LifeState
        /\ row'[c].attempt = row[c].attempt => LifeAttempt' = LifeAttempt
        /\ LifeState[c] = row[c].state /\ LifeAttempt[c] = row[c].attempt
    BY <1>1, LifeRow DEF LifeState, LifeAttempt
  <1>3. CASE Endorse(c)
    <2>1. row'[c].state = "queued" /\ row'[c].attempt = 1
      BY <1>0, <1>3 DEF Endorse
    <2>2. Lifecycle!Endorse(c)
      BY <1>0, <1>2, <1>3, <2>1 DEF Endorse, Lifecycle!Endorse, Lifecycle!Move, LifeState, LifeAttempt
    <2> QED
      BY <2>2 DEF Lifecycle!Next
  <1>4. CASE Resolve(c)
    <2>1. Lifecycle!Resolve(c)
      BY <1>2, <1>4 DEF Resolve, Lifecycle!Resolve, LifeState, LifeAttempt
    <2> QED
      BY <2>1 DEF Lifecycle!Next
  <1>5. CASE Requeue(c)
    <2>1. row'[c].state = "queued" /\ row'[c].attempt = row[c].attempt + 1
      BY <1>0, <1>5 DEF Requeue, RowType
    <2>2. Lifecycle!Requeue(c)
      BY <1>2, <1>5, <2>1 DEF Requeue, Requeueable, Lifecycle!Requeue, Lifecycle!Move,
                              LifeState, LifeAttempt
    <2> QED
      BY <2>2 DEF Lifecycle!Next
  <1>6. CASE LeaseExpires(c)
    <2>1. row' = [row EXCEPT ![c].lease = Free] /\ crStatus' = crStatus
      BY <1>6 DEF LeaseExpires
    <2>2. row'[c].state = row[c].state /\ row'[c].attempt = row[c].attempt
      BY <1>0, <2>1 DEF RowType
    <2> QED
      BY <1>2, <2>1, <2>2, LifeStutter
  <1>7. CASE MarkDeployed(c)
    <2>1. row'[c].state = "deployed" /\ row'[c].attempt = row[c].attempt
      BY <1>0, <1>7 DEF MarkDeployed, RowType
    <2>2. Lifecycle!Ship(c)
      BY <1>2, <1>7, <2>1 DEF MarkDeployed, Lifecycle!Ship, Lifecycle!Move, LifeState, LifeAttempt
    <2> QED
      BY <2>2 DEF Lifecycle!Next
  <1> QED
    BY <1>3, <1>4, <1>5, <1>6, <1>7 DEF RequestStep

\* Rows and their requests move only along the life cycle the models' comments
\* promise, and a worker or a reconcile never takes a settled row back, while runs
\* die before their leases and one reconcile runs at a time.
THEOREM BridgeImplementsLifecycle ==
  ASSUME BoundedRuns, OneReconciler
  PROVE  Spec => ImplementsLifecycle
  <1>1. Init => Lifecycle!Init
    BY DEF Init, Lifecycle!Init, NoRow
  <1>2. BridgeInv /\ LeaseInv /\ [Next]_vars => [Lifecycle!Next]_(Lifecycle!vars)
    <2> SUFFICES ASSUME BridgeInv, LeaseInv, [Next]_vars
                 PROVE  Lifecycle!Next \/ UNCHANGED Lifecycle!vars
      OBVIOUS
    <2>0. Held
      BY DEF LeaseInv, Held, Busy, Reading, At
    <2>1. CASE (\E n \in 1..Len(prs) : PrStep(n)) \/ DatasetStep \/ UNCHANGED vars
      <3>1. UNCHANGED dbVars
        BY <2>1 DEF PrStep, Merge, SettleSha, ClosePr, ReopenPr, DatasetStep, ManualCommit,
                    Deploy, HookEnds, dbVars, vars
      <3> QED
        BY <3>1, LifeStutter DEF dbVars, LifeState, LifeAttempt
    <2> QED
      BY <2>0, <2>1, LifeWorker, LifeReconciler, LifeRequest DEF Next
  <1> QED
    BY <1>1, <1>2, BridgeInvariant, LeaseInvariant, PTL
    DEF Spec, ImplementsLifecycle, Lifecycle!Spec

-----------------------------------------------------------------------------
(* The refinement of Moderation.                                           *)

ModFrozen == [c \in CR |-> [x \in Endorsed(c) |-> Proposed[c]]]
ModBase == [c \in CR |-> [x \in Endorsed(c) |-> row[c].base]]
ModStep == Moderated!Next \/ UNCHANGED Moderated!vars

\* A step that decides nothing may still bring other live values.
LEMMA ModDeploy ==
  ASSUME BridgeInv', crStatus' = crStatus, \A c \in CR : row'[c].base = row[c].base
  PROVE  ModStep
  <1>1. main'[live'] \in [Cell -> Val]
    BY DEF BridgeInv, TypeOK
  <1>2. ModFrozen' = ModFrozen /\ ModBase' = ModBase
    BY DEF ModFrozen, ModBase, Endorsed
  <1>3. Moderated!Deploy
    BY <1>1, <1>2 DEF Moderated!Deploy, ModFrozen, ModBase
  <1> QED
    BY <1>3 DEF ModStep, Moderated!Next

LEMMA BaseKept ==
  ASSUME BridgeInv, NEW c \in CR, NEW q, row' = [row EXCEPT ![c] = q], q.base = row[c].base
  PROVE  \A d \in CR : row'[d].base = row[d].base
  BY DEF BridgeInv, TypeOK

\* Workers, reconcile runs, GitHub and the dataset leave decisions and bases alone.
LEMMA ModWorker ==
  ASSUME BridgeInv, NEW w \in Worker, WorkerStep(w)
  PROVE  crStatus' = crStatus /\ \A c \in CR : row'[c].base = row[c].base
  <1>1. \/ UNCHANGED dbVars \/ (\E d \in CR : Claim(w, d))
        \/ RecordFailure(w) \/ RecordOutcome(w)
    BY DEF WorkerStep, Prepare, CloneAndPatch, Push, FindPr, UpdatePr, CreatePr,
           InfraError, UnexpectedError, PushResponseLost, CreateResponseLost, Crash
  <1>2. CASE UNCHANGED dbVars
    BY <1>2 DEF dbVars
  <1>3. ASSUME NEW c \in CR, Claim(w, c)
        PROVE  crStatus' = crStatus /\ \A d \in CR : row'[d].base = row[d].base
    <2>1. row[c] \in RowType
      BY DEF BridgeInv, TypeOK
    <2>2. PICK q : q = [row[c] EXCEPT !.lease = w]
      OBVIOUS
    <2>3. row' = [row EXCEPT ![c] = q] /\ crStatus' = crStatus /\ q.base = row[c].base
      BY <1>3, <2>1, <2>2 DEF Claim, RowType
    <2> QED
      BY <2>3, BaseKept
  <1>4. CASE RecordFailure(w) \/ RecordOutcome(w)
    <2>1. PICK c \in CR : c = MyCR(w)
      BY <1>4 DEF RecordFailure, RecordOutcome, At, BridgeInv, WorkerOK
    <2>2. row[c] \in RowType
      BY DEF BridgeInv, TypeOK
    <2> PICK v \in {worker[w].verdict}, n \in {worker[w].pr}, k \in {worker[w].retries + 1} : TRUE
      OBVIOUS
    <2>3. \/ row' = [row EXCEPT ![c] = [@ EXCEPT !.retries = k, !.lease = Free, !.state = "worker_error"]]
          \/ row' = [row EXCEPT ![c] = [@ EXCEPT !.retries = k, !.lease = Backoff]]
          \/ row' = [row EXCEPT ![c] = [@ EXCEPT !.state = "pr_open", !.lease = Free,
                                                 !.pr = n, !.retries = 0]]
          \/ row' = [row EXCEPT ![c] = [@ EXCEPT !.state = v, !.lease = Free]]
      BY <1>4, <2>1 DEF RecordFailure, RecordOutcome
    <2>4. PICK q : row' = [row EXCEPT ![c] = q] /\ q.base = row[c].base
      BY <2>2, <2>3 DEF RowType
    <2> QED
      BY <1>4, <2>4, BaseKept DEF RecordFailure, RecordOutcome
  <1> QED
    BY <1>1, <1>2, <1>3, <1>4

LEMMA ModReconciler ==
  ASSUME BridgeInv, NEW x \in Reconciler, ReconcilerStep(x)
  PROVE  crStatus' = crStatus /\ \A c \in CR : row'[c].base = row[c].base
  <1>1. UNCHANGED dbVars \/ ReconcileWrite(x)
    BY DEF ReconcilerStep, ReconcileRead, ReconcileGet, ReconcileAbort
  <1>2. CASE ReconcileWrite(x)
    <2>1. PICK c \in CR : c = recon[x].cr
      BY <1>2 DEF ReconcileWrite, BridgeInv, ReconcilerOK
    <2>2. row[c] \in RowType
      BY DEF BridgeInv, TypeOK
    <2> PICK sha \in {recon[x].sha} : TRUE
      OBVIOUS
    <2>3. \/ row' = [row EXCEPT ![c] = [@ EXCEPT !.state = "merged", !.mergeSha = sha]]
          \/ row' = [row EXCEPT ![c].state = "pr_closed"]
      BY <1>2, <2>1 DEF ReconcileWrite
    <2>4. PICK q : row' = [row EXCEPT ![c] = q] /\ q.base = row[c].base
      BY <2>2, <2>3 DEF RowType
    <2> QED
      BY <1>2, <2>4, BaseKept DEF ReconcileWrite
  <1> QED
    BY <1>1, <1>2 DEF dbVars

LEMMA ModRequest ==
  ASSUME BridgeInv, BridgeInv', NEW c \in CR, RequestStep(c)
  PROVE  ModStep
  <1>0. /\ row[c] \in RowType /\ crStatus \in [CR -> {"pending", "approved", "resolved"}]
        /\ row \in [CR -> RowType]
        /\ crStatus[c] = "pending" <=> row[c].state = "none"
    BY DEF BridgeInv, TypeOK, PendingUntouched
  <1>1. ASSUME Requeue(c) \/ LeaseExpires(c) PROVE ModStep
    <2>1. PICK q : row' = [row EXCEPT ![c] = q] /\ q.base = row[c].base
      BY <1>0, <1>1 DEF Requeue, LeaseExpires, RowType
    <2> QED
      BY <1>1, <2>1, BaseKept, ModDeploy DEF Requeue, LeaseExpires
  <1>2. ASSUME MarkDeployed(c) PROVE \A d \in CR : row'[d].base = row[d].base
    <2>1. PICK q : q = [row[c] EXCEPT !.state = "deployed"]
      OBVIOUS
    <2>2. row' = [row EXCEPT ![c] = q]
      BY <1>2, <2>1 DEF MarkDeployed
    <2>3. q.base = row[c].base
      BY <1>0, <2>1 DEF RowType
    <2> QED
      BY <2>2, <2>3, BaseKept
  <1>3. ASSUME Resolve(c) \/ MarkDeployed(c), crStatus[c] = "approved" PROVE ModStep
    <2>1. crStatus' = [crStatus EXCEPT ![c] = "resolved"] /\ UNCHANGED <<main, live>>
      BY <1>3 DEF Resolve, MarkDeployed, githubVars, deployVars
    <2>2. \A d \in CR : row'[d].base = row[d].base
      <3>1. CASE Resolve(c)
        BY <3>1 DEF Resolve
      <3> QED
        BY <1>3, <1>2, <3>1
    <2>3. \A d \in CR : Endorsed(d)' = Endorsed(d)
      BY <1>0, <1>3, <2>1 DEF Endorsed
    <2>4. ModFrozen' = ModFrozen /\ ModBase' = ModBase
      BY <2>2, <2>3 DEF ModFrozen, ModBase
    <2>5. Moderated!Resolve(c)
      BY <1>3, <2>1, <2>4 DEF Moderated!Resolve, Moderated!Close, ModFrozen, ModBase
    <2> QED
      BY <2>5 DEF ModStep, Moderated!Next
  <1>4. ASSUME MarkDeployed(c), crStatus[c] # "approved" PROVE ModStep
    <2>1. crStatus[c] = "resolved"
      BY <1>0, <1>4 DEF MarkDeployed
    <2>2. crStatus' = crStatus
      BY <1>0, <1>4, <2>1 DEF MarkDeployed
    <2> QED
      BY <1>4, <1>2, <2>2, ModDeploy
  <1>5. ASSUME Endorse(c) PROVE ModStep
    <2> DEFINE d == [x \in {Target[c]} |-> Proposed[c]]
               b == [x \in {Target[c]} |-> LiveValue(Target[c])]
    <2>1. /\ crStatus[c] = "pending" /\ crStatus' = [crStatus EXCEPT ![c] = "approved"]
          /\ UNCHANGED <<main, live>>
          /\ \A e \in CR : e # c => row'[e] = row[e]
          /\ row'[c].base = LiveValue(Target[c])
      BY <1>0, <1>5 DEF Endorse, githubVars, deployVars
    <2>2. Endorsed(c)' = {Target[c]} /\ \A e \in CR : e # c => Endorsed(e)' = Endorsed(e)
      BY <1>0, <2>1 DEF Endorsed
    <2>3. ModFrozen' = [ModFrozen EXCEPT ![c] = d]
      BY <2>2 DEF ModFrozen
    <2>4. ModBase' = [ModBase EXCEPT ![c] = b]
      BY <2>1, <2>2 DEF ModBase
    <2>5. d \in Moderated!Diff /\ DOMAIN d \subseteq Cell
      <3>1. Target[c] \in Cell /\ Proposed[c] \in Val
        BY DiffAssumption
      <3>2. {Target[c]} \in SUBSET Cell /\ d \in [{Target[c]} -> Val] /\ DOMAIN d = {Target[c]}
        BY <3>1
      <3> QED
        BY <3>2 DEF Moderated!Diff
    <2>6. Moderated!ReviewedBase(d) = b
      BY <2>5 DEF Moderated!ReviewedBase, LiveValue
    <2> HIDE DEF d, b
    <2>7. Moderated!Endorse(c)
      BY <2>1, <2>3, <2>4, <2>5, <2>6 DEF Moderated!Endorse, ModFrozen, ModBase
    <2> QED
      BY <2>7 DEF ModStep, Moderated!Next
  <1> QED
    BY <1>1, <1>3, <1>4, <1>5 DEF RequestStep, Resolve

\* What becomes of a decision is what Moderation allows, whether or not leases hold:
\* the reviewed base never changes after the endorsement, on any attempt.
THEOREM BridgeModerates == Spec => ImplementsModeration
  <1>1. Init => Moderated!Init
    <2> SUFFICES ASSUME Init PROVE Moderated!Init
      OBVIOUS
    <2>1. main[live] \in [Cell -> Val]
      BY DiffAssumption DEF Init
    <2>2. \A c \in CR : Endorsed(c) = {}
      BY DEF Init, Endorsed
    <2> QED
      BY <2>1, <2>2 DEF Init, Moderated!Init, Moderated!Empty
  <1>2. BridgeInv /\ BridgeInv' /\ [Next]_vars => [Moderated!Next]_(Moderated!vars)
    <2> SUFFICES ASSUME BridgeInv, BridgeInv', [Next]_vars PROVE ModStep
      BY DEF ModStep
    <2>1. CASE (\E n \in 1..Len(prs) : PrStep(n)) \/ DatasetStep \/ UNCHANGED vars
      <3>1. UNCHANGED dbVars
        BY <2>1 DEF PrStep, Merge, SettleSha, ClosePr, ReopenPr, DatasetStep, ManualCommit,
                    Deploy, HookEnds, dbVars, vars
      <3> QED
        BY <3>1, ModDeploy DEF dbVars
    <2> QED
      BY <2>1, ModWorker, ModReconciler, ModRequest, ModDeploy DEF Next
  <1> QED
    BY <1>1, <1>2, BridgeInvariant, PTL DEF Spec, ImplementsModeration, Moderated!Spec

-----------------------------------------------------------------------------
(* What QueuedSettles rests on, but for fairness.                          *)

\* The steps a run has left, until it has written the row it has in hand.
RunLeft == [pc \in {"idle", "claimed", "prepared", "patched", "pushed", "looked", "failed", "decided"} |->
    CASE pc = "idle" -> 0 [] pc \in {"failed", "decided"} -> 1 [] pc = "looked" -> 2
      [] pc = "pushed" -> 3 [] pc = "patched" -> 4 [] pc = "prepared" -> 5 [] pc = "claimed" -> 6]

\* A run only goes on; a row that stays queued stays in its attempt and never forgets a
\* failure; and a run that does not die takes its row out of the queue or counts one.
\* The counter of a queued row is below its cap (RowOK), so an attempt has at most
\* MaxInfraRetries runs that do not die: the cap cannot be run around by two runs that
\* write each other's counts back (worker.py:642, 686).
QueueAdvances ==
    [][/\ \A w \in Worker : Busy(w) /\ worker'[w] # worker[w]
              => RunLeft[worker'[w].pc] < RunLeft[worker[w].pc]
       /\ \A c \in CR : row[c].state = "queued" /\ row'[c].state = "queued"
              => row'[c].attempt = row[c].attempt /\ row[c].retries <= row'[c].retries
       /\ \A w \in Worker : Busy(w) /\ worker'[w].pc = "idle" /\ crashes' = crashes
              => \/ row'[MyCR(w)].state # "queued"
                 \/ row'[MyCR(w)].retries = row[MyCR(w)].retries + 1]_vars

LEMMA RunLeftOf ==
  /\ RunLeft["idle"] = 0 /\ RunLeft["failed"] = 1 /\ RunLeft["decided"] = 1 /\ RunLeft["looked"] = 2
  /\ RunLeft["pushed"] = 3 /\ RunLeft["patched"] = 4 /\ RunLeft["prepared"] = 5 /\ RunLeft["claimed"] = 6
  BY DEF RunLeft

\* A step of a run, seen from its program counter.
LEMMA RunGoesOn ==
  ASSUME BridgeInv, NEW w \in Worker, WorkerStep(w)
  PROVE  /\ \A u \in Worker : u # w => worker'[u] = worker[u]
         /\ Busy(w) => RunLeft[worker'[w].pc] < RunLeft[worker[w].pc]
  <1>0. worker \in [Worker -> WorkerType] /\ worker[w] \in WorkerType
    BY DEF BridgeInv, TypeOK
  <1>1. ASSUME NEW v, Decide(w, v) PROVE worker'[w].pc = "decided"
    BY <1>0, <1>1 DEF Decide, WorkerType
  <1>2. ASSUME NEW p, Goto(w, p) PROVE worker'[w].pc = p
    BY <1>0, <1>2 DEF Goto, WorkerType
  <1>3. \A u \in Worker : u # w => worker'[u] = worker[u]
    BY <1>0 DEF WorkerStep, Claim, Prepare, CloneAndPatch, Push, FindPr, UpdatePr, CreatePr, InfraError,
                UnexpectedError, PushResponseLost, CreateResponseLost, RecordFailure, RecordOutcome, Crash,
                Decide, Goto
  <1>4. CASE \E c \in CR : Claim(w, c)
    BY <1>3, <1>4 DEF Claim, At, Busy
  <1>5. CASE Prepare(w)
    <2>1. worker[w].pc = "claimed" /\ worker'[w].pc \in {"prepared", "decided"}
      BY <1>1, <1>2, <1>5 DEF Prepare, At
    <2> QED
      BY <1>3, <2>1, RunLeftOf
  <1>6. CASE CloneAndPatch(w)
    <2>1. worker[w].pc = "prepared" /\ worker'[w].pc \in {"patched", "decided"}
      BY <1>0, <1>1, <1>6 DEF CloneAndPatch, At, WorkerType
    <2> QED
      BY <1>3, <2>1, RunLeftOf
  <1>7. CASE Push(w) \/ PushResponseLost(w)
    <2>1. worker[w].pc = "patched" /\ worker'[w].pc \in {"pushed", "failed"}
      BY <1>2, <1>7 DEF Push, PushResponseLost, At
    <2> QED
      BY <1>3, <2>1, RunLeftOf
  <1>8. CASE FindPr(w)
    <2>1. worker[w].pc = "pushed" /\ worker'[w].pc = "looked"
      BY <1>0, <1>8 DEF FindPr, At, WorkerType
    <2> QED
      BY <1>3, <2>1, RunLeftOf
  <1>9. CASE UpdatePr(w) \/ CreatePr(w) \/ CreateResponseLost(w)
    <2>1. CASE UpdatePr(w)
      BY <1>1, <2>1, <1>3, RunLeftOf DEF UpdatePr, At
    <2>2. CASE CreatePr(w)
      <3>1. PICK n : worker' = [worker EXCEPT ![w] = [@ EXCEPT !.pc = "decided", !.verdict = "pr_open", !.pr = n]]
        BY <2>2 DEF CreatePr
      <3>2. worker[w].pc = "looked" /\ worker'[w].pc = "decided"
        BY <1>0, <2>2, <3>1 DEF CreatePr, NewPr, At, WorkerType
      <3> QED
        BY <1>3, <3>2, RunLeftOf
    <2>3. CASE CreateResponseLost(w)
      BY <1>1, <1>2, <2>3, <1>3, RunLeftOf DEF CreateResponseLost, NewPr, At
    <2> QED
      BY <1>9, <2>1, <2>2, <2>3
  <1>10. CASE InfraError(w) \/ UnexpectedError(w)
    <2>1. worker[w].pc \in {"prepared", "patched", "pushed", "looked"} /\ worker'[w].pc \in {"failed", "decided"}
      BY <1>1, <1>2, <1>10 DEF InfraError, UnexpectedError, RemoteCall
    <2> QED
      BY <1>3, <2>1, RunLeftOf
  <1>11. CASE RecordFailure(w) \/ RecordOutcome(w) \/ Crash(w)
    <2>1. worker'[w].pc = "idle" /\ worker[w].pc \in DOMAIN RunLeft
      BY <1>0, <1>11 DEF RecordFailure, RecordOutcome, Crash, IdleWorker, WorkerType, RunLeft
    <2> QED
      BY <1>3, <2>1, RunLeftOf DEF Busy, RunLeft
  <1> QED
    BY <1>4, <1>5, <1>6, <1>7, <1>8, <1>9, <1>10, <1>11 DEF WorkerStep

\* What a run's step does to its row.
LEMMA RunCounts ==
  ASSUME BridgeInv, Held, NEW w \in Worker, WorkerStep(w)
  PROVE  /\ \A c \in CR : row[c].state = "queued" /\ row'[c].state = "queued"
              => row'[c].attempt = row[c].attempt /\ row[c].retries <= row'[c].retries
         /\ Busy(w) /\ worker'[w].pc = "idle" /\ crashes' = crashes
              => \/ row'[MyCR(w)].state # "queued"
                 \/ row'[MyCR(w)].retries = row[MyCR(w)].retries + 1
  <1>0. TypeOK /\ row \in [CR -> RowType] /\ \A c \in CR : row[c].retries \in Int
    BY DEF BridgeInv, TypeOK, RowType
  <1>1. CASE UNCHANGED row /\ ~ RecordFailure(w) /\ ~ RecordOutcome(w)
    <2>1. Busy(w) => worker'[w].pc # "idle" \/ crashes' # crashes
      <3>1. worker \in [Worker -> WorkerType] /\ worker[w] \in WorkerType /\ crashes \in Int
        BY <1>0 DEF TypeOK
      <3>2. ASSUME NEW v, Decide(w, v) PROVE worker'[w].pc = "decided"
        BY <3>1, <3>2 DEF Decide, WorkerType
      <3>3. ASSUME NEW p, Goto(w, p) PROVE worker'[w].pc = p
        BY <3>1, <3>3 DEF Goto, WorkerType
      <3>4. CASE Crash(w)
        BY <3>1, <3>4 DEF Crash
      <3>5. CASE \E c \in CR : Claim(w, c)
        BY <3>5 DEF Claim, At, Busy
      <3>6. CASE FindPr(w) \/ CloneAndPatch(w) \/ CreatePr(w)
        BY <3>1, <3>2, <3>6 DEF FindPr, CloneAndPatch, CreatePr, WorkerType
      <3>7. CASE \/ Prepare(w) \/ Push(w) \/ UpdatePr(w) \/ InfraError(w) \/ UnexpectedError(w)
                 \/ PushResponseLost(w) \/ CreateResponseLost(w)
        BY <3>2, <3>3, <3>7
        DEF Prepare, Push, UpdatePr, InfraError, UnexpectedError, PushResponseLost, CreateResponseLost
      <3> QED
        BY <1>1, <3>4, <3>5, <3>6, <3>7 DEF WorkerStep
    <2> QED
      BY <1>0, <1>1, <2>1
  <1>2. ASSUME NEW d \in CR, Claim(w, d)
        PROVE  /\ ~ Busy(w)
               /\ \A c \in CR : row'[c].attempt = row[c].attempt /\ row'[c].retries = row[c].retries
    BY <1>0, <1>2 DEF Claim, At, Busy, RowType
  <1>3. CASE RecordFailure(w)
    <2>1. Busy(w)
      BY <1>3 DEF RecordFailure, At, Busy
    <2>2. PICK c \in CR : c = MyCR(w) /\ row[c].state = "queued" /\ row[c].retries = worker[w].retries
      BY <2>1, HeldApart DEF Held, HoldsLease
    <2> PICK n \in {worker[w].retries + 1} : TRUE
      OBVIOUS
    <2>3. \/ row' = [row EXCEPT ![c] = [@ EXCEPT !.retries = n, !.lease = Free, !.state = "worker_error"]]
          \/ row' = [row EXCEPT ![c] = [@ EXCEPT !.retries = n, !.lease = Backoff]]
      BY <1>3, <2>2 DEF RecordFailure
    <2>4. row[c] \in RowType
      BY <1>0
    <2>5. row'[c].retries = n /\ row'[c].attempt = row[c].attempt /\ \A e \in CR : e # c => row'[e] = row[e]
      BY <1>0, <2>3, <2>4 DEF RowType
    <2>6. n = row[c].retries + 1
      BY <2>2
    <2> QED
      BY <1>0, <2>2, <2>5, <2>6
  <1>4. CASE RecordOutcome(w)
    <2>1. Busy(w)
      BY <1>4 DEF RecordOutcome, At, Busy
    <2>2. PICK c \in CR : c = MyCR(w)
      BY <2>1, HeldApart
    <2> PICK v \in {worker[w].verdict}, n \in {worker[w].pr} : TRUE
      OBVIOUS
    <2>3. v \in {"pr_open", "conflict", "worker_error"}
      BY <1>4, WorkerTyped DEF RecordOutcome, BridgeInv, WorkerOK, At
    <2>4. \/ /\ row' = [row EXCEPT ![c] = [@ EXCEPT !.state = "pr_open", !.lease = Free,
                                                    !.pr = n, !.retries = 0]]
             /\ v = "pr_open"
          \/ row' = [row EXCEPT ![c] = [@ EXCEPT !.state = v, !.lease = Free]]
      BY <1>4, <2>2 DEF RecordOutcome
    <2>5. row'[c].state = v /\ \A e \in CR : e # c => row'[e] = row[e]
      BY <1>0, <2>4 DEF RowType
    <2> QED
      BY <1>0, <2>2, <2>3, <2>5
  <1>5. \/ UNCHANGED row
        \/ \E c \in CR : Claim(w, c)
        \/ RecordFailure(w) \/ RecordOutcome(w)
    BY DEF WorkerStep, Prepare, CloneAndPatch, Push, FindPr, UpdatePr, CreatePr, InfraError,
           UnexpectedError, PushResponseLost, CreateResponseLost, Crash, dbVars
  <1> QED
    BY <1>0, <1>1, <1>2, <1>3, <1>4, <1>5

\* The other writers of a queued row: a lease that expires.
LEMMA OthersKeepQueued ==
  ASSUME BridgeInv, Held, Next, ~ \E w \in Worker : WorkerStep(w)
  PROVE  /\ UNCHANGED worker
         /\ \A c \in CR : row[c].state = "queued" /\ row'[c].state = "queued"
              => row'[c].attempt = row[c].attempt /\ row'[c].retries = row[c].retries
  <1>0. row \in [CR -> RowType] /\ \A d \in CR : crStatus[d] = "pending" <=> row[d].state = "none"
    BY DEF BridgeInv, TypeOK, PendingUntouched
  <1>1. ASSUME NEW d \in CR, RequestStep(d)
        PROVE  /\ UNCHANGED worker
               /\ \A c \in CR : row[c].state = "queued" /\ row'[c].state = "queued"
                    => row'[c].attempt = row[c].attempt /\ row'[c].retries = row[c].retries
    <2>1. CASE Endorse(d) \/ Requeue(d)
      <3>1. UNCHANGED worker /\ row[d].state # "queued" /\ \A c \in CR : c # d => row'[c] = row[c]
        BY <1>0, <2>1 DEF Endorse, Requeue, Requeueable
      <3> QED
        BY <3>1
    <2>2. CASE Resolve(d)
      BY <2>2 DEF Resolve
    <2>3. CASE LeaseExpires(d)
      BY <1>0, <2>3 DEF LeaseExpires, RowType
    <2>4. CASE MarkDeployed(d)
      BY <1>0, <2>4 DEF MarkDeployed, RowType
    <2> QED
      BY <1>1, <2>1, <2>2, <2>3, <2>4 DEF RequestStep
  <1>2. ASSUME NEW x \in Reconciler, ReconcilerStep(x)
        PROVE  /\ UNCHANGED worker
               /\ \A c \in CR : row[c].state = "queued" /\ row'[c].state = "queued"
                    => row'[c].attempt = row[c].attempt /\ row'[c].retries = row[c].retries
    <2>1. CASE ReconcileWrite(x)
      <3>1. Reading(x) /\ row[recon[x].cr].state = "pr_open"
        BY <2>1 DEF ReconcileWrite, Reading, Held, HoldsRow
      <3>2. UNCHANGED worker /\ \A c \in CR : c # recon[x].cr => row'[c] = row[c]
        BY <1>0, <2>1 DEF ReconcileWrite
      <3> QED
        BY <3>1, <3>2
    <2> QED
      BY <1>2, <2>1 DEF ReconcilerStep, ReconcileRead, ReconcileGet, ReconcileAbort, dbVars
  <1>3. CASE (\E n \in 1..Len(prs) : PrStep(n)) \/ DatasetStep
    BY <1>3 DEF PrStep, Merge, SettleSha, ClosePr, ReopenPr, DatasetStep, ManualCommit, Deploy, HookEnds, dbVars
  <1> QED
    BY <1>1, <1>2, <1>3 DEF Next

\* The safety half of QueuedSettles, while runs die before their leases and one
\* reconcile runs at a time: a run ends, and each one that does not die settles its row
\* or brings it nearer to the cap (_process_row).
THEOREM QueuedRowsAdvance ==
  ASSUME BoundedRuns, OneReconciler
  PROVE  Spec => QueueAdvances
  <1>1. ASSUME BridgeInv, Held, Next
        PROVE  /\ \A w \in Worker : Busy(w) /\ worker'[w] # worker[w]
                     => RunLeft[worker'[w].pc] < RunLeft[worker[w].pc]
               /\ \A c \in CR : row[c].state = "queued" /\ row'[c].state = "queued"
                     => row'[c].attempt = row[c].attempt /\ row[c].retries <= row'[c].retries
               /\ \A w \in Worker : Busy(w) /\ worker'[w].pc = "idle" /\ crashes' = crashes
                     => \/ row'[MyCR(w)].state # "queued"
                        \/ row'[MyCR(w)].retries = row[MyCR(w)].retries + 1
    <2>1. ASSUME NEW w \in Worker, WorkerStep(w)
          PROVE  \A u \in Worker : u # w /\ Busy(u) => worker'[u].pc # "idle"
      BY <2>1, <1>1, RunGoesOn DEF Busy
    <2>2. CASE \E w \in Worker : WorkerStep(w)
      BY <1>1, <2>1, <2>2, RunGoesOn, RunCounts
    <2>3. CASE ~ \E w \in Worker : WorkerStep(w)
      <3>1. \A c \in CR : row[c].retries \in Int
        BY <1>1 DEF BridgeInv, TypeOK, RowType
      <3> QED
        BY <1>1, <2>3, <3>1, OthersKeepQueued DEF Busy
    <2> QED
      BY <2>2, <2>3
  <1>2. LeaseInv => Held
    BY DEF LeaseInv, Held, Busy, Reading, At
  <1>3. BridgeInv /\ Held /\ [Next]_vars =>
          [/\ \A w \in Worker : Busy(w) /\ worker'[w] # worker[w]
                     => RunLeft[worker'[w].pc] < RunLeft[worker[w].pc]
           /\ \A c \in CR : row[c].state = "queued" /\ row'[c].state = "queued"
                     => row'[c].attempt = row[c].attempt /\ row[c].retries <= row'[c].retries
           /\ \A w \in Worker : Busy(w) /\ worker'[w].pc = "idle" /\ crashes' = crashes
                     => \/ row'[MyCR(w)].state # "queued"
                        \/ row'[MyCR(w)].retries = row[MyCR(w)].retries + 1]_vars
    BY <1>1
  <1> QED
    BY <1>2, <1>3, BridgeInvariant, LeaseInvariant, PTL DEF Spec, QueueAdvances
=============================================================================
