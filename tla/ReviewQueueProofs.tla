------------------------- MODULE ReviewQueueProofs -------------------------
(***************************************************************************)
(* What the moderation queue guarantees for every number of editors,       *)
(* maintainers, requests, fields and values.                               *)
(***************************************************************************)
EXTENDS ReviewQueue, FiniteSetTheorems, TLAPS

LEMMA EmptyTyped == Empty \in Diff /\ DOMAIN Empty = {}
  <1>1. Empty \in [{} -> Val]
    BY DEF Empty
  <1> QED
    BY <1>1 DEF Diff

LEMMA DiffTyped ==
  ASSUME NEW d \in Diff
  PROVE  DOMAIN d \subseteq Field /\ d \in [DOMAIN d -> Val]
  BY DEF Diff

LEMMA Assembled ==
  ASSUME NEW S \in SUBSET Field, NEW d \in [S -> Val]
  PROVE  d \in Diff
  BY DEF Diff

LEMMA RestrictionTyped ==
  ASSUME NEW d \in Diff, NEW S
  PROVE  /\ Restriction(d, S) \in Diff
         /\ DOMAIN Restriction(d, S) = DOMAIN d \cap S
         /\ \A f \in DOMAIN d \cap S : Restriction(d, S)[f] = d[f]
  <1>1. Restriction(d, S) \in [DOMAIN d \cap S -> Val]
    BY DiffTyped DEF Restriction
  <1>2. DOMAIN d \cap S \subseteq Field
    BY DiffTyped
  <1> QED
    BY <1>1, <1>2, Assembled DEF Restriction

LEMMA LiveTyped == TypeOK => live \in Diff /\ DOMAIN live = Field
  BY Assembled DEF TypeOK

LEMMA CapturedTyped ==
  ASSUME TypeOK, NEW d \in Diff
  PROVE  /\ CapturedBase(d) \in Diff
         /\ ~Bridgeable(d) => DOMAIN CapturedBase(d) = {}
         /\ Bridgeable(d) => /\ DOMAIN CapturedBase(d) = DOMAIN d
                             /\ \A f \in DOMAIN d : CapturedBase(d)[f] = live[f]
  <1>1. CASE Bridgeable(d)
    <2>1. CapturedBase(d) = Restriction(live, DOMAIN d)
      BY <1>1 DEF CapturedBase
    <2>2. DOMAIN live \cap DOMAIN d = DOMAIN d
      BY LiveTyped, DiffTyped
    <2> QED
      BY <1>1, <2>1, <2>2, LiveTyped, RestrictionTyped
  <1>2. CASE ~Bridgeable(d)
    BY <1>2, EmptyTyped DEF CapturedBase
  <1> QED
    BY <1>1, <1>2

\* Settled notes stay a set of authors.
LEMMA MergedTyped ==
  ASSUME TypeOK, NEW m \in Tab
  PROVE  MergedNotes(m) \in SUBSET (Tab \cup {Deployer})
  BY DEF TypeOK, TabType, MergedNotes

LEMMA RequestTyped ==
  ASSUME TypeOK, NEW r \in Request
  PROVE  requests[r] \in RequestType /\ Len(requests) \in Nat
  BY DEF TypeOK, Request

LEMMA InitInv == Init => QueueInv
  <1> SUFFICES ASSUME Init PROVE QueueInv
    OBVIOUS
  <1> USE ReviewAssumption DEF Init
  <1>1. TypeOK
    <2>1. UnusedTab \in TabType
      BY EmptyTyped DEF UnusedTab, TabType, Action
    <2>2. IdlePost \in PostType /\ IdleBot \in BotType
      BY EmptyTyped DEF IdlePost, PostType, IdleBot, BotType
    <2> QED
      BY <2>1, <2>2 DEF TypeOK
  <1>2. \A p \in Post : PostOK(p)
    BY DEF PostOK, IdlePost
  <1>3. \A m \in Tab : PageOK(m)
    BY DEF PageOK, UnusedTab, Loaded
  <1>4. BotOK
    BY DEF BotOK, IdleBot
  <1>5. \A r \in Request : RequestOK(r)
    BY DEF Request
  <1> QED
    BY <1>1, <1>2, <1>3, <1>4, <1>5 DEF QueueInv

-----------------------------------------------------------------------------
(* A step changes one process and at most one request; answered pages and   *)
(* ids of requests last.                                                    *)

SameReview(r) ==
    /\ r \in Request
    /\ requests'[r].status = requests[r].status
    /\ requests'[r].by = requests[r].by
    /\ requests'[r].applied = requests[r].applied
    /\ requests'[r].base = requests[r].base

LEMMA Frame ==
  ASSUME QueueInv, TypeOK',
         Len(requests) <= Len(requests'),
         \A m \in Tab : tab'[m] = tab[m] \/ (PageOK(m)' /\ tab[m].pc # "done"),
         \A p \in Post : post'[p] = post[p] \/ PostOK(p)',
         BotOK',
         \A r \in Request' : SameReview(r) \/ RequestOK(r)'
  PROVE  QueueInv'
  <1>1. Len(requests) \in Nat /\ Len(requests') \in Nat
    BY DEF QueueInv, TypeOK
  <1>2. Request \subseteq Request'
    BY <1>1 DEF Request
  <1>3. ASSUME NEW p \in Post PROVE PostOK(p)'
    BY <1>1 DEF QueueInv, PostOK
  <1>4. ASSUME NEW m \in Tab PROVE PageOK(m)'
    <2>1. CASE tab'[m] = tab[m]
      <3>1. PageOK(m)
        BY DEF QueueInv
      <3>2. /\ Loaded(m, "approve")' = Loaded(m, "approve")
            /\ Loaded(m, "edit")' = Loaded(m, "edit")
        BY <2>1 DEF Loaded
      <3>3. AppliedShown(m)' = AppliedShown(m)
        BY <2>1 DEF AppliedShown
      <3> QED
        BY <1>2, <2>1, <3>1, <3>2, <3>3 DEF PageOK, Bridgeable
    <2> QED
      BY <2>1
  <1>5. ASSUME NEW r \in Request' PROVE RequestOK(r)'
    <2>1. CASE SameReview(r)
      <3>1. r \in Request /\ RequestOK(r)
        BY <2>1 DEF SameReview, QueueInv
      <3>2. EndorserDone(r)'
        BY <2>1, <3>1 DEF SameReview, RequestOK, EndorserDone
      <3>3. requests[r].status = "approved" => tab'[requests[r].by] = tab[requests[r].by]
        BY <3>1 DEF RequestOK, EndorserDone
      <3>4. AsReviewed(r)'
        BY <2>1, <3>1, <3>3 DEF SameReview, RequestOK, AsReviewed
      <3>5. QueuedWithFreeze(r)'
        BY <2>1, <3>1 DEF SameReview, RequestOK, QueuedWithFreeze, Queued, Bridgeable
      <3> QED
        BY <3>2, <3>4, <3>5 DEF RequestOK
    <2> QED
      BY <2>1
  <1> QED
    BY <1>3, <1>4, <1>5 DEF QueueInv

\* Writing one row, and adding one.
LEMMA RowWritten ==
  ASSUME TypeOK, NEW r \in Request, NEW q \in RequestType,
         requests' = [requests EXCEPT ![r] = q]
  PROVE  /\ requests' \in Seq(RequestType)
         /\ Len(requests') = Len(requests) /\ Request' = Request
         /\ requests'[r] = q
         /\ \A s \in Request : s # r => requests'[s] = requests[s]
  BY DEF TypeOK, Request

LEMMA RowAdded ==
  ASSUME TypeOK, NEW q \in RequestType, requests' = Append(requests, q)
  PROVE  /\ requests' \in Seq(RequestType)
         /\ Len(requests') = Len(requests) + 1 /\ Len(requests) \in Nat
         /\ requests'[Len(requests) + 1] = q
         /\ \A s \in Request : requests'[s] = requests[s]
         /\ Request' = Request \cup {Len(requests) + 1}
  BY DEF TypeOK, Request

\* The end of a POST.
LEMMA DoneKeepsPages ==
  ASSUME TypeOK, NEW m \in Tab, Done(m), tab[m].pc # "done"
  PROVE  /\ tab' \in [Tab -> TabType]
         /\ \A n \in Tab : tab'[n] = tab[n] \/ (PageOK(n)' /\ tab[n].pc # "done")
         /\ tab'[m].pc = "done"
         /\ tab[m].action \in {"approve", "edit"} =>
              tab'[m].form = tab[m].form /\ tab'[m].base = tab[m].base
  <1> DEFINE v == IF tab[m].action \in {"approve", "edit"}
                    THEN [UnusedTab EXCEPT !.pc = "done", !.form = tab[m].form,
                                           !.base = tab[m].base]
                    ELSE [UnusedTab EXCEPT !.pc = "done"]
  <1>1. tab[m] \in TabType
    BY DEF TypeOK
  <1>2. v \in TabType /\ v.pc = "done"
        /\ (tab[m].action \in {"approve", "edit"} => v.form = tab[m].form /\ v.base = tab[m].base)
    BY <1>1, EmptyTyped DEF UnusedTab, TabType, Action
  <1>3. tab' = [tab EXCEPT ![m] = v]
    BY DEF Done
  <1> HIDE DEF v
  <1>4. tab'[m] = v /\ \A n \in Tab : n # m => tab'[n] = tab[n]
    BY <1>3 DEF TypeOK
  <1>5. PageOK(m)'
    BY <1>2, <1>4 DEF PageOK, Loaded
  <1> QED
    BY <1>2, <1>3, <1>4, <1>5 DEF TypeOK

\* Steps that write no row, one row, or a new row; the processes' side of each
\* is the premise ProcessesKept.
ProcessesKept ==
    /\ live' \in [Field -> Val] /\ syncs' \in 0..MaxSyncs
    /\ post' \in [Post -> PostType] /\ tab' \in [Tab -> TabType] /\ bot' \in BotType
    /\ \A m \in Tab : tab'[m] = tab[m] \/ (PageOK(m)' /\ tab[m].pc # "done")
    /\ \A p \in Post : post'[p] = post[p] \/ PostOK(p)'
    /\ bot' = bot \/ BotOK'

LEMMA NoRowStep ==
  ASSUME QueueInv, UNCHANGED requests, ProcessesKept
  PROVE  QueueInv'
  <1>1. TypeOK'
    BY DEF QueueInv, TypeOK, ProcessesKept
  <1>2. BotOK'
    BY DEF QueueInv, BotOK, Request, Queued, ProcessesKept
  <1>3. \A r \in Request' : SameReview(r)
    BY DEF SameReview, Request
  <1>4. Len(requests) <= Len(requests')
    BY DEF QueueInv, TypeOK
  <1> QED
    BY <1>1, <1>2, <1>3, <1>4, Frame DEF ProcessesKept

LEMMA RowStep ==
  ASSUME QueueInv, NEW r \in Request, NEW q \in RequestType,
         requests' = [requests EXCEPT ![r] = q], ProcessesKept,
         \/ q.status = requests[r].status /\ q.by = requests[r].by
            /\ q.applied = requests[r].applied /\ q.base = requests[r].base
         \/ RequestOK(r)' /\ (Queued(r) => DOMAIN q.base # {})
  PROVE  QueueInv'
  <1>1. /\ requests' \in Seq(RequestType) /\ requests'[r] = q
        /\ Len(requests') = Len(requests) /\ Request' = Request
        /\ \A s \in Request : s # r => requests'[s] = requests[s]
    BY RowWritten DEF QueueInv
  <1>2. TypeOK'
    BY <1>1 DEF TypeOK, ProcessesKept
  <1>3. \A s \in Request' : SameReview(s) \/ RequestOK(s)'
    <2> SUFFICES ASSUME NEW s \in Request PROVE SameReview(s) \/ RequestOK(s)'
      BY <1>1
    <2>1. CASE s = r
      BY <1>1, <2>1 DEF SameReview
    <2>2. CASE s # r
      BY <1>1, <2>2 DEF SameReview
    <2> QED
      BY <2>1, <2>2
  <1>4. BotOK'
    <2>1. \A s \in Request : Queued(s) => Queued(s)'
      <3> SUFFICES ASSUME NEW s \in Request, Queued(s) PROVE Queued(s)'
        OBVIOUS
      <3>1. CASE s = r
        BY <1>1, <3>1 DEF Queued
      <3>2. CASE s # r
        BY <1>1, <3>2 DEF Queued
      <3> QED
        BY <3>1, <3>2
    <2>2. CASE bot' = bot
      <3>1. bot.pc = "loaded" => bot.cr \in Request /\ Queued(bot.cr)
        BY DEF QueueInv, BotOK
      <3> QED
        BY <1>1, <2>1, <2>2, <3>1 DEF BotOK, Queued
    <2> QED
      BY <2>2 DEF ProcessesKept
  <1>5. Len(requests) <= Len(requests')
    BY <1>1 DEF QueueInv, TypeOK
  <1> QED
    BY <1>2, <1>3, <1>4, <1>5, Frame DEF ProcessesKept

LEMMA NewRowStep ==
  ASSUME QueueInv, NEW q \in RequestType, requests' = Append(requests, q), ProcessesKept,
         NEW n, n = Len(requests) + 1, RequestOK(n)'
  PROVE  QueueInv'
  <1>1. /\ requests' \in Seq(RequestType) /\ Len(requests') = n /\ Len(requests) \in Nat
        /\ Request' = Request \cup {n}
        /\ \A s \in Request : requests'[s] = requests[s]
    BY RowAdded DEF QueueInv
  <1>2. TypeOK'
    BY <1>1 DEF TypeOK, ProcessesKept
  <1>3. \A s \in Request : SameReview(s)
    BY <1>1 DEF SameReview
  <1>4. BotOK'
    <2>1. CASE bot' = bot
      <3>1. bot.pc = "loaded" => bot.cr \in Request /\ Queued(bot.cr)
        BY DEF QueueInv, BotOK
      <3> QED
        BY <1>1, <2>1, <3>1 DEF BotOK, Queued
    <2> QED
      BY <2>1 DEF ProcessesKept
  <1>5. Len(requests) <= Len(requests')
    BY <1>1
  <1>6. \A s \in Request' : SameReview(s) \/ RequestOK(s)'
    <2> SUFFICES ASSUME NEW s \in Request' PROVE SameReview(s) \/ RequestOK(s)'
      OBVIOUS
    <2> QED
      BY <1>1, <1>3
  <1> QED
    BY <1>2, <1>4, <1>5, <1>6, Frame DEF ProcessesKept

\* A step of one page alone.
LEMMA PageStep ==
  ASSUME QueueInv, UNCHANGED <<requests, live, syncs, post, bot>>,
         NEW m \in Tab, NEW v \in TabType, tab' = [tab EXCEPT ![m] = v],
         tab[m].pc # "done", PageOK(m)'
  PROVE  QueueInv'
  <1>1. \A n \in Tab : tab'[n] = tab[n] \/ n = m
    BY DEF QueueInv, TypeOK
  <1>2. ProcessesKept
    BY <1>1 DEF QueueInv, TypeOK, ProcessesKept
  <1> QED
    BY <1>2, NoRowStep

-----------------------------------------------------------------------------
LEMMA ProposeLoadKeeps ==
  ASSUME QueueInv, NEW p \in Post, NEW e \in Editor, NEW x \in 0..Len(requests),
         NEW d \in Diff, ProposeLoad(p, e, x, d)
  PROVE  QueueInv'
  <1> DEFINE v == [pc |-> "loaded", editor |-> e, existing |-> x, payload |-> d]
  <1>1. v \in PostType
    BY DEF PostType, QueueInv, TypeOK
  <1>2. UNCHANGED <<requests, live, syncs, tab, bot>> /\ post' = [post EXCEPT ![p] = v]
    BY DEF ProposeLoad
  <1>3. \A q \in Post : post'[q] = post[q] \/ PostOK(q)'
    BY <1>2 DEF QueueInv, TypeOK, PostOK
  <1>4. ProcessesKept
    BY <1>1, <1>2, <1>3 DEF QueueInv, TypeOK, ProcessesKept
  <1> QED
    BY <1>2, <1>4, NoRowStep

LEMMA ProposeSaveKeeps ==
  ASSUME QueueInv, NEW p \in Post, ProposeSave(p)
  PROVE  QueueInv'
  <1> DEFINE r == post[p].existing
  <1>1. /\ UNCHANGED <<live, syncs, tab, bot>> /\ post' = [post EXCEPT ![p] = IdlePost]
        /\ post[p] \in PostType /\ post[p].pc = "loaded" /\ PostOK(p)
    BY DEF ProposeSave, QueueInv, TypeOK
  <1>2. post[p].payload \in Diff /\ post[p].editor \in Editor /\ r \in 0..Len(requests)
    BY <1>1 DEF PostOK, PostType
  <1>3. post' \in [Post -> PostType]
    BY <1>1, EmptyTyped DEF QueueInv, TypeOK, IdlePost, PostType
  <1>4. \A q \in Post : post'[q] = post[q] \/ PostOK(q)'
    BY <1>1 DEF QueueInv, TypeOK, PostOK, IdlePost
  <1>5. ProcessesKept
    BY <1>1, <1>3, <1>4 DEF QueueInv, TypeOK, ProcessesKept
  <1>6. CASE r # 0
    <2> DEFINE v == [requests[r] EXCEPT !.payload = post[p].payload, !.today = TRUE]
    <2>1. r \in Request
      BY <1>2, <1>6 DEF Request, QueueInv, TypeOK
    <2>2. requests[r] \in RequestType
      BY <2>1, RequestTyped DEF QueueInv
    <2>3. v \in RequestType /\ v.status = requests[r].status /\ v.by = requests[r].by
          /\ v.applied = requests[r].applied /\ v.base = requests[r].base
      BY <1>2, <2>2 DEF RequestType
    <2>4. requests' = [requests EXCEPT ![r] = v]
      BY <1>6 DEF ProposeSave
    <2> HIDE DEF v, r
    <2> QED
      BY <1>5, <2>1, <2>3, <2>4, RowStep
  <1>7. CASE r = 0
    <2> DEFINE v == NewRequest(post[p].editor, "pending", NoTab, post[p].payload, Empty, Empty)
    <2>1. v \in RequestType /\ v.status = "pending" /\ v.applied = Empty /\ v.base = Empty
      BY <1>2, EmptyTyped DEF RequestType, NewRequest, Status
    <2>2. requests' = Append(requests, v)
      BY <1>7 DEF ProposeSave
    <2> HIDE DEF v
    <2>3. PICK n : n = Len(requests) + 1
      OBVIOUS
    <2>4. requests'[n] = v
      BY <2>1, <2>2, <2>3, RowAdded DEF QueueInv
    <2>5. RequestOK(n)'
      BY <2>1, <2>4, EmptyTyped
         DEF RequestOK, EndorserDone, AsReviewed, QueuedWithFreeze, Queued
    <2> QED
      BY <1>5, <2>1, <2>2, <2>3, <2>5, NewRowStep
  <1> QED
    BY <1>6, <1>7

LEMMA DayPassesKeeps ==
  ASSUME QueueInv, NEW r \in Request, DayPasses(r)
  PROVE  QueueInv'
  <1> DEFINE v == [requests[r] EXCEPT !.today = FALSE]
  <1>1. UNCHANGED <<live, syncs, post, tab, bot>> /\ requests' = [requests EXCEPT ![r] = v]
    BY DEF DayPasses
  <1>2. requests[r] \in RequestType
    BY RequestTyped DEF QueueInv
  <1>3. v \in RequestType /\ v.status = requests[r].status /\ v.by = requests[r].by
        /\ v.applied = requests[r].applied /\ v.base = requests[r].base
    BY <1>2 DEF RequestType
  <1>4. ProcessesKept
    BY <1>1 DEF QueueInv, TypeOK, ProcessesKept
  <1> HIDE DEF v
  <1> QED
    BY <1>1, <1>3, <1>4, RowStep

-----------------------------------------------------------------------------
LEMMA RenderKeeps ==
  ASSUME QueueInv, NEW m \in Tab, NEW r \in Request, Render(m, r)
  PROVE  QueueInv'
  <1> DEFINE shown == IF requests[r].status = "pending" THEN requests[r].payload ELSE Empty
             base == Restriction(live, DOMAIN shown \ {Class})
             v == [UnusedTab EXCEPT !.pc = "form", !.cr = r, !.form = shown, !.base = base]
  <1>1. /\ UNCHANGED <<requests, live, syncs, post, bot>> /\ tab[m].pc = "unused"
        /\ tab' = [tab EXCEPT ![m] = v]
    BY DEF Render
  <1>2. requests[r] \in RequestType
    BY RequestTyped DEF QueueInv
  <1>3. shown \in Diff /\ DOMAIN shown \subseteq Field
    BY <1>2, EmptyTyped, DiffTyped DEF RequestType
  <1>4. base \in Diff /\ DOMAIN base = DOMAIN shown \ {Class}
    <2>1. DOMAIN live \cap (DOMAIN shown \ {Class}) = DOMAIN shown \ {Class}
      BY <1>3, LiveTyped DEF QueueInv
    <2>2. live \in Diff
      BY LiveTyped DEF QueueInv
    <2> QED
      BY <2>1, <2>2, RestrictionTyped
  <1> HIDE DEF shown, base
  <1>5. /\ v \in TabType /\ v.pc = "form" /\ v.cr = r
        /\ DOMAIN v.base = DOMAIN v.form \ {Class}
    <2>1. r \in Nat
      BY DEF Request, QueueInv, TypeOK
    <2>2. UnusedTab \in TabType
      BY EmptyTyped DEF UnusedTab, TabType, Action
    <2>3. v = [UnusedTab EXCEPT !.pc = "form", !.cr = r, !.form = shown, !.base = base]
      OBVIOUS
    <2> HIDE DEF v
    <2>4. v \in TabType /\ v.pc = "form" /\ v.cr = r /\ v.form = shown /\ v.base = base
      BY <1>3, <1>4, <2>1, <2>2, <2>3 DEF TabType
    <2> QED
      BY <1>4, <2>4
  <1> HIDE DEF v
  <1>6. tab'[m] = v
    BY <1>1 DEF QueueInv, TypeOK
  <1>7. PageOK(m)'
    BY <1>1, <1>5, <1>6 DEF PageOK, Loaded, Request
  <1> QED
    BY <1>1, <1>5, <1>7, PageStep

LEMMA PostReviewKeeps ==
  ASSUME QueueInv, NEW m \in Tab, NEW a \in Action \ {"edit"}, NEW note \in BOOLEAN,
         NEW entered \in [DOMAIN tab[m].form -> Val], PostReview(m, a, entered, note)
  PROVE  QueueInv'
  <1> DEFINE applied == AppliedPayload(m, entered)
             w == [tab[m] EXCEPT !.pc = "loaded", !.form = entered, !.action = a,
                          !.note = note, !.earlier = requests[tab[m].cr].notes,
                          !.applied = IF a = "approve" THEN applied ELSE Empty]
             c == /\ Accepts(tab[m].cr, a)
                  /\ a = "approve" => Unchanged(applied, tab[m].base)
             v == IF c THEN w ELSE [UnusedTab EXCEPT !.pc = "done"]
  <1>1. /\ UNCHANGED <<requests, live, syncs, post, bot>> /\ tab[m].pc = "form"
        /\ tab' = [tab EXCEPT ![m] = v]
    BY DEF PostReview
  <1>2. tab[m] \in TabType /\ tab[m].cr \in Request /\ tab[m].form \in Diff
    BY <1>1 DEF QueueInv, TypeOK, PageOK, TabType
  <1>3. /\ requests[tab[m].cr].payload \in Diff
        /\ requests[tab[m].cr].notes \in SUBSET (Tab \cup {Deployer})
    BY <1>2, RequestTyped DEF QueueInv, RequestType
  <1>4. entered \in Diff
    BY <1>2, DiffTyped, Assembled
  <1>5. applied \in Diff
    <2> DEFINE d == requests[tab[m].cr].payload
               kept == (DOMAIN d \ {Class}) \cup (DOMAIN d \cap DOMAIN entered)
    <2>1. d \in [DOMAIN d -> Val] /\ DOMAIN d \subseteq Field
      BY <1>3, DiffTyped
    <2>2. applied \in [kept -> Val]
      BY <2>1 DEF AppliedPayload
    <2> QED
      BY <2>1, <2>2, Assembled
  <1>6. tab'[m] = v
    BY <1>1 DEF QueueInv, TypeOK
  <1>7. CASE c
    <2>1. v = w
      BY <1>7
    <2>2. /\ w \in TabType /\ w.pc = "loaded" /\ w.cr = tab[m].cr /\ w.action = a
          /\ w.form = entered /\ w.base = tab[m].base
          /\ a = "approve" => w.applied = applied
      BY <1>2, <1>3, <1>4, <1>5, EmptyTyped DEF TabType
    <2>3. ASSUME a = "approve", NEW f \in DOMAIN applied
          PROVE  /\ f \in DOMAIN entered /\ applied[f] = entered[f]
                 /\ f # Class => f \in DOMAIN tab[m].base
      <3>1. f # Class => f \in DOMAIN tab[m].base
        BY <1>7, <2>3 DEF Unchanged
      <3>2. DOMAIN tab[m].base = DOMAIN tab[m].form \ {Class}
        BY <1>1 DEF QueueInv, PageOK
      <3>3. DOMAIN entered = DOMAIN tab[m].form
        OBVIOUS
      <3>4. f = Class => f \in DOMAIN entered
        BY <2>3 DEF AppliedPayload
      <3>5. f \in DOMAIN entered
        BY <3>1, <3>2, <3>3, <3>4
      <3> QED
        BY <2>3, <3>1, <3>5 DEF AppliedPayload
    <2> HIDE DEF w, applied
    <2>4. AppliedShown(m)' \/ a # "approve"
      BY <1>6, <2>1, <2>2, <2>3 DEF AppliedShown
    <2>5. PageOK(m)'
      BY <1>1, <1>2, <1>6, <2>1, <2>2, <2>4 DEF PageOK, Loaded, Request
    <2> QED
      BY <1>1, <2>1, <2>2, <2>5, PageStep
  <1>8. CASE ~c
    <2>1. v \in TabType /\ v.pc = "done"
      BY <1>8, EmptyTyped DEF UnusedTab, TabType, Action
    <2> HIDE DEF v
    <2>2. PageOK(m)'
      BY <1>6, <2>1 DEF PageOK, Loaded
    <2> QED
      BY <1>1, <2>1, <2>2, PageStep
  <1> QED
    BY <1>7, <1>8

\* The end of a POST changes no process but its own page.
LEMMA DoneKeeps ==
  ASSUME QueueInv, NEW m \in Tab, Done(m), tab[m].pc = "loaded",
         UNCHANGED <<live, syncs, post, bot>>
  PROVE  ProcessesKept
  BY DoneKeepsPages DEF QueueInv, TypeOK, ProcessesKept

LEMMA ApproveKeeps ==
  ASSUME QueueInv, NEW m \in Tab, Approve(m)
  PROVE  QueueInv'
  <1>0. PICK r, d : r = tab[m].cr /\ d = tab[m].applied
    OBVIOUS
  <1> DEFINE v == [requests[r] EXCEPT !.status = "approved", !.by = m,
                                      !.notes = MergedNotes(m), !.applied = d,
                                      !.base = CapturedBase(d)]
  <1>1. /\ UNCHANGED <<live, syncs, post, bot>> /\ Done(m) /\ Loaded(m, "approve")
        /\ tab[m].pc = "loaded" /\ tab[m].action = "approve"
    BY DEF Approve, Loaded
  <1>2. ProcessesKept
    BY <1>1, DoneKeeps
  <1>3. CASE Endorsable(m)
    <2>1. r \in Request /\ d \in Diff /\ AppliedShown(m)
      BY <1>0, <1>1 DEF QueueInv, TypeOK, PageOK, TabType
    <2>2. requests[r] \in RequestType
      BY <2>1, RequestTyped DEF QueueInv
    <2>3. /\ CapturedBase(d) \in Diff
          /\ ~Bridgeable(d) => DOMAIN CapturedBase(d) = {}
          /\ Bridgeable(d) => /\ DOMAIN CapturedBase(d) = DOMAIN d
                              /\ \A f \in DOMAIN d : CapturedBase(d)[f] = live[f]
      BY <2>1, CapturedTyped DEF QueueInv
    <2>4. MergedNotes(m) \in SUBSET (Tab \cup {Deployer})
      BY MergedTyped DEF QueueInv
    <2>5. /\ v \in RequestType /\ v.status = "approved" /\ v.by = m
          /\ v.applied = d /\ v.base = CapturedBase(d)
      BY <2>1, <2>2, <2>3, <2>4 DEF RequestType, Status
    <2>6. requests' = [requests EXCEPT ![r] = v]
      BY <1>0, <1>3 DEF Approve
    <2> HIDE DEF v
    <2>7. requests'[r] = v
      BY <2>1, <2>5, <2>6, RowWritten DEF QueueInv
    <2>8. tab'[m].pc = "done" /\ tab'[m].form = tab[m].form /\ tab'[m].base = tab[m].base
      BY <1>1, DoneKeepsPages DEF QueueInv
    <2>9. ASSUME Bridgeable(d), NEW f \in DOMAIN d
          PROVE  f \in DOMAIN tab[m].base /\ live[f] = tab[m].base[f]
      BY <1>0, <1>3, <2>9 DEF Endorsable, Unchanged, Bridgeable
    <2>10. RequestOK(r)'
      <3>1. EndorserDone(r)'
        BY <2>5, <2>7, <2>8 DEF EndorserDone
      <3>2. \A f \in DOMAIN v.base : f \in DOMAIN tab[m].base /\ v.base[f] = tab[m].base[f]
        BY <2>3, <2>5, <2>9
      <3>3. AsReviewed(r)'
        BY <1>0, <2>1, <2>5, <2>7, <2>8, <3>2 DEF AsReviewed, AppliedShown
      <3>4. QueuedWithFreeze(r)'
        <4>1. Bridgeable(d) => DOMAIN d # {}
          BY DEF Bridgeable
        <4> QED
          BY <2>3, <2>5, <2>7, <4>1 DEF QueuedWithFreeze, Queued, Bridgeable
      <3> QED
        BY <3>1, <3>3, <3>4 DEF RequestOK
    <2>11. ~Queued(r)
      <3>1. requests[r].status = "pending" /\ QueuedWithFreeze(r)
        BY <1>0, <1>3, <2>1 DEF Endorsable, QueueInv, RequestOK
      <3> QED
        BY <3>1 DEF QueuedWithFreeze
    <2> QED
      BY <1>2, <2>1, <2>5, <2>6, <2>10, <2>11, RowStep
  <1>4. CASE ~Endorsable(m)
    <2>1. UNCHANGED requests
      BY <1>4 DEF Approve
    <2> QED
      BY <1>2, <2>1, NoRowStep
  <1> QED
    BY <1>3, <1>4

\* A row that leaves the queue unapproved keeps what was frozen in it.
LEMMA SettledOK ==
  ASSUME QueueInv, NEW r \in Request, requests'[r].status \in {"rejected", "resolved"},
         requests'[r].applied = requests[r].applied, requests'[r].base = requests[r].base,
         requests'[r].status = "rejected" => requests[r].status = "pending"
  PROVE  RequestOK(r)'
  <1>1. QueuedWithFreeze(r)
    BY DEF QueueInv, RequestOK
  <1>2. QueuedWithFreeze(r)'
    BY <1>1 DEF QueuedWithFreeze, Queued, Bridgeable
  <1> QED
    BY <1>2 DEF RequestOK, EndorserDone, AsReviewed

LEMMA SettleKeeps ==
  ASSUME QueueInv, NEW m \in Tab, NEW a \in {"reject", "resolve", "reply_and_close"},
         NEW from, NEW to \in {"rejected", "resolved"}, Settle(m, a, from, to),
         to = "rejected" => from = {"pending"}
  PROVE  QueueInv'
  <1>0. PICK r : r = tab[m].cr
    OBVIOUS
  <1> DEFINE v == [requests[r] EXCEPT !.status = to, !.by = m, !.notes = MergedNotes(m)]
  <1>1. /\ UNCHANGED <<live, syncs, post, bot>> /\ Done(m) /\ tab[m].pc = "loaded"
        /\ tab[m].action = a
    BY DEF Settle, Loaded
  <1>2. ProcessesKept
    BY <1>1, DoneKeeps
  <1>3. CASE requests[r].status \in from
    <2>1. r \in Request
      BY <1>0, <1>1 DEF QueueInv, PageOK
    <2>2. requests[r] \in RequestType
      BY <2>1, RequestTyped DEF QueueInv
    <2>3. MergedNotes(m) \in SUBSET (Tab \cup {Deployer})
      BY MergedTyped DEF QueueInv
    <2>4. /\ v \in RequestType /\ v.status = to
          /\ v.applied = requests[r].applied /\ v.base = requests[r].base
      BY <2>2, <2>3 DEF RequestType, Status
    <2>5. requests' = [requests EXCEPT ![r] = v]
      BY <1>0, <1>3 DEF Settle
    <2> HIDE DEF v
    <2>6. requests'[r] = v
      BY <2>1, <2>4, <2>5, RowWritten DEF QueueInv
    <2>7. RequestOK(r)'
      BY <1>3, <2>1, <2>4, <2>6, SettledOK
    <2> QED
      BY <1>2, <2>1, <2>4, <2>5, <2>7, RowStep DEF Queued
  <1>4. CASE requests[r].status \notin from
    <2>1. UNCHANGED requests
      BY <1>0, <1>4 DEF Settle
    <2> QED
      BY <1>2, <2>1, NoRowStep
  <1> QED
    BY <1>3, <1>4

LEMMA ReplyKeeps ==
  ASSUME QueueInv, NEW m \in Tab, Reply(m)
  PROVE  QueueInv'
  <1> DEFINE r == tab[m].cr
             v == [requests[r] EXCEPT !.notes = @ \cup {m}]
  <1>1. /\ UNCHANGED <<live, syncs, post, bot>> /\ Done(m) /\ tab[m].pc = "loaded"
        /\ tab[m].action = "reply"
    BY DEF Reply, Loaded
  <1>2. ProcessesKept
    BY <1>1, DoneKeeps
  <1>3. CASE requests[r].status = "pending"
    <2>1. r \in Request
      BY <1>1 DEF QueueInv, PageOK
    <2>2. requests[r] \in RequestType
      BY <2>1, RequestTyped DEF QueueInv
    <2>3. /\ v \in RequestType /\ v.status = requests[r].status /\ v.by = requests[r].by
          /\ v.applied = requests[r].applied /\ v.base = requests[r].base
      BY <2>2 DEF RequestType
    <2>4. requests' = [requests EXCEPT ![r] = v]
      BY <1>3 DEF Reply
    <2> HIDE DEF v
    <2> QED
      BY <1>2, <2>1, <2>3, <2>4, RowStep
  <1>4. CASE requests[r].status # "pending"
    <2>1. UNCHANGED requests
      BY <1>4 DEF Reply
    <2> QED
      BY <1>2, <2>1, NoRowStep
  <1> QED
    BY <1>3, <1>4

LEMMA EditRenderKeeps ==
  ASSUME QueueInv, NEW m \in Tab, EditRender(m)
  PROVE  QueueInv'
  <1>0. PICK shown : shown = Restriction(live, ReachField)
    OBVIOUS
  <1> DEFINE v == [UnusedTab EXCEPT !.pc = "editform", !.form = shown, !.base = shown]
  <1>1. /\ UNCHANGED <<requests, live, syncs, post, bot>> /\ tab[m].pc = "unused"
        /\ tab' = [tab EXCEPT ![m] = v]
    BY <1>0 DEF EditRender
  <1>2. shown \in Diff /\ Class \notin DOMAIN shown
    BY <1>0, LiveTyped, RestrictionTyped DEF QueueInv, ReachField
  <1>3. UnusedTab \in TabType
    BY EmptyTyped DEF UnusedTab, TabType, Action
  <1>4. v \in TabType /\ v.pc = "editform" /\ v.form = shown /\ v.base = shown
    BY <1>2, <1>3 DEF TabType
  <1> HIDE DEF v
  <1>5. tab'[m] = v
    BY <1>1 DEF QueueInv, TypeOK
  <1>6. PageOK(m)'
    <2>1. DOMAIN v.base = DOMAIN v.form \ {Class} /\ Class \notin DOMAIN v.form
      BY <1>2, <1>4
    <2> QED
      BY <1>4, <1>5, <2>1 DEF PageOK, Loaded
  <1> QED
    BY <1>1, <1>4, <1>6, PageStep

LEMMA EditPostKeeps ==
  ASSUME QueueInv, NEW m \in Tab, NEW entered \in [DOMAIN tab[m].form -> Val],
         EditPost(m, entered)
  PROVE  QueueInv'
  <1>0. PICK changed, applied :
          /\ changed = {f \in DOMAIN entered : entered[f] # live[f]}
          /\ applied = Restriction(entered, changed)
    OBVIOUS
  <1> DEFINE w == [tab[m] EXCEPT !.pc = "loaded", !.action = "edit", !.form = entered,
                                 !.applied = applied]
             c == Unchanged(applied, tab[m].base) /\ changed # {}
             v == IF c THEN w ELSE [UnusedTab EXCEPT !.pc = "done"]
  <1>1. /\ UNCHANGED <<requests, live, syncs, post, bot>> /\ tab[m].pc = "editform"
        /\ tab' = [tab EXCEPT ![m] = v]
    BY <1>0 DEF EditPost
  <1>2. /\ tab[m] \in TabType /\ tab[m].form \in Diff /\ Class \notin DOMAIN tab[m].form
        /\ DOMAIN entered = DOMAIN tab[m].form
    BY <1>1 DEF QueueInv, TypeOK, PageOK, TabType
  <1>3. entered \in Diff
    BY <1>2, DiffTyped, Assembled
  <1>4. /\ applied \in Diff /\ DOMAIN applied = changed
        /\ \A f \in changed : f \in DOMAIN entered /\ applied[f] = entered[f]
    <2>1. changed \subseteq DOMAIN entered /\ applied = Restriction(entered, changed)
      BY <1>0
    <2>2. DOMAIN entered \cap changed = changed
      BY <2>1
    <2> HIDE DEF w, c, v
    <2> QED
      BY <1>3, <2>1, <2>2, RestrictionTyped
  <1>5. tab'[m] = v
    BY <1>1 DEF QueueInv, TypeOK
  <1>6. CASE c
    <2>1. v = w
      BY <1>6
    <2>2. /\ w \in TabType /\ w.pc = "loaded" /\ w.action = "edit" /\ w.form = entered
          /\ w.base = tab[m].base /\ w.applied = applied
      BY <1>2, <1>3, <1>4 DEF TabType, Action
    <2>3. ASSUME NEW f \in DOMAIN applied
          PROVE  /\ f \in DOMAIN entered /\ applied[f] = entered[f] /\ f # Class
                 /\ f \in DOMAIN tab[m].base
      BY <1>2, <1>4, <1>6 DEF Unchanged
    <2>4. Bridgeable(applied)
      BY <1>4, <1>6, <2>3 DEF Bridgeable
    <2> HIDE DEF w
    <2>5. AppliedShown(m)'
      BY <1>5, <2>1, <2>2, <2>3 DEF AppliedShown
    <2>6. PageOK(m)'
      BY <1>5, <2>1, <2>2, <2>4, <2>5 DEF PageOK, Loaded, Bridgeable
    <2> QED
      BY <1>1, <2>1, <2>2, <2>6, PageStep
  <1>7. CASE ~c
    <2>1. v \in TabType /\ v.pc = "done"
      BY <1>7, EmptyTyped DEF UnusedTab, TabType, Action
    <2> HIDE DEF v
    <2>2. PageOK(m)'
      BY <1>5, <2>1 DEF PageOK, Loaded
    <2> QED
      BY <1>1, <2>1, <2>2, PageStep
  <1> QED
    BY <1>6, <1>7

LEMMA EditFreezeKeeps ==
  ASSUME QueueInv, NEW m \in Tab, EditFreeze(m)
  PROVE  QueueInv'
  <1>0. PICK d : d = tab[m].applied
    OBVIOUS
  <1> DEFINE v == NewRequest(NoEditor, "approved", m, d, d, CapturedBase(d))
  <1>1. /\ UNCHANGED <<live, syncs, post, bot>> /\ Done(m) /\ Loaded(m, "edit")
        /\ tab[m].pc = "loaded" /\ tab[m].action = "edit"
    BY DEF EditFreeze, Loaded
  <1>2. ProcessesKept
    BY <1>1, DoneKeeps
  <1>3. CASE Unchanged(d, tab[m].base)
    <2>1. d \in Diff /\ AppliedShown(m) /\ Bridgeable(d)
      BY <1>0, <1>1 DEF QueueInv, TypeOK, PageOK, TabType
    <2>2. /\ CapturedBase(d) \in Diff /\ DOMAIN CapturedBase(d) = DOMAIN d
          /\ \A f \in DOMAIN d : CapturedBase(d)[f] = live[f]
      BY <2>1, CapturedTyped DEF QueueInv
    <2>3. /\ v \in RequestType /\ v.status = "approved" /\ v.by = m
          /\ v.applied = d /\ v.base = CapturedBase(d)
      BY <2>1, <2>2 DEF RequestType, NewRequest, Status
    <2>4. requests' = Append(requests, v)
      BY <1>0, <1>3 DEF EditFreeze
    <2> HIDE DEF v
    <2>5. PICK n : n = Len(requests) + 1
      OBVIOUS
    <2>6. requests'[n] = v
      BY <2>3, <2>4, <2>5, RowAdded DEF QueueInv
    <2>7. tab'[m].pc = "done" /\ tab'[m].form = tab[m].form /\ tab'[m].base = tab[m].base
      BY <1>1, DoneKeepsPages DEF QueueInv
    <2>8. RequestOK(n)'
      <3>1. EndorserDone(n)'
        BY <2>3, <2>6, <2>7 DEF EndorserDone
      <3>2. ASSUME NEW f \in DOMAIN d
            PROVE  f \in DOMAIN tab[m].base /\ live[f] = tab[m].base[f]
        BY <1>3, <2>1, <3>2 DEF Unchanged, Bridgeable
      <3>3. \A f \in DOMAIN v.base : f \in DOMAIN tab[m].base /\ v.base[f] = tab[m].base[f]
        BY <2>2, <2>3, <3>2
      <3>4. AsReviewed(n)'
        BY <1>0, <2>1, <2>3, <2>6, <2>7, <3>3 DEF AsReviewed, AppliedShown
      <3>5. QueuedWithFreeze(n)'
        <4>1. DOMAIN d # {}
          BY <2>1 DEF Bridgeable
        <4> QED
          BY <2>1, <2>2, <2>3, <2>6, <4>1 DEF QueuedWithFreeze, Queued, Bridgeable
      <3> QED
        BY <3>1, <3>4, <3>5 DEF RequestOK
    <2> QED
      BY <1>2, <2>3, <2>4, <2>5, <2>8, NewRowStep
  <1>4. CASE ~Unchanged(d, tab[m].base)
    <2>1. UNCHANGED requests
      BY <1>0, <1>4 DEF EditFreeze
    <2> QED
      BY <1>2, <2>1, NoRowStep
  <1> QED
    BY <1>3, <1>4

-----------------------------------------------------------------------------
LEMMA SyncKeeps ==
  ASSUME QueueInv, NEW f \in Field, NEW v \in Val, Sync(f, v)
  PROVE  QueueInv'
  <1>1. UNCHANGED <<requests, post, tab, bot>> /\ syncs < MaxSyncs /\ syncs' = syncs + 1
        /\ live' = [live EXCEPT ![f] = v]
    BY DEF Sync
  <1>2. ProcessesKept
    BY <1>1, ReviewAssumption DEF QueueInv, TypeOK, ProcessesKept
  <1> QED
    BY <1>1, <1>2, NoRowStep

LEMMA BotLoadKeeps ==
  ASSUME QueueInv, NEW r \in Request, BotLoad(r)
  PROVE  QueueInv'
  <1>1. /\ UNCHANGED <<requests, live, syncs, post, tab>> /\ Queued(r)
        /\ bot' = [pc |-> "loaded", cr |-> r, earlier |-> requests[r].notes]
    BY DEF BotLoad
  <1>2. r \in Nat /\ requests[r].notes \in SUBSET (Tab \cup {Deployer})
    BY RequestTyped DEF QueueInv, RequestType, Request, TypeOK
  <1>3. bot' \in BotType
    BY <1>1, <1>2 DEF BotType
  <1>4. BotOK'
    BY <1>1 DEF BotOK, Request, Queued
  <1>5. ProcessesKept
    BY <1>1, <1>3, <1>4 DEF QueueInv, TypeOK, ProcessesKept
  <1> QED
    BY <1>1, <1>5, NoRowStep

LEMMA BotWriteKeeps ==
  ASSUME QueueInv, BotWrite
  PROVE  QueueInv'
  <1>0. PICK r : r = bot.cr
    OBVIOUS
  <1> DEFINE v == [requests[r] EXCEPT !.status = "resolved",
                                      !.notes = bot.earlier \cup {Deployer}]
  <1>1. /\ UNCHANGED <<live, syncs, post, tab>> /\ bot.pc = "loaded" /\ bot' = IdleBot
        /\ requests' = [requests EXCEPT ![r] = v]
    BY <1>0 DEF BotWrite
  <1>2. r \in Request /\ Queued(r)
    BY <1>0, <1>1 DEF QueueInv, BotOK
  <1>3. requests[r] \in RequestType /\ bot.earlier \in SUBSET (Tab \cup {Deployer})
    BY <1>2, RequestTyped DEF QueueInv, TypeOK, BotType
  <1>4. /\ v \in RequestType /\ v.status = "resolved"
        /\ v.applied = requests[r].applied /\ v.base = requests[r].base
    BY <1>3 DEF RequestType, Status
  <1> HIDE DEF v
  <1>5. requests'[r] = v
    BY <1>1, <1>2, <1>4, RowWritten DEF QueueInv
  <1>6. IdleBot \in BotType /\ BotOK'
    BY <1>1 DEF IdleBot, BotType, BotOK
  <1>7. ProcessesKept
    BY <1>1, <1>6 DEF QueueInv, TypeOK, ProcessesKept
  <1>8. RequestOK(r)'
    BY <1>2, <1>4, <1>5, SettledOK
  <1> QED
    BY <1>1, <1>2, <1>4, <1>7, <1>8, RowStep DEF Queued

-----------------------------------------------------------------------------
LEMMA StutterKeeps ==
  ASSUME QueueInv, UNCHANGED vars
  PROVE  QueueInv'
  <1>1. ProcessesKept
    BY DEF QueueInv, TypeOK, ProcessesKept, vars
  <1> QED
    BY <1>1, NoRowStep DEF vars

LEMMA NextInv == QueueInv /\ [Next]_vars => QueueInv'
  <1> SUFFICES ASSUME QueueInv, [Next]_vars PROVE QueueInv'
    OBVIOUS
  <1>1. CASE \E p \in Post, e \in Editor, x \in 0..Len(requests), d \in Diff :
               ProposeLoad(p, e, x, d)
    BY <1>1, ProposeLoadKeeps
  <1>2. CASE \E p \in Post : ProposeSave(p)
    BY <1>2, ProposeSaveKeeps
  <1>3. CASE \E r \in Request : DayPasses(r) \/ BotLoad(r)
    BY <1>3, DayPassesKeeps, BotLoadKeeps
  <1>4. CASE \E m \in Tab, r \in Request : Render(m, r)
    BY <1>4, RenderKeeps
  <1>5. ASSUME NEW m \in Tab, NEW entered \in [DOMAIN tab[m].form -> Val],
               NEW a \in Action \ {"edit"}, NEW note \in NoteChoice,
               PostReview(m, a, entered, note)
        PROVE  QueueInv'
    BY <1>5, PostReviewKeeps, ReviewAssumption
  <1>6. ASSUME NEW m \in Tab, NEW entered \in [DOMAIN tab[m].form -> Val],
               EditPost(m, entered)
        PROVE  QueueInv'
    BY <1>6, EditPostKeeps
  <1>7. ASSUME NEW m \in Tab,
               \/ Approve(m) \/ Reject(m) \/ Resolve(m) \/ ReplyAndClose(m)
               \/ Reply(m) \/ EditRender(m) \/ EditFreeze(m)
        PROVE  QueueInv'
    <2>1. CASE Reject(m)
      BY <2>1, SettleKeeps DEF Reject
    <2>2. CASE Resolve(m)
      BY <2>2, SettleKeeps DEF Resolve
    <2>3. CASE ReplyAndClose(m)
      BY <2>3, SettleKeeps DEF ReplyAndClose
    <2> QED
      BY <1>7, <2>1, <2>2, <2>3, ApproveKeeps, ReplyKeeps, EditRenderKeeps, EditFreezeKeeps
  <1>8. CASE \E f \in Field, v \in Val : Sync(f, v)
    BY <1>8, SyncKeeps
  <1> QED
    BY <1>1, <1>2, <1>3, <1>4, <1>5, <1>6, <1>7, <1>8, BotWriteKeeps, StutterKeeps DEF Next

\* The queue's inductive invariant: its types, and that what each process holds
\* still fits the rows it will write.
THEOREM QueueInvariant == Spec => []QueueInv
  <1> QED
    BY InitInv, NextInv, PTL DEF Spec

\* Every approved request froze what its maintainer had on the page, on the live
\* values shown there.
THEOREM EndorsementsReviewed == Spec => []EndorsedAsReviewed
  <1>1. QueueInv => EndorsedAsReviewed
    BY DEF QueueInv, RequestOK, EndorsedAsReviewed
  <1> QED
    BY <1>1, QueueInvariant, PTL

\* A request has its bridge row exactly when its frozen diff is bridgeable.
THEOREM FreezesQueued == Spec => []QueuedTogether
  <1>1. QueueInv => QueuedTogether
    BY DEF QueueInv, RequestOK, QueuedTogether
  <1> QED
    BY <1>1, QueueInvariant, PTL

-----------------------------------------------------------------------------
(* What a step may do to a row already there.                              *)

DecisionKept(r) ==
    requests[r].status # "pending" =>
      /\ requests'[r].applied = requests[r].applied
      /\ requests'[r].base = requests[r].base
      /\ requests'[r].status # requests[r].status =>
           requests[r].status = "approved" /\ requests'[r].status = "resolved"
NotesKept(r) ==
    requests[r].status = "pending" /\ requests'[r].status = "pending"
      => requests[r].notes \subseteq requests'[r].notes
RowKept(r) == DecisionKept(r) /\ NotesKept(r)

LEMMA OthersKept ==
  ASSUME TypeOK, NEW r \in Request, NEW q, requests' = [requests EXCEPT ![r] = q],
         RowKept(r)
  PROVE  \A s \in Request : RowKept(s)
  <1>1. \A s \in Request : s # r => requests'[s] = requests[s]
    BY DEF TypeOK, Request
  <1> QED
    BY <1>1 DEF RowKept, DecisionKept, NotesKept

LEMMA NothingKept ==
  ASSUME \/ UNCHANGED requests
         \/ TypeOK /\ \E q : requests' = Append(requests, q)
  PROVE  \A r \in Request : RowKept(r)
  <1>1. \A r \in Request : requests'[r] = requests[r]
    BY DEF TypeOK, Request
  <1> QED
    BY <1>1 DEF RowKept, DecisionKept, NotesKept

LEMMA EditorsKeepRows ==
  ASSUME QueueInv,
         (\E p \in Post : ProposeSave(p)) \/ (\E r \in Request : DayPasses(r))
  PROVE  \A r \in Request : RowKept(r)
  <1>1. ASSUME NEW r \in Request, NEW q, requests' = [requests EXCEPT ![r] = q],
               q.status = requests[r].status, q.notes = requests[r].notes,
               q.applied = requests[r].applied, q.base = requests[r].base
        PROVE  \A s \in Request : RowKept(s)
    <2>1. requests'[r] = q
      BY <1>1 DEF QueueInv, TypeOK, Request
    <2>2. RowKept(r)
      BY <1>1, <2>1 DEF RowKept, DecisionKept, NotesKept
    <2> QED
      BY <1>1, <2>2, OthersKept DEF QueueInv
  <1>2. ASSUME NEW p \in Post, ProposeSave(p) PROVE \A s \in Request : RowKept(s)
    <2>1. CASE post[p].existing = 0
      BY <1>2, <2>1, NothingKept DEF ProposeSave, QueueInv
    <2>2. CASE post[p].existing # 0
      <3>1. PICK r : r = post[p].existing
        OBVIOUS
      <3>2. r \in Request
        <4>1. r \in 0..Len(requests)
          BY <1>2, <3>1 DEF ProposeSave, QueueInv, PostOK
        <4>2. Len(requests) \in Nat
          BY DEF QueueInv, TypeOK
        <4> QED
          BY <2>2, <3>1, <4>1, <4>2 DEF Request
      <3>3. requests[r] \in RequestType
        BY <3>2, RequestTyped DEF QueueInv
      <3>4. PICK q : q = [requests[r] EXCEPT !.payload = post[p].payload, !.today = TRUE]
        OBVIOUS
      <3>5. requests' = [requests EXCEPT ![r] = q]
        BY <1>2, <2>2, <3>1, <3>4 DEF ProposeSave
      <3>6. /\ q.status = requests[r].status /\ q.notes = requests[r].notes
            /\ q.applied = requests[r].applied /\ q.base = requests[r].base
        BY <3>3, <3>4 DEF RequestType
      <3> QED
        BY <1>1, <3>2, <3>5, <3>6
    <2> QED
      BY <2>1, <2>2
  <1>3. ASSUME NEW r \in Request, DayPasses(r) PROVE \A s \in Request : RowKept(s)
    <2>1. requests[r] \in RequestType
      BY RequestTyped DEF QueueInv
    <2>2. PICK q : q = [requests[r] EXCEPT !.today = FALSE]
      OBVIOUS
    <2>3. requests' = [requests EXCEPT ![r] = q]
      BY <1>3, <2>2 DEF DayPasses
    <2>4. /\ q.status = requests[r].status /\ q.notes = requests[r].notes
          /\ q.applied = requests[r].applied /\ q.base = requests[r].base
      BY <2>1, <2>2 DEF RequestType
    <2> QED
      BY <1>1, <2>3, <2>4
  <1> QED
    BY <1>2, <1>3

LEMMA MaintainersKeepRows ==
  ASSUME QueueInv, NEW m \in Tab,
         \/ Approve(m) \/ Reject(m) \/ Resolve(m) \/ ReplyAndClose(m)
         \/ Reply(m) \/ EditFreeze(m)
  PROVE  \A r \in Request : RowKept(r)
  <1>1. PICK r : r = tab[m].cr
    OBVIOUS
  <1>2. ASSUME tab[m].pc = "loaded", tab[m].action # "edit"
        PROVE  r \in Request /\ requests[r] \in RequestType
    <2>1. r \in Request
      BY <1>1, <1>2 DEF QueueInv, PageOK
    <2> QED
      BY <2>1, RequestTyped DEF QueueInv
  <1>3. CASE UNCHANGED requests
    BY <1>3, NothingKept
  <1>4. CASE EditFreeze(m)
    BY <1>4, NothingKept DEF EditFreeze, QueueInv
  <1>5. CASE Approve(m) /\ Endorsable(m)
    <2>1. r \in Request /\ requests[r] \in RequestType /\ requests[r].status = "pending"
      BY <1>1, <1>2, <1>5 DEF Approve, Loaded, Endorsable
    <2>2. PICK q : q = [requests[r] EXCEPT !.status = "approved", !.by = m,
                          !.notes = MergedNotes(m), !.applied = tab[m].applied,
                          !.base = CapturedBase(tab[m].applied)]
      OBVIOUS
    <2>3. requests' = [requests EXCEPT ![r] = q] /\ q.status = "approved"
      BY <1>1, <1>5, <2>1, <2>2 DEF Approve, RequestType
    <2>4. requests'[r] = q
      BY <2>1, <2>3 DEF QueueInv, TypeOK, Request
    <2>5. RowKept(r)
      BY <2>1, <2>3, <2>4 DEF RowKept, DecisionKept, NotesKept
    <2> QED
      BY <2>1, <2>3, <2>5, OthersKept DEF QueueInv
  <1>6. ASSUME NEW a \in {"reject", "resolve", "reply_and_close"}, NEW from,
               NEW to \in {"rejected", "resolved"}, Settle(m, a, from, to),
               from = {"pending"} \/ (from = {"pending", "approved"} /\ to = "resolved"),
               requests[r].status \in from
        PROVE  \A s \in Request : RowKept(s)
    <2>1. r \in Request /\ requests[r] \in RequestType
      BY <1>2, <1>6 DEF Settle, Loaded
    <2>2. PICK q : q = [requests[r] EXCEPT !.status = to, !.by = m, !.notes = MergedNotes(m)]
      OBVIOUS
    <2>3. requests' = [requests EXCEPT ![r] = q]
      BY <1>1, <1>6, <2>2 DEF Settle
    <2>4. /\ q.status = to /\ q.applied = requests[r].applied /\ q.base = requests[r].base
      BY <2>1, <2>2 DEF RequestType
    <2>5. requests'[r] = q
      BY <2>1, <2>3 DEF QueueInv, TypeOK, Request
    <2>6. RowKept(r)
      BY <1>6, <2>4, <2>5 DEF RowKept, DecisionKept, NotesKept
    <2> QED
      BY <2>1, <2>3, <2>6, OthersKept DEF QueueInv
  <1>7. CASE Reply(m) /\ requests[r].status = "pending"
    <2>1. r \in Request /\ requests[r] \in RequestType
      BY <1>2, <1>7 DEF Reply, Loaded
    <2>2. PICK q : q = [requests[r] EXCEPT !.notes = @ \cup {m}]
      OBVIOUS
    <2>3. requests' = [requests EXCEPT ![r] = q]
      BY <1>1, <1>7, <2>2 DEF Reply
    <2>4. q.status = requests[r].status /\ requests[r].notes \subseteq q.notes
      BY <2>1, <2>2 DEF RequestType
    <2>5. requests'[r] = q
      BY <2>1, <2>3 DEF QueueInv, TypeOK, Request
    <2>6. RowKept(r)
      BY <1>7, <2>4, <2>5 DEF RowKept, DecisionKept, NotesKept
    <2> QED
      BY <2>1, <2>3, <2>6, OthersKept DEF QueueInv
  <1>8. CASE Reject(m)
    BY <1>1, <1>3, <1>6, <1>8 DEF Reject, Settle
  <1>9. CASE Resolve(m)
    BY <1>1, <1>3, <1>6, <1>9 DEF Resolve, Settle
  <1>10. CASE ReplyAndClose(m)
    BY <1>1, <1>3, <1>6, <1>10 DEF ReplyAndClose, Settle
  <1>11. CASE Approve(m) /\ ~Endorsable(m)
    BY <1>3, <1>11 DEF Approve
  <1>12. CASE Reply(m) /\ requests[r].status # "pending"
    BY <1>1, <1>3, <1>12 DEF Reply
  <1> QED
    BY <1>4, <1>5, <1>7, <1>8, <1>9, <1>10, <1>11, <1>12

LEMMA BotKeepsRows ==
  ASSUME QueueInv, BotWrite
  PROVE  \A r \in Request : RowKept(r)
  <1>1. PICK r : r = bot.cr
    OBVIOUS
  <1>2. r \in Request /\ Queued(r)
    BY <1>1 DEF BotWrite, QueueInv, BotOK
  <1>3. requests[r] \in RequestType /\ QueuedWithFreeze(r)
    BY <1>2, RequestTyped DEF QueueInv, RequestOK
  <1>4. PICK q : q = [requests[r] EXCEPT !.status = "resolved",
                                         !.notes = bot.earlier \cup {Deployer}]
    OBVIOUS
  <1>5. /\ requests' = [requests EXCEPT ![r] = q]
        /\ q.status = "resolved" /\ q.applied = requests[r].applied
        /\ q.base = requests[r].base
    BY <1>1, <1>3, <1>4 DEF BotWrite, RequestType
  <1>6. requests'[r] = q
    BY <1>2, <1>5 DEF QueueInv, TypeOK, Request
  <1>7. requests[r].status \in {"approved", "resolved"}
    BY <1>2, <1>3 DEF QueuedWithFreeze, RequestType, Status
  <1>8. RowKept(r)
    BY <1>5, <1>6, <1>7 DEF RowKept, DecisionKept, NotesKept
  <1> QED
    BY <1>2, <1>5, <1>8, OthersKept DEF QueueInv

LEMMA StepKeepsRows == QueueInv /\ [Next]_vars => \A r \in Request : RowKept(r)
  <1> SUFFICES ASSUME QueueInv, [Next]_vars PROVE \A r \in Request : RowKept(r)
    OBVIOUS
  <1>1. CASE UNCHANGED requests
    BY <1>1, NothingKept
  <1>2. CASE \E p \in Post, e \in Editor, x \in 0..Len(requests), d \in Diff :
               ProposeLoad(p, e, x, d)
    BY <1>1, <1>2 DEF ProposeLoad
  <1>3. CASE \E r \in Request : DayPasses(r) \/ BotLoad(r)
    BY <1>1, <1>3, EditorsKeepRows DEF BotLoad
  <1>4. CASE \E m \in Tab, r \in Request : Render(m, r)
    BY <1>1, <1>4 DEF Render
  <1>5. CASE \E m \in Tab : \E entered \in [DOMAIN tab[m].form -> Val] :
               \/ \E a \in Action \ {"edit"}, note \in NoteChoice :
                    PostReview(m, a, entered, note)
               \/ EditPost(m, entered)
    BY <1>1, <1>5 DEF PostReview, EditPost
  <1>6. CASE \E m \in Tab : \/ Approve(m) \/ Reject(m) \/ Resolve(m) \/ ReplyAndClose(m)
                            \/ Reply(m) \/ EditRender(m) \/ EditFreeze(m)
    BY <1>1, <1>6, MaintainersKeepRows DEF EditRender
  <1>7. CASE \E f \in Field, v \in Val : Sync(f, v)
    BY <1>1, <1>7 DEF Sync
  <1>8. CASE UNCHANGED vars
    BY <1>1, <1>8 DEF vars
  <1> QED
    BY <1>2, <1>3, <1>4, <1>5, <1>6, <1>7, <1>8, EditorsKeepRows, BotKeepsRows DEF Next

\* A request is decided once, and what it froze stays frozen.
THEOREM DecisionsFinal == Spec => DecidedOnce
  <1>1. QueueInv /\ [Next]_vars
          => [\A r \in Request : requests[r].status # "pending" =>
                /\ requests'[r].applied = requests[r].applied
                /\ requests'[r].base = requests[r].base
                /\ requests'[r].status # requests[r].status =>
                     requests[r].status = "approved" /\ requests'[r].status = "resolved"]_vars
    BY StepKeepsRows DEF RowKept, DecisionKept
  <1> QED
    BY <1>1, QueueInvariant, PTL DEF Spec, DecidedOnce

\* No reply to a pending request is overwritten while it stays pending.
THEOREM PendingThreadGrows == Spec => RepliesKept
  <1>1. QueueInv /\ [Next]_vars
          => [\A r \in Request :
                requests[r].status = "pending" /\ requests'[r].status = "pending"
                  => requests[r].notes \subseteq requests'[r].notes]_vars
    BY StepKeepsRows DEF RowKept, NotesKept
  <1> QED
    BY <1>1, QueueInvariant, PTL DEF Spec, RepliesKept

-----------------------------------------------------------------------------
(* The daily cap and the one-pending rule.                                 *)

LEMMA RowsFinite ==
  ASSUME NEW n \in Nat, NEW S \in SUBSET (1..n)
  PROVE  IsFiniteSet(S) /\ Cardinality(S) \in Nat
  <1>1. 1 \in Int /\ n \in Int
    OBVIOUS
  <1>2. IsFiniteSet(1..n)
    BY <1>1, FS_Interval
  <1> QED
    BY <1>2, FS_Subset, FS_CardinalityType

LEMMA PostsFinite ==
  /\ Cardinality(Post) \in Nat
  /\ \A S \in SUBSET Post : /\ IsFiniteSet(S) /\ Cardinality(S) \in Nat
                            /\ Cardinality(S) <= Cardinality(Post)
  BY ReviewAssumption, FS_Subset, FS_CardinalityType

\* Nothing that counts for editor e became more.
LEMMA NoMore ==
  ASSUME TypeOK, NEW e, RaceOK(e), Len(requests') \in Nat,
         Counted(e)' \subseteq Counted(e), Inserting(e)' \subseteq Inserting(e),
         Pending(e)' \subseteq Pending(e)
  PROVE  RaceOK(e)'
  <1>1. Len(requests) \in Nat
    BY DEF TypeOK
  <1>2. /\ Counted(e) \in SUBSET (1..Len(requests)) /\ Pending(e) \in SUBSET (1..Len(requests))
        /\ Inserting(e) \in SUBSET Post
    BY DEF Counted, Pending, Inserting, Request
  <1>3. /\ IsFiniteSet(Counted(e)) /\ Cardinality(Counted(e)) \in Nat
        /\ IsFiniteSet(Pending(e)) /\ Cardinality(Pending(e)) \in Nat
        /\ IsFiniteSet(Inserting(e)) /\ Cardinality(Inserting(e)) \in Nat
    BY <1>1, <1>2, RowsFinite, PostsFinite
  <1>4. /\ Cardinality(Counted(e)') <= Cardinality(Counted(e))
        /\ Cardinality(Pending(e)') <= Cardinality(Pending(e))
        /\ Cardinality(Inserting(e)') <= Cardinality(Inserting(e))
    BY <1>3, FS_Subset
  <1>5. /\ Cardinality(Counted(e)') \in Nat /\ Cardinality(Pending(e)') \in Nat
        /\ Cardinality(Inserting(e)') \in Nat
    BY <1>3, FS_Subset, FS_CardinalityType
  <1> HIDE DEF Counted, Pending, Inserting
  <1> QED
    BY <1>3, <1>4, <1>5, PostsFinite, ReviewAssumption DEF RaceOK

\* A step of anyone but an editor: no row becomes an editor's, pending or of
\* today, and no POST of an editor moves.
Calm(r) ==
    \/ requests'[r].editor \notin Editor
    \/ /\ r \in Request
       /\ requests'[r].editor = requests[r].editor
       /\ requests'[r].today => requests[r].today
       /\ requests'[r].status = "pending" => requests[r].status = "pending"

LEMMA CalmStep ==
  ASSUME TypeOK, RaceInv, Len(requests') \in Nat, UNCHANGED post,
         \A r \in Request' : Calm(r)
  PROVE  RaceInv'
  <1> SUFFICES ASSUME NEW e \in Editor PROVE RaceOK(e)'
    BY DEF RaceInv
  <1>1. Counted(e)' \subseteq Counted(e)
    BY DEF Counted, Calm
  <1>2. Pending(e)' \subseteq Pending(e)
    BY DEF Pending, Calm
  <1>3. Inserting(e)' = Inserting(e)
    BY DEF Inserting
  <1> QED
    BY <1>1, <1>2, <1>3, NoMore DEF RaceInv

LEMMA CalmRow ==
  ASSUME TypeOK, RaceInv, UNCHANGED post, NEW r \in Request, NEW q,
         requests' = [requests EXCEPT ![r] = q],
         q.editor = requests[r].editor, q.today => requests[r].today,
         q.status = "pending" => requests[r].status = "pending"
  PROVE  RaceInv'
  <1>1. Len(requests') \in Nat /\ Request' = Request /\ requests'[r] = q
    BY DEF TypeOK, Request
  <1>2. \A s \in Request : s # r => requests'[s] = requests[s]
    BY DEF TypeOK, Request
  <1>3. \A s \in Request' : Calm(s)
    BY <1>1, <1>2 DEF Calm
  <1> QED
    BY <1>1, <1>3, CalmStep

LEMMA NothingRace ==
  ASSUME TypeOK, RaceInv, UNCHANGED <<requests, post>>
  PROVE  RaceInv'
  <1>1. Len(requests') \in Nat /\ Request' = Request
    BY DEF TypeOK, Request
  <1>2. \A r \in Request' : Calm(r)
    BY <1>1 DEF Calm
  <1> QED
    BY <1>1, <1>2, CalmStep

LEMMA LoadRace ==
  ASSUME QueueInv, RaceInv, NEW p \in Post, NEW e \in Editor, NEW x \in 0..Len(requests),
         NEW d \in Diff, ProposeLoad(p, e, x, d)
  PROVE  RaceInv'
  <1>1. TypeOK /\ Len(requests) \in Nat
    BY DEF QueueInv, TypeOK
  <1>2. /\ UNCHANGED requests /\ post[p].pc = "idle" /\ MayPropose(e, x)
        /\ post'[p].pc = "loaded" /\ post'[p].editor = e /\ post'[p].existing = x
        /\ \A q \in Post : q # p => post'[q] = post[q]
    BY <1>1 DEF ProposeLoad, TypeOK
  <1>3. ASSUME NEW g \in Editor PROVE Pending(g)' = Pending(g)
    BY <1>2 DEF Pending, Request
  <1>4. ASSUME NEW g \in Editor PROVE Counted(g)' \subseteq Counted(g)
    <2> SUFFICES ASSUME NEW r \in Counted(g)' PROVE r \in Counted(g)
      OBVIOUS
    <2>1. r \in Request /\ requests[r].editor = g /\ r \in Nat \ {0}
      BY <1>1, <1>2 DEF Counted, Request
    <2>2. CASE requests[r].today \/ requests[r].status = "pending"
      BY <2>1, <2>2 DEF Counted
    <2>3. CASE \E q \in Post : post'[q].pc = "loaded" /\ post'[q].existing = r
      <3>1. PICK q \in Post : post'[q].pc = "loaded" /\ post'[q].existing = r
        BY <2>3
      <3>2. CASE q = p
        <4>1. x = r
          BY <1>2, <3>1, <3>2
        <4>2. r \in Pending(e)
          BY <1>2, <2>1, <4>1 DEF MayPropose
        <4> QED
          BY <2>1, <4>2 DEF Pending, Counted
      <3>3. CASE q # p
        BY <1>2, <2>1, <3>1, <3>3 DEF Counted
      <3> QED
        BY <3>2, <3>3
    <2> QED
      BY <1>2, <2>2, <2>3 DEF Counted
  <1>5. ASSUME NEW g \in Editor, g # e \/ x # 0 PROVE RaceOK(g)'
    <2>1. Inserting(g)' \subseteq Inserting(g)
      BY <1>2, <1>5 DEF Inserting
    <2> QED
      BY <1>1, <1>2, <1>3, <1>4, <2>1, NoMore DEF RaceInv
  <1>6. CASE x = 0
    <2> DEFINE Others == {q \in Post : post[q].pc = "loaded" /\ post[q].existing # 0}
               Held == {post[q].existing : q \in Others}
    <2>1. Pending(e) = {} /\ Cardinality(SubmittedToday(e)) < DailyCap
      BY <1>1, <1>2, <1>6 DEF MayPropose, Pending, Request
    <2>2. Inserting(e)' = Inserting(e) \cup {p}
      BY <1>2, <1>6 DEF Inserting
    <2>3. Others \cap (Inserting(e) \cup {p}) = {} /\ Others \cup (Inserting(e) \cup {p}) \in SUBSET Post
          /\ Others \in SUBSET Post /\ Inserting(e) \cup {p} \in SUBSET Post
      BY <1>2 DEF Inserting
    <2>4. Counted(e) \subseteq SubmittedToday(e) \cup Held
      <3> SUFFICES ASSUME NEW r \in Counted(e), r \notin SubmittedToday(e) PROVE r \in Held
        OBVIOUS
      <3>1. r \in Request /\ requests[r].editor = e /\ r # 0
        BY <1>1 DEF Counted, Request
      <3>2. ~ requests[r].today /\ requests[r].status # "pending"
        BY <2>1, <3>1 DEF SubmittedToday, Pending
      <3>3. PICK q \in Post : post[q].pc = "loaded" /\ post[q].existing = r
        BY <3>2 DEF Counted
      <3> QED
        BY <3>1, <3>3
    <2>5. IsFiniteSet(Held) /\ Cardinality(Held) <= Cardinality(Others) /\ Cardinality(Held) \in Nat
      <3> DEFINE f == [q \in Others |-> post[q].existing]
      <3>1. f \in Surjection(Others, Held)
        BY DEF Surjection
      <3>2. IsFiniteSet(Others)
        BY <2>3, PostsFinite
      <3> QED
        BY <3>1, <3>2, FS_Surjection, FS_CardinalityType
    <2> HIDE DEF Others, Held
    <2>6. IsFiniteSet(Others) /\ IsFiniteSet(Inserting(e) \cup {p})
          /\ Cardinality(Others) \in Nat /\ Cardinality(Inserting(e) \cup {p}) \in Nat
      BY <2>3, PostsFinite
    <2>7. Cardinality(Others) + Cardinality(Inserting(e) \cup {p}) <= Cardinality(Post)
      <3>1. Cardinality(Others \cup (Inserting(e) \cup {p}))
              = Cardinality(Others) + Cardinality(Inserting(e) \cup {p}) - Cardinality({})
        BY <2>3, <2>6, FS_Union
      <3> QED
        BY <2>3, <2>6, <3>1, PostsFinite, FS_EmptySet
    <2>8. /\ IsFiniteSet(SubmittedToday(e)) /\ Cardinality(SubmittedToday(e)) \in Nat
      <3>1. SubmittedToday(e) \in SUBSET (1..Len(requests))
        BY DEF SubmittedToday, Request
      <3> QED
        BY <1>1, <3>1, RowsFinite
    <2>9. Cardinality(Counted(e)') <= Cardinality(SubmittedToday(e)) + Cardinality(Held)
          /\ Cardinality(Counted(e)') \in Nat
      <3>1. Counted(e)' \in SUBSET (SubmittedToday(e) \cup Held)
        BY <1>4, <2>4
      <3>2. /\ IsFiniteSet(SubmittedToday(e) \cup Held)
            /\ Cardinality(SubmittedToday(e) \cup Held)
                 = Cardinality(SubmittedToday(e)) + Cardinality(Held)
                   - Cardinality(SubmittedToday(e) \cap Held)
        BY <2>5, <2>8, FS_Union
      <3>3. Cardinality(SubmittedToday(e) \cap Held) \in Nat
        BY <2>5, FS_Intersection, FS_CardinalityType
      <3>4. Cardinality(Counted(e)') <= Cardinality(SubmittedToday(e) \cup Held)
            /\ Cardinality(Counted(e)') \in Nat
        BY <3>1, <3>2, FS_Subset, FS_CardinalityType
      <3> QED
        BY <2>5, <2>8, <3>2, <3>3, <3>4
    <2>10. Pending(e)' = {}
      BY <1>3, <2>1
    <2>11. Cardinality(Pending(e)') = 0
      BY <2>10, FS_EmptySet
    <2>12. RaceOK(e)'
      <3>1. DailyCap \in Nat
        BY ReviewAssumption
      <3> QED
        BY <2>1, <2>2, <2>5, <2>6, <2>7, <2>8, <2>9, <2>11, <3>1, PostsFinite DEF RaceOK
    <2> QED
      BY <1>5, <2>12 DEF RaceInv
  <1> QED
    BY <1>5, <1>6 DEF RaceInv

LEMMA SaveRace ==
  ASSUME QueueInv, RaceInv, NEW p \in Post, ProposeSave(p)
  PROVE  RaceInv'
  <1>1. TypeOK /\ Len(requests) \in Nat /\ post[p].pc = "loaded"
        /\ post[p].editor \in Editor /\ post[p].existing \in 0..Len(requests)
    BY DEF QueueInv, TypeOK, PostOK, ProposeSave
  <1>2. /\ post'[p].pc = "idle"
        /\ \A q \in Post : q # p => post'[q] = post[q]
    BY <1>1 DEF ProposeSave, TypeOK, IdlePost
  <1>3. ASSUME NEW g \in Editor PROVE Inserting(g)' = Inserting(g) \ {p}
    BY <1>2 DEF Inserting
  <1>4. CASE post[p].existing # 0
    <2>1. PICK r : r = post[p].existing
      OBVIOUS
    <2>2. r \in Request
      BY <1>1, <1>4, <2>1 DEF Request
    <2>3. requests[r] \in RequestType
      BY <1>1, <2>2, RequestTyped
    <2>4. PICK v : v = [requests[r] EXCEPT !.payload = post[p].payload, !.today = TRUE]
      OBVIOUS
    <2>5. requests' = [requests EXCEPT ![r] = v] /\ v.editor = requests[r].editor
          /\ v.status = requests[r].status
      BY <1>4, <2>1, <2>3, <2>4 DEF ProposeSave, RequestType
    <2>6. Request' = Request /\ requests'[r] = v /\ Len(requests') \in Nat
      BY <1>1, <2>2, <2>5 DEF TypeOK, Request
    <2>7. \A s \in Request : s # r => requests'[s] = requests[s]
      BY <1>1, <2>2, <2>5 DEF TypeOK, Request
    <2> SUFFICES ASSUME NEW g \in Editor PROVE RaceOK(g)'
      BY DEF RaceInv
    <2>8. Pending(g)' \subseteq Pending(g)
      BY <2>5, <2>6, <2>7 DEF Pending
    <2>9. Counted(g)' \subseteq Counted(g)
      <3> SUFFICES ASSUME NEW s \in Counted(g)' PROVE s \in Counted(g)
        OBVIOUS
      <3>1. s \in Request /\ requests[s].editor = g
        BY <2>5, <2>6, <2>7 DEF Counted
      <3>2. CASE s = r
        BY <1>1, <2>1, <3>1, <3>2 DEF Counted
      <3>3. CASE s # r
        <4>1. requests'[s] = requests[s]
          BY <2>7, <3>1, <3>3
        <4>2. \A q \in Post : post'[q].pc = "loaded" => post'[q] = post[q]
          BY <1>2
        <4> QED
          BY <3>1, <4>1, <4>2 DEF Counted
      <3> QED
        BY <3>2, <3>3
    <2> QED
      BY <1>1, <1>3, <2>6, <2>8, <2>9, NoMore DEF RaceInv
  <1>5. CASE post[p].existing = 0
    <2>1. PICK n : n = Len(requests) + 1
      OBVIOUS
    <2>2. PICK v : v = NewRequest(post[p].editor, "pending", NoTab, post[p].payload, Empty, Empty)
      OBVIOUS
    <2>3. requests' = Append(requests, v) /\ v.editor = post[p].editor
      BY <1>5, <2>2 DEF ProposeSave, NewRequest
    <2>4. /\ requests'[n] = v /\ Len(requests') \in Nat /\ Request' = Request \cup {n}
          /\ n \notin Request
          /\ \A s \in Request : requests'[s] = requests[s]
      BY <1>1, <2>1, <2>3 DEF TypeOK, Request
    <2>5. \A q \in Post : post'[q].pc = "loaded" => post'[q] = post[q]
      BY <1>2
    <2>6. ASSUME NEW g \in Editor
          PROVE  /\ Counted(g)' \subseteq Counted(g) \cup {n}
                 /\ Pending(g)' \subseteq Pending(g) \cup {n}
                 /\ g # v.editor => n \notin Counted(g)' /\ n \notin Pending(g)'
      <3>1. Pending(g)' \subseteq Pending(g) \cup {n}
        BY <2>4 DEF Pending
      <3>2. Counted(g)' \subseteq Counted(g) \cup {n}
        BY <2>4, <2>5 DEF Counted
      <3>3. g # v.editor => n \notin Counted(g)' /\ n \notin Pending(g)'
        BY <2>4 DEF Counted, Pending
      <3> QED
        BY <3>1, <3>2, <3>3
    <2>7. ASSUME NEW g \in Editor, g # v.editor PROVE RaceOK(g)'
      BY <1>1, <1>3, <2>4, <2>6, <2>7, NoMore DEF RaceInv
    <2>8. RaceOK(v.editor)'
      <3>1. PICK e \in Editor : e = v.editor
        BY <1>1, <2>3
      <3>2. p \in Inserting(e)
        BY <1>1, <1>5, <2>3, <3>1 DEF Inserting
      <3>3. /\ Counted(e) \in SUBSET (1..Len(requests)) /\ Pending(e) \in SUBSET (1..Len(requests))
            /\ Inserting(e) \in SUBSET Post
        BY DEF Counted, Pending, Inserting, Request
      <3>4. /\ IsFiniteSet(Counted(e)) /\ Cardinality(Counted(e)) \in Nat
            /\ IsFiniteSet(Pending(e)) /\ Cardinality(Pending(e)) \in Nat
            /\ IsFiniteSet(Inserting(e)) /\ Cardinality(Inserting(e)) \in Nat
        BY <1>1, <3>3, RowsFinite, PostsFinite
      <3>5. Cardinality(Inserting(e)') = Cardinality(Inserting(e)) - 1
        BY <1>3, <3>2, <3>4, FS_RemoveElement
      <3>6. n \notin Counted(e) /\ n \notin Pending(e)
        BY <2>4 DEF Counted, Pending
      <3>7. /\ IsFiniteSet(Counted(e) \cup {n}) /\ IsFiniteSet(Pending(e) \cup {n})
            /\ Cardinality(Counted(e) \cup {n}) = Cardinality(Counted(e)) + 1
            /\ Cardinality(Pending(e) \cup {n}) = Cardinality(Pending(e)) + 1
        BY <3>4, <3>6, FS_AddElement
      <3>8. /\ Cardinality(Counted(e)') <= Cardinality(Counted(e)) + 1
            /\ Cardinality(Pending(e)') <= Cardinality(Pending(e)) + 1
            /\ Cardinality(Counted(e)') \in Nat /\ Cardinality(Pending(e)') \in Nat
        BY <2>6, <3>7, FS_Subset, FS_CardinalityType
      <3>9. RaceOK(e)
        BY DEF RaceInv
      <3> QED
        BY <3>1, <3>4, <3>5, <3>8, <3>9, PostsFinite, ReviewAssumption DEF RaceOK
    <2> QED
      BY <2>7, <2>8 DEF RaceInv
  <1> QED
    BY <1>4, <1>5
LEMMA SettleRace ==
  ASSUME QueueInv, RaceInv, NEW m \in Tab, NEW a \in Action \ {"edit"}, NEW from,
         NEW to \in {"rejected", "resolved"}, Settle(m, a, from, to)
  PROVE  RaceInv'
  <1>1. PICK r : r = tab[m].cr
    OBVIOUS
  <1>2. r \in Request /\ requests[r] \in RequestType /\ TypeOK
    BY <1>1, RequestTyped DEF QueueInv, PageOK, Settle, Loaded
  <1>3. CASE requests[r].status \in from
    <2>1. PICK q : q = [requests[r] EXCEPT !.status = to, !.by = m, !.notes = MergedNotes(m)]
      OBVIOUS
    <2>2. q.editor = requests[r].editor /\ q.today = requests[r].today /\ q.status # "pending"
      BY <1>2, <2>1 DEF RequestType
    <2>3. requests' = [requests EXCEPT ![r] = q]
      BY <1>1, <1>3, <2>1 DEF Settle
    <2> QED
      BY <1>2, <2>2, <2>3, CalmRow DEF Settle
  <1>4. CASE requests[r].status \notin from
    BY <1>1, <1>2, <1>4, NothingRace DEF Settle
  <1> QED
    BY <1>3, <1>4

LEMMA MaintainerRace ==
  ASSUME QueueInv, RaceInv, NEW m \in Tab,
         Approve(m) \/ Reply(m) \/ EditFreeze(m)
  PROVE  RaceInv'
  <1>1. PICK r : r = tab[m].cr
    OBVIOUS
  <1>2. TypeOK /\ UNCHANGED post
    BY DEF QueueInv, Approve, Reply, EditFreeze
  <1>3. ASSUME tab[m].pc = "loaded", tab[m].action # "edit"
        PROVE  r \in Request /\ requests[r] \in RequestType
    BY <1>1, <1>2, <1>3, RequestTyped DEF QueueInv, PageOK
  <1>4. CASE UNCHANGED requests
    BY <1>2, <1>4, NothingRace
  <1>5. CASE Approve(m) /\ Endorsable(m)
    <2>1. r \in Request /\ requests[r] \in RequestType
      BY <1>3, <1>5 DEF Approve, Loaded
    <2>2. PICK q : q = [requests[r] EXCEPT !.status = "approved", !.by = m,
                          !.notes = MergedNotes(m), !.applied = tab[m].applied,
                          !.base = CapturedBase(tab[m].applied)]
      OBVIOUS
    <2>3. requests' = [requests EXCEPT ![r] = q]
      BY <1>1, <1>5, <2>2 DEF Approve
    <2>4. q.editor = requests[r].editor /\ q.today = requests[r].today /\ q.status = "approved"
      BY <2>1, <2>2 DEF RequestType
    <2> QED
      BY <1>2, <2>1, <2>3, <2>4, CalmRow
  <1>6. CASE Reply(m) /\ requests[r].status = "pending"
    <2>1. r \in Request /\ requests[r] \in RequestType
      BY <1>3, <1>6 DEF Reply, Loaded
    <2>2. PICK q : q = [requests[r] EXCEPT !.notes = @ \cup {m}]
      OBVIOUS
    <2>3. requests' = [requests EXCEPT ![r] = q]
      BY <1>1, <1>6, <2>2 DEF Reply
    <2>4. q.editor = requests[r].editor /\ q.today = requests[r].today
      BY <2>1, <2>2 DEF RequestType
    <2> QED
      BY <1>2, <1>6, <2>1, <2>3, <2>4, CalmRow
  <1>7. CASE EditFreeze(m) /\ requests' # requests
    <2>1. PICK q : /\ requests' = Append(requests, q)
                   /\ q = NewRequest(NoEditor, "approved", m, tab[m].applied, tab[m].applied,
                                     CapturedBase(tab[m].applied))
      BY <1>7 DEF EditFreeze
    <2>2. q.editor = NoEditor
      BY <2>1 DEF NewRequest
    <2>3. /\ Len(requests') \in Nat /\ Request' = Request \cup {Len(requests) + 1}
          /\ requests'[Len(requests) + 1] = q
          /\ \A s \in Request : requests'[s] = requests[s]
      BY <1>2, <2>1 DEF TypeOK, Request
    <2>4. \A s \in Request' : Calm(s)
      BY <2>2, <2>3, ReviewAssumption DEF Calm
    <2> QED
      BY <1>2, <2>3, <2>4, CalmStep
  <1>8. CASE Approve(m) /\ ~Endorsable(m)
    BY <1>4, <1>8 DEF Approve
  <1>9. CASE Reply(m) /\ requests[r].status # "pending"
    BY <1>1, <1>4, <1>9 DEF Reply
  <1> QED
    BY <1>4, <1>5, <1>6, <1>7, <1>8, <1>9

LEMMA BotRace ==
  ASSUME QueueInv, RaceInv, BotWrite
  PROVE  RaceInv'
  <1>1. PICK r : r = bot.cr
    OBVIOUS
  <1>2. r \in Request /\ requests[r] \in RequestType /\ TypeOK
    BY <1>1, RequestTyped DEF BotWrite, QueueInv, BotOK
  <1>3. PICK q : q = [requests[r] EXCEPT !.status = "resolved",
                                         !.notes = bot.earlier \cup {Deployer}]
    OBVIOUS
  <1>4. requests' = [requests EXCEPT ![r] = q] /\ UNCHANGED post
    BY <1>1, <1>3 DEF BotWrite
  <1>5. q.editor = requests[r].editor /\ q.today = requests[r].today /\ q.status = "resolved"
    BY <1>2, <1>3 DEF RequestType
  <1> QED
    BY <1>2, <1>4, <1>5, CalmRow

LEMMA DayRace ==
  ASSUME QueueInv, RaceInv, NEW r \in Request, DayPasses(r)
  PROVE  RaceInv'
  <1>1. requests[r] \in RequestType /\ TypeOK
    BY RequestTyped DEF QueueInv
  <1>2. PICK q : q = [requests[r] EXCEPT !.today = FALSE]
    OBVIOUS
  <1>3. requests' = [requests EXCEPT ![r] = q] /\ UNCHANGED post
    BY <1>2 DEF DayPasses
  <1>4. q.editor = requests[r].editor /\ q.status = requests[r].status /\ q.today = FALSE
    BY <1>1, <1>2 DEF RequestType
  <1> QED
    BY <1>1, <1>3, <1>4, CalmRow

LEMMA RaceStep == QueueInv /\ RaceInv /\ [Next]_vars => RaceInv'
  <1> SUFFICES ASSUME QueueInv, RaceInv, [Next]_vars PROVE RaceInv'
    OBVIOUS
  <1>0. CASE UNCHANGED <<requests, post>>
    BY <1>0, NothingRace DEF QueueInv
  <1>1. CASE \E p \in Post, e \in Editor, x \in 0..Len(requests), d \in Diff :
               ProposeLoad(p, e, x, d)
    BY <1>1, LoadRace
  <1>2. CASE \E p \in Post : ProposeSave(p)
    BY <1>2, SaveRace
  <1>3. CASE \E r \in Request : DayPasses(r) \/ BotLoad(r)
    BY <1>0, <1>3, DayRace DEF BotLoad
  <1>4. CASE \E m \in Tab, r \in Request : Render(m, r)
    BY <1>0, <1>4 DEF Render
  <1>5. CASE \E m \in Tab : \E entered \in [DOMAIN tab[m].form -> Val] :
               \/ \E a \in Action \ {"edit"}, note \in NoteChoice :
                    PostReview(m, a, entered, note)
               \/ EditPost(m, entered)
    BY <1>0, <1>5 DEF PostReview, EditPost
  <1>6. ASSUME NEW m \in Tab,
               \/ Approve(m) \/ Reject(m) \/ Resolve(m) \/ ReplyAndClose(m)
               \/ Reply(m) \/ EditRender(m) \/ EditFreeze(m)
        PROVE  RaceInv'
    <2>1. CASE Reject(m)
      BY <2>1, SettleRace DEF Reject, Action
    <2>2. CASE Resolve(m)
      BY <2>2, SettleRace DEF Resolve, Action
    <2>3. CASE ReplyAndClose(m)
      BY <2>3, SettleRace DEF ReplyAndClose, Action
    <2>4. CASE EditRender(m)
      BY <1>0, <2>4 DEF EditRender
    <2> QED
      BY <1>6, <2>1, <2>2, <2>3, <2>4, MaintainerRace
  <1>7. CASE \E f \in Field, v \in Val : Sync(f, v)
    BY <1>0, <1>7 DEF Sync
  <1>8. CASE UNCHANGED vars
    BY <1>0, <1>8 DEF vars
  <1> QED
    BY <1>1, <1>2, <1>3, <1>4, <1>5, <1>6, <1>7, <1>8, BotRace DEF Next

LEMMA RaceBegins == Init => RaceInv
  <1> SUFFICES ASSUME Init, NEW e \in Editor PROVE RaceOK(e)
    BY DEF RaceInv
  <1>1. Request = {}
    BY DEF Init, Request
  <1>2. Counted(e) = {} /\ Pending(e) = {}
    BY <1>1 DEF Counted, Pending
  <1>3. Inserting(e) = {}
    BY DEF Inserting, Init, IdlePost
  <1> QED
    BY <1>2, <1>3, FS_EmptySet, PostsFinite, ReviewAssumption DEF RaceOK

\* However POSTs overlap, an editor exceeds the daily cap and the one pending
\* request by at most the number of POSTs in flight less one.
THEOREM RacesBounded == Spec => []RaceBounded
  <1>1. Spec => []RaceInv
    BY RaceBegins, RaceStep, QueueInvariant, PTL DEF Spec
  <1>2. QueueInv /\ RaceInv => RaceBounded
    <2> SUFFICES ASSUME QueueInv, RaceInv, NEW e \in Editor
                 PROVE  /\ Cardinality(SubmittedToday(e)) <= DailyCap + Cardinality(Post) - 1
                        /\ Cardinality(Pending(e)) <= Cardinality(Post)
      BY DEF RaceBounded
    <2>1. Len(requests) \in Nat
      BY DEF QueueInv, TypeOK
    <2>2. /\ SubmittedToday(e) \in SUBSET Counted(e) /\ Counted(e) \in SUBSET (1..Len(requests))
          /\ Pending(e) \in SUBSET (1..Len(requests)) /\ Inserting(e) \in SUBSET Post
      BY DEF SubmittedToday, Counted, Pending, Inserting, Request
    <2>3. /\ IsFiniteSet(Counted(e)) /\ Cardinality(Counted(e)) \in Nat
          /\ Cardinality(Pending(e)) \in Nat /\ Cardinality(Inserting(e)) \in Nat
      BY <2>1, <2>2, RowsFinite, PostsFinite
    <2>4. Cardinality(SubmittedToday(e)) \in Nat
          /\ Cardinality(SubmittedToday(e)) <= Cardinality(Counted(e))
      BY <2>2, <2>3, FS_Subset, FS_CardinalityType
    <2>5. RaceOK(e)
      BY DEF RaceInv
    <2> QED
      BY <2>3, <2>4, <2>5, PostsFinite, ReviewAssumption DEF RaceOK
  <1> QED
    BY <1>1, <1>2, QueueInvariant, PTL
-----------------------------------------------------------------------------
(* The refinement of Moderation.                                           *)

ModStatus == [i \in Ids |-> IF i \in Request THEN requests[i].status ELSE "none"]
ModFrozen == [i \in Ids |-> IF i \in Request THEN requests[i].applied ELSE Empty]
ModBase == [i \in Ids |-> IF i \in Request THEN requests[i].base ELSE Empty]

RowsBounded == Len(requests) <= MaxRequests
ModStep == Moderated!Next \/ UNCHANGED Moderated!vars

LEMMA CapturedReviewed ==
  ASSUME TypeOK, NEW d \in Diff
  PROVE  CapturedBase(d) = Moderated!ReviewedBase(d)
  <1>1. DOMAIN d \subseteq Field /\ DOMAIN live = Field
    BY DiffTyped, LiveTyped
  <1>2. CASE Bridgeable(d)
    <2>1. DOMAIN d \subseteq ReachField /\ DOMAIN live \cap DOMAIN d = DOMAIN d
      BY <1>1, <1>2 DEF Bridgeable, ReachField
    <2> QED
      BY <1>2, <2>1 DEF CapturedBase, Restriction, Moderated!ReviewedBase
  <1>3. CASE DOMAIN d = {}
    BY <1>3 DEF CapturedBase, Bridgeable, Moderated!ReviewedBase, Empty, Moderated!Empty
  <1>4. CASE Class \in DOMAIN d
    BY <1>4 DEF CapturedBase, Bridgeable, ReachField, Moderated!ReviewedBase, Empty, Moderated!Empty
  <1> QED
    BY <1>2, <1>3, <1>4 DEF Bridgeable

LEMMA ModStill ==
  ASSUME UNCHANGED requests, live' = live \/ live' \in [Field -> Val]
  PROVE  ModStep
  <1>1. ModStatus' = ModStatus /\ ModFrozen' = ModFrozen /\ ModBase' = ModBase
    BY DEF ModStatus, ModFrozen, ModBase, Request
  <1>2. CASE live' = live
    BY <1>1, <1>2 DEF ModStep, Moderated!vars, ModStatus, ModFrozen, ModBase
  <1>3. CASE live' \in [Field -> Val]
    BY <1>1, <1>3 DEF ModStep, Moderated!Next, Moderated!Deploy, ModStatus, ModFrozen, ModBase
  <1> QED
    BY <1>2, <1>3

LEMMA ModRow ==
  ASSUME TypeOK, RowsBounded, NEW r \in Request, NEW q, requests' = [requests EXCEPT ![r] = q]
  PROVE  /\ RowsBounded' /\ r \in Ids
         /\ ModStatus' = [ModStatus EXCEPT ![r] = q.status]
         /\ ModFrozen' = [ModFrozen EXCEPT ![r] = q.applied]
         /\ ModBase' = [ModBase EXCEPT ![r] = q.base]
         /\ ModStatus[r] = requests[r].status /\ ModFrozen[r] = requests[r].applied
         /\ ModBase[r] = requests[r].base
  <1>1. Len(requests) \in Nat /\ MaxRequests \in Nat
    BY ReviewAssumption DEF TypeOK
  <1>2. /\ Len(requests') = Len(requests) /\ Request' = Request /\ requests'[r] = q
        /\ \A s \in Request : s # r => requests'[s] = requests[s]
    BY DEF TypeOK, Request
  <1>3. r \in Ids
    BY <1>1 DEF RowsBounded, Request, Ids
  <1>4. \A i \in Ids :
          /\ ModStatus'[i] = IF i = r THEN q.status ELSE ModStatus[i]
          /\ ModFrozen'[i] = IF i = r THEN q.applied ELSE ModFrozen[i]
          /\ ModBase'[i] = IF i = r THEN q.base ELSE ModBase[i]
    BY <1>2 DEF ModStatus, ModFrozen, ModBase
  <1>5. /\ ModStatus' = [i \in Ids |-> ModStatus'[i]] /\ ModFrozen' = [i \in Ids |-> ModFrozen'[i]]
        /\ ModBase' = [i \in Ids |-> ModBase'[i]]
        /\ DOMAIN ModStatus = Ids /\ DOMAIN ModFrozen = Ids /\ DOMAIN ModBase = Ids
    BY DEF ModStatus, ModFrozen, ModBase
  <1>6. /\ ModStatus[r] = requests[r].status /\ ModFrozen[r] = requests[r].applied
        /\ ModBase[r] = requests[r].base
    BY <1>3 DEF ModStatus, ModFrozen, ModBase
  <1> HIDE DEF ModStatus, ModFrozen, ModBase
  <1> QED
    BY <1>2, <1>3, <1>4, <1>5, <1>6 DEF RowsBounded

LEMMA ModNew ==
  ASSUME TypeOK, Len(requests) < MaxRequests, NEW q, requests' = Append(requests, q),
         NEW n, n = Len(requests) + 1
  PROVE  /\ RowsBounded' /\ n \in Ids
         /\ ModStatus' = [ModStatus EXCEPT ![n] = q.status]
         /\ ModFrozen' = [ModFrozen EXCEPT ![n] = q.applied]
         /\ ModBase' = [ModBase EXCEPT ![n] = q.base]
         /\ ModStatus[n] = "none" /\ ModFrozen[n] = Empty /\ ModBase[n] = Empty
  <1>1. Len(requests) \in Nat /\ MaxRequests \in Nat
    BY ReviewAssumption DEF TypeOK
  <1>2. /\ Len(requests') = n /\ Request' = Request \cup {n} /\ requests'[n] = q
        /\ n \notin Request
        /\ \A s \in Request : requests'[s] = requests[s]
    BY <1>1 DEF TypeOK, Request
  <1>3. n \in Ids
    BY <1>1 DEF Ids
  <1>4. \A i \in Ids :
          /\ ModStatus'[i] = IF i = n THEN q.status ELSE ModStatus[i]
          /\ ModFrozen'[i] = IF i = n THEN q.applied ELSE ModFrozen[i]
          /\ ModBase'[i] = IF i = n THEN q.base ELSE ModBase[i]
    BY <1>2 DEF ModStatus, ModFrozen, ModBase
  <1>5. /\ ModStatus' = [i \in Ids |-> ModStatus'[i]] /\ ModFrozen' = [i \in Ids |-> ModFrozen'[i]]
        /\ ModBase' = [i \in Ids |-> ModBase'[i]]
        /\ DOMAIN ModStatus = Ids /\ DOMAIN ModFrozen = Ids /\ DOMAIN ModBase = Ids
    BY DEF ModStatus, ModFrozen, ModBase
  <1>6. ModStatus[n] = "none" /\ ModFrozen[n] = Empty /\ ModBase[n] = Empty
    BY <1>2, <1>3 DEF ModStatus, ModFrozen, ModBase
  <1>7. n <= MaxRequests
    BY <1>1
  <1> HIDE DEF ModStatus, ModFrozen, ModBase
  <1> QED
    BY <1>2, <1>3, <1>4, <1>5, <1>6, <1>7 DEF RowsBounded

\* A row changes without its decision, or is closed, or is endorsed.
LEMMA ModSame ==
  ASSUME TypeOK, RowsBounded, UNCHANGED live, NEW r \in Request, NEW q,
         requests' = [requests EXCEPT ![r] = q], q.status = requests[r].status,
         q.applied = requests[r].applied, q.base = requests[r].base
  PROVE  ModStep /\ RowsBounded'
  <1>1. ModStatus' = ModStatus /\ ModFrozen' = ModFrozen /\ ModBase' = ModBase /\ RowsBounded'
    <2>1. [ModStatus EXCEPT ![r] = ModStatus[r]] = ModStatus
          /\ [ModFrozen EXCEPT ![r] = ModFrozen[r]] = ModFrozen
          /\ [ModBase EXCEPT ![r] = ModBase[r]] = ModBase
      BY DEF ModStatus, ModFrozen, ModBase
    <2>2. /\ ModStatus' = [ModStatus EXCEPT ![r] = q.status] /\ ModStatus[r] = requests[r].status
          /\ ModFrozen' = [ModFrozen EXCEPT ![r] = q.applied] /\ ModFrozen[r] = requests[r].applied
          /\ ModBase' = [ModBase EXCEPT ![r] = q.base] /\ ModBase[r] = requests[r].base
          /\ RowsBounded'
      BY ModRow
    <2> QED
      BY <2>1, <2>2
  <1> QED
    BY <1>1 DEF ModStep, Moderated!vars, ModStatus, ModFrozen, ModBase

LEMMA ModClosed ==
  ASSUME TypeOK, RowsBounded, UNCHANGED live, NEW r \in Request, NEW q,
         requests' = [requests EXCEPT ![r] = q],
         \/ q.status = "rejected" /\ requests[r].status = "pending"
         \/ q.status = "resolved" /\ requests[r].status \in {"pending", "approved"},
         q.applied = requests[r].applied, q.base = requests[r].base
  PROVE  ModStep /\ RowsBounded'
  <1>1. /\ ModStatus' = [ModStatus EXCEPT ![r] = q.status] /\ ModStatus[r] = requests[r].status
        /\ ModFrozen' = ModFrozen /\ ModBase' = ModBase /\ RowsBounded' /\ r \in Ids
    <2>1. /\ [ModFrozen EXCEPT ![r] = ModFrozen[r]] = ModFrozen
          /\ [ModBase EXCEPT ![r] = ModBase[r]] = ModBase
      BY DEF ModFrozen, ModBase
    <2>2. /\ ModStatus' = [ModStatus EXCEPT ![r] = q.status] /\ ModStatus[r] = requests[r].status
          /\ ModFrozen' = [ModFrozen EXCEPT ![r] = q.applied] /\ ModFrozen[r] = requests[r].applied
          /\ ModBase' = [ModBase EXCEPT ![r] = q.base] /\ ModBase[r] = requests[r].base
          /\ RowsBounded' /\ r \in Ids
      BY ModRow
    <2> QED
      BY <2>1, <2>2
  <1>2. Moderated!Reject(r) \/ Moderated!Resolve(r)
    BY <1>1 DEF Moderated!Reject, Moderated!Resolve, Moderated!Close, ModStatus, ModFrozen, ModBase
  <1> QED
    BY <1>1, <1>2 DEF ModStep, Moderated!Next

LEMMA ModEndorsed ==
  ASSUME NEW i \in Ids, NEW d \in Diff, TypeOK, UNCHANGED live,
         ModStatus[i] \in {"none", "pending"},
         ModStatus' = [ModStatus EXCEPT ![i] = "approved"],
         ModFrozen' = [ModFrozen EXCEPT ![i] = d],
         ModBase' = [ModBase EXCEPT ![i] = CapturedBase(d)]
  PROVE  ModStep
  <1>1. d \in Moderated!Diff
    BY DEF Diff, Moderated!Diff
  <1>2. Moderated!Endorse(i)
    BY <1>1, CapturedReviewed DEF Moderated!Endorse, ModStatus, ModFrozen, ModBase
  <1> QED
    BY <1>2 DEF ModStep, Moderated!Next

LEMMA ModPropose ==
  ASSUME QueueInv, RowsBounded,
         (\E p \in Post : ProposeSave(p)) \/ (\E r \in Request : DayPasses(r))
  PROVE  ModStep /\ RowsBounded'
  <1>0. TypeOK
    BY DEF QueueInv
  <1>1. ASSUME NEW p \in Post, ProposeSave(p), post[p].existing = 0
        PROVE  ModStep /\ RowsBounded'
    <2>1. PICK n : n = Len(requests) + 1
      OBVIOUS
    <2>2. PICK v : v = NewRequest(post[p].editor, "pending", NoTab, post[p].payload, Empty, Empty)
      OBVIOUS
    <2>3. requests' = Append(requests, v) /\ Len(requests) < MaxRequests /\ UNCHANGED live
          /\ v.status = "pending" /\ v.applied = Empty /\ v.base = Empty
      BY <1>1, <2>2 DEF ProposeSave, NewRequest
    <2>4. /\ RowsBounded' /\ n \in Ids /\ ModStatus[n] = "none"
          /\ ModStatus' = [ModStatus EXCEPT ![n] = "pending"]
          /\ ModFrozen' = ModFrozen /\ ModBase' = ModBase
      <3>1. /\ \A i \in Ids : [ModFrozen EXCEPT ![i] = ModFrozen[i]] = ModFrozen
            /\ \A i \in Ids : [ModBase EXCEPT ![i] = ModBase[i]] = ModBase
        BY DEF ModFrozen, ModBase
      <3> QED
        BY <1>0, <2>1, <2>3, <3>1, ModNew
    <2>5. Moderated!Submit(n)
      BY <2>3, <2>4 DEF Moderated!Submit, ModStatus, ModFrozen, ModBase
    <2> QED
      BY <2>4, <2>5 DEF ModStep, Moderated!Next
  <1>2. ASSUME NEW p \in Post, ProposeSave(p), post[p].existing # 0
        PROVE  ModStep /\ RowsBounded'
    <2>1. PICK r : r = post[p].existing
      OBVIOUS
    <2>2. r \in 0..Len(requests)
      BY <1>2, <2>1 DEF ProposeSave, QueueInv, PostOK
    <2>3. r \in Request
      <3>1. Len(requests) \in Nat
        BY <1>0 DEF TypeOK
      <3> QED
        BY <1>2, <2>1, <2>2, <3>1 DEF Request
    <2>4. requests[r] \in RequestType
      BY <1>0, <2>3, RequestTyped
    <2>5. PICK q : q = [requests[r] EXCEPT !.payload = post[p].payload, !.today = TRUE]
      OBVIOUS
    <2>6. requests' = [requests EXCEPT ![r] = q] /\ UNCHANGED live
      BY <1>2, <2>1, <2>5 DEF ProposeSave
    <2>7. /\ q.status = requests[r].status /\ q.applied = requests[r].applied
          /\ q.base = requests[r].base
      BY <2>4, <2>5 DEF RequestType
    <2> QED
      BY <1>0, <2>3, <2>6, <2>7, ModSame
  <1>3. ASSUME NEW r \in Request, DayPasses(r) PROVE ModStep /\ RowsBounded'
    <2>1. requests[r] \in RequestType
      BY <1>0, RequestTyped
    <2>2. PICK q : q = [requests[r] EXCEPT !.today = FALSE]
      OBVIOUS
    <2>3. requests' = [requests EXCEPT ![r] = q] /\ UNCHANGED live
      BY <1>3, <2>2 DEF DayPasses
    <2>4. /\ q.status = requests[r].status /\ q.applied = requests[r].applied
          /\ q.base = requests[r].base
      BY <2>1, <2>2 DEF RequestType
    <2> QED
      BY <1>0, <2>3, <2>4, ModSame
  <1> QED
    BY <1>1, <1>2, <1>3

LEMMA ModUnwritten ==
  ASSUME TypeOK, RowsBounded, UNCHANGED requests, live' = live \/ live' \in [Field -> Val]
  PROVE  ModStep /\ RowsBounded'
  BY ModStill DEF RowsBounded

LEMMA ModSettle ==
  ASSUME QueueInv, RowsBounded, NEW m \in Tab, NEW a \in Action \ {"edit"},
         NEW from, NEW to, Settle(m, a, from, to),
         \/ from = {"pending"} /\ to \in {"rejected", "resolved"}
         \/ from = {"pending", "approved"} /\ to = "resolved"
  PROVE  ModStep /\ RowsBounded'
  <1>1. PICK r : r = tab[m].cr
    OBVIOUS
  <1>2. r \in Request /\ requests[r] \in RequestType /\ TypeOK
    BY <1>1, RequestTyped DEF QueueInv, PageOK, Settle, Loaded
  <1>3. CASE requests[r].status \in from
    <2>1. PICK q : q = [requests[r] EXCEPT !.status = to, !.by = m, !.notes = MergedNotes(m)]
      OBVIOUS
    <2>2. q.status = to /\ q.applied = requests[r].applied /\ q.base = requests[r].base
      BY <1>2, <2>1 DEF RequestType
    <2>3. requests' = [requests EXCEPT ![r] = q] /\ UNCHANGED live
      BY <1>1, <1>3, <2>1 DEF Settle
    <2> QED
      BY <1>2, <1>3, <2>2, <2>3, ModClosed
  <1>4. CASE requests[r].status \notin from
    BY <1>1, <1>2, <1>4, ModUnwritten DEF Settle
  <1> QED
    BY <1>3, <1>4

LEMMA ModMaintain ==
  ASSUME QueueInv, RowsBounded, NEW m \in Tab, Approve(m) \/ Reply(m) \/ EditFreeze(m)
  PROVE  ModStep /\ RowsBounded'
  <1>1. PICK r : r = tab[m].cr
    OBVIOUS
  <1>2. TypeOK /\ UNCHANGED live /\ tab[m].applied \in Diff
    BY DEF QueueInv, TypeOK, TabType, Approve, Reply, EditFreeze
  <1>3. ASSUME tab[m].pc = "loaded", tab[m].action # "edit"
        PROVE  r \in Request /\ requests[r] \in RequestType
    BY <1>1, <1>2, <1>3, RequestTyped DEF QueueInv, PageOK
  <1>4. CASE UNCHANGED requests
    BY <1>2, <1>4, ModUnwritten
  <1>5. CASE Approve(m) /\ Endorsable(m)
    <2>1. r \in Request /\ requests[r] \in RequestType /\ requests[r].status = "pending"
      BY <1>1, <1>3, <1>5 DEF Approve, Loaded, Endorsable
    <2>2. PICK q : q = [requests[r] EXCEPT !.status = "approved", !.by = m,
                          !.notes = MergedNotes(m), !.applied = tab[m].applied,
                          !.base = CapturedBase(tab[m].applied)]
      OBVIOUS
    <2>3. requests' = [requests EXCEPT ![r] = q]
      BY <1>1, <1>5, <2>2 DEF Approve
    <2>4. /\ q.status = "approved" /\ q.applied = tab[m].applied
          /\ q.base = CapturedBase(tab[m].applied)
      BY <2>1, <2>2 DEF RequestType
    <2>5. /\ ModStatus' = [ModStatus EXCEPT ![r] = q.status] /\ ModStatus[r] = requests[r].status
          /\ ModFrozen' = [ModFrozen EXCEPT ![r] = q.applied]
          /\ ModBase' = [ModBase EXCEPT ![r] = q.base]
          /\ RowsBounded' /\ r \in Ids
      BY <1>2, <2>1, <2>3, ModRow
    <2> QED
      BY <1>2, <2>1, <2>4, <2>5, ModEndorsed
  <1>6. CASE Reply(m) /\ requests[r].status = "pending"
    <2>1. r \in Request /\ requests[r] \in RequestType
      BY <1>3, <1>6 DEF Reply, Loaded
    <2>2. PICK q : q = [requests[r] EXCEPT !.notes = @ \cup {m}]
      OBVIOUS
    <2>3. requests' = [requests EXCEPT ![r] = q]
      BY <1>1, <1>6, <2>2 DEF Reply
    <2>4. /\ q.status = requests[r].status /\ q.applied = requests[r].applied
          /\ q.base = requests[r].base
      BY <2>1, <2>2 DEF RequestType
    <2> QED
      BY <1>2, <2>1, <2>3, <2>4, ModSame
  <1>7. CASE EditFreeze(m) /\ requests' # requests
    <2>1. PICK q : /\ requests' = Append(requests, q)
                   /\ q = NewRequest(NoEditor, "approved", m, tab[m].applied, tab[m].applied,
                                     CapturedBase(tab[m].applied))
      BY <1>7 DEF EditFreeze
    <2>2. /\ q.status = "approved" /\ q.applied = tab[m].applied
          /\ q.base = CapturedBase(tab[m].applied)
      BY <2>1 DEF NewRequest
    <2>3. Len(requests) < MaxRequests
      BY <1>7 DEF EditFreeze
    <2>4. PICK n : n = Len(requests) + 1
      OBVIOUS
    <2> QED
      BY <1>2, <2>1, <2>2, <2>3, <2>4, ModNew, ModEndorsed
  <1>8. CASE Approve(m) /\ ~Endorsable(m)
    BY <1>4, <1>8 DEF Approve
  <1>9. CASE Reply(m) /\ requests[r].status # "pending"
    BY <1>1, <1>4, <1>9 DEF Reply
  <1> QED
    BY <1>4, <1>5, <1>6, <1>7, <1>8, <1>9

LEMMA ModBot ==
  ASSUME QueueInv, RowsBounded, BotWrite
  PROVE  ModStep /\ RowsBounded'
  <1>1. PICK r : r = bot.cr
    OBVIOUS
  <1>2. r \in Request /\ Queued(r) /\ TypeOK
    BY <1>1 DEF BotWrite, QueueInv, BotOK
  <1>3. requests[r] \in RequestType /\ QueuedWithFreeze(r)
    BY <1>2, RequestTyped DEF QueueInv, RequestOK
  <1>4. PICK q : q = [requests[r] EXCEPT !.status = "resolved",
                                         !.notes = bot.earlier \cup {Deployer}]
    OBVIOUS
  <1>5. requests' = [requests EXCEPT ![r] = q] /\ UNCHANGED live
    BY <1>1, <1>4 DEF BotWrite
  <1>6. q.status = "resolved" /\ q.applied = requests[r].applied /\ q.base = requests[r].base
    BY <1>3, <1>4 DEF RequestType
  <1>7. requests[r].status \in {"approved", "resolved"}
    BY <1>2, <1>3 DEF QueuedWithFreeze, RequestType, Status
  <1>8. CASE requests[r].status = "approved"
    BY <1>2, <1>5, <1>6, <1>8, ModClosed
  <1>9. CASE requests[r].status = "resolved"
    BY <1>2, <1>5, <1>6, <1>9, ModSame
  <1> QED
    BY <1>7, <1>8, <1>9

LEMMA StepModerates == QueueInv /\ RowsBounded /\ [Next]_vars => ModStep /\ RowsBounded'
  <1> SUFFICES ASSUME QueueInv, RowsBounded, [Next]_vars PROVE ModStep /\ RowsBounded'
    OBVIOUS
  <1>0. CASE UNCHANGED <<requests, live>>
    BY <1>0, ModUnwritten DEF QueueInv
  <1>1. CASE \E p \in Post, e \in Editor, x \in 0..Len(requests), d \in Diff :
               ProposeLoad(p, e, x, d)
    BY <1>0, <1>1 DEF ProposeLoad
  <1>2. CASE \E r \in Request : DayPasses(r) \/ BotLoad(r)
    BY <1>0, <1>2, ModPropose DEF BotLoad
  <1>3. CASE \E m \in Tab, r \in Request : Render(m, r)
    BY <1>0, <1>3 DEF Render
  <1>4. CASE \E m \in Tab : \E entered \in [DOMAIN tab[m].form -> Val] :
               \/ \E a \in Action \ {"edit"}, note \in NoteChoice :
                    PostReview(m, a, entered, note)
               \/ EditPost(m, entered)
    BY <1>0, <1>4 DEF PostReview, EditPost
  <1>5. ASSUME NEW m \in Tab,
               \/ Approve(m) \/ Reject(m) \/ Resolve(m) \/ ReplyAndClose(m)
               \/ Reply(m) \/ EditRender(m) \/ EditFreeze(m)
        PROVE  ModStep /\ RowsBounded'
    <2>1. CASE Reject(m)
      BY <2>1, ModSettle DEF Reject, Action
    <2>2. CASE Resolve(m)
      BY <2>2, ModSettle DEF Resolve, Action
    <2>3. CASE ReplyAndClose(m)
      BY <2>3, ModSettle DEF ReplyAndClose, Action
    <2>4. CASE EditRender(m)
      BY <1>0, <2>4 DEF EditRender
    <2> QED
      BY <1>5, <2>1, <2>2, <2>3, <2>4, ModMaintain
  <1>6. CASE \E f \in Field, v \in Val : Sync(f, v)
    <2>1. live' \in [Field -> Val] /\ UNCHANGED requests
      BY <1>6 DEF Sync, QueueInv, TypeOK
    <2> QED
      BY <2>1, ModUnwritten DEF QueueInv
  <1>7. CASE UNCHANGED vars
    BY <1>0, <1>7 DEF vars
  <1> QED
    BY <1>1, <1>2, <1>3, <1>4, <1>5, <1>6, <1>7, ModPropose, ModBot DEF Next

LEMMA ModBegins == Init => Moderated!Init /\ RowsBounded
  <1> SUFFICES ASSUME Init PROVE Moderated!Init /\ RowsBounded
    OBVIOUS
  <1>1. Request = {} /\ Len(requests) = 0
    BY DEF Init, Request
  <1>2. live \in [Field -> Val] /\ RowsBounded
    BY <1>1, ReviewAssumption DEF Init, RowsBounded
  <1> QED
    BY <1>1, <1>2 DEF Moderated!Init, Moderated!Empty, Empty

\* The queue implements Moderation: every decision is one step, made once.
THEOREM QueueModerates == Spec => ImplementsModeration
  <1>1. Init => Moderated!Init /\ RowsBounded
    BY ModBegins
  <1>2. QueueInv /\ RowsBounded /\ [Next]_vars
          => RowsBounded' /\ [Moderated!Next]_(Moderated!vars)
    BY StepModerates DEF ModStep
  <1> QED
    BY <1>1, <1>2, QueueInvariant, PTL DEF Spec, ImplementsModeration, Moderated!Spec
=============================================================================
