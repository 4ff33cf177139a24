----------------------------- MODULE ReviewQueue -----------------------------
(***************************************************************************)
(* The moderation queue of the web editor: change_request rows for one     *)
(* reach.                                                                  *)
(*                                                                         *)
(* Editors propose changes (propose.php); maintainers open a request in a  *)
(* browser tab, edit what they see and approve, reject, reply to or resolve*)
(* it (review.php), or freeze an edit of their own (edit.php); a deploy    *)
(* changes the live reach under all of them (sync-metadata) and closes     *)
(* requests that shipped (mark-deployed).                                  *)
(*                                                                         *)
(* A POST reads at its start what it writes at its end: the read and the   *)
(* write are two steps, and a page is older than both.  No PHP session     *)
(* lock serialises the requests of one person.                             *)
(***************************************************************************)
EXTENDS Integers, Sequences, FiniteSets

CONSTANTS
    Editor,       \* editors who are not maintainers
    NoEditor,     \* change_request.editor_id of a maintainer's own edit
    Post,         \* POSTs of propose.php that can be in flight at once
    Tab,          \* bound: pages maintainers open; each is submitted once
    NoTab,        \* reviewed_by is NULL
    Deployer,     \* author of mark_deployed's note
    Field,        \* fields of the reach
    Class,        \* the member of Field that stands for reach_class
    Val,          \* field contents
    InitialValue, \* the live reach at the start
    NoteChoice,   \* bound: do decisions come with a note?  BOOLEAN, or {TRUE}
    DailyCap,     \* PROPOSE_DAILY_CAPS of the editors' tier
    MaxRequests,  \* bound: requests ever made
    MaxSyncs      \* bound: changes sync-metadata makes to the live reach

\* A payload_json, applied_json or reviewed_base_json: some fields' values.
Diff == UNION {[S -> Val] : S \in SUBSET Field}
Empty == [f \in {} |-> 0]

ASSUME ReviewAssumption ==
    /\ Class \in Field
    /\ InitialValue \in [Field -> Val]
    /\ NoEditor \notin Editor
    /\ NoteChoice \subseteq BOOLEAN
    /\ NoTab \notin Tab /\ Deployer \notin Tab
    /\ DailyCap \in Nat \ {0}
    /\ IsFiniteSet(Post)
    /\ MaxRequests \in Nat /\ MaxSyncs \in Nat

VARIABLES
    requests,  \* change_request rows, in id order
    live,      \* the reach row (and its classes)
    syncs,     \* changes sync-metadata made so far
    post,      \* propose.php POSTs
    tab,       \* maintainers' pages
    bot        \* the mark-deployed run

vars == <<requests, live, syncs, post, tab, bot>>

Action == {"approve", "reject", "reply", "reply_and_close", "resolve", "edit"}
Status == {"pending", "approved", "rejected", "resolved"}

IdlePost == [pc |-> "idle", editor |-> NoEditor, existing |-> 0, payload |-> Empty]
UnusedTab == [pc |-> "unused", cr |-> 0, form |-> Empty, base |-> Empty,
              action |-> "resolve", note |-> FALSE, applied |-> Empty, earlier |-> {}]
IdleBot == [pc |-> "idle", cr |-> 0, earlier |-> {}]

Request == 1..Len(requests)
Restriction(d, S) == [f \in DOMAIN d \cap S |-> d[f]]
ReachField == Field \ {Class}

Init ==
    /\ requests = <<>>
    /\ live = InitialValue
    /\ syncs = 0
    /\ post = [p \in Post |-> IdlePost]
    /\ tab = [m \in Tab |-> UnusedTab]
    /\ bot = IdleBot

-----------------------------------------------------------------------------
(* Editors.                                                                *)

Pending(e) == {r \in Request : requests[r].editor = e /\ requests[r].status = "pending"}
SubmittedToday(e) == {r \in Request : requests[r].editor = e /\ requests[r].today}

\* Slip: the submissions of the day are not counted.
MayProposeUncapped(e, existing) ==
    IF Pending(e) = {} THEN existing = 0 ELSE existing \in Pending(e)

\* _load_propose_context: the pending proposal to replace, if any (which of
\* several is the newest is left open), or room under the daily cap.
MayPropose(e, existing) ==
    IF Pending(e) = {} THEN existing = 0 /\ Cardinality(SubmittedToday(e)) < DailyCap
                       ELSE existing \in Pending(e)

\* The first half of _handle_propose_post.  The payload keeps the fields that
\* differ from the reach as it is now.
ProposeLoad(p, e, existing, payload) ==
    /\ post[p].pc = "idle"
    /\ MayPropose(e, existing)
    /\ \A f \in DOMAIN payload : payload[f] # live[f]
    /\ post' = [post EXCEPT ![p] = [pc |-> "loaded", editor |-> e, existing |-> existing,
                                    payload |-> payload]]
    /\ UNCHANGED <<requests, live, syncs, tab, bot>>

NewRequest(e, status, by, payload, applied, base) ==
    [status |-> status, editor |-> e, payload |-> payload, today |-> TRUE, by |-> by,
     notes |-> {}, applied |-> applied, base |-> base]

\* The upsert: UPDATE by id, whatever the row's status is by now, or INSERT.
ProposeSave(p) ==
    /\ post[p].pc = "loaded"
    /\ LET r == post[p].existing
       IN  IF r # 0
             THEN requests' = [requests EXCEPT ![r] = [@ EXCEPT !.payload = post[p].payload,
                                                                !.today = TRUE]]
             ELSE /\ Len(requests) < MaxRequests
                  /\ requests' = Append(requests,
                       NewRequest(post[p].editor, "pending", NoTab, post[p].payload,
                                  Empty, Empty))
    /\ post' = [post EXCEPT ![p] = IdlePost]
    /\ UNCHANGED <<live, syncs, tab, bot>>

\* A submission leaves the window of the daily cap.
DayPasses(r) ==
    /\ requests[r].today
    /\ requests' = [requests EXCEPT ![r].today = FALSE]
    /\ UNCHANGED <<live, syncs, post, tab, bot>>

-----------------------------------------------------------------------------
(* Maintainers: a page, its POST, and the write at the end of the POST.    *)

\* _render_review_detail: the form carries the proposed values and, hidden, the
\* live values it showed beside them; a decided request has no such fields.
Render(m, r) ==
    /\ tab[m].pc = "unused"
    /\ requests[r].status \in {"pending", "approved"}
    /\ LET shown == IF requests[r].status = "pending" THEN requests[r].payload ELSE Empty
       IN  tab' = [tab EXCEPT ![m] =
                     [UnusedTab EXCEPT !.pc = "form", !.cr = r, !.form = shown,
                                       !.base = Restriction(live, DOMAIN shown \ {Class})]]
    /\ UNCHANGED <<requests, live, syncs, post, bot>>

\* _review_handle_post, first lines: a request that left the queue takes no
\* action but the resolve that closes an approved one.
Accepts(r, action) ==
    \/ requests[r].status = "pending"
    \/ requests[r].status = "approved" /\ action = "resolve"

\* _review_build_approve_payload: the fields of the payload as it is now, with
\* the values of the form where the form has them; classes only if it had any.
AppliedPayload(m, entered) ==
    LET payload == requests[tab[m].cr].payload
        kept == (DOMAIN payload \ {Class}) \cup (DOMAIN payload \cap DOMAIN entered)
    IN  [f \in kept |-> IF f \in DOMAIN entered THEN entered[f] ELSE payload[f]]

\* The live value of every reach field of d is the one in base.
Unchanged(d, base) ==
    \A f \in DOMAIN d \ {Class} : f \in DOMAIN base /\ base[f] = live[f]

\* The maintainer submits the form, its values edited or not: the row is read,
\* and an approval checked against the live reach.
PostReview(m, action, entered, note) ==
    LET applied == AppliedPayload(m, entered) IN
    /\ tab[m].pc = "form"
    /\ action \in {"reply", "reply_and_close"} => note
    /\ action # "approve" => entered = tab[m].form
    /\ tab' = [tab EXCEPT ![m] =
         IF /\ Accepts(tab[m].cr, action)
            /\ action = "approve" => Unchanged(applied, tab[m].base)
           THEN [@ EXCEPT !.pc = "loaded", !.form = entered, !.action = action,
                          !.note = note, !.earlier = requests[tab[m].cr].notes,
                          !.applied = IF action = "approve" THEN applied ELSE Empty]
           ELSE [UnusedTab EXCEPT !.pc = "done"]]
    /\ UNCHANGED <<requests, live, syncs, post, bot>>

Loaded(m, action) == tab[m].pc = "loaded" /\ tab[m].action = action
\* The POST has answered; an endorsement leaves the page it was made on.
Done(m) == tab' = [tab EXCEPT ![m] =
                     IF tab[m].action \in {"approve", "edit"}
                       THEN [UnusedTab EXCEPT !.pc = "done", !.form = tab[m].form,
                                              !.base = tab[m].base]
                       ELSE [UnusedTab EXCEPT !.pc = "done"]]
\* merge_reviewer_note: the thread as the POST read it, and the new note.
MergedNotes(m) == tab[m].earlier \cup (IF tab[m].note THEN {m} ELSE {})
Bridgeable(d) == Class \notin DOMAIN d /\ DOMAIN d # {}

\* Slips: the live values are not compared again; the status is not.
EndorsableUnverified(m) == requests[tab[m].cr].status = "pending"
EndorsableTwice(m) == Bridgeable(tab[m].applied) => Unchanged(tab[m].applied, tab[m].base)
\* review_approve: in one transaction the compare-and-set on the status, the
\* freeze, and bridge_enqueue, which captures the live base of a bridgeable
\* diff and rolls everything back when it is not the base the form carried.
Endorsable(m) ==
    /\ requests[tab[m].cr].status = "pending"
    /\ Bridgeable(tab[m].applied) => Unchanged(tab[m].applied, tab[m].base)
CapturedBase(d) == IF Bridgeable(d) THEN Restriction(live, DOMAIN d) ELSE Empty
Approve(m) ==
    /\ Loaded(m, "approve")
    /\ IF Endorsable(m)
         THEN requests' = [requests EXCEPT ![tab[m].cr] =
                [@ EXCEPT !.status = "approved", !.by = m, !.notes = MergedNotes(m),
                          !.applied = tab[m].applied, !.base = CapturedBase(tab[m].applied)]]
         ELSE UNCHANGED requests
    /\ Done(m)
    /\ UNCHANGED <<live, syncs, post, bot>>

\* review_reject, review_resolve, review_reply_and_close: a compare-and-set on
\* the status, and the thread as the POST read it.
Settle(m, action, from, to) ==
    /\ Loaded(m, action)
    /\ IF requests[tab[m].cr].status \in from
         THEN requests' = [requests EXCEPT ![tab[m].cr] =
                [@ EXCEPT !.status = to, !.by = m, !.notes = MergedNotes(m)]]
         ELSE UNCHANGED requests
    /\ Done(m)
    /\ UNCHANGED <<live, syncs, post, bot>>
Reject(m) == Settle(m, "reject", {"pending"}, "rejected")
Resolve(m) == Settle(m, "resolve", {"pending", "approved"}, "resolved")
ReplyAndClose(m) == Settle(m, "reply_and_close", {"pending"}, "resolved")

\* Slip: the reply is merged in PHP, like the notes of the other actions.
ReplyMerged(m) ==
    /\ Loaded(m, "reply")
    /\ IF requests[tab[m].cr].status = "pending"
         THEN requests' = [requests EXCEPT ![tab[m].cr].notes = MergedNotes(m)]
         ELSE UNCHANGED requests
    /\ Done(m)
    /\ UNCHANGED <<live, syncs, post, bot>>

\* review_send_reply: appends in SQL to the thread as it is now.
Reply(m) ==
    /\ Loaded(m, "reply")
    /\ IF requests[tab[m].cr].status = "pending"
         THEN requests' = [requests EXCEPT ![tab[m].cr].notes = @ \cup {m}]
         ELSE UNCHANGED requests
    /\ Done(m)
    /\ UNCHANGED <<live, syncs, post, bot>>

\* edit.php, GET: the form carries every field and, hidden, its value.
EditRender(m) ==
    /\ tab[m].pc = "unused"
    /\ LET shown == Restriction(live, ReachField)
       IN  tab' = [tab EXCEPT ![m] = [UnusedTab EXCEPT !.pc = "editform", !.form = shown,
                                                       !.base = shown]]
    /\ UNCHANGED <<requests, live, syncs, post, bot>>

\* edit.php, POST: what differs from the reach as it is now is the change, and
\* a changed field must still have the value the form carried.
EditPost(m, entered) ==
    LET changed == {f \in DOMAIN entered : entered[f] # live[f]}
        applied == Restriction(entered, changed)
    IN
    /\ tab[m].pc = "editform"
    /\ tab' = [tab EXCEPT ![m] =
         IF Unchanged(applied, tab[m].base) /\ changed # {}
           THEN [@ EXCEPT !.pc = "loaded", !.action = "edit", !.form = entered,
                          !.applied = applied]
           ELSE [UnusedTab EXCEPT !.pc = "done"]]
    /\ UNCHANGED <<requests, live, syncs, post, bot>>

\* The transaction of edit.php: a request born approved, and its bridge row.
EditFreeze(m) ==
    LET applied == tab[m].applied IN
    /\ Loaded(m, "edit")
    /\ IF Unchanged(applied, tab[m].base)
         THEN /\ Len(requests) < MaxRequests
              /\ requests' = Append(requests, NewRequest(NoEditor, "approved", m, applied,
                                      applied, CapturedBase(applied)))
         ELSE UNCHANGED requests
    /\ Done(m)
    /\ UNCHANGED <<live, syncs, post, bot>>

-----------------------------------------------------------------------------
(* Deploys.                                                                *)

\* sync-metadata copies the dataset's reach over the live one.
Sync(f, v) ==
    /\ syncs < MaxSyncs
    /\ v # live[f]
    /\ live' = [live EXCEPT ![f] = v]
    /\ syncs' = syncs + 1
    /\ UNCHANGED <<requests, post, tab, bot>>

\* The request has a bridge row: bridge_enqueue stored a drift base for it.
Queued(r) == DOMAIN requests[r].base # {}

\* _resolve_parent, for a request with a bridge row: a SELECT, and at the
\* commit an UPDATE that writes the thread it read with the deploy note added.
BotLoad(r) ==
    /\ bot.pc = "idle"
    /\ Queued(r)
    /\ requests[r].status # "resolved"
    /\ bot' = [pc |-> "loaded", cr |-> r, earlier |-> requests[r].notes]
    /\ UNCHANGED <<requests, live, syncs, post, tab>>
BotWrite ==
    /\ bot.pc = "loaded"
    /\ requests' = [requests EXCEPT ![bot.cr] =
         [@ EXCEPT !.status = "resolved", !.notes = bot.earlier \cup {Deployer}]]
    /\ bot' = IdleBot
    /\ UNCHANGED <<live, syncs, post, tab>>

-----------------------------------------------------------------------------
Next ==
    \/ \E p \in Post, e \in Editor, x \in 0..Len(requests), d \in Diff : ProposeLoad(p, e, x, d)
    \/ \E p \in Post : ProposeSave(p)
    \/ \E r \in Request : DayPasses(r) \/ BotLoad(r)
    \/ \E m \in Tab, r \in Request : Render(m, r)
    \/ \E m \in Tab : \E entered \in [DOMAIN tab[m].form -> Val] :
         \/ \E a \in Action \ {"edit"}, note \in NoteChoice : PostReview(m, a, entered, note)
         \/ EditPost(m, entered)
    \/ \E m \in Tab : \/ Approve(m) \/ Reject(m) \/ Resolve(m) \/ ReplyAndClose(m)
                      \/ Reply(m) \/ EditRender(m) \/ EditFreeze(m)
    \/ \E f \in Field, v \in Val : Sync(f, v)
    \/ BotWrite

Spec == Init /\ [][Next]_vars

-----------------------------------------------------------------------------
(* Properties.                                                             *)

RequestType ==
    [status : Status, editor : Editor \cup {NoEditor}, payload : Diff, today : BOOLEAN,
     by : Tab \cup {NoTab}, notes : SUBSET (Tab \cup {Deployer}), applied : Diff, base : Diff]
PostType == [pc : {"idle", "loaded"}, editor : Editor \cup {NoEditor}, existing : Nat,
             payload : Diff]
TabType ==
    [pc : {"unused", "form", "editform", "loaded", "done"}, cr : Nat, form : Diff,
     base : Diff, action : Action, note : BOOLEAN, applied : Diff,
     earlier : SUBSET (Tab \cup {Deployer})]
BotType == [pc : {"idle", "loaded"}, cr : Nat, earlier : SUBSET (Tab \cup {Deployer})]

\* Every variable stays in its domain; what a process refers to exists.
TypeOK ==
    /\ requests \in Seq(RequestType)
    /\ live \in [Field -> Val]
    /\ syncs \in 0..MaxSyncs
    /\ post \in [Post -> PostType]
    /\ tab \in [Tab -> TabType]
    /\ bot \in BotType

\* The frozen values and the drift base of r were on the endorser's page.
AsReviewed(r) ==
    requests[r].status = "approved" =>
      LET q == requests[r]
          t == tab[q.by]
      IN  /\ \A f \in DOMAIN q.applied : f \in DOMAIN t.form /\ q.applied[f] = t.form[f]
          /\ \A f \in DOMAIN q.base : f \in DOMAIN t.base /\ q.base[f] = t.base[f]

\* What is endorsed is what the endorsing maintainer had on the page: every
\* frozen value is one the form held, and the drift base handed to the bridge is
\* the live value shown beside it - however often the editor re-submitted or a
\* deploy changed the reach in the meantime (bridge_capture_base).
EndorsedAsReviewed == \A r \in Request : AsReviewed(r)

\* r has a frozen diff and a bridge row, or neither.
QueuedWithFreeze(r) ==
    LET q == requests[r] IN
    /\ Queued(r) => Bridgeable(q.applied) /\ DOMAIN q.base = DOMAIN q.applied
    /\ q.status = "approved" /\ Bridgeable(q.applied) => Queued(r)
    /\ q.status \in {"pending", "rejected"} => q.applied = Empty /\ ~Queued(r)

\* Freeze and bridge row are one commit: an approved request has a row exactly
\* when its diff is bridgeable, for exactly its fields; a request that was not
\* endorsed has neither (review_approve, bridge_enqueue).
QueuedTogether == \A r \in Request : QueuedWithFreeze(r)

\* A request is decided once: afterwards its frozen diff and drift base never
\* change, and only approved requests move on, to resolved.
DecidedOnce ==
    [][\A r \in Request : requests[r].status # "pending" =>
         /\ requests'[r].applied = requests[r].applied
         /\ requests'[r].base = requests[r].base
         /\ requests'[r].status # requests[r].status =>
              requests[r].status = "approved" /\ requests'[r].status = "resolved"]_vars

\* The queue implements Moderation: with everything that overlaps, a request is
\* decided once, in one step, and what it froze and the drift base handed to the
\* bridge - the live values of that step - stay (review_approve, review_reject,
\* review_resolve, mark_deployed).
Ids == 1..MaxRequests
Moderated == INSTANCE Moderation WITH
    Id <- Ids, Bridged <- ReachField,
    status <- [i \in Ids |-> IF i \in Request THEN requests[i].status ELSE "none"],
    frozen <- [i \in Ids |-> IF i \in Request THEN requests[i].applied ELSE Empty],
    base <- [i \in Ids |-> IF i \in Request THEN requests[i].base ELSE Empty]
ImplementsModeration == Moderated!Spec

\* The daily cap and the one-pending rule are read at the start of a POST and
\* enforced by nothing at its insert, so POSTs in flight together pass both;
\* they exceed each by at most their own number less one, however decisions,
\* re-submissions and the passing of days fall between (_load_propose_context).
RaceBounded ==
    \A e \in Editor :
      /\ Cardinality(SubmittedToday(e)) <= DailyCap + Cardinality(Post) - 1
      /\ Cardinality(Pending(e)) <= Cardinality(Post)

\* Two replies to a pending request, sent at once, both stay in the thread.
RepliesKept ==
    [][\A r \in Request :
         requests[r].status = "pending" /\ requests'[r].status = "pending"
           => requests[r].notes \subseteq requests'[r].notes]_vars

-----------------------------------------------------------------------------
(* The inductive strengthening of EndorsedAsReviewed and QueuedTogether.   *)

PostOK(p) ==
    post[p].pc = "loaded" => post[p].editor \in Editor /\ post[p].existing \in 0..Len(requests)

\* Everything about to be frozen was on the page, its base beside it.
AppliedShown(m) ==
    \A f \in DOMAIN tab[m].applied :
      /\ f \in DOMAIN tab[m].form /\ tab[m].applied[f] = tab[m].form[f]
      /\ f # Class => f \in DOMAIN tab[m].base
PageOK(m) ==
    /\ tab[m].pc \in {"form", "editform"} => DOMAIN tab[m].base = DOMAIN tab[m].form \ {Class}
    /\ tab[m].pc = "editform" => Class \notin DOMAIN tab[m].form
    /\ tab[m].pc = "form" => tab[m].cr \in Request
    /\ tab[m].pc = "loaded" /\ tab[m].action # "edit" => tab[m].cr \in Request
    /\ Loaded(m, "approve") \/ Loaded(m, "edit") => AppliedShown(m)
    /\ Loaded(m, "edit") => Bridgeable(tab[m].applied)
BotOK == bot.pc = "loaded" => bot.cr \in Request /\ Queued(bot.cr)

\* The page a request was endorsed on has been answered.
EndorserDone(r) ==
    requests[r].status = "approved" => requests[r].by \in Tab /\ tab[requests[r].by].pc = "done"

RequestOK(r) == EndorserDone(r) /\ AsReviewed(r) /\ QueuedWithFreeze(r)

\* What a process holds still fits the rows it will write.
QueueInv ==
    /\ TypeOK
    /\ \A p \in Post : PostOK(p)
    /\ \A m \in Tab : PageOK(m)
    /\ BotOK
    /\ \A r \in Request : RequestOK(r)

\* The strengthening of RaceBounded: a POST that will insert has its row counted
\* already, and a row that a POST will bring back into the day still counts.
Inserting(e) == {p \in Post : /\ post[p].pc = "loaded" /\ post[p].editor = e
                              /\ post[p].existing = 0}
Counted(e) ==
    {r \in Request :
       /\ requests[r].editor = e
       /\ \/ requests[r].today \/ requests[r].status = "pending"
          \/ \E p \in Post : post[p].pc = "loaded" /\ post[p].existing = r}
RaceOK(e) ==
    /\ Cardinality(Counted(e)) + Cardinality(Inserting(e)) <= DailyCap + Cardinality(Post) - 1
    /\ Cardinality(Pending(e)) + Cardinality(Inserting(e)) <= Cardinality(Post)
RaceInv == \A e \in Editor : RaceOK(e)

-----------------------------------------------------------------------------
(* What the comments say and the code does not do; each is refuted by a    *)
(* run of its own.                                                         *)

\* "a PHP-side merge from the request-start row is safe there"
\* (review_logic.php:84): no write drops a note from the thread.
ThreadKept ==
    [][\A r \in Request : requests[r].notes \subseteq requests'[r].notes]_vars
=============================================================================
