------------------------------ MODULE Accounts ------------------------------
(***************************************************************************)
(* Editors, the magic links they sign in with and their sessions: login.php *)
(* and auth.php (includes/auth_magic_link.php, includes/auth.php), the      *)
(* admin page, and the commands seed-maintainer, delete-editor,             *)
(* export-editor and editor-retention.                                      *)
(*                                                                         *)
(* PHP requests run side by side on one SQLite database in WAL mode.  A     *)
(* transaction that has read and then writes fails when another connection  *)
(* committed in between: its snapshot is out of date.                       *)
(***************************************************************************)
EXTENDS Integers, FiniteSets, FiniteSetsExt

CONSTANTS
    Address,       \* what people type, trimmed and in lower case
    canonical,     \* normalize_email: [Address -> Address]
    PhpRequest,       \* PHP requests in flight
    MaxLinks,      \* bound: magic links ever issued
    LinkCap,       \* magic links per address and hour
    LinkLife, SessionLife, RetentionAge,   \* in hours
    MaxHour,       \* bound: the clock
    MaxCommands    \* bound: admin actions and commands

ASSUME AccountsAssumption ==
    /\ canonical \in [Address -> Address]
    /\ \A a \in Address : canonical[canonical[a]] = canonical[a]
    /\ IsFiniteSet(PhpRequest) /\ LinkCap > 0
    /\ {MaxLinks, LinkCap, LinkLife, SessionLife, RetentionAge, MaxHour, MaxCommands} \subseteq Nat

VARIABLES
    hour,
    editors,    \* table editor: id -> [email, status]
    links,      \* table editor_magic_link: id -> [editor, issued, expires, used]
    sessions,   \* table editor_session: [editor, link, expires, revoked]; the
                \* link that opened it is history, the table does not have it
    request,    \* [PhpRequest -> where a PHP request is]
    issued,     \* the id of the last link
    commands

avars == <<hour, editors, links, sessions, request, issued, commands>>

EditorStatus == {"pending", "minimal", "full", "maintainer", "banned"}
Nobody == 0
NotServing == [at |-> "idle", address |-> Nobody, link |-> 0, editor |-> Nobody, stale |-> FALSE]
SomeOf(f, S) == [x \in DOMAIN f \cap S |-> f[x]]
With(f, k, v) == [x \in DOMAIN f \cup {k} |-> IF x = k THEN v ELSE f[x]]

\* An id is the largest one in the table plus one: AUTOINCREMENT is not used.
NewId(table) == Max(DOMAIN table \cup {0}) + 1
IdOf(email) == {e \in DOMAIN editors : editors[e].email = email}

\* Another connection committed: the snapshots of open transactions are old.
Outdated == [r \in PhpRequest |-> [request[r] EXCEPT !.stale = @ \/ request[r].at = "read"]]

AccountsInit ==
    /\ hour = 0 /\ issued = 0 /\ commands = 0
    /\ editors = [e \in {} |-> 0] /\ links = editors /\ sessions = {}
    /\ request = [r \in PhpRequest |-> NotServing]

-----------------------------------------------------------------------------
(* login.php: issue_magic_link                                             *)

UnderThrottle(email) ==
    Cardinality({l \in DOMAIN links : /\ links[l].editor \in IdOf(email)
                                      /\ links[l].issued > hour - 1}) < LinkCap

\* magic_link_under_throttle reads before the transaction.
Throttle(r, a) ==
    /\ request[r] = NotServing /\ UnderThrottle(canonical[a])
    /\ request' = [request EXCEPT ![r].at = "throttled", ![r].address = canonical[a]]
    /\ UNCHANGED <<hour, editors, links, sessions, issued, commands>>

\* The transaction: a new editor is pending, a banned one gets no link.
Issue(r) ==
    /\ request[r].at = "throttled" /\ issued < MaxLinks
    /\ LET email == request[r].address
           id == IF IdOf(email) = {} THEN NewId(editors) ELSE CHOOSE e \in IdOf(email) : TRUE
       IN  IF IdOf(email) # {} /\ editors[id].status = "banned"
           THEN /\ request' = [request EXCEPT ![r] = NotServing]
                /\ UNCHANGED <<editors, links, issued>>
           ELSE /\ editors' = IF IdOf(email) # {} THEN editors
                              ELSE With(editors, id, [email |-> email, status |-> "pending"])
                /\ issued' = issued + 1
                /\ links' = With(links, issued', [editor |-> id, issued |-> hour,
                                    expires |-> hour + LinkLife, used |-> FALSE])
                /\ request' = [Outdated EXCEPT ![r] = NotServing]
    /\ UNCHANGED <<hour, sessions, commands>>

-----------------------------------------------------------------------------
(* auth.php: POST                                                          *)

\* consume_magic_link, the SELECT; it commits and gives up when the link is not
\* there, used or expired.
ConsumeRead(r, l) ==
    /\ request[r] = NotServing
    /\ l \in DOMAIN links /\ ~links[l].used /\ links[l].expires > hour
    /\ request' = [request EXCEPT ![r].at = "read", ![r].link = l,
                                  ![r].editor = links[l].editor]
    /\ UNCHANGED <<hour, editors, links, sessions, issued, commands>>

\* The UPDATE as its own statement, outside the transaction of the SELECT.
ConsumeWriteApart(r) ==
    /\ request[r].at = "read"
    /\ links' = [l \in DOMAIN links |->
                    IF l = request[r].link THEN [links[l] EXCEPT !.used = TRUE] ELSE links[l]]
    /\ request' = [Outdated EXCEPT ![r].at = "consumed"]
    /\ UNCHANGED <<hour, editors, sessions, issued, commands>>

\* The UPDATE: refused on an old snapshot, and the link counts as expired.
ConsumeWrite(r) ==
    /\ request[r].at = "read"
    /\ IF request[r].stale
       THEN request' = [request EXCEPT ![r] = NotServing] /\ UNCHANGED links
       ELSE /\ links' = [links EXCEPT ![request[r].link].used = TRUE]
            /\ request' = [Outdated EXCEPT ![r].at = "consumed"]
    /\ UNCHANGED <<hour, editors, sessions, issued, commands>>

\* set_editor_session: an editor who was deleted meanwhile fails the foreign key.
OpenSession(r) ==
    /\ request[r].at = "consumed"
    /\ IF request[r].editor \in DOMAIN editors
       THEN /\ sessions' = sessions \cup
                  {[editor |-> request[r].editor, link |-> request[r].link, by |-> r,
                    expires |-> hour + SessionLife, revoked |-> FALSE]}
            /\ request' = [Outdated EXCEPT ![r] = NotServing]
       ELSE request' = [request EXCEPT ![r] = NotServing] /\ UNCHANGED sessions
    /\ UNCHANGED <<hour, editors, links, issued, commands>>

\* current_editor: the editor a session stands for.
CurrentEditor(s) ==
    IF ~s.revoked /\ s.expires > hour /\ editors[s.editor].status # "banned"
    THEN s.editor ELSE Nobody

\* clear_editor_session.
Logout(s) ==
    /\ sessions' = (sessions \ {s}) \cup {[s EXCEPT !.revoked = TRUE]}
    /\ request' = Outdated
    /\ UNCHANGED <<hour, editors, links, issued, commands>>

-----------------------------------------------------------------------------
(* admin.php and the commands; each is one transaction                     *)

Command == commands < MaxCommands /\ commands' = commands + 1 /\ request' = Outdated

\* action -> from which status to which; the bans revoke sessions as well.
Changes == [bulk_approve |-> <<{"pending"}, "minimal">>,
            promote |-> <<{"pending", "minimal"}, "full">>,
            demote |-> <<{"full"}, "minimal">>,
            reset_pending |-> <<{"minimal", "full"}, "pending">>,
            ban |-> <<EditorStatus \ {"maintainer"}, "banned">>,
            unban |-> <<{"banned"}, "pending">>,
            revoke_sessions |-> <<{}, "pending">>]

\* Only a maintainer's session reaches the page.
Administer(action, e) ==
    /\ \E s \in sessions : CurrentEditor(s) # Nobody /\ editors[s.editor].status = "maintainer"
    /\ e \in DOMAIN editors
    /\ Command
    /\ editors' = IF editors[e].status \in Changes[action][1]
                  THEN [editors EXCEPT ![e].status = Changes[action][2]] ELSE editors
    /\ sessions' = IF action \in {"ban", "revoke_sessions"}
                   THEN {IF s.editor = e THEN [s EXCEPT !.revoked = TRUE] ELSE s : s \in sessions}
                   ELSE sessions
    /\ UNCHANGED <<hour, links, issued>>

\* seed_maintainer takes the address as it is: trimmed, in lower case, but not
\* the canonical one.
SeedMaintainer(a) ==
    /\ \A e \in IdOf(a) : editors[e].status # "banned"
    /\ Command
    /\ editors' = IF IdOf(a) = {}
                  THEN With(editors, NewId(editors), [email |-> a, status |-> "maintainer"])
                  ELSE [e \in DOMAIN editors |-> IF e \in IdOf(a)
                          THEN [editors[e] EXCEPT !.status = "maintainer"] ELSE editors[e]]
    /\ UNCHANGED <<hour, links, sessions, issued>>

\* delete_editor --yes, with the cascades of the schema.
DeleteEditor(a) ==
    /\ IdOf(a) # {}
    /\ Command
    /\ LET left == DOMAIN editors \ IdOf(a)
       IN  /\ editors' = SomeOf(editors, left)
           /\ links' = SomeOf(links, {l \in DOMAIN links : links[l].editor \in left})
           /\ sessions' = {s \in sessions : s.editor \in left}
    /\ UNCHANGED <<hour, issued>>

\* editor_retention: rows that expired RetentionAge ago.
Retention ==
    /\ Command
    /\ links' = SomeOf(links, {l \in DOMAIN links : links[l].expires >= hour - RetentionAge})
    /\ sessions' = {s \in sessions : s.expires >= hour - RetentionAge}
    /\ UNCHANGED <<hour, editors, issued>>

HourPasses ==
    /\ hour < MaxHour /\ hour' = hour + 1
    /\ UNCHANGED <<editors, links, sessions, request, issued, commands>>

AccountsNext ==
    \/ \E r \in PhpRequest :
          \/ \E a \in Address : Throttle(r, a)
          \/ \E l \in DOMAIN links : ConsumeRead(r, l)
          \/ Issue(r) \/ ConsumeWrite(r) \/ OpenSession(r)
    \/ \E s \in sessions : Logout(s)
    \/ \E e \in DOMAIN editors, action \in DOMAIN Changes : Administer(action, e)
    \/ \E a \in Address : SeedMaintainer(a) \/ DeleteEditor(a)
    \/ Retention \/ HourPasses

AccountsSpec == AccountsInit /\ [][AccountsNext]_avars

-----------------------------------------------------------------------------
(* Properties                                                              *)

\* A magic link opens at most one session, however the requests that present it
\* interleave with each other and with everything else that writes: a double
\* click, a mail scanner and a person, a request that stalls between its SELECT
\* and its UPDATE (auth_magic_link.php:192).  Every session has an editor, and no
\* link outlives its editor.
LinkOpensOneSession ==
    /\ \A s, t \in sessions : s.link = t.link => s.by = t.by /\ s.expires = t.expires
    /\ \A s \in sessions : s.editor \in DOMAIN editors
    /\ \A l \in DOMAIN links : links[l].editor \in DOMAIN editors
=============================================================================
