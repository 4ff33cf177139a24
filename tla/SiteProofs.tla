------------------------------ MODULE SiteProofs ------------------------------
(***************************************************************************)
(* What the site is made of and who gets in, proved for every value of the *)
(* constants: a magic link opens one session (Accounts), nothing unsound is *)
(* served and nothing sound is lost (DatasetGate), and one host's settings  *)
(* agree (HostConfig).  The three share nothing.                            *)
(***************************************************************************)
EXTENDS Accounts, DatasetGate, HostConfig, FiniteSetTheorems, WellFoundedInduction, TLAPS

-----------------------------------------------------------------------------
(* A magic link opens one session.  The guard of the argument is SQLite's: *)
(* a request that read a link and may still write has seen the database as *)
(* it is (Fresh), because every commit of another connection makes it stale. *)

\* What rows and requests are made of.
RequestRow(q) == DOMAIN q = {"at", "address", "link", "editor", "stale"}
LinkRow(l) == DOMAIN l = {"editor", "issued", "expires", "used"}
SessionRow(s) == DOMAIN s = {"editor", "link", "by", "expires", "revoked"}
Shapes ==
    /\ request = [r \in PhpRequest |-> request[r]]
    /\ \A r \in PhpRequest : RequestRow(request[r])
    /\ \A l \in DOMAIN links : LinkRow(links[l])
    /\ \A s \in sessions : SessionRow(s)

\* No id is handed out that a row or a request still names.
Ids ==
    /\ issued \in Nat
    /\ \A l \in DOMAIN links : l \in 1..issued
    /\ \A s \in sessions : s.link \in 1..issued
    /\ \A r \in PhpRequest : request[r].at \in {"read", "consumed"} => request[r].link \in 1..issued

Consumed(r) == request[r].at = "consumed"

\* A link that somebody consumed is used, and was consumed once.
SpentOnce ==
    /\ \A s \in sessions : s.link \in DOMAIN links => links[s.link].used
    /\ \A r \in PhpRequest : Consumed(r) /\ request[r].link \in DOMAIN links
                                => links[request[r].link].used
    /\ \A r \in PhpRequest : Consumed(r) => \A s \in sessions : s.link # request[r].link
    /\ \A r, q \in PhpRequest : Consumed(r) /\ Consumed(q) /\ request[r].link = request[q].link
                                   => r = q

\* A request between its SELECT and its UPDATE that is not stale is right.
Fresh ==
    \A r \in PhpRequest : request[r].at = "read" /\ ~request[r].stale =>
        request[r].link \in DOMAIN links /\ ~links[request[r].link].used

AccountsInv == Shapes /\ Ids /\ SpentOnce /\ Fresh /\ LinkOpensOneSession

-----------------------------------------------------------------------------
(* Requests                                                                *)

LEMMA OutdatedRequests ==
  ASSUME Shapes
  PROVE  /\ Outdated = [r \in PhpRequest |-> Outdated[r]]
         /\ \A r \in PhpRequest :
              /\ RequestRow(Outdated[r])
              /\ Outdated[r].at = request[r].at /\ Outdated[r].link = request[r].link
              /\ Outdated[r].editor = request[r].editor
              /\ request[r].at = "read" => Outdated[r].stale
  <1>1. Outdated = [r \in PhpRequest |-> Outdated[r]]
    BY DEF Outdated
  <1>2. ASSUME NEW r \in PhpRequest
        PROVE  /\ RequestRow(Outdated[r])
               /\ Outdated[r].at = request[r].at /\ Outdated[r].link = request[r].link
               /\ Outdated[r].editor = request[r].editor
               /\ request[r].at = "read" => Outdated[r].stale
    <2>1. Outdated[r] = [request[r] EXCEPT !.stale = @ \/ request[r].at = "read"]
      BY DEF Outdated
    <2>2. RequestRow(request[r])
      BY DEF Shapes
    <2> QED
      BY <2>1, <2>2 DEF RequestRow
  <1> QED
    BY <1>1, <1>2

\* A commit that consumes nothing: rows go, or stay and keep what is told of them.
LEMMA OthersCommit ==
  ASSUME AccountsInv, request' = Outdated, issued' = issued,
         DOMAIN links' \subseteq DOMAIN links,
         \A l \in DOMAIN links' : links'[l] = links[l] /\ links[l].editor \in DOMAIN editors',
         \A s \in sessions' :
            /\ SessionRow(s) /\ s.editor \in DOMAIN editors'
            /\ \E t \in sessions : s.link = t.link /\ s.by = t.by /\ s.expires = t.expires
  PROVE  AccountsInv'
  <1> USE DEF AccountsInv
  <1>1. Shapes'
    <2>1. \A l \in DOMAIN links' : LinkRow(links'[l])
      BY DEF Shapes
    <2> QED
      BY <2>1, OutdatedRequests DEF Shapes
  <1>2. Ids'
    BY OutdatedRequests DEF Ids
  <1>3. SpentOnce'
    BY OutdatedRequests DEF SpentOnce, Consumed
  <1>4. Fresh'
    BY OutdatedRequests DEF Fresh
  <1>5. LinkOpensOneSession'
    BY DEF LinkOpensOneSession
  <1> QED
    BY <1>1, <1>2, <1>3, <1>4, <1>5

\* A session that is revoked is the same session.
LEMMA RevokedRow ==
  ASSUME NEW s, SessionRow(s), NEW t, t = [s EXCEPT !.revoked = TRUE]
  PROVE  /\ SessionRow(t) /\ t.editor = s.editor
         /\ t.link = s.link /\ t.by = s.by /\ t.expires = s.expires
  BY DEF SessionRow

-----------------------------------------------------------------------------
(* login.php                                                               *)

LEMMA InitInv == AccountsInit => AccountsInv
  <1> SUFFICES ASSUME AccountsInit
               PROVE  AccountsInv
    OBVIOUS
  <1>1. /\ issued = 0 /\ sessions = {} /\ DOMAIN links = {}
        /\ request = [r \in PhpRequest |-> NotServing]
    BY DEF AccountsInit
  <1>2. RequestRow(NotServing) /\ NotServing.at = "idle"
    BY DEF RequestRow, NotServing
  <1> QED
    BY <1>1, <1>2 DEF AccountsInv, Shapes, Ids, SpentOnce, Fresh, LinkOpensOneSession, Consumed

\* One request changes, and it holds no link that is spent.
LEMMA ThrottleInv ==
  ASSUME AccountsInv, NEW r \in PhpRequest, NEW a \in Address, Throttle(r, a)
  PROVE  AccountsInv'
  <1> DEFINE q == [request[r] EXCEPT !.at = "throttled", !.address = canonical[a]]
  <1>1. /\ request' = [request EXCEPT ![r] = q] /\ links' = links /\ sessions' = sessions
        /\ issued' = issued /\ editors' = editors
    <2>1. request' = [request EXCEPT ![r].at = "throttled", ![r].address = canonical[a]]
      BY DEF Throttle
    <2> QED
      BY <2>1 DEF Throttle, AccountsInv, Shapes
  <1>2. RequestRow(q) /\ q.at = "throttled"
    <2>1. RequestRow(request[r])
      BY DEF AccountsInv, Shapes
    <2> QED
      BY <2>1 DEF RequestRow
  <1>3. /\ request' = [p \in PhpRequest |-> request'[p]] /\ request'[r] = q
        /\ \A p \in PhpRequest \ {r} : request'[p] = request[p]
    BY <1>1 DEF AccountsInv, Shapes
  <1> HIDE DEF q
  <1>4. Shapes'
    BY <1>1, <1>2, <1>3 DEF AccountsInv, Shapes
  <1>5. Ids'
    BY <1>1, <1>2, <1>3 DEF AccountsInv, Ids
  <1>6. SpentOnce' /\ Fresh'
    BY <1>1, <1>2, <1>3 DEF AccountsInv, SpentOnce, Fresh, Consumed
  <1> QED
    BY <1>1, <1>4, <1>5, <1>6 DEF AccountsInv, LinkOpensOneSession

LEMMA ConsumeReadInv ==
  ASSUME AccountsInv, NEW r \in PhpRequest, NEW l \in DOMAIN links, ConsumeRead(r, l)
  PROVE  AccountsInv'
  <1> DEFINE q == [request[r] EXCEPT !.at = "read", !.link = l, !.editor = links[l].editor]
  <1>1. /\ request' = [request EXCEPT ![r] = q] /\ links' = links /\ sessions' = sessions
        /\ issued' = issued /\ editors' = editors /\ ~links[l].used
    <2>1. request' = [request EXCEPT ![r].at = "read", ![r].link = l,
                                     ![r].editor = links[l].editor]
      BY DEF ConsumeRead
    <2> QED
      BY <2>1 DEF ConsumeRead, AccountsInv, Shapes
  <1>2. RequestRow(q) /\ q.at = "read" /\ q.link = l
    <2>1. RequestRow(request[r])
      BY DEF AccountsInv, Shapes
    <2> QED
      BY <2>1 DEF RequestRow
  <1>3. /\ request' = [p \in PhpRequest |-> request'[p]] /\ request'[r] = q
        /\ \A p \in PhpRequest \ {r} : request'[p] = request[p]
    BY <1>1 DEF AccountsInv, Shapes
  <1> HIDE DEF q
  <1>4. Shapes'
    BY <1>1, <1>2, <1>3 DEF AccountsInv, Shapes
  <1>5. Ids'
    BY <1>1, <1>2, <1>3 DEF AccountsInv, Ids
  <1>6. SpentOnce' /\ Fresh'
    BY <1>1, <1>2, <1>3 DEF AccountsInv, SpentOnce, Fresh, Consumed
  <1> QED
    BY <1>1, <1>4, <1>5, <1>6 DEF AccountsInv, LinkOpensOneSession

\* A new link has a new id, and its editor is there.
LEMMA IssueInv ==
  ASSUME AccountsInv, NEW r \in PhpRequest, Issue(r)
  PROVE  AccountsInv'
  <1> DEFINE email == request[r].address
             id == IF IdOf(email) = {} THEN NewId(editors) ELSE CHOOSE e \in IdOf(email) : TRUE
  <1>1. CASE IdOf(email) # {} /\ editors[id].status = "banned"
    <2>1. /\ request' = [request EXCEPT ![r] = NotServing] /\ links' = links
          /\ sessions' = sessions /\ issued' = issued /\ editors' = editors
      BY <1>1 DEF Issue
    <2>2. /\ request' = [p \in PhpRequest |-> request'[p]] /\ request'[r] = NotServing
          /\ \A p \in PhpRequest \ {r} : request'[p] = request[p]
      BY <2>1 DEF AccountsInv, Shapes
    <2>3. RequestRow(NotServing) /\ NotServing.at = "idle"
      BY DEF RequestRow, NotServing
    <2>4. Shapes'
      BY <2>1, <2>2, <2>3 DEF AccountsInv, Shapes
    <2>5. Ids'
      BY <2>1, <2>2, <2>3 DEF AccountsInv, Ids
    <2>6. SpentOnce' /\ Fresh'
      BY <2>1, <2>2, <2>3 DEF AccountsInv, SpentOnce, Fresh, Consumed
    <2> QED
      BY <2>1, <2>4, <2>5, <2>6 DEF AccountsInv, LinkOpensOneSession
  <1>2. CASE ~(IdOf(email) # {} /\ editors[id].status = "banned")
    <2> DEFINE new == [editor |-> id, issued |-> hour, expires |-> hour + LinkLife, used |-> FALSE]
    <2>1. /\ editors' = IF IdOf(email) # {} THEN editors
                        ELSE With(editors, id, [email |-> email, status |-> "pending"])
          /\ issued' = issued + 1 /\ links' = With(links, issued', new)
          /\ request' = [Outdated EXCEPT ![r] = NotServing] /\ sessions' = sessions
      BY <1>2 DEF Issue
    <2>2. DOMAIN editors \subseteq DOMAIN editors' /\ id \in DOMAIN editors'
      <3>1. CASE IdOf(email) # {}
        <4>1. id \in IdOf(email)
          BY <3>1
        <4> QED
          BY <2>1, <3>1, <4>1 DEF IdOf
      <3>2. CASE IdOf(email) = {}
        <4> HIDE DEF id
        <4> QED
          BY <2>1, <3>2 DEF With
      <3> QED
        BY <3>1, <3>2
    <2>3. new.editor = id /\ LinkRow(new)
      BY DEF LinkRow
    <2> HIDE DEF id, new
    <2>4. issued + 1 \notin DOMAIN links /\ issued' \in Nat /\ issued \in Nat
      BY <2>1 DEF AccountsInv, Ids
    <2>5. /\ DOMAIN links' = DOMAIN links \cup {issued'} /\ links'[issued'] = new
          /\ \A l \in DOMAIN links : links'[l] = links[l]
      BY <2>1, <2>4 DEF With
    <2>6. /\ request' = [p \in PhpRequest |-> request'[p]]
          /\ RequestRow(request'[r]) /\ request'[r].at = "idle"
          /\ \A p \in PhpRequest \ {r} :
                /\ RequestRow(request'[p]) /\ request'[p].at = request[p].at
                /\ request'[p].link = request[p].link
                /\ request[p].at = "read" => request'[p].stale
      <3>1. RequestRow(NotServing) /\ NotServing.at = "idle"
        BY DEF RequestRow, NotServing
      <3> QED
        BY <2>1, <3>1, OutdatedRequests DEF AccountsInv
    <2>7. Shapes'
      BY <2>1, <2>3, <2>5, <2>6 DEF AccountsInv, Shapes
    <2>8. Ids'
      BY <2>1, <2>4, <2>5, <2>6 DEF AccountsInv, Ids
    <2>9. SpentOnce'
      <3>1. /\ \A s \in sessions : s.link # issued'
            /\ \A p \in PhpRequest : Consumed(p) => request[p].link # issued'
        BY <2>1, <2>4 DEF AccountsInv, Ids, Consumed
      <3> QED
        BY <2>1, <2>5, <2>6, <3>1 DEF AccountsInv, SpentOnce, Consumed
    <2>10. Fresh'
      BY <2>6 DEF Fresh
    <2>11. LinkOpensOneSession'
      BY <2>1, <2>2, <2>3, <2>5 DEF AccountsInv, LinkOpensOneSession
    <2> QED
      BY <2>7, <2>8, <2>9, <2>10, <2>11 DEF AccountsInv
  <1> QED
    BY <1>1, <1>2

-----------------------------------------------------------------------------
(* auth.php                                                                *)

\* Where a request gives up, it holds nothing.
LEMMA GivesUp ==
  ASSUME AccountsInv, NEW r \in PhpRequest, request' = [request EXCEPT ![r] = NotServing],
         UNCHANGED <<links, sessions, issued, editors>>
  PROVE  AccountsInv'
  <1>2. /\ request' = [p \in PhpRequest |-> request'[p]] /\ request'[r] = NotServing
        /\ \A p \in PhpRequest \ {r} : request'[p] = request[p]
    BY DEF AccountsInv, Shapes
  <1>3. RequestRow(NotServing) /\ NotServing.at = "idle"
    BY DEF RequestRow, NotServing
  <1>4. Shapes'
    BY <1>2, <1>3 DEF AccountsInv, Shapes
  <1>5. Ids'
    BY <1>2, <1>3 DEF AccountsInv, Ids
  <1>6. SpentOnce' /\ Fresh'
    BY <1>2, <1>3 DEF AccountsInv, SpentOnce, Fresh, Consumed
  <1> QED
    BY <1>4, <1>5, <1>6 DEF AccountsInv, LinkOpensOneSession

\* A request that is not stale consumes a link nobody has consumed.
LEMMA ConsumeWriteInv ==
  ASSUME AccountsInv, NEW r \in PhpRequest, ConsumeWrite(r)
  PROVE  AccountsInv'
  <1>1. CASE request[r].stale
    BY <1>1, GivesUp DEF ConsumeWrite
  <1>2. CASE ~request[r].stale
    <2> DEFINE k == request[r].link
    <2>1. /\ request[r].at = "read" /\ links' = [links EXCEPT ![k].used = TRUE]
          /\ request' = [Outdated EXCEPT ![r].at = "consumed"]
          /\ UNCHANGED <<editors, sessions, issued>>
      BY <1>2 DEF ConsumeWrite
    <2>2. k \in DOMAIN links /\ ~links[k].used
      BY <1>2, <2>1 DEF AccountsInv, Fresh
    <2>3. /\ DOMAIN links' = DOMAIN links
          /\ \A l \in DOMAIN links \ {k} : links'[l] = links[l]
          /\ links'[k] = [links[k] EXCEPT !.used = TRUE]
      BY <2>1, <2>2
    <2>4. LinkRow(links'[k]) /\ links'[k].used /\ links'[k].editor = links[k].editor
      <3>1. LinkRow(links[k])
        BY <2>2 DEF AccountsInv, Shapes
      <3> QED
        BY <2>3, <3>1 DEF LinkRow
    <2>5. /\ request' = [p \in PhpRequest |-> request'[p]]
          /\ RequestRow(request'[r]) /\ request'[r].at = "consumed" /\ request'[r].link = k
          /\ \A p \in PhpRequest \ {r} :
                /\ RequestRow(request'[p]) /\ request'[p].at = request[p].at
                /\ request'[p].link = request[p].link
                /\ request[p].at = "read" => request'[p].stale
      <3>1. Shapes
        BY DEF AccountsInv
      <3>2. request' = [p \in PhpRequest |-> request'[p]]
        BY <2>1, <3>1, OutdatedRequests
      <3>3. \A p \in PhpRequest \ {r} : request'[p] = Outdated[p]
        BY <2>1, <3>1, OutdatedRequests
      <3>4. request'[r] = [Outdated[r] EXCEPT !.at = "consumed"]
        BY <2>1, <3>1, OutdatedRequests
      <3>5. RequestRow(request'[r]) /\ request'[r].at = "consumed" /\ request'[r].link = k
        BY <3>1, <3>4, OutdatedRequests DEF RequestRow
      <3> QED
        BY <3>1, <3>2, <3>3, <3>5, OutdatedRequests
    <2>6. /\ \A s \in sessions : s.link # k
          /\ \A p \in PhpRequest : Consumed(p) => request[p].link # k
      BY <2>2 DEF AccountsInv, SpentOnce
    <2>7. k \in 1..issued
      BY <2>2 DEF AccountsInv, Ids
    <2> HIDE DEF k
    <2>8. Shapes'
      BY <2>1, <2>3, <2>4, <2>5 DEF AccountsInv, Shapes
    <2>9. Ids'
      BY <2>1, <2>3, <2>5, <2>7 DEF AccountsInv, Ids
    <2>10. SpentOnce'
      BY <2>1, <2>3, <2>4, <2>5, <2>6 DEF AccountsInv, SpentOnce, Consumed
    <2>11. Fresh'
      BY <2>5 DEF Fresh
    <2>12. LinkOpensOneSession'
      BY <2>1, <2>3, <2>4 DEF AccountsInv, LinkOpensOneSession
    <2> QED
      BY <2>8, <2>9, <2>10, <2>11, <2>12 DEF AccountsInv
  <1> QED
    BY <1>1, <1>2

\* The session is the first one of its link, and the request lets go of it.
LEMMA OpenSessionInv ==
  ASSUME AccountsInv, NEW r \in PhpRequest, OpenSession(r)
  PROVE  AccountsInv'
  <1>1. CASE request[r].editor \notin DOMAIN editors
    BY <1>1, GivesUp DEF OpenSession
  <1>2. CASE request[r].editor \in DOMAIN editors
    <2> DEFINE k == request[r].link
               new == [editor |-> request[r].editor, link |-> request[r].link, by |-> r,
                       expires |-> hour + SessionLife, revoked |-> FALSE]
    <2>1. /\ Consumed(r) /\ sessions' = sessions \cup {new}
          /\ request' = [Outdated EXCEPT ![r] = NotServing]
          /\ UNCHANGED <<editors, links, issued>>
      BY <1>2 DEF OpenSession, Consumed
    <2>2. SessionRow(new) /\ new.link = k /\ new.editor \in DOMAIN editors
      BY <1>2 DEF SessionRow
    <2>3. /\ \A s \in sessions : s.link # k
          /\ k \in DOMAIN links => links[k].used
          /\ k \in 1..issued
          /\ \A p \in PhpRequest \ {r} : Consumed(p) => request[p].link # k
      BY <2>1 DEF AccountsInv, SpentOnce, Ids, Consumed
    <2> HIDE DEF new, k
    <2>4. /\ request' = [p \in PhpRequest |-> request'[p]]
          /\ RequestRow(request'[r]) /\ request'[r].at = "idle"
          /\ \A p \in PhpRequest \ {r} :
                /\ RequestRow(request'[p]) /\ request'[p].at = request[p].at
                /\ request'[p].link = request[p].link
                /\ request[p].at = "read" => request'[p].stale
      <3>1. RequestRow(NotServing) /\ NotServing.at = "idle"
        BY DEF RequestRow, NotServing
      <3> QED
        BY <2>1, <3>1, OutdatedRequests DEF AccountsInv
    <2>5. Shapes'
      BY <2>1, <2>2, <2>4 DEF AccountsInv, Shapes
    <2>6. Ids'
      BY <2>1, <2>2, <2>3, <2>4 DEF AccountsInv, Ids
    <2>7. SpentOnce'
      BY <2>1, <2>2, <2>3, <2>4 DEF AccountsInv, SpentOnce, Consumed
    <2>8. Fresh'
      BY <2>4 DEF Fresh
    <2>9. LinkOpensOneSession'
      BY <2>1, <2>2, <2>3 DEF AccountsInv, LinkOpensOneSession
    <2> QED
      BY <2>5, <2>6, <2>7, <2>8, <2>9 DEF AccountsInv
  <1> QED
    BY <1>1, <1>2

LEMMA LogoutInv ==
  ASSUME AccountsInv, NEW s \in sessions, Logout(s)
  PROVE  AccountsInv'
  <1> DEFINE t == [s EXCEPT !.revoked = TRUE]
  <1>1. /\ request' = Outdated /\ sessions' = (sessions \ {s}) \cup {t}
        /\ UNCHANGED <<editors, links, issued>>
    BY DEF Logout
  <1>2. /\ SessionRow(t) /\ t.editor = s.editor
        /\ t.link = s.link /\ t.by = s.by /\ t.expires = s.expires
    BY RevokedRow DEF AccountsInv, Shapes
  <1> HIDE DEF t
  <1>3. \A x \in sessions' :
           /\ SessionRow(x) /\ x.editor \in DOMAIN editors'
           /\ \E y \in sessions : x.link = y.link /\ x.by = y.by /\ x.expires = y.expires
    BY <1>1, <1>2 DEF AccountsInv, Shapes, LinkOpensOneSession
  <1>4. \A l \in DOMAIN links' : links'[l] = links[l] /\ links[l].editor \in DOMAIN editors'
    BY <1>1 DEF AccountsInv, LinkOpensOneSession
  <1> QED
    BY <1>1, <1>3, <1>4, OthersCommit

-----------------------------------------------------------------------------
(* The admin page and the commands                                         *)

LEMMA AdministerInv ==
  ASSUME AccountsInv, NEW e, NEW action, Administer(action, e)
  PROVE  AccountsInv'
  <1>1. /\ request' = Outdated /\ UNCHANGED <<links, issued>>
        /\ sessions' = IF action \in {"ban", "revoke_sessions"}
                       THEN {IF s.editor = e THEN [s EXCEPT !.revoked = TRUE] ELSE s : s \in sessions}
                       ELSE sessions
    BY DEF Administer, Command
  <1>2. DOMAIN editors' = DOMAIN editors
    BY DEF Administer
  <1>3. \A x \in sessions' : \E y \in sessions :
           /\ SessionRow(x) /\ x.editor = y.editor
           /\ x.link = y.link /\ x.by = y.by /\ x.expires = y.expires
    <2> SUFFICES ASSUME NEW x \in sessions'
                 PROVE  \E y \in sessions :
                           /\ SessionRow(x) /\ x.editor = y.editor
                           /\ x.link = y.link /\ x.by = y.by /\ x.expires = y.expires
      OBVIOUS
    <2>1. PICK y \in sessions : x = y \/ x = [y EXCEPT !.revoked = TRUE]
      BY <1>1
    <2>2. SessionRow(y)
      BY DEF AccountsInv, Shapes
    <2> QED
      BY <2>1, <2>2, RevokedRow
  <1>4. \A x \in sessions' :
           /\ SessionRow(x) /\ x.editor \in DOMAIN editors'
           /\ \E y \in sessions : x.link = y.link /\ x.by = y.by /\ x.expires = y.expires
    BY <1>2, <1>3 DEF AccountsInv, LinkOpensOneSession
  <1>5. \A l \in DOMAIN links' : links'[l] = links[l] /\ links[l].editor \in DOMAIN editors'
    BY <1>1, <1>2 DEF AccountsInv, LinkOpensOneSession
  <1> QED
    BY <1>1, <1>4, <1>5, OthersCommit

\* Where sessions, links and editors go together.
LEMMA RowsGo ==
  ASSUME AccountsInv, request' = Outdated, issued' = issued,
         sessions' \subseteq sessions, DOMAIN links' \subseteq DOMAIN links,
         \A l \in DOMAIN links' : links'[l] = links[l] /\ links[l].editor \in DOMAIN editors',
         \A s \in sessions' : s.editor \in DOMAIN editors'
  PROVE  AccountsInv'
  <1>1. \A s \in sessions' : SessionRow(s)
    BY DEF AccountsInv, Shapes
  <1> QED
    BY <1>1, OthersCommit

LEMMA SeedMaintainerInv ==
  ASSUME AccountsInv, NEW a, SeedMaintainer(a)
  PROVE  AccountsInv'
  <1>1. request' = Outdated /\ UNCHANGED <<links, issued, sessions>>
    BY DEF SeedMaintainer, Command
  <1>2. DOMAIN editors \subseteq DOMAIN editors'
    <2>1. CASE IdOf(a) = {}
      BY <2>1 DEF SeedMaintainer, With
    <2>2. CASE IdOf(a) # {}
      BY <2>2 DEF SeedMaintainer
    <2> QED
      BY <2>1, <2>2
  <1> QED
    BY <1>1, <1>2, RowsGo DEF AccountsInv, LinkOpensOneSession

LEMMA DeleteEditorInv ==
  ASSUME AccountsInv, NEW a, DeleteEditor(a)
  PROVE  AccountsInv'
  <1> DEFINE left == DOMAIN editors \ IdOf(a)
  <1>1. /\ request' = Outdated /\ issued' = issued
        /\ editors' = SomeOf(editors, left)
        /\ links' = SomeOf(links, {l \in DOMAIN links : links[l].editor \in left})
        /\ sessions' = {s \in sessions : s.editor \in left}
    BY DEF DeleteEditor, Command
  <1>2. DOMAIN editors' = left
    BY <1>1 DEF SomeOf
  <1>3. /\ DOMAIN links' \subseteq DOMAIN links
        /\ \A l \in DOMAIN links' : links'[l] = links[l] /\ links[l].editor \in DOMAIN editors'
    BY <1>1, <1>2 DEF SomeOf
  <1> QED
    BY <1>1, <1>2, <1>3, RowsGo

LEMMA RetentionInv ==
  ASSUME AccountsInv, Retention
  PROVE  AccountsInv'
  <1>1. /\ request' = Outdated /\ UNCHANGED <<editors, issued>> /\ sessions' \subseteq sessions
        /\ links' = SomeOf(links, {l \in DOMAIN links : links[l].expires >= hour - RetentionAge})
    BY DEF Retention, Command
  <1>2. /\ DOMAIN links' \subseteq DOMAIN links
        /\ \A l \in DOMAIN links' : links'[l] = links[l]
    BY <1>1 DEF SomeOf
  <1> QED
    BY <1>1, <1>2, RowsGo DEF AccountsInv, LinkOpensOneSession

LEMMA SameRows ==
  ASSUME AccountsInv, UNCHANGED <<editors, links, sessions, request, issued>>
  PROVE  AccountsInv'
  BY DEF AccountsInv, Shapes, Ids, SpentOnce, Fresh, Consumed, LinkOpensOneSession

-----------------------------------------------------------------------------
(* The theorems.                                                           *)

LEMMA NextInv == AccountsInv /\ [AccountsNext]_avars => AccountsInv'
  <1> SUFFICES ASSUME AccountsInv, [AccountsNext]_avars
               PROVE  AccountsInv'
    OBVIOUS
  <1>1. ASSUME NEW r \in PhpRequest, NEW a \in Address, Throttle(r, a)
        PROVE  AccountsInv'
    BY <1>1, ThrottleInv
  <1>2. ASSUME NEW r \in PhpRequest, NEW l \in DOMAIN links, ConsumeRead(r, l)
        PROVE  AccountsInv'
    BY <1>2, ConsumeReadInv
  <1>3. ASSUME NEW r \in PhpRequest, Issue(r) \/ ConsumeWrite(r) \/ OpenSession(r)
        PROVE  AccountsInv'
    BY <1>3, IssueInv, ConsumeWriteInv, OpenSessionInv
  <1>4. ASSUME NEW s \in sessions, Logout(s)
        PROVE  AccountsInv'
    BY <1>4, LogoutInv
  <1>5. ASSUME NEW e \in DOMAIN editors, NEW action \in DOMAIN Changes, Administer(action, e)
        PROVE  AccountsInv'
    BY <1>5, AdministerInv
  <1>6. ASSUME NEW a \in Address, SeedMaintainer(a) \/ DeleteEditor(a)
        PROVE  AccountsInv'
    BY <1>6, SeedMaintainerInv, DeleteEditorInv
  <1>7. CASE Retention
    BY <1>7, RetentionInv
  <1>8. CASE HourPasses
    BY <1>8, SameRows DEF HourPasses
  <1>9. CASE UNCHANGED avars
    BY <1>9, SameRows DEF avars
  <1> QED
    BY <1>1, <1>2, <1>3, <1>4, <1>5, <1>6, <1>7, <1>8, <1>9 DEF AccountsNext

\* The inductive invariant of editors, links, sessions and requests in flight.
THEOREM AccountsInvariant == AccountsSpec => []AccountsInv
  BY InitInv, NextInv, PTL DEF AccountsSpec

\* A magic link opens at most one session, whatever runs beside it (auth.php).
THEOREM OneSessionPerLink == AccountsSpec => []LinkOpensOneSession
  <1>1. AccountsInv => LinkOpensOneSession
    BY DEF AccountsInv
  <1> QED
    BY <1>1, AccountsInvariant, PTL

-----------------------------------------------------------------------------
(* The cap on links, issue_magic_link.  It is checked on a read before the  *)
(* transaction, so requests for one address may pass it together; what they *)
(* can exceed it by is the other requests in flight.                        *)

RecentOf(email) ==
    {l \in DOMAIN links : links[l].editor \in IdOf(email) /\ links[l].issued > hour - 1}
AtIssue(email) == {r \in PhpRequest : request[r].at = "throttled" /\ request[r].address = email}

\* Ids are numbers, so that the next one is new, and hours are.
Numbered ==
    /\ IsFiniteSet(DOMAIN editors) /\ DOMAIN editors \subseteq Nat
    /\ \A e \in DOMAIN editors : DOMAIN editors[e] = {"email", "status"}
    /\ hour \in Nat
    /\ \A l \in DOMAIN links : links[l].issued \in Nat

\* The links an address has of the last hour and the requests about to add one
\* are fewer than the cap and the PHP requests together
\* (auth_magic_link.php:121).
LinksBounded ==
    \A email : Cardinality(RecentOf(email)) + Cardinality(AtIssue(email))
                  <= LinkCap + Cardinality(PhpRequest) - 1

CapInv == AccountsInv /\ Numbered /\ LinksBounded

LEMMA RequestsFinite == /\ IsFiniteSet(PhpRequest) /\ Cardinality(PhpRequest) \in Nat
                        /\ LinkCap \in Nat \ {0}
  BY AccountsAssumption, FS_CardinalityType

\* What the counts are taken of is finite.
LEMMA CountsFinite ==
  ASSUME AccountsInv, NEW email
  PROVE  /\ IsFiniteSet(RecentOf(email)) /\ Cardinality(RecentOf(email)) \in Nat
         /\ IsFiniteSet(AtIssue(email)) /\ Cardinality(AtIssue(email)) \in Nat
         /\ Cardinality(AtIssue(email)) <= Cardinality(PhpRequest)
  <1>1. IsFiniteSet(1..issued)
    BY FS_Interval DEF AccountsInv, Ids
  <1>2. RecentOf(email) \subseteq 1..issued
    BY DEF RecentOf, AccountsInv, Ids
  <1>3. AtIssue(email) \subseteq PhpRequest
    BY DEF AtIssue
  <1> QED
    BY <1>1, <1>2, <1>3, RequestsFinite, FS_Subset, FS_CardinalityType

LEMMA FiniteMax ==
  ASSUME NEW S \in SUBSET Nat, IsFiniteSet(S), S # {}
  PROVE  \E m \in S : \A x \in S : x <= m
  <1> DEFINE Bad == {n \in Nat : \E X \in SUBSET S :
                        /\ X # {} /\ Cardinality(X) = n
                        /\ ~ \E m \in X : \A x \in X : x <= m}
             Less == OpToRel(<, Nat)
  <1>1. SUFFICES ASSUME Bad # {} PROVE FALSE
    BY FS_CardinalityType
  <1>2. PICK n \in Bad : \A k \in Bad : ~ (<<k, n>> \in Less)
    <2>1. Bad \subseteq Nat
      OBVIOUS
    <2> HIDE DEF Bad, Less
    <2>2. IsWellFoundedOn(Less, Nat)
      BY NatLessThanWellFounded DEF Less
    <2> QED
      BY <1>1, <2>1, <2>2, WFMin
  <1>3. \A k \in Bad : ~ (k < n)
    BY <1>2 DEF OpToRel
  <1>4. PICK X \in SUBSET S : /\ X # {} /\ Cardinality(X) = n
                              /\ ~ \E m \in X : \A x \in X : x <= m
    BY <1>2
  <1>5. PICK y \in X : TRUE
    BY <1>4
  <1>6. /\ IsFiniteSet(X) /\ Cardinality(X) \in Nat
        /\ Cardinality(X \ {y}) = Cardinality(X) - 1
        /\ Cardinality(X \ {y}) \in Nat
    BY <1>5, FS_Subset, FS_CardinalityType, FS_RemoveElement
  <1>7. X \ {y} # {}
    BY <1>4, <1>5
  <1>8. Cardinality(X \ {y}) \notin Bad
    <2>1. Cardinality(X \ {y}) < n
      BY <1>4, <1>6
    <2> HIDE DEF Bad
    <2> QED
      BY <1>3, <2>1
  <1>9. PICK z \in X \ {y} : \A x \in X \ {y} : x <= z
    BY <1>6, <1>7, <1>8
  <1>10. (\A x \in X : x <= z) \/ (\A x \in X : x <= y)
    BY <1>5, <1>9
  <1> QED
    BY <1>4, <1>5, <1>9, <1>10

\* A new editor's id is a number no editor has.
LEMMA NewIdIsNew ==
  ASSUME Numbered
  PROVE  NewId(editors) \in Nat /\ NewId(editors) \notin DOMAIN editors
  <1> DEFINE S == DOMAIN editors \cup {0}
  <1>1. S \subseteq Nat /\ S # {} /\ IsFiniteSet(S)
    BY FS_AddElement DEF Numbered
  <1> HIDE DEF S
  <1>2. \E m \in S : \A x \in S : x <= m
    BY <1>1, FiniteMax
  <1>3. Max(S) \in S /\ \A x \in S : Max(S) >= x
    <2>1. \E m \in S : \A x \in S : m >= x
      BY <1>1, <1>2
    <2> QED
      BY <2>1 DEF Max
  <1>4. Max(S) \in Nat /\ Max(S) + 1 \notin S
    <2>1. PICK m \in Nat : m = Max(S)
      BY <1>1, <1>3
    <2>2. ~ (m >= m + 1)
      OBVIOUS
    <2>3. m + 1 \notin S
      BY <1>3, <2>1, <2>2
    <2> QED
      BY <2>1, <2>3
  <1> QED
    BY <1>4 DEF NewId, S

\* With a new editor the table stays numbered, and nobody's address changes.
LEMMA EditorAdded ==
  ASSUME Numbered, NEW email, NEW status,
         editors' = With(editors, NewId(editors), [email |-> email, status |-> status])
  PROVE  /\ IsFiniteSet(DOMAIN editors') /\ DOMAIN editors' \subseteq Nat
         /\ \A e \in DOMAIN editors' : DOMAIN editors'[e] = {"email", "status"}
         /\ \A e \in DOMAIN editors : e \in DOMAIN editors' /\ editors'[e] = editors[e]
         /\ NewId(editors) \in DOMAIN editors' /\ editors'[NewId(editors)].email = email
         /\ DOMAIN editors' = DOMAIN editors \cup {NewId(editors)}
  <1> DEFINE row == [email |-> email, status |-> status]
             id == NewId(editors)
  <1>1. DOMAIN row = {"email", "status"} /\ row.email = email
    OBVIOUS
  <1>2. id \in Nat /\ id \notin DOMAIN editors
    BY NewIdIsNew
  <1>3. editors' = With(editors, id, row)
    OBVIOUS
  <1> HIDE DEF row, id
  <1>4. /\ DOMAIN editors' = DOMAIN editors \cup {id} /\ editors'[id] = row
        /\ \A e \in DOMAIN editors : editors'[e] = editors[e]
    BY <1>2, <1>3 DEF With
  <1>5. IsFiniteSet(DOMAIN editors')
    BY <1>4, FS_AddElement DEF Numbered
  <1> QED
    BY <1>1, <1>2, <1>4, <1>5 DEF Numbered, id

\* Nobody comes to the INSERT and no link is new: the counts do not grow.
LEMMA CountsKept ==
  ASSUME CapInv, AccountsInv', hour' \in Nat, hour <= hour', DOMAIN links' \subseteq DOMAIN links,
         \A l \in DOMAIN links' : /\ links'[l].editor = links[l].editor
                                  /\ links'[l].issued = links[l].issued,
         \A e \in DOMAIN editors \cap DOMAIN editors' : editors'[e].email = editors[e].email,
         \A r \in PhpRequest : request'[r].at = "throttled" =>
            request[r].at = "throttled" /\ request'[r].address = request[r].address
  PROVE  LinksBounded'
  <1> SUFFICES ASSUME NEW email
               PROVE  Cardinality(RecentOf(email))' + Cardinality(AtIssue(email))'
                         <= LinkCap + Cardinality(PhpRequest) - 1
    BY DEF LinksBounded
  <1>1. RecentOf(email)' \subseteq RecentOf(email)
    <2> SUFFICES ASSUME NEW l \in DOMAIN links', links'[l].editor \in IdOf(email)',
                        links'[l].issued > hour' - 1
                 PROVE  l \in RecentOf(email)
      BY DEF RecentOf
    <2>1. l \in DOMAIN links /\ links[l].editor \in DOMAIN editors
      BY DEF CapInv, AccountsInv, LinkOpensOneSession
    <2>2. links[l].editor \in IdOf(email)
      BY <2>1 DEF IdOf
    <2>3. links[l].issued \in Nat /\ hour \in Nat
      BY <2>1 DEF CapInv, Numbered
    <2> QED
      BY <2>1, <2>2, <2>3 DEF RecentOf
  <1>2. AtIssue(email)' \subseteq AtIssue(email)
    BY DEF AtIssue
  <1>3. /\ Cardinality(RecentOf(email)') <= Cardinality(RecentOf(email))
        /\ Cardinality(AtIssue(email)') <= Cardinality(AtIssue(email))
        /\ Cardinality(RecentOf(email)') \in Nat /\ Cardinality(AtIssue(email)') \in Nat
        /\ Cardinality(RecentOf(email)) \in Nat /\ Cardinality(AtIssue(email)) \in Nat
    BY <1>1, <1>2, CountsFinite, FS_Subset, FS_CardinalityType DEF CapInv
  <1>4. Cardinality(RecentOf(email)) + Cardinality(AtIssue(email))
           <= LinkCap + Cardinality(PhpRequest) - 1
    BY DEF CapInv, LinksBounded
  <1> QED
    BY <1>3, <1>4, RequestsFinite

LEMMA InitCap == AccountsInit => CapInv
  <1> SUFFICES ASSUME AccountsInit
               PROVE  CapInv
    OBVIOUS
  <1>1. AccountsInv
    BY InitInv
  <1>2. DOMAIN editors = {} /\ DOMAIN links = {} /\ hour = 0
    BY DEF AccountsInit
  <1>3. Numbered
    BY <1>2, FS_EmptySet DEF Numbered
  <1>4. \A r \in PhpRequest : request[r].at = "idle"
    BY DEF AccountsInit, NotServing
  <1>5. LinksBounded
    <2> SUFFICES ASSUME NEW email
                 PROVE  Cardinality(RecentOf(email)) + Cardinality(AtIssue(email))
                           <= LinkCap + Cardinality(PhpRequest) - 1
      BY DEF LinksBounded
    <2>1. RecentOf(email) = {} /\ AtIssue(email) = {}
      BY <1>2, <1>4 DEF RecentOf, AtIssue
    <2> QED
      BY <2>1, FS_EmptySet, RequestsFinite
  <1> QED
    BY <1>1, <1>3, <1>5 DEF CapInv

\* The check: under the cap there is room for every request at once.
LEMMA ThrottleCap ==
  ASSUME CapInv, AccountsInv', NEW r \in PhpRequest, NEW a \in Address, Throttle(r, a)
  PROVE  CapInv'
  <1>1. UNCHANGED <<hour, editors, links>>
    BY DEF Throttle
  <1>2. Numbered'
    BY <1>1 DEF CapInv, Numbered
  <1>3. request' = [request EXCEPT ![r].at = "throttled", ![r].address = canonical[a]]
    BY DEF Throttle
  <1>4. /\ request'[r].address = canonical[a]
        /\ \A p \in PhpRequest \ {r} : request'[p] = request[p]
    <2>1. RequestRow(request[r]) /\ r \in DOMAIN request
      BY DEF CapInv, AccountsInv, Shapes
    <2> QED
      BY <1>3, <2>1 DEF RequestRow, CapInv, AccountsInv, Shapes
  <1>5. ASSUME NEW email
        PROVE  Cardinality(RecentOf(email))' + Cardinality(AtIssue(email))'
                  <= LinkCap + Cardinality(PhpRequest) - 1
    <2>1. RecentOf(email)' = RecentOf(email)
      BY <1>1 DEF RecentOf, IdOf
    <2>2. CASE email = canonical[a]
      <3>1. Cardinality(RecentOf(email)) < LinkCap
        BY <2>2 DEF Throttle, UnderThrottle, RecentOf
      <3>2. /\ Cardinality(AtIssue(email)') <= Cardinality(PhpRequest)
            /\ Cardinality(AtIssue(email)') \in Nat /\ Cardinality(RecentOf(email)) \in Nat
        <4>1. AtIssue(email)' \subseteq PhpRequest
          BY DEF AtIssue
        <4> QED
          BY <4>1, CountsFinite, RequestsFinite, FS_Subset, FS_CardinalityType DEF CapInv
      <3> QED
        BY <2>1, <3>1, <3>2, RequestsFinite
    <2>3. CASE email # canonical[a]
      <3>1. AtIssue(email)' \subseteq AtIssue(email)
        BY <1>4, <2>3 DEF AtIssue
      <3>2. /\ Cardinality(AtIssue(email)') <= Cardinality(AtIssue(email))
            /\ Cardinality(AtIssue(email)') \in Nat /\ Cardinality(AtIssue(email)) \in Nat
            /\ Cardinality(RecentOf(email)) \in Nat
        BY <3>1, CountsFinite, FS_Subset, FS_CardinalityType DEF CapInv
      <3>3. Cardinality(RecentOf(email)) + Cardinality(AtIssue(email))
               <= LinkCap + Cardinality(PhpRequest) - 1
        BY DEF CapInv, LinksBounded
      <3> QED
        BY <2>1, <3>2, <3>3, RequestsFinite
    <2> QED
      BY <2>2, <2>3
  <1> QED
    BY <1>2, <1>5 DEF CapInv, LinksBounded

\* The INSERT: one request less before it, one link more.
LEMMA IssueCap ==
  ASSUME CapInv, AccountsInv', NEW r \in PhpRequest, Issue(r)
  PROVE  CapInv'
  <1>0. PICK email : email = request[r].address
    OBVIOUS
  <1> DEFINE id == IF IdOf(email) = {} THEN NewId(editors) ELSE CHOOSE e \in IdOf(email) : TRUE
             new == [editor |-> id, issued |-> hour, expires |-> hour + LinkLife, used |-> FALSE]
  <1>1. CASE IdOf(email) # {} /\ editors[id].status = "banned"
    <2>1. /\ request' = [request EXCEPT ![r] = NotServing]
          /\ UNCHANGED <<hour, editors, links>>
      BY <1>0, <1>1 DEF Issue
    <2>2. Numbered' /\ hour' \in Nat /\ hour <= hour'
      BY <2>1 DEF CapInv, Numbered
    <2>3. \A p \in PhpRequest : request'[p].at = "throttled" =>
             request[p].at = "throttled" /\ request'[p].address = request[p].address
      BY <2>1 DEF NotServing, CapInv, AccountsInv, Shapes
    <2>4. LinksBounded'
      BY <2>1, <2>2, <2>3, CountsKept
    <2> QED
      BY <2>2, <2>4 DEF CapInv
  <1>2. CASE ~(IdOf(email) # {} /\ editors[id].status = "banned")
    <2>1. /\ editors' = IF IdOf(email) # {} THEN editors
                        ELSE With(editors, id, [email |-> email, status |-> "pending"])
          /\ issued' = issued + 1 /\ links' = With(links, issued', new)
          /\ request' = [Outdated EXCEPT ![r] = NotServing] /\ hour' = hour
          /\ request[r].at = "throttled"
      BY <1>0, <1>2 DEF Issue
    <2>2. /\ IsFiniteSet(DOMAIN editors') /\ DOMAIN editors' \subseteq Nat
          /\ \A e \in DOMAIN editors' : DOMAIN editors'[e] = {"email", "status"}
          /\ \A e \in DOMAIN editors : e \in DOMAIN editors' /\ editors'[e] = editors[e]
          /\ id \in DOMAIN editors' /\ editors'[id].email = email
      <3>1. CASE IdOf(email) = {}
        <4>1. editors' = With(editors, NewId(editors), [email |-> email, status |-> "pending"])
          BY <2>1, <3>1
        <4>2. id = NewId(editors) /\ Numbered
          BY <3>1 DEF CapInv
        <4> HIDE DEF id
        <4> QED
          BY <4>1, <4>2, EditorAdded
      <3>2. CASE IdOf(email) # {}
        <4>1. id \in IdOf(email) /\ editors' = editors
          BY <2>1, <3>2
        <4> HIDE DEF id
        <4> QED
          BY <4>1 DEF IdOf, CapInv, Numbered
      <3> QED
        BY <3>1, <3>2
    <2>3. new.editor = id /\ new.issued = hour
      OBVIOUS
    <2> HIDE DEF id, new
    <2>4. issued + 1 \notin DOMAIN links
      BY DEF CapInv, AccountsInv, Ids
    <2>5. /\ DOMAIN links' = DOMAIN links \cup {issued'} /\ links'[issued'] = new
          /\ \A l \in DOMAIN links : links'[l] = links[l]
      BY <2>1, <2>4 DEF With
    <2>6. Numbered'
      BY <2>1, <2>2, <2>3, <2>5 DEF CapInv, Numbered
    <2>7. /\ request'[r].at = "idle"
          /\ \A p \in PhpRequest \ {r} : /\ request'[p].at = request[p].at
                                         /\ request'[p].address = request[p].address
      <3>1. \A p \in PhpRequest : /\ Outdated[p].at = request[p].at
                                  /\ Outdated[p].address = request[p].address
        BY DEF Outdated, CapInv, AccountsInv, Shapes, RequestRow
      <3>2. DOMAIN Outdated = PhpRequest
        BY DEF Outdated
      <3> QED
        BY <2>1, <3>1, <3>2 DEF NotServing
    <2>8. \A l \in DOMAIN links : links[l].editor \in DOMAIN editors
      BY DEF CapInv, AccountsInv, LinkOpensOneSession
    <2>9. ASSUME NEW other, other # email
          PROVE  RecentOf(other)' \subseteq RecentOf(other) /\ AtIssue(other)' \subseteq AtIssue(other)
      <3>1. AtIssue(other)' \subseteq AtIssue(other)
        BY <2>7 DEF AtIssue
      <3>2. id \notin IdOf(other)'
        BY <2>2, <2>9 DEF IdOf
      <3>3. RecentOf(other)' \subseteq RecentOf(other)
        BY <2>1, <2>2, <2>3, <2>5, <2>8, <3>2 DEF RecentOf, IdOf
      <3> QED
        BY <3>1, <3>3
    <2>10. /\ RecentOf(email)' \subseteq RecentOf(email) \cup {issued'}
           /\ AtIssue(email)' \subseteq AtIssue(email) \ {r} /\ r \in AtIssue(email)
      <3>1. AtIssue(email)' \subseteq AtIssue(email) \ {r} /\ r \in AtIssue(email)
        BY <1>0, <2>1, <2>7 DEF AtIssue
      <3>2. RecentOf(email)' \subseteq RecentOf(email) \cup {issued'}
        BY <2>1, <2>2, <2>5, <2>8 DEF RecentOf, IdOf
      <3> QED
        BY <3>1, <3>2
    <2>11. LinksBounded'
      <3> SUFFICES ASSUME NEW address
                   PROVE  Cardinality(RecentOf(address))' + Cardinality(AtIssue(address))'
                             <= LinkCap + Cardinality(PhpRequest) - 1
        BY DEF LinksBounded
      <3>1. /\ IsFiniteSet(RecentOf(address)) /\ IsFiniteSet(AtIssue(address))
            /\ Cardinality(RecentOf(address)) \in Nat /\ Cardinality(AtIssue(address)) \in Nat
        BY CountsFinite DEF CapInv
      <3>2. Cardinality(RecentOf(address)) + Cardinality(AtIssue(address))
               <= LinkCap + Cardinality(PhpRequest) - 1
        BY DEF CapInv, LinksBounded
      <3>3. CASE address # email
        <4>1. /\ Cardinality(RecentOf(address)') <= Cardinality(RecentOf(address))
              /\ Cardinality(AtIssue(address)') <= Cardinality(AtIssue(address))
              /\ Cardinality(RecentOf(address)') \in Nat /\ Cardinality(AtIssue(address)') \in Nat
          BY <2>9, <3>1, <3>3, FS_Subset, FS_CardinalityType
        <4> QED
          BY <3>1, <3>2, <4>1, RequestsFinite
      <3>4. CASE address = email
        <4>1. /\ IsFiniteSet(RecentOf(address) \cup {issued'})
              /\ Cardinality(RecentOf(address) \cup {issued'}) <= Cardinality(RecentOf(address)) + 1
          <5>1. Cardinality(RecentOf(address) \cup {issued'}) \in
                   {Cardinality(RecentOf(address)), Cardinality(RecentOf(address)) + 1}
            BY <3>1, FS_AddElement
          <5> QED
            BY <3>1, <5>1, FS_AddElement
        <4>2. /\ IsFiniteSet(AtIssue(address) \ {r})
              /\ Cardinality(AtIssue(address) \ {r}) = Cardinality(AtIssue(address)) - 1
          BY <2>10, <3>1, <3>4, FS_RemoveElement
        <4>3. /\ Cardinality(RecentOf(address)') <= Cardinality(RecentOf(address) \cup {issued'})
              /\ Cardinality(AtIssue(address)') <= Cardinality(AtIssue(address) \ {r})
          BY <2>10, <3>4, <4>1, <4>2, FS_Subset
        <4>4. /\ Cardinality(RecentOf(address) \cup {issued'}) \in Nat
              /\ Cardinality(RecentOf(address)') \in Nat /\ Cardinality(AtIssue(address)') \in Nat
          BY <2>10, <3>4, <4>1, <4>2, FS_Subset, FS_CardinalityType
        <4> QED
          BY <3>1, <3>2, <4>1, <4>2, <4>3, <4>4, RequestsFinite
      <3> QED
        BY <3>3, <3>4
    <2> QED
      BY <2>6, <2>11 DEF CapInv
  <1> QED
    BY <1>1, <1>2

\* auth.php: nobody comes to the INSERT.
LEMMA ServedCap ==
  ASSUME CapInv, AccountsInv', NEW r \in PhpRequest,
         (\E l \in DOMAIN links : ConsumeRead(r, l)) \/ ConsumeWrite(r) \/ OpenSession(r)
  PROVE  CapInv'
  <1>1. UNCHANGED <<hour, editors>>
    BY DEF ConsumeRead, ConsumeWrite, OpenSession
  <1>2. /\ DOMAIN links' = DOMAIN links
        /\ \A l \in DOMAIN links' : /\ links'[l].editor = links[l].editor
                                    /\ links'[l].issued = links[l].issued
    <2>1. CASE links' = links
      BY <2>1
    <2>2. CASE links' = [links EXCEPT ![request[r].link].used = TRUE]
      <3>1. \A l \in DOMAIN links : DOMAIN links[l] = {"editor", "issued", "expires", "used"}
        BY DEF CapInv, AccountsInv, Shapes, LinkRow
      <3> QED
        BY <2>2, <3>1
    <2> QED
      BY <2>1, <2>2 DEF ConsumeRead, ConsumeWrite, OpenSession
  <1>3. \A p \in PhpRequest : request'[p].at = "throttled" =>
           request[p].at = "throttled" /\ request'[p].address = request[p].address
    <2>1. /\ \A p \in PhpRequest : RequestRow(request[p])
          /\ request = [p \in PhpRequest |-> request[p]]
      BY DEF CapInv, AccountsInv, Shapes
    <2>2. /\ Outdated = [p \in PhpRequest |-> Outdated[p]]
          /\ \A p \in PhpRequest : /\ RequestRow(Outdated[p]) /\ Outdated[p].at = request[p].at
                                   /\ Outdated[p].address = request[p].address
      BY <2>1 DEF Outdated, RequestRow
    <2>3. CASE \E l \in DOMAIN links : ConsumeRead(r, l)
      <3>1. PICK l \in DOMAIN links : ConsumeRead(r, l)
        BY <2>3
      <3>2. request'[r].at = "read" /\ \A p \in PhpRequest \ {r} : request'[p] = request[p]
        BY <2>1, <3>1 DEF ConsumeRead, RequestRow
      <3> QED
        BY <3>2
    <2>4. CASE ConsumeWrite(r)
      <3>1. CASE request[r].stale
        BY <2>1, <2>4, <3>1 DEF ConsumeWrite, NotServing
      <3>2. CASE ~request[r].stale
        <4>1. request' = [Outdated EXCEPT ![r].at = "consumed"]
          BY <2>4, <3>2 DEF ConsumeWrite
        <4>2. request'[r].at = "consumed" /\ \A p \in PhpRequest \ {r} : request'[p] = Outdated[p]
          BY <2>2, <4>1 DEF RequestRow
        <4> QED
          BY <2>2, <4>2
      <3> QED
        BY <3>1, <3>2
    <2>5. CASE OpenSession(r)
      BY <2>1, <2>2, <2>5 DEF OpenSession, NotServing
    <2> QED
      BY <2>3, <2>4, <2>5
  <1>4. Numbered'
    BY <1>1, <1>2 DEF CapInv, Numbered
  <1>5. LinksBounded'
    BY <1>1, <1>2, <1>3, <1>4, CountsKept DEF CapInv, Numbered
  <1> QED
    BY <1>4, <1>5 DEF CapInv

\* The admin page, the commands and Logout commit, and links only go.
LEMMA CommitsCap ==
  ASSUME CapInv, AccountsInv', request' = Outdated, hour' = hour,
         DOMAIN links' \subseteq DOMAIN links, \A l \in DOMAIN links' : links'[l] = links[l],
         IsFiniteSet(DOMAIN editors'), DOMAIN editors' \subseteq Nat,
         \A e \in DOMAIN editors' : DOMAIN editors'[e] = {"email", "status"},
         \A e \in DOMAIN editors \cap DOMAIN editors' : editors'[e].email = editors[e].email
  PROVE  CapInv'
  <1>1. Numbered'
    BY DEF CapInv, Numbered
  <1>2. \A p \in PhpRequest : /\ request'[p].at = request[p].at
                              /\ request'[p].address = request[p].address
    BY DEF Outdated, CapInv, AccountsInv, Shapes, RequestRow
  <1>3. LinksBounded'
    BY <1>1, <1>2, CountsKept DEF CapInv, Numbered
  <1> QED
    BY <1>1, <1>3 DEF CapInv

LEMMA AdministerCap ==
  ASSUME CapInv, AccountsInv', NEW e \in DOMAIN editors, NEW action, Administer(action, e)
  PROVE  CapInv'
  <1>1. request' = Outdated /\ UNCHANGED <<hour, links>>
    BY DEF Administer, Command
  <1>2. /\ DOMAIN editors' = DOMAIN editors
        /\ \A x \in DOMAIN editors' : /\ DOMAIN editors'[x] = {"email", "status"}
                                      /\ editors'[x].email = editors[x].email
    <2>1. \A x \in DOMAIN editors : DOMAIN editors[x] = {"email", "status"}
      BY DEF CapInv, Numbered
    <2>2. PICK status : editors' = [editors EXCEPT ![e].status = status] \/ editors' = editors
      BY DEF Administer
    <2> QED
      BY <2>1, <2>2
  <1> QED
    BY <1>1, <1>2, CommitsCap DEF CapInv, Numbered

LEMMA SeedMaintainerCap ==
  ASSUME CapInv, AccountsInv', NEW a, SeedMaintainer(a)
  PROVE  CapInv'
  <1>1. request' = Outdated /\ UNCHANGED <<hour, links>>
    BY DEF SeedMaintainer, Command
  <1>2. CASE IdOf(a) = {}
    <2>1. editors' = With(editors, NewId(editors), [email |-> a, status |-> "maintainer"])
      BY <1>2 DEF SeedMaintainer
    <2>2. Numbered
      BY DEF CapInv
    <2>3. /\ IsFiniteSet(DOMAIN editors') /\ DOMAIN editors' \subseteq Nat
          /\ \A e \in DOMAIN editors' : DOMAIN editors'[e] = {"email", "status"}
          /\ \A e \in DOMAIN editors : editors'[e] = editors[e]
      BY <2>1, <2>2, EditorAdded
    <2> QED
      BY <1>1, <2>3, CommitsCap
  <1>3. CASE IdOf(a) # {}
    <2>1. editors' = [e \in DOMAIN editors |-> IF e \in IdOf(a)
                        THEN [editors[e] EXCEPT !.status = "maintainer"] ELSE editors[e]]
      BY <1>3 DEF SeedMaintainer
    <2>2. /\ DOMAIN editors' = DOMAIN editors
          /\ \A x \in DOMAIN editors' : /\ DOMAIN editors'[x] = {"email", "status"}
                                        /\ editors'[x].email = editors[x].email
      BY <2>1 DEF CapInv, Numbered
    <2> QED
      BY <1>1, <2>2, CommitsCap DEF CapInv, Numbered
  <1> QED
    BY <1>2, <1>3

LEMMA DeleteEditorCap ==
  ASSUME CapInv, AccountsInv', NEW a, DeleteEditor(a)
  PROVE  CapInv'
  <1> DEFINE left == DOMAIN editors \ IdOf(a)
  <1>1. /\ request' = Outdated /\ hour' = hour
        /\ editors' = SomeOf(editors, left)
        /\ links' = SomeOf(links, {l \in DOMAIN links : links[l].editor \in left})
    BY DEF DeleteEditor, Command
  <1>2. /\ DOMAIN links' \subseteq DOMAIN links
        /\ \A l \in DOMAIN links' : links'[l] = links[l]
    BY <1>1 DEF SomeOf
  <1>3. /\ DOMAIN editors' \subseteq DOMAIN editors
        /\ \A e \in DOMAIN editors' : editors'[e] = editors[e]
    BY <1>1 DEF SomeOf
  <1>4. IsFiniteSet(DOMAIN editors')
    BY <1>3, FS_Subset DEF CapInv, Numbered
  <1> QED
    BY <1>1, <1>2, <1>3, <1>4, CommitsCap DEF CapInv, Numbered

LEMMA RetentionCap ==
  ASSUME CapInv, AccountsInv', Retention
  PROVE  CapInv'
  <1>1. /\ request' = Outdated /\ UNCHANGED <<editors, hour>>
        /\ links' = SomeOf(links, {l \in DOMAIN links : links[l].expires >= hour - RetentionAge})
    BY DEF Retention, Command
  <1>2. /\ DOMAIN links' \subseteq DOMAIN links
        /\ \A l \in DOMAIN links' : links'[l] = links[l]
    BY <1>1 DEF SomeOf
  <1> QED
    BY <1>1, <1>2, CommitsCap DEF CapInv, Numbered

LEMMA HourCap ==
  ASSUME CapInv, AccountsInv', HourPasses
  PROVE  CapInv'
  <1>1. hour \in Nat /\ hour' = hour + 1 /\ UNCHANGED <<editors, links, request>>
    BY DEF HourPasses, CapInv, Numbered
  <1>2. Numbered' /\ hour' \in Nat /\ hour <= hour'
    BY <1>1 DEF CapInv, Numbered
  <1>3. LinksBounded'
    BY <1>1, <1>2, CountsKept
  <1> QED
    BY <1>2, <1>3 DEF CapInv

LEMMA NextCap == CapInv /\ [AccountsNext]_avars => CapInv'
  <1> SUFFICES ASSUME CapInv, [AccountsNext]_avars
               PROVE  CapInv'
    OBVIOUS
  <1>0. AccountsInv'
    BY NextInv DEF CapInv
  <1>1. ASSUME NEW r \in PhpRequest, NEW a \in Address, Throttle(r, a)
        PROVE  CapInv'
    BY <1>0, <1>1, ThrottleCap
  <1>2. ASSUME NEW r \in PhpRequest, Issue(r)
        PROVE  CapInv'
    BY <1>0, <1>2, IssueCap
  <1>3. ASSUME NEW r \in PhpRequest,
               (\E l \in DOMAIN links : ConsumeRead(r, l)) \/ ConsumeWrite(r) \/ OpenSession(r)
        PROVE  CapInv'
    BY <1>0, <1>3, ServedCap
  <1>4. ASSUME NEW s \in sessions, Logout(s)
        PROVE  CapInv'
    <2>1. request' = Outdated /\ UNCHANGED <<hour, editors, links>>
      BY <1>4 DEF Logout
    <2> QED
      BY <1>0, <2>1, CommitsCap DEF CapInv, Numbered
  <1>5. ASSUME NEW e \in DOMAIN editors, NEW action \in DOMAIN Changes, Administer(action, e)
        PROVE  CapInv'
    BY <1>0, <1>5, AdministerCap
  <1>6. ASSUME NEW a \in Address, SeedMaintainer(a) \/ DeleteEditor(a)
        PROVE  CapInv'
    BY <1>0, <1>6, SeedMaintainerCap, DeleteEditorCap
  <1>7. CASE Retention
    BY <1>0, <1>7, RetentionCap
  <1>8. CASE HourPasses
    BY <1>0, <1>8, HourCap
  <1>9. CASE UNCHANGED avars
    <2>1. UNCHANGED <<hour, editors, links, request>>
      BY <1>9 DEF avars
    <2>2. Numbered' /\ hour' \in Nat /\ hour <= hour'
      BY <2>1 DEF CapInv, Numbered
    <2> QED
      BY <1>0, <2>1, <2>2, CountsKept DEF CapInv
  <1> QED
    BY <1>1, <1>2, <1>3, <1>4, <1>5, <1>6, <1>7, <1>8, <1>9 DEF AccountsNext

\* However requests for links, the admin page and the commands interleave, the
\* links an address has of the last hour stay fewer than the cap and the PHP
\* requests together (issue_magic_link, which checks before its transaction).
THEOREM LinksStayBounded == AccountsSpec => []LinksBounded
  <1>1. CapInv => LinksBounded
    BY DEF CapInv
  <1> QED
    BY <1>1, InitCap, NextCap, PTL DEF AccountsSpec

-----------------------------------------------------------------------------
(* DatasetGate                                                             *)

\* The datasets there can be, part by part.
AnyReports == Reports \cup {GoodReports, [dir |-> FALSE, slugs |-> {}, files |-> {}, unsafe |-> {}, links |-> {}]}
AnyProse == Proses \cup {GoodProse, [GoodProse EXCEPT !.page = [p \in Page |-> IF p \in Legal THEN "text" ELSE "absent"]]}
AnyManifest == Manifests \cup {GoodManifest, [GoodManifest EXCEPT !.status = "scaffold"]}
DatasetType ==
    [manifest : AnyManifest, tables : Tables \cup {GoodTables}, cell : Cells,
     twins : Twins, reach : Reaches \cup {GoodReach}, profile : Profiles \cup {GoodProfile},
     reports : AnyReports, prose : AnyProse, look : Looks \cup {GoodLook}]

\* What is served was built of a dataset that builds, what is loaded passed the
\* gate, and a verdict is that of what the directory holds.
GateInv ==
    /\ dataset \in DatasetType \cup {Nothing}
    /\ verdict = "valid" => dataset \in DatasetType /\ Verdict(dataset) = "valid"
    /\ docroot = NoDocroot \/ \E d \in DatasetType : Builds(d) /\ docroot = Docroot(d)
    /\ db = NoRows \/ \E d \in DatasetType :
          /\ GateForUse(d)
          /\ db = [of |-> d, class |-> StorageClass(d.cell), twins |-> RowsStored(d.twins)]

\* One part of a record replaced by one of its set leaves a record of the set.
LEMMA PartReplaced ==
  ASSUME NEW M, NEW T, NEW C, NEW W, NEW R, NEW P, NEW Q, NEW S, NEW L,
         NEW b \in [manifest : M, tables : T, cell : C, twins : W, reach : R, profile : P,
                    reports : Q, prose : S, look : L]
  PROVE  LET X == [manifest : M, tables : T, cell : C, twins : W, reach : R, profile : P,
                   reports : Q, prose : S, look : L] IN
         /\ \A v \in M : [b EXCEPT !.manifest = v] \in X
         /\ \A v \in T : [b EXCEPT !.tables = v] \in X
         /\ \A v \in C : [b EXCEPT !.cell = v] \in X
         /\ \A v \in W : [b EXCEPT !.twins = v] \in X
         /\ \A v \in R : [b EXCEPT !.reach = v] \in X
         /\ \A v \in P : [b EXCEPT !.profile = v] \in X
         /\ \A v \in Q : [b EXCEPT !.reports = v] \in X
         /\ \A v \in S : [b EXCEPT !.prose = v] \in X
         /\ \A v \in L : [b EXCEPT !.look = v] \in X
  OBVIOUS

\* What init-dataset writes.
LEMMA ExampleTyped == Example \in DatasetType
  <1>1. GoodCell \in Cells
    BY DEF GoodCell, Cells, Kind, Raw
  <1>2. GoodTwins \in Twins
    BY DEF GoodTwins, Twins, Value
  <1> QED
    BY <1>1, <1>2 DEF Example, DatasetType, AnyReports, AnyProse, AnyManifest

LEMMA ScaffoldTyped == Scaffold \in DatasetType
  <1> DEFINE noReports == [dir |-> FALSE, slugs |-> {}, files |-> {}, unsafe |-> {}, links |-> {}]
             noPages == [p \in Page |-> IF p \in Legal THEN "text" ELSE "absent"]
             m == [GoodManifest EXCEPT !.status = "scaffold"]
             q == [GoodProse EXCEPT !.page = noPages]
             a == [Example EXCEPT !.manifest = m]
             b == [a EXCEPT !.reports = noReports]
             c == [b EXCEPT !.prose = q]
  <1>1. a \in DatasetType
    BY ExampleTyped, PartReplaced DEF DatasetType, AnyManifest
  <1>2. b \in DatasetType
    BY <1>1, PartReplaced DEF DatasetType, AnyReports
  <1>3. c \in DatasetType
    BY <1>2, PartReplaced DEF DatasetType, AnyProse
  <1>4. Scaffold = c
    BY DEF Scaffold, Example
  <1> QED
    BY <1>3, <1>4

\* A commit changes one part of the example or of the scaffold.
LEMMA CommitsTyped == Commits \subseteq DatasetType
  <1> DEFINE of(base) == {[base EXCEPT !.manifest = v] : v \in Manifests}
               \cup {[base EXCEPT !.tables = v] : v \in Tables}
               \cup {[base EXCEPT !.cell = v] : v \in Cells}
               \cup {[base EXCEPT !.twins = v] : v \in Twins}
               \cup {[base EXCEPT !.reach = v] : v \in Reaches}
               \cup {[base EXCEPT !.profile = v] : v \in Profiles}
               \cup {[base EXCEPT !.reports = v] : v \in Reports}
               \cup {[base EXCEPT !.prose = v] : v \in Proses}
               \cup {[base EXCEPT !.look = v] : v \in Looks}
  <1>1. ASSUME NEW base \in DatasetType PROVE of(base) \subseteq DatasetType
    <2> USE PartReplaced DEF DatasetType, AnyManifest, AnyReports, AnyProse
    <2>1. \A v \in Manifests : [base EXCEPT !.manifest = v] \in DatasetType
      OBVIOUS
    <2>2. \A v \in Tables : [base EXCEPT !.tables = v] \in DatasetType
      OBVIOUS
    <2>3. \A v \in Cells : [base EXCEPT !.cell = v] \in DatasetType
      OBVIOUS
    <2>4. \A v \in Twins : [base EXCEPT !.twins = v] \in DatasetType
      OBVIOUS
    <2>5. \A v \in Reaches : [base EXCEPT !.reach = v] \in DatasetType
      OBVIOUS
    <2>6. \A v \in Profiles : [base EXCEPT !.profile = v] \in DatasetType
      OBVIOUS
    <2>7. \A v \in Reports : [base EXCEPT !.reports = v] \in DatasetType
      OBVIOUS
    <2>8. \A v \in Proses : [base EXCEPT !.prose = v] \in DatasetType
      OBVIOUS
    <2>9. \A v \in Looks : [base EXCEPT !.look = v] \in DatasetType
      OBVIOUS
    <2> QED
      BY ONLY <2>1, <2>2, <2>3, <2>4, <2>5, <2>6, <2>7, <2>8, <2>9
  <1>2. Commits = of(Example) \cup of(Scaffold)
    BY DEF Commits
  <1>3. of(Example) \subseteq DatasetType /\ of(Scaffold) \subseteq DatasetType
    BY <1>1, ExampleTyped, ScaffoldTyped
  <1> HIDE DEF of
  <1> QED
    BY <1>2, <1>3

\* No dataset is none.
LEMMA NothingIsNone == Nothing \notin DatasetType
  <1> SUFFICES ASSUME Nothing \in DatasetType PROVE FALSE
    OBVIOUS
  <1>1. DOMAIN Nothing = {"is"}
    BY DEF Nothing
  <1>2. "manifest" \in DOMAIN Nothing
    BY DEF DatasetType
  <1> QED
    BY <1>1, <1>2

\* What a verdict stands for.
LEMMA VerdictOfValid ==
  ASSUME NEW d, Verdict(d) = "valid"
  PROVE  ValuesOk(d) /\ ReportsOk(d.reports) /\ ProseOk(d) /\ ContractOk(d)
  BY DEF Verdict

\* Pulls may come between any two of the judges.
LEMMA GateStep ==
  ASSUME GateInv, [GateNext]_gvars
  PROVE  GateInv'
  <1>1. ASSUME NEW d \in {Example, Scaffold}, InitDataset(d)
        PROVE  GateInv'
    <2>1. dataset = Nothing /\ dataset' \in {dataset, d} /\ UNCHANGED <<verdict, db, docroot>>
      BY <1>1 DEF InitDataset
    <2>2. d \in DatasetType
      BY ExampleTyped, ScaffoldTyped
    <2>3. verdict # "valid"
      BY <2>1, NothingIsNone DEF GateInv
    <2> QED
      BY <2>1, <2>2, <2>3 DEF GateInv
  <1>2. CASE Pull
    <2>1. dataset' \in DatasetType /\ verdict' = "none" /\ UNCHANGED <<db, docroot>>
      BY <1>2, CommitsTyped DEF Pull
    <2> QED
      BY <2>1 DEF GateInv
  <1>3. CASE Validate
    <2>1. dataset # Nothing /\ verdict' = Verdict(dataset) /\ UNCHANGED <<dataset, db, docroot>>
      BY <1>3 DEF Validate
    <2> QED
      BY <2>1 DEF GateInv
  <1>4. CASE SyncMetadata
    <2>1. /\ dataset # Nothing /\ GateForUse(dataset) /\ UNCHANGED <<dataset, verdict, docroot>>
          /\ db' = [of |-> dataset, class |-> StorageClass(dataset.cell), twins |-> RowsStored(dataset.twins)]
      BY <1>4 DEF SyncMetadata
    <2> QED
      BY <2>1 DEF GateInv
  <1>5. CASE BuildSite
    <2>1. /\ dataset # Nothing /\ Builds(dataset) /\ docroot' = Docroot(dataset)
          /\ UNCHANGED <<dataset, verdict, db>>
      BY <1>5 DEF BuildSite
    <2> QED
      BY <2>1 DEF GateInv
  <1>6. CASE UNCHANGED gvars
    BY <1>6 DEF gvars, GateInv
  <1> QED
    BY <1>1, <1>2, <1>3, <1>4, <1>5, <1>6 DEF GateNext

\* Whoever pulls, validates, loads and builds, in whatever order: what is served and
\* what is loaded passed the build and the gate of its own, and a verdict is of what is
\* there now.
THEOREM GateInvariant == GateSpec => []GateInv
  <1>1. GateInit => GateInv
    BY DEF GateInit, GateInv
  <1> QED
    BY <1>1, GateStep, PTL DEF GateSpec

\* Nothing that does not conform is served, and nothing but a publishable dataset of
\* this contract is loaded (deploy.py:298, sync_metadata.py:145).
THEOREM AlwaysServedClean == GateSpec => []ServedClean
  <1>1. GateInv => ServedClean
    <2> SUFFICES ASSUME GateInv PROVE ServedClean
      OBVIOUS
    <2>1. docroot.unsafe = {} /\ (docroot # NoDocroot => \A s \in docroot.of.look.region : SafeState(s))
      <3>1. CASE docroot = NoDocroot
        BY <3>1 DEF NoDocroot
      <3>2. CASE docroot # NoDocroot
        <4>1. PICK d \in DatasetType : Builds(d) /\ docroot = Docroot(d)
          BY <3>2 DEF GateInv
        <4>2. docroot.of = d /\ docroot.unsafe = {f \in d.reports.unsafe \cap Published(d.reports) : f[2] # "md"}
          BY <4>1 DEF Docroot
        <4>3. \A f \in Published(d.reports) : f \in d.reports.unsafe => f[2] = "md"
          BY <4>1 DEF Builds, ReportsBuild, Sanitized
        <4>4. \A s \in d.look.region : SafeState(s)
          BY <4>1 DEF Builds, RegionConfigOk
        <4> QED
          BY <4>2, <4>3, <4>4
      <3> QED
        BY <3>1, <3>2
    <2>2. db # NoRows => db.of.manifest.status = "publishable" /\ db.of.manifest.version = 1
      <3>1. SUFFICES ASSUME db # NoRows PROVE db.of.manifest.status = "publishable" /\ db.of.manifest.version = 1
        OBVIOUS
      <3>2. PICK d \in DatasetType :
              /\ GateForUse(d)
              /\ db = [of |-> d, class |-> StorageClass(d.cell), twins |-> RowsStored(d.twins)]
        BY <3>1 DEF GateInv
      <3> PICK c \in {StorageClass(d.cell)}, t \in {RowsStored(d.twins)} : TRUE
        OBVIOUS
      <3>3. db.of = d
        BY <3>2
      <3> QED
        BY <3>2, <3>3 DEF GateForUse, ContractOk, MetaOk
    <2> QED
      BY <2>1, <2>2 DEF ServedClean
  <1> QED
    BY <1>1, GateInvariant, PTL

-----------------------------------------------------------------------------

\* A cell that _value_problem accepts is stored as the readers of its column want it.
LEMMA CellBelongs ==
  ASSUME NEW c \in Cells, CellOk(c)
  PROVE  StorageClass(c) \in Belongs(c)
  <1>1. c.kind \in Kind /\ c.raw \in Raw
    BY DEF Cells
  <1>2. CASE c.raw = "empty"
    BY <1>2 DEF CellOk, StorageClass, Belongs
  <1>3. CASE c.raw # "empty"
    <2>1. c.raw \in AcceptedRaw[c.kind]
      BY <1>3 DEF CellOk, CellRules
    <2>2. CASE c.kind \in {"id", "int", "bool"}
      <3>1. c.raw \in Digits
        BY <2>1, <2>2 DEF AcceptedRaw, Digits
      <3>2. StorageClass(c) = "integer"
        BY <1>3, <2>2, <3>1 DEF StorageClass, Numeral, Digits
      <3> QED
        BY <2>2, <3>2 DEF Belongs
    <2>3. CASE c.kind = "decimal"
      <3>1. c.raw \in {"zero", "one", "seven", "padded", "fraction"}
        BY <2>1, <2>3 DEF AcceptedRaw
      <3>2. StorageClass(c) \in {"integer", "real"}
        BY <1>3, <2>3, <3>1 DEF StorageClass, Numeral, Digits
      <3> QED
        BY <2>3, <3>2 DEF Belongs
    <2>4. CASE c.kind = "float"
      <3>1. c.raw \in Numeral
        BY <2>1, <2>4 DEF AcceptedRaw
      <3>2. StorageClass(c) = "real"
        BY <1>3, <2>4, <3>1 DEF StorageClass
      <3> QED
        BY <2>4, <3>2 DEF Belongs
    <2>5. CASE c.kind = "datetime"
      <3>1. c.raw = "iso"
        BY <2>1, <2>5 DEF AcceptedRaw
      <3>2. StorageClass(c) = "text"
        BY <3>1 DEF StorageClass, Numeral, Digits
      <3> QED
        BY <2>5, <3>2 DEF Belongs
    <2>6. CASE c.kind \in {"enum", "text"}
      BY <1>3, <2>6 DEF Belongs, StorageClass
    <2> QED
      BY <1>1, <2>2, <2>3, <2>4, <2>5, <2>6 DEF Kind
  <1> QED
    BY <1>2, <1>3

\* Two keys that are told apart are two rows.
LEMMA TwinsStored ==
  ASSUME NEW t \in Twins, TwinsOk(t)
  PROVE  RowsStored(t) = 2
  <1> DEFINE x == NormKey(t.kind, t.a)
             y == NormKey(t.kind, t.b)
  <1>1. {NormKey(t.kind, r) : r \in {t.a, t.b}} = {x, y}
    OBVIOUS
  <1>2. x # y
    BY DEF TwinsOk
  <1> HIDE DEF x, y
  <1>3. Cardinality({x, y}) = 2
    <2>1. IsFiniteSet({x}) /\ Cardinality({x}) = 1
      BY FS_Singleton
    <2>2. y \notin {x} /\ {x, y} = {x} \cup {y}
      BY <1>2
    <2> QED
      BY <2>1, <2>2, FS_AddElement
  <1> QED
    BY <1>1, <1>3 DEF RowsStored

\* The README belongs to no calculation.
LEMMA SlugsAreReports ==
  ASSUME NEW r \in AnyReports
  PROVE  "readme" \notin Slugs(r)
  <1>1. r.slugs \in {{}, {"fit"}, {"fit", "lag"}, {"../fit"}}
    BY DEF AnyReports, Reports, GoodReports
  <1> QED
    BY <1>1 DEF Slugs

\* The reports of a valid dataset, once built: each slug with its sidecars, each
\* link but those to the README.
LEMMA ReportsServed ==
  ASSUME NEW d \in DatasetType, ReportsOk(d.reports), docroot = Docroot(d), d.reports.dir
  PROVE  /\ \A n \in Slugs(d.reports) : {<<n, "html">>, <<n, "svg">>, <<n, "json">>} \subseteq docroot.files
         /\ \A n \in Stems(d.reports) : \A l \in LinksOf(d.reports, n) :
               l[2] # "readme" => AsServed(<<l[2], l[3]>>) \in docroot.files
  <1> PICK r \in {d.reports} : TRUE
    OBVIOUS
  <1>1. r \in AnyReports
    BY DEF DatasetType
  <1>2. "readme" \notin Slugs(r)
    BY <1>1, SlugsAreReports
  <1>3. docroot.files = {AsServed(f) : f \in Published(r)}
    BY DEF Docroot
  <1>4. TriplesOk(r) /\ \A n \in Stems(r) : LinksOk(r, n)
    BY DEF ReportsOk
  <1>5. ASSUME NEW n, NEW k, <<n, k>> \in r.files, n # "readme"
        PROVE  AsServed(<<n, k>>) \in docroot.files
    <2>1. <<n, k>> \in Published(r)
      BY <1>5 DEF Published
    <2> QED
      BY <2>1, <1>3
  <1>6. ASSUME NEW n \in Slugs(r)
        PROVE  {<<n, "html">>, <<n, "svg">>, <<n, "json">>} \subseteq docroot.files
    <2>1. n # "readme" /\ <<n, "md">> \in r.files /\ <<n, "svg">> \in r.files /\ <<n, "json">> \in r.files
      BY <1>2, <1>4, <1>6 DEF TriplesOk, Triple
    <2>2. /\ AsServed(<<n, "md">>) = <<n, "html">> /\ AsServed(<<n, "svg">>) = <<n, "svg">>
          /\ AsServed(<<n, "json">>) = <<n, "json">>
      BY DEF AsServed
    <2> QED
      BY <1>5, <2>1, <2>2
  <1>7. ASSUME NEW n \in Stems(r), NEW l \in LinksOf(r, n), l[2] # "readme"
        PROVE  AsServed(<<l[2], l[3]>>) \in docroot.files
    <2>1. CASE <<l[2], l[3]>> \in r.files
      BY <1>5, <1>7, <2>1
    <2>2. CASE l[3] = "md" /\ l[2] \in Slugs(r)
      <3>1. <<l[2], l[3]>> \in r.files
        BY <1>4, <2>2 DEF TriplesOk, Triple
      <3> QED
        BY <1>5, <1>7, <3>1
    <2> QED
      BY <1>4, <1>7, <2>1, <2>2 DEF LinksOk
  <1> QED
    BY <1>6, <1>7

\* What validate-dataset accepts arrives whole in the database and on the site, for
\* any number of commits between.
THEOREM ValidIsWhole == GateSpec => []ValidArrivesWhole
  <1>1. GateInv => ValidArrivesWhole
    <2> SUFFICES ASSUME GateInv, verdict = "valid" PROVE ValidArrivesWhole
      BY DEF ValidArrivesWhole
    <2>1. dataset \in DatasetType /\ Verdict(dataset) = "valid"
      BY DEF GateInv
    <2>2. ValuesOk(dataset) /\ ReportsOk(dataset.reports) /\ ProseOk(dataset)
      BY <2>1, VerdictOfValid
    <2>3. dataset.cell \in Cells /\ dataset.twins \in Twins
      BY <2>1 DEF DatasetType
    <2>4. ASSUME db.of = dataset
          PROVE  db.class \in Belongs(dataset.cell) /\ db.twins = 2
      <3>1. db # NoRows
        BY <2>1, <2>4, NothingIsNone DEF NoRows
      <3>2. PICK d \in DatasetType :
              db = [of |-> d, class |-> StorageClass(d.cell), twins |-> RowsStored(d.twins)]
        BY <3>1 DEF GateInv
      <3> PICK c \in {StorageClass(d.cell)}, t \in {RowsStored(d.twins)} : TRUE
        OBVIOUS
      <3>3. db.of = d /\ db.class = c /\ db.twins = t
        BY <3>2
      <3>4. d = dataset
        BY <2>4, <3>3
      <3>5. CellOk(dataset.cell) /\ TwinsOk(dataset.twins)
        BY <2>2 DEF ValuesOk
      <3>6. c \in Belongs(dataset.cell)
        BY <2>3, <3>4, <3>5, CellBelongs
      <3>7. t = 2
        BY <2>3, <3>4, <3>5, TwinsStored
      <3> QED
        BY <3>3, <3>6, <3>7
    <2>5. ASSUME docroot.of = dataset
          PROVE  docroot = Docroot(dataset)
      <3>1. docroot # NoDocroot
        BY <2>1, <2>5, NothingIsNone DEF NoDocroot
      <3>2. PICK d \in DatasetType : docroot = Docroot(d)
        BY <3>1 DEF GateInv
      <3>3. docroot.of = d
        BY <3>2 DEF Docroot
      <3> QED
        BY <2>5, <3>2, <3>3
    <2>6. ASSUME docroot.of = dataset, dataset.manifest.status = "publishable"
          PROVE  Legal \subseteq docroot.prose
      <3>1. LegalThere(dataset.prose)
        BY <2>2, <2>6 DEF ProseOk
      <3>2. docroot.prose = {p \in Page : dataset.prose.page[p] # "absent"}
        BY <2>5, <2>6, <3>1 DEF Docroot, LegalThere
      <3> QED
        BY <3>1, <3>2 DEF LegalThere, Legal, Page
    <2>7. ASSUME docroot.of = dataset, dataset.reports.dir
          PROVE  /\ \A n \in Slugs(dataset.reports) :
                       {<<n, "html">>, <<n, "svg">>, <<n, "json">>} \subseteq docroot.files
                 /\ \A n \in Stems(dataset.reports) : \A l \in LinksOf(dataset.reports, n) :
                       l[2] # "readme" => AsServed(<<l[2], l[3]>>) \in docroot.files
      BY <2>1, <2>2, <2>5, <2>7, ReportsServed
    <2> QED
      BY <2>4, <2>6, <2>7 DEF ValidArrivesWhole
  <1> QED
    BY <1>1, GateInvariant, PTL

-----------------------------------------------------------------------------
(* HostConfig                                                              *)

\* What is on disk is what a render made of some host.yaml that loads.
EnvTyped == env \in Envs /\ secrets \in Secrets
UnitsRendered ==
    units # NotYet => \E y \in HostYamls :
        HostLoads(y) /\ units = [of |-> y, unit |-> [u \in Unit |-> DropIn(u, HostOf(y))]]
ServingRendered ==
    serving # NotYet => \E y \in HostYamls :
        /\ HostLoads(y)
        /\ serving = [of |-> y, root |-> HostOf(y).docroot,
                      basedir |-> {HostOf(y).docroot, "var", Database, "logs", "runtime-config.json"}]
GateTruthful ==
    gate # NotYet /\ gate.ok /\ gate.of[3].readable => BuildsJson(gate.of[1], gate.of[3], gate.of[2])
\* The inductive invariant.
ConfigInv == /\ EnvTyped /\ hostYaml \in HostYamls
             /\ RuntimeAsIntended /\ UnitsRendered /\ ServingRendered /\ GateTruthful

\* A secret that dotenv sees, the wrapper sees.
LEMMA WrapperReadsSecret ==
  ASSUME NEW s \in Secrets, DotenvValue(s) \notin {Absent, Blank}
  PROVE  WrapperValue(s) = DotenvValue(s)
  BY DEF DotenvValue, WrapperValue

\* What the wrapper installs.
LEMMA WrapperRuntime ==
  ASSUME NEW e \in Envs, NEW s \in Secrets, NEW y
  PROVE  LET j == Merged(Rendered(e, s, y, FALSE), s) IN
         /\ DotenvValue(s) \notin {Absent, Blank} => Captcha(j)
         /\ e.turnstile = "operator" => j.turnstile = "operator"
  <1> DEFINE r == Rendered(e, s, y, FALSE)
             h == HostOf(y)
             v == WrapperValue(s)
  <1>1. r = [turnstile |-> e.turnstile, host |-> h]
    BY DEF Rendered, Turnstile
  <1>2. DotenvValue(s) \notin {Absent, Blank} => v = DotenvValue(s)
    BY WrapperReadsSecret
  <1>3. v \in {Blank, "secret"}
    BY DEF WrapperValue, Secrets
  <1>4. e.turnstile \in {Absent, Blank, "operator"}
    BY DEF Envs
  <1> HIDE DEF h, v
  <1>5. Merged(r, s) = IF r.turnstile \in {Absent, Blank} /\ v # Blank
                       THEN [r EXCEPT !.turnstile = v] ELSE r
    BY DEF Merged, v
  <1>6. Merged(r, s).turnstile = IF e.turnstile \in {Absent, Blank} /\ v # Blank
                                 THEN v ELSE e.turnstile
    <2> HIDE DEF r
    <2> QED
      BY <1>1, <1>5
  <1> HIDE DEF r
  <1>7. DotenvValue(s) \notin {Absent, Blank} => Captcha(Merged(r, s))
    BY <1>2, <1>3, <1>4, <1>6 DEF Captcha, Absent, Blank
  <1>8. e.turnstile = "operator" => Merged(r, s).turnstile = "operator"
    BY <1>4, <1>6 DEF Absent, Blank
  <1> QED
    BY <1>7, <1>8 DEF r

\* What root renders without it.
LEMMA RootRuntime ==
  ASSUME NEW e \in Envs, NEW s, NEW y, e.turnstile = "operator"
  PROVE  Rendered(e, s, y, TRUE).turnstile = "operator"
  <1> DEFINE r == Rendered(e, s, y, TRUE)
             h == HostOf(y)
  <1>1. r = [turnstile |-> e.turnstile, host |-> h]
    BY DEF Rendered, Turnstile, Absent
  <1> HIDE DEF h, r
  <1>2. r.turnstile = "operator"
    BY <1>1
  <1> QED
    BY <1>2 DEF r

\* Edits may come between any two renders.
LEMMA ConfigStep ==
  ASSUME ConfigInv, [ConfigNext]_cvars
  PROVE  ConfigInv'
  <1>1. CASE Edit
    <2>1. EnvTyped' /\ hostYaml' \in HostYamls
      BY <1>1 DEF Edit, ConfigInv, EnvTyped
    <2>2. UNCHANGED <<runtime, units, serving, gate>>
      BY <1>1 DEF Edit
    <2> QED
      BY <2>1, <2>2 DEF ConfigInv, RuntimeAsIntended, UnitsRendered, ServingRendered, GateTruthful, NotYet, NoRuntime
  <1>2. CASE InstallRuntimeConfig
    <2>1. UNCHANGED <<env, secrets, hostYaml, manifest, units, serving, gate>>
      BY <1>2 DEF InstallRuntimeConfig
    <2>2. RuntimeAsIntended'
      <3> PICK j \in {Merged(Rendered(env, secrets, hostYaml, FALSE), secrets)} : TRUE
        OBVIOUS
      <3>1. /\ DotenvValue(secrets) \notin {Absent, Blank} => Captcha(j)
            /\ env.turnstile = "operator" => j.turnstile = "operator"
        BY WrapperRuntime DEF ConfigInv, EnvTyped
      <3>2. CASE runtime' = runtime
        BY <3>2 DEF ConfigInv, RuntimeAsIntended, NoRuntime
      <3>3. CASE runtime' = [json |-> j, by |-> "wrapper", of |-> [env |-> env, secrets |-> secrets]]
        BY <3>1, <3>3 DEF RuntimeAsIntended
      <3> QED
        BY <1>2, <3>2, <3>3 DEF InstallRuntimeConfig
    <2> QED
      BY <2>1, <2>2 DEF ConfigInv, EnvTyped, UnitsRendered, ServingRendered, GateTruthful, NotYet
  <1>3. CASE EmitAsRoot
    <2>1. UNCHANGED <<env, secrets, hostYaml, manifest, units, serving, gate>>
      BY <1>3 DEF EmitAsRoot
    <2>2. RuntimeAsIntended'
      <3> PICK j \in {Rendered(env, secrets, hostYaml, TRUE)} : TRUE
        OBVIOUS
      <3>1. env.turnstile = "operator" => j.turnstile = "operator"
        BY RootRuntime DEF ConfigInv, EnvTyped
      <3>2. CASE runtime' = runtime
        BY <3>2 DEF ConfigInv, RuntimeAsIntended, NoRuntime
      <3>3. CASE runtime' = [json |-> j, by |-> "root", of |-> [env |-> env, secrets |-> secrets]]
        BY <3>1, <3>3 DEF RuntimeAsIntended
      <3> QED
        BY <1>3, <3>2, <3>3 DEF EmitAsRoot
    <2> QED
      BY <2>1, <2>2 DEF ConfigInv, EnvTyped, UnitsRendered, ServingRendered, GateTruthful, NotYet
  <1>4. CASE RenderUnits
    <2>1. UNCHANGED <<env, secrets, hostYaml, manifest, runtime, serving, gate>>
      BY <1>4 DEF RenderUnits
    <2>2. UnitsRendered'
      <3>1. CASE units' = units
        BY <3>1 DEF ConfigInv, UnitsRendered, NotYet
      <3>2. CASE /\ HostLoads(hostYaml)
                 /\ units' = [of |-> hostYaml, unit |-> [u \in Unit |-> DropIn(u, HostOf(hostYaml))]]
        BY <3>2 DEF ConfigInv, UnitsRendered
      <3> QED
        BY <1>4, <3>1, <3>2 DEF RenderUnits
    <2> QED
      BY <2>1, <2>2 DEF ConfigInv, EnvTyped, RuntimeAsIntended, ServingRendered, GateTruthful, NotYet, NoRuntime
  <1>5. CASE RenderServing
    <2>1. UNCHANGED <<env, secrets, hostYaml, manifest, runtime, units, gate>>
      BY <1>5 DEF RenderServing
    <2>2. ServingRendered'
      <3>1. CASE serving' = serving
        BY <3>1 DEF ConfigInv, ServingRendered, NotYet
      <3>2. CASE HostLoads(hostYaml) /\ serving' # serving
        BY <1>5, <3>2 DEF RenderServing, ConfigInv, ServingRendered
      <3> QED
        BY <1>5, <3>1, <3>2 DEF RenderServing
    <2> QED
      BY <2>1, <2>2 DEF ConfigInv, EnvTyped, RuntimeAsIntended, UnitsRendered, GateTruthful, NotYet, NoRuntime
  <1>6. CASE ValidateConfig
    <2>1. UNCHANGED <<env, secrets, hostYaml, manifest, runtime, units, serving>>
      BY <1>6 DEF ValidateConfig
    <2>2. GateTruthful'
      BY <1>6 DEF ValidateConfig, GateTruthful, BuildsJson
    <2> QED
      BY <2>1, <2>2 DEF ConfigInv, EnvTyped, RuntimeAsIntended, UnitsRendered, ServingRendered, NotYet, NoRuntime
  <1>7. CASE UNCHANGED cvars
    BY <1>7 DEF cvars, ConfigInv, EnvTyped, RuntimeAsIntended, UnitsRendered, ServingRendered, GateTruthful, NotYet, NoRuntime
  <1> QED
    BY <1>1, <1>2, <1>3, <1>4, <1>5, <1>6, <1>7 DEF ConfigNext

\* For any number of edits: every installed file is a render of files that were there
\* and loaded, and the last verdict of validate-config was right.
THEOREM ConfigInvariant == ConfigSpec => []ConfigInv
  <1>1. ConfigInit => ConfigInv
    <2> SUFFICES ASSUME ConfigInit PROVE ConfigInv
      OBVIOUS
    <2>1. GoodEnv \in Envs
      BY DEF GoodEnv, Envs, Absent
    <2>2. secrets \in Secrets
      BY DEF ConfigInit, Secrets
    <2> QED
      BY <2>1, <2>2 DEF ConfigInit, ConfigInv, EnvTyped, RuntimeAsIntended, UnitsRendered, ServingRendered,
                  GateTruthful, HostYamls
  <1> QED
    BY <1>1, ConfigStep, PTL DEF ConfigSpec

\* The captcha is on whenever the wrapper saw a secret, in any spelling that
\* python-dotenv takes (config.py:62-77, kayak-install-runtime-config.sh).
THEOREM CaptchaAsIntended == ConfigSpec => []RuntimeAsIntended
  <1>1. ConfigInv => RuntimeAsIntended
    BY DEF ConfigInv
  <1> QED
    BY <1>1, ConfigInvariant, PTL

\* What was rendered of one host.yaml agrees with itself, whatever is in the environment now.
LEMMA RenderedAgrees ==
  ASSUME env \in Envs, NEW y \in HostYamls,
         units = [of |-> y, unit |-> [u \in Unit |-> DropIn(u, HostOf(y))]]
  PROVE  /\ \A u \in Unit : Writes(u) \subseteq units.unit[u].granted
         /\ LayersDir(UnitEnv("pipeline")) = LayersDir(UnitEnv("fetch-osmb"))
         /\ units.unit["pipeline"].env.output = HostOf(y).docroot
  <1> PICK h \in {HostOf(y)} : TRUE
    OBVIOUS
  <1>0. h.layers # Absent
    BY DEF HostOf, Absent
  <1>1. \A u \in Unit : units.unit[u] = DropIn(u, h)
    OBVIOUS
  <1>2. \A u \in Unit : units.unit[u].env = DropInEnv(u, h) /\ units.unit[u].granted = Granted(u, h)
    BY <1>1 DEF DropIn
  <1>3. units.unit["status"].output = h.status
    BY <1>1 DEF DropIn, Unit
  <1>4. /\ DropInEnv("pipeline", h).output = h.docroot /\ DropInEnv("pipeline", h).layers = h.layers
        /\ DropInEnv("fetch-osmb", h).layers = h.layers /\ DropInEnv("audit-gauges", h).gauges = h.gauges
    BY DEF DropInEnv, NotSet
  <1>5. /\ units.unit["pipeline"].env.output = h.docroot /\ units.unit["pipeline"].env.layers = h.layers
        /\ units.unit["fetch-osmb"].env.layers = h.layers /\ units.unit["audit-gauges"].env.gauges = h.gauges
    BY <1>2, <1>4 DEF Unit
  <1>6. \A u \in {"pipeline", "fetch-osmb"} : LayersDir(UnitEnv(u)) = h.layers
    BY <1>0, <1>5 DEF LayersDir, UnitEnv, Envs
  <1>7. ASSUME NEW u \in Unit PROVE Writes(u) \subseteq Granted(u, h)
    BY <1>3, <1>5, <1>6 DEF Writes, Granted, Unit
  <1> QED
    BY <1>2, <1>5, <1>6, <1>7

\* Units write only where they may, and the readers of host.yaml mean one directory,
\* whatever was edited since (host_render.py:59).
THEOREM SettingsAgree == ConfigSpec => []HostAgrees
  <1>1. ConfigInv => HostAgrees
    <2> SUFFICES ASSUME ConfigInv PROVE HostAgrees
      OBVIOUS
    <2>1. ASSUME units # NotYet
          PROVE  /\ \A u \in Unit : Writes(u) \subseteq units.unit[u].granted
                 /\ LayersDir(UnitEnv("pipeline")) = LayersDir(UnitEnv("fetch-osmb"))
                 /\ units.unit["pipeline"].env.output = HostOf(units.of).docroot
      <3>1. PICK y \in HostYamls :
              units = [of |-> y, unit |-> [u \in Unit |-> DropIn(u, HostOf(y))]]
        BY <2>1 DEF ConfigInv, UnitsRendered
      <3>2. units.of = y
        BY <3>1
      <3> QED
        BY <3>1, <3>2, RenderedAgrees DEF ConfigInv, EnvTyped
    <2>2. ASSUME serving # NotYet
          PROVE  /\ serving.root = HostOf(serving.of).docroot
                 /\ {serving.root, Database} \subseteq serving.basedir
      <3>1. PICK y \in HostYamls :
              serving = [of |-> y, root |-> HostOf(y).docroot,
                      basedir |-> {HostOf(y).docroot, "var", Database, "logs", "runtime-config.json"}]
        BY <2>2 DEF ConfigInv, ServingRendered
      <3> PICK d \in {HostOf(y).docroot} : TRUE
        OBVIOUS
      <3>2. serving.of = y /\ serving.root = d /\ serving.basedir = {d, "var", Database, "logs", "runtime-config.json"}
        BY <3>1
      <3> QED
        BY <3>2
    <2> QED
      BY <2>1, <2>2 DEF HostAgrees, ConfigInv, GateTruthful
  <1> QED
    BY <1>1, ConfigInvariant, PTL

=============================================================================
