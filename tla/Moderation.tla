------------------------------ MODULE Moderation ------------------------------
(***************************************************************************)
(* What moderation promises about change requests, with pages, POSTs,      *)
(* notes, bridge rows and pull requests hidden: a request is decided once; *)
(* endorsing it is one step, which freezes a diff and takes the values it   *)
(* replaces from the live reach of that very moment (review_approve and    *)
(* bridge_capture_base); afterwards a request can only be closed.          *)
(* ReviewQueue implements this for the processes that decide, EditorBridge *)
(* for those that act on the decisions: it is what joins the two.          *)
(***************************************************************************)
CONSTANTS
    Id,       \* change_request ids
    Field,    \* what a diff may change
    Val,      \* contents
    Bridged   \* the fields a diff that goes to the bridge may have

VARIABLES
    live,     \* the live values
    status,   \* status[i]: change_request.status, "none" = no such row
    frozen,   \* frozen[i]: change_request.applied_json
    base      \* base[i]: the drift base, empty for a diff that is not bridged

vars == <<live, status, frozen, base>>

\* Contents of some of the fields.
Diff == UNION {[S -> Val] : S \in SUBSET Field}
Empty == [f \in {} |-> 0]

Init ==
    /\ live \in [Field -> Val]
    /\ status \in [Id -> {"none", "pending"}]
    /\ frozen = [i \in Id |-> Empty]
    /\ base = [i \in Id |-> Empty]

Submit(i) ==
    /\ status[i] = "none"
    /\ status' = [status EXCEPT ![i] = "pending"]
    /\ UNCHANGED <<live, frozen, base>>

ReviewedBase(d) == IF DOMAIN d \subseteq Bridged THEN [f \in DOMAIN d |-> live[f]] ELSE Empty

\* A pending request, or a maintainer's own edit, which is endorsed at birth.
Endorse(i) ==
    /\ status[i] \in {"none", "pending"}
    /\ status' = [status EXCEPT ![i] = "approved"]
    /\ \E d \in Diff : /\ frozen' = [frozen EXCEPT ![i] = d]
                      /\ base' = [base EXCEPT ![i] = ReviewedBase(d)]
    /\ UNCHANGED live

Close(i, from, to) ==
    /\ status[i] \in from
    /\ status' = [status EXCEPT ![i] = to]
    /\ UNCHANGED <<live, frozen, base>>
Reject(i) == Close(i, {"pending"}, "rejected")
Resolve(i) == Close(i, {"pending", "approved"}, "resolved")

\* A deploy brings other live values.
Deploy ==
    /\ live' \in [Field -> Val]
    /\ UNCHANGED <<status, frozen, base>>

Next ==
    \/ Deploy
    \/ \E i \in Id : Submit(i) \/ Endorse(i) \/ Reject(i) \/ Resolve(i)

Spec == Init /\ [][Next]_vars
=============================================================================
