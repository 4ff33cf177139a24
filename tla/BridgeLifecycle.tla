--------------------------- MODULE BridgeLifecycle ---------------------------
(***************************************************************************)
(* What the editor -> kayak_data bridge promises about one endorsed change *)
(* request, with workers, GitHub, leases and retries hidden: the legal     *)
(* transitions of change_request_bridge.state and of its attempt counter,  *)
(* and when the parent request is closed.  This is the contract the        *)
(* comments on BridgeState and ChangeRequestBridge describe (db/models.py);*)
(* EditorBridge, the detailed model, is checked to implement it.           *)
(***************************************************************************)
EXTENDS Naturals

CONSTANTS CR,          \* change_request ids
          MaxAttempt   \* bound on the attempts a maintainer may ask for

VARIABLES state,    \* state[c]: change_request_bridge.state, "none" = no row
          attempt,  \* attempt[c]: change_request_bridge.attempt
          parent    \* parent[c]: change_request.status
vars == <<state, attempt, parent>>

BridgeState == {"none", "queued", "pr_open", "merged", "deployed",
                "pr_closed", "conflict", "worker_error"}

Init == /\ state = [c \in CR |-> "none"]
        /\ attempt = [c \in CR |-> 0]
        /\ parent = [c \in CR |-> "pending"]

Move(c, from, to) == /\ state[c] \in from
                     /\ state' = [state EXCEPT ![c] = to]

\* A maintainer endorses: the status flip and the queue row commit together.
Endorse(c) == /\ parent[c] = "pending"
              /\ Move(c, {"none"}, "queued")
              /\ attempt' = [attempt EXCEPT ![c] = 1]
              /\ parent' = [parent EXCEPT ![c] = "approved"]

\* A worker run settles a queued row.
Settle(c) == /\ \E s \in {"pr_open", "conflict", "worker_error"} : Move(c, {"queued"}, s)
             /\ UNCHANGED <<attempt, parent>>

\* A reconcile run learns what became of the pull request.
Observe(c) == /\ \E s \in {"merged", "pr_closed"} : Move(c, {"pr_open"}, s)
              /\ UNCHANGED <<attempt, parent>>

\* The deploy hook closes the loop: row and parent in one transaction.
Ship(c) == /\ Move(c, {"merged"}, "deployed")
           /\ parent' = [parent EXCEPT ![c] = "resolved"]
           /\ UNCHANGED attempt

\* A maintainer asks for another attempt; a conflict needs a new review.
Requeue(c) == /\ parent[c] = "approved"
              /\ attempt[c] < MaxAttempt
              /\ Move(c, {"worker_error", "pr_closed"}, "queued")
              /\ attempt' = [attempt EXCEPT ![c] = @ + 1]
              /\ UNCHANGED parent

\* A maintainer closes the request by hand; the bridge row is not touched.
Resolve(c) == /\ parent[c] = "approved"
              /\ parent' = [parent EXCEPT ![c] = "resolved"]
              /\ UNCHANGED <<state, attempt>>

Next == \E c \in CR : \/ Endorse(c) \/ Settle(c) \/ Observe(c)
                      \/ Ship(c) \/ Requeue(c) \/ Resolve(c)

Spec == Init /\ [][Next]_vars
=============================================================================
