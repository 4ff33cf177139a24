----------------------------- MODULE HttpFetch -----------------------------
(***************************************************************************)
(* async_fetch_many (utils/http_client.py): the one place of the pipeline   *)
(* where tasks really interleave.  A task per URL makes up to MaxRetries    *)
(* requests under the semaphore of its host and sleeps between them; the    *)
(* batch waits for all of them, at most Budget seconds, cancels the rest    *)
(* and turns every task into a result.  The event loop runs what is ready   *)
(* before time moves: Pass is enabled only when nothing is due.             *)
(***************************************************************************)
EXTENDS Integers, FiniteSets

CONSTANTS
    Url, Host,
    hostOf,       \* urlparse(url).hostname
    limit,        \* http_concurrency.yaml, or concurrency_per_host
    Refused,      \* URLs that _validate_url rejects
    MaxRetries, Timeout,
    NoBudget,     \* --budget 0: no deadline
    Deadlines,    \* the deadlines a batch may be given
    MaxClock      \* bound: the clock; no task can still be running then

Status == {"ok", "refused", "retryable", "final", "error", "budget"}
Free == -1

ASSUME HttpAssumption ==
    /\ IsFiniteSet(Url) /\ MaxClock \in Nat
    /\ hostOf \in [Url -> Host] /\ limit \in [Host -> Nat \ {0}]
    /\ Refused \subseteq Url /\ MaxRetries \in Nat \ {0} /\ Timeout \in Nat \ {0}
    /\ Deadlines \subseteq Nat \cup {NoBudget}
    /\ \A n \in 0..MaxRetries : 2 ^ n \in Nat     \* arithmetic that the provers lack

VARIABLES
    clock,
    deadline,
    task,     \* per URL: where _async_fetch_one is
    phase,    \* the batch: "waiting" in _await_with_budget, then "done"
    result    \* what _collect_task_results returns

hvars == <<clock, deadline, task, phase, result>>

Task == [at      : {"start", "queued", "request", "backoff", "end"},
         attempt : 0..MaxRetries,
         sent    : 0..MaxRetries,          \* requests made
         due     : Int,                    \* when a request or a sleep ends
         capped  : Nat,                    \* req_timeout of this attempt
         last    : Status]                 \* last_result, or the return value

HttpTypeOK ==
    /\ clock \in 0..MaxClock /\ deadline \in Deadlines
    /\ task \in [Url -> Task]
    /\ phase \in {"waiting", "done"}
    /\ result \in [Url -> Status \cup {"none"}]

HttpInit ==
    /\ clock = 0 /\ deadline \in Deadlines
    /\ task = [u \in Url |-> [at |-> "start", attempt |-> 0, sent |-> 0, due |-> Free,
                              capped |-> 0, last |-> "budget"]]
    /\ phase = "waiting" /\ result = [u \in Url |-> "none"]

InFlight(h) == {u \in Url : hostOf[u] = h /\ task[u].at = "request"}
Past(t) == deadline # NoBudget /\ t >= deadline

Return(u, r) == task' = [task EXCEPT ![u].at = "end", ![u].due = Free, ![u].last = r]

\* The head of the retry loop: give up past the deadline with what there is,
\* else queue at the host's semaphore; the request may take what is left of
\* the budget as of now, at least a second.
Attempt(u) ==
    /\ task[u].at = "start" \/ (task[u].at = "backoff" /\ task[u].due = clock)
    /\ IF u \in Refused THEN Return(u, "refused")
       ELSE IF Past(clock) THEN Return(u, task[u].last)
       ELSE task' = [task EXCEPT ![u].at = "queued", ![u].due = Free,
              ![u].capped = IF deadline # NoBudget /\ deadline - clock < Timeout
                            THEN deadline - clock ELSE Timeout]

\* Requests that do not take the semaphore.
AdmittedUnbounded(u) == TRUE

\* A semaphore that is one short.
AdmittedShort(u) == Cardinality(InFlight(hostOf[u])) < limit[hostOf[u]] - 1

Admitted(u) == Cardinality(InFlight(hostOf[u])) < limit[hostOf[u]]

Request(u) ==
    /\ task[u].at = "queued" /\ Admitted(u)
    /\ task' = [task EXCEPT ![u].at = "request", ![u].sent = @ + 1,
                            ![u].due = clock + task[u].capped]

\* After a retryable answer: not again after the last attempt, and no sleep
\* that would reach the deadline.
GiveUp(u, wait) == task[u].attempt = MaxRetries - 1 \/ Past(clock + wait)

Again(u, r) ==
    LET wait == 2 ^ task[u].attempt
    IN  IF GiveUp(u, wait) THEN Return(u, r)
        ELSE task' = [task EXCEPT ![u].at = "backoff", ![u].due = clock + wait,
                                  ![u].attempt = @ + 1, ![u].last = r]

\* The answer: 2xx-4xx but 429 and a body over the cap end the task, 429 and
\* 5xx are retried.
Answer(u) ==
    /\ task[u].at = "request" /\ task[u].due > clock
    /\ \/ \E r \in {"ok", "final"} : Return(u, r)
       \/ Again(u, "retryable")

\* A connection error at any time, TimeoutError when the time is up.
Fails(u) == task[u].at = "request" /\ Again(u, "error")

AllEnded == \A u \in Url : task[u].at = "end"

\* _await_with_budget and _collect_task_results: what has not ended is
\* cancelled, wherever it is, and its semaphore slot released.
Collect ==
    /\ phase = "waiting"
    /\ AllEnded \/ Past(clock)
    /\ phase' = "done"
    /\ result' = [u \in Url |-> IF task[u].at = "end" THEN task[u].last ELSE "budget"]
    /\ task' = [u \in Url |-> [task[u] EXCEPT !.at = "end"]]

Step(u) == Attempt(u) \/ Request(u) \/ Answer(u) \/ Fails(u)

\* Something the event loop would run before it sleeps.
Due ==
    \/ \E u \in Url : task[u].at = "start" \/ task[u].due = clock
                      \/ (task[u].at = "queued" /\ Admitted(u))
    \/ AllEnded \/ Past(clock)

Pass ==
    /\ phase = "waiting" /\ ~Due /\ clock < MaxClock
    /\ clock' = clock + 1
    /\ UNCHANGED <<deadline, task, phase, result>>

HttpNext ==
    \/ \E u \in Url : phase = "waiting" /\ Step(u) /\ UNCHANGED <<clock, deadline, phase, result>>
    \/ Collect /\ UNCHANGED <<clock, deadline>>
    \/ Pass

\* The event loop schedules every task that is ready and the clock moves on.
HttpFairness == WF_hvars(HttpNext)

HttpSpec == HttpInit /\ [][HttpNext]_hvars /\ HttpFairness

-----------------------------------------------------------------------------

\* However requests, answers, sleeps and the deadline interleave, no host sees
\* more concurrent requests than its limit, no URL is requested more often than
\* MaxRetries, and a batch with a budget is over when the budget is
\* (http_client.py:280, 322, 455).
BatchPolite ==
    /\ \A h \in Host : Cardinality(InFlight(h)) <= limit[h]
    /\ \A u \in Url : task[u].sent <= MaxRetries
    /\ deadline # NoBudget => clock <= deadline

\* Every batch ends, also without a budget and with hosts that never answer,
\* and then every URL has a result.
BatchEnds == <>[](phase = "done" /\ \A u \in Url : result[u] # "none")
=============================================================================
