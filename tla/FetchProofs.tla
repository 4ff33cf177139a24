----------------------------- MODULE FetchProofs -----------------------------
(***************************************************************************)
(* What comes in from outside, proved for every value of the constants: a  *)
(* batch of requests is polite (HttpFetch), a stored reading is true        *)
(* (FeedParsers), and what the audit says of the feeds is true              *)
(* (GaugeAudit).  The three share nothing.                                  *)
(***************************************************************************)
EXTENDS HttpFetch, FeedParsers, GaugeAudit, FiniteSetTheorems, WellFoundedInduction, TLAPS

-----------------------------------------------------------------------------
(* HttpFetch                                                               *)

\* A request is the one of its attempt: while a task waits it has made at most
\* one request per attempt before this one.
Counted ==
    \A u \in Url :
        /\ task[u].attempt <= MaxRetries - 1
        /\ task[u].sent <= task[u].attempt + 1
        /\ task[u].at \in {"start", "queued", "backoff"} => task[u].sent <= task[u].attempt

WithinLimits == \A h \in Host : Cardinality(InFlight(h)) <= limit[h]

WithinBudget == deadline # NoBudget => clock <= deadline

BatchInv == HttpTypeOK /\ Counted /\ WithinLimits /\ WithinBudget

-----------------------------------------------------------------------------
(* The set of requests in flight.                                          *)

LEMMA InFlightFinite ==
  ASSUME NEW h
  PROVE  /\ IsFiniteSet(InFlight(h)) /\ Cardinality(InFlight(h)) \in Nat
         /\ IsFiniteSet(InFlight(h)') /\ Cardinality(InFlight(h)') \in Nat
  <1>1. InFlight(h) \in SUBSET Url /\ InFlight(h)' \in SUBSET Url
    BY DEF InFlight
  <1> QED
    BY <1>1, HttpAssumption, FS_Subset, FS_CardinalityType

\* Where no request starts, the limits stay.
LEMMA NoneStarts ==
  ASSUME HttpTypeOK, WithinLimits,
         \A u \in Url : task'[u].at = "request" => task[u].at = "request"
  PROVE  WithinLimits'
  <1> SUFFICES ASSUME NEW h \in Host
               PROVE  Cardinality(InFlight(h)') <= limit[h]
    BY DEF WithinLimits
  <1>1. InFlight(h)' \in SUBSET InFlight(h)
    BY DEF InFlight
  <1>2. Cardinality(InFlight(h)') <= Cardinality(InFlight(h))
    BY <1>1, InFlightFinite, FS_Subset
  <1>3. Cardinality(InFlight(h)) <= limit[h] /\ limit[h] \in Nat
    BY HttpAssumption DEF WithinLimits
  <1> QED
    BY <1>2, <1>3, InFlightFinite

-----------------------------------------------------------------------------
(* The records the steps write.                                            *)

LEMMA EndTyped ==
  ASSUME NEW t \in Task, NEW i \in Int, NEW r \in Status
  PROVE  [t EXCEPT !.at = "end", !.due = i, !.last = r] \in Task
  BY DEF Task

LEMMA QueuedTyped ==
  ASSUME NEW t \in Task, NEW i \in Int, NEW c \in Nat
  PROVE  [t EXCEPT !.at = "queued", !.due = i, !.capped = c] \in Task
  BY DEF Task

LEMMA RequestTyped ==
  ASSUME NEW t \in Task, NEW n \in 0..MaxRetries, NEW i \in Int
  PROVE  [t EXCEPT !.at = "request", !.sent = n, !.due = i] \in Task
  BY DEF Task

LEMMA BackoffTyped ==
  ASSUME NEW t \in Task, NEW i \in Int, NEW n \in 0..MaxRetries, NEW r \in Status
  PROVE  [t EXCEPT !.at = "backoff", !.due = i, !.attempt = n, !.last = r] \in Task
  BY DEF Task

LEMMA FreeTyped == Free \in Int
  BY DEF Free

-----------------------------------------------------------------------------
(* The steps.                                                              *)

\* The task of u ends with r: nothing starts, nothing is counted.
LEMMA ReturnKeeps ==
  ASSUME BatchInv, NEW u \in Url, NEW r \in Status, Return(u, r),
         UNCHANGED <<clock, deadline, phase, result>>
  PROVE  BatchInv'
  <1>1. task \in [Url -> Task] /\ task[u] \in Task
    BY DEF BatchInv, HttpTypeOK
  <1>2. [task[u] EXCEPT !.at = "end", !.due = Free, !.last = r] \in Task
    BY <1>1, EndTyped, FreeTyped
  <1>3. HttpTypeOK'
    BY <1>1, <1>2 DEF BatchInv, HttpTypeOK, Return
  <1>4. /\ task'[u].at = "end" /\ task'[u].attempt = task[u].attempt
        /\ task'[u].sent = task[u].sent
        /\ \A v \in Url : v # u => task'[v] = task[v]
    BY <1>1 DEF Return, Task
  <1>5. Counted'
    BY <1>4 DEF BatchInv, Counted
  <1>6. WithinLimits'
    BY <1>4, NoneStarts DEF BatchInv
  <1> QED
    BY <1>3, <1>5, <1>6 DEF BatchInv, WithinBudget

LEMMA AttemptKeeps ==
  ASSUME BatchInv, NEW u \in Url, Attempt(u), UNCHANGED <<clock, deadline, phase, result>>
  PROVE  BatchInv'
  <1>1. task \in [Url -> Task] /\ task[u] \in Task /\ task[u].last \in Status
    BY DEF BatchInv, HttpTypeOK, Task
  <1>2. CASE u \in Refused
    BY <1>2, ReturnKeeps DEF Attempt, Status
  <1>3. CASE u \notin Refused /\ Past(clock)
    BY <1>1, <1>3, ReturnKeeps DEF Attempt
  <1>4. CASE u \notin Refused /\ ~ Past(clock)
    <2> DEFINE most == IF deadline # NoBudget /\ deadline - clock < Timeout
                       THEN deadline - clock ELSE Timeout
    <2>1. task' = [task EXCEPT ![u].at = "queued", ![u].due = Free, ![u].capped = most]
      BY <1>4 DEF Attempt
    <2>2. most \in Nat
      <3>1. clock \in Nat /\ deadline \in Nat \cup {NoBudget}
        BY HttpAssumption DEF BatchInv, HttpTypeOK
      <3> QED
        BY <1>4, <3>1, HttpAssumption DEF Past
    <2> HIDE DEF most
    <2>3. [task[u] EXCEPT !.at = "queued", !.due = Free, !.capped = most] \in Task
      BY <1>1, <2>2, QueuedTyped, FreeTyped
    <2>4. HttpTypeOK'
      BY <1>1, <2>1, <2>3 DEF BatchInv, HttpTypeOK
    <2>5. /\ task'[u].at = "queued" /\ task'[u].attempt = task[u].attempt
          /\ task'[u].sent = task[u].sent
          /\ \A v \in Url : v # u => task'[v] = task[v]
      BY <1>1, <2>1 DEF Task
    <2>6. task[u].at \in {"start", "backoff"}
      BY DEF Attempt
    <2>7. Counted'
      BY <2>5, <2>6 DEF BatchInv, Counted
    <2>8. WithinLimits'
      BY <2>5, NoneStarts DEF BatchInv
    <2> QED
      BY <2>4, <2>7, <2>8 DEF BatchInv, WithinBudget
  <1> QED
    BY <1>2, <1>3, <1>4

LEMMA RequestKeeps ==
  ASSUME BatchInv, NEW u \in Url, Request(u), UNCHANGED <<clock, deadline, phase, result>>
  PROVE  BatchInv'
  <1>1. /\ task \in [Url -> Task] /\ task[u] \in Task /\ clock \in Int
        /\ task[u].attempt \in Nat /\ task[u].sent \in Nat /\ task[u].capped \in Nat
    BY HttpAssumption DEF BatchInv, HttpTypeOK, Task
  <1>2. /\ task[u].at = "queued" /\ task[u].sent <= task[u].attempt
        /\ task[u].attempt <= MaxRetries - 1
    BY DEF Request, BatchInv, Counted
  <1>3. task[u].sent + 1 \in 0..MaxRetries
    BY <1>1, <1>2, HttpAssumption
  <1>4. [task[u] EXCEPT !.at = "request", !.sent = task[u].sent + 1,
                        !.due = clock + task[u].capped] \in Task
    <2>1. clock + task[u].capped \in Int
      BY <1>1
    <2> QED
      BY <1>1, <1>3, <2>1, RequestTyped
  <1>5. HttpTypeOK'
    BY <1>1, <1>4 DEF BatchInv, HttpTypeOK, Request
  <1>6. /\ task'[u].at = "request" /\ task'[u].attempt = task[u].attempt
        /\ task'[u].sent = task[u].sent + 1
        /\ \A v \in Url : v # u => task'[v] = task[v]
    BY <1>1 DEF Request, Task
  <1>7. Counted'
    BY <1>1, <1>2, <1>6 DEF BatchInv, Counted
  <1>8. WithinLimits'
    <2> SUFFICES ASSUME NEW h \in Host
                 PROVE  Cardinality(InFlight(h)') <= limit[h]
      BY DEF WithinLimits
    <2>1. Cardinality(InFlight(h)) <= limit[h] /\ limit[h] \in Nat
      BY HttpAssumption DEF BatchInv, WithinLimits
    <2>2. CASE h = hostOf[u]
      <3>1. InFlight(h)' = InFlight(h) \cup {u} /\ u \notin InFlight(h)
        BY <1>2, <1>6, <2>2 DEF InFlight
      <3>2. Cardinality(InFlight(h)') = Cardinality(InFlight(h)) + 1
        BY <3>1, InFlightFinite, FS_AddElement
      <3> QED
        BY <2>1, <2>2, <3>2, InFlightFinite DEF Request, Admitted
    <2>3. CASE h # hostOf[u]
      <3>1. InFlight(h)' = InFlight(h)
        BY <1>6, <2>3 DEF InFlight
      <3> QED
        BY <2>1, <3>1
    <2> QED
      BY <2>2, <2>3
  <1> QED
    BY <1>5, <1>7, <1>8 DEF BatchInv, WithinBudget

\* After a retryable answer or an error: the end, or the next attempt.
LEMMA AgainKeeps ==
  ASSUME BatchInv, NEW u \in Url, NEW r \in Status, Again(u, r), task[u].at = "request",
         UNCHANGED <<clock, deadline, phase, result>>
  PROVE  BatchInv'
  <1> DEFINE wait == 2 ^ task[u].attempt
  <1>1. /\ task \in [Url -> Task] /\ task[u] \in Task /\ clock \in Int
        /\ task[u].attempt \in Nat /\ task[u].sent \in Nat
    BY HttpAssumption DEF BatchInv, HttpTypeOK, Task
  <1>2. wait \in Int
    BY <1>1
  <1>3. \/ GiveUp(u, wait) /\ Return(u, r)
        \/ /\ ~ GiveUp(u, wait)
           /\ task' = [task EXCEPT ![u].at = "backoff", ![u].due = clock + wait,
                                   ![u].attempt = @ + 1, ![u].last = r]
    BY DEF Again
  <1> HIDE DEF wait
  <1>4. CASE Return(u, r)
    BY <1>4, ReturnKeeps
  <1>5. CASE /\ ~ GiveUp(u, wait)
             /\ task' = [task EXCEPT ![u].at = "backoff", ![u].due = clock + wait,
                                     ![u].attempt = @ + 1, ![u].last = r]
    <2>1. /\ task[u].attempt <= MaxRetries - 1 /\ task[u].attempt # MaxRetries - 1
          /\ task[u].sent <= task[u].attempt + 1
      BY <1>5 DEF GiveUp, BatchInv, Counted
    <2>2. task[u].attempt + 1 \in 0..MaxRetries /\ task[u].attempt + 1 <= MaxRetries - 1
      BY <1>1, <2>1, HttpAssumption
    <2>3. [task[u] EXCEPT !.at = "backoff", !.due = clock + wait,
                          !.attempt = task[u].attempt + 1, !.last = r] \in Task
      <3>1. clock + wait \in Int
        BY <1>1, <1>2
      <3> QED
        BY <1>1, <2>2, <3>1, BackoffTyped
    <2>4. HttpTypeOK'
      BY <1>1, <1>5, <2>3 DEF BatchInv, HttpTypeOK
    <2>5. /\ task'[u].at = "backoff" /\ task'[u].attempt = task[u].attempt + 1
          /\ task'[u].sent = task[u].sent
          /\ \A v \in Url : v # u => task'[v] = task[v]
      BY <1>1, <1>5 DEF Task
    <2>6. Counted'
      BY <1>1, <2>1, <2>2, <2>5 DEF BatchInv, Counted
    <2>7. WithinLimits'
      BY <2>5, NoneStarts DEF BatchInv
    <2> QED
      BY <2>4, <2>6, <2>7 DEF BatchInv, WithinBudget
  <1> QED
    BY <1>3, <1>4, <1>5

LEMMA AnswerKeeps ==
  ASSUME BatchInv, NEW u \in Url, Answer(u) \/ Fails(u),
         UNCHANGED <<clock, deadline, phase, result>>
  PROVE  BatchInv'
  BY ReturnKeeps, AgainKeeps DEF Answer, Fails, Status

LEMMA CollectKeeps ==
  ASSUME BatchInv, Collect, UNCHANGED <<clock, deadline>>
  PROVE  BatchInv'
  <1>1. task \in [Url -> Task]
    BY DEF BatchInv, HttpTypeOK
  <1>2. \A u \in Url : /\ [task[u] EXCEPT !.at = "end"] \in Task
                       /\ task[u].last \in Status
    BY <1>1 DEF Task
  <1>3. HttpTypeOK'
    BY <1>1, <1>2 DEF BatchInv, HttpTypeOK, Collect, Status
  <1>4. \A u \in Url : /\ task'[u].at = "end" /\ task'[u].attempt = task[u].attempt
                       /\ task'[u].sent = task[u].sent
    BY <1>1 DEF Collect, Task
  <1>5. Counted'
    BY <1>4 DEF BatchInv, Counted
  <1>6. WithinLimits'
    BY <1>4, NoneStarts DEF BatchInv
  <1> QED
    BY <1>3, <1>5, <1>6 DEF BatchInv, WithinBudget

\* Time moves only before the deadline: at the deadline the batch is collected.
LEMMA PassKeeps ==
  ASSUME BatchInv, Pass
  PROVE  BatchInv'
  <1>1. clock \in Nat /\ deadline \in Nat \cup {NoBudget}
    BY HttpAssumption DEF BatchInv, HttpTypeOK
  <1>2. HttpTypeOK'
    BY <1>1, HttpAssumption DEF BatchInv, HttpTypeOK, Pass
  <1>3. Counted' /\ WithinLimits'
    BY NoneStarts DEF BatchInv, Counted, Pass
  <1>4. WithinBudget'
    BY <1>1 DEF WithinBudget, Pass, Due, Past
  <1> QED
    BY <1>2, <1>3, <1>4 DEF BatchInv

LEMMA BatchStart == HttpInit => BatchInv
  <1> SUFFICES ASSUME HttpInit
               PROVE  BatchInv
    OBVIOUS
  <1>1. HttpTypeOK
    BY HttpAssumption DEF HttpInit, HttpTypeOK, Task, Status, Free
  <1>2. Counted
    BY HttpAssumption DEF HttpInit, Counted
  <1>3. WithinLimits
    <2> SUFFICES ASSUME NEW h \in Host
                 PROVE  Cardinality(InFlight(h)) <= limit[h]
      BY DEF WithinLimits
    <2>1. InFlight(h) = {}
      BY DEF HttpInit, InFlight
    <2> QED
      BY <2>1, FS_EmptySet, HttpAssumption
  <1>4. WithinBudget
    BY HttpAssumption DEF HttpInit, WithinBudget
  <1> QED
    BY <1>1, <1>2, <1>3, <1>4 DEF BatchInv

LEMMA BatchStep == BatchInv /\ [HttpNext]_hvars => BatchInv'
  <1> SUFFICES ASSUME BatchInv, [HttpNext]_hvars
               PROVE  BatchInv'
    OBVIOUS
  <1>1. ASSUME NEW u \in Url, Step(u), UNCHANGED <<clock, deadline, phase, result>>
        PROVE  BatchInv'
    BY <1>1, AttemptKeeps, RequestKeeps, AnswerKeeps DEF Step
  <1>2. CASE Collect /\ UNCHANGED <<clock, deadline>>
    BY <1>2, CollectKeeps
  <1>3. CASE Pass
    BY <1>3, PassKeeps
  <1>4. CASE UNCHANGED hvars
    BY <1>4 DEF hvars, BatchInv, HttpTypeOK, Counted, WithinLimits, InFlight, WithinBudget
  <1> QED
    BY <1>1, <1>2, <1>3, <1>4 DEF HttpNext

\* Types, the attempts of a task and the clock.
THEOREM BatchInvariant == HttpSpec => []BatchInv
  BY BatchStart, BatchStep, PTL DEF HttpSpec

\* No host sees more requests at a time than its limit, no URL more than
\* MaxRetries requests, and no batch outlives its budget, for any number of
\* URLs, hosts, limits, retries and deadlines (async_fetch_many).
THEOREM BatchesPolite == HttpSpec => []BatchPolite
  <1>1. BatchInv => BatchPolite
    <2> SUFFICES ASSUME BatchInv
                 PROVE  BatchPolite
      OBVIOUS
    <2>1. \A u \in Url : task[u].sent <= MaxRetries
      BY HttpAssumption DEF BatchInv, HttpTypeOK, Task
    <2> QED
      BY <2>1 DEF BatchInv, WithinLimits, WithinBudget, BatchPolite
  <1> QED
    BY BatchInvariant, <1>1, PTL

-----------------------------------------------------------------------------
(* What BatchEnds rests on, but for fairness: every step of a task leaves it *)
(* fewer steps, and a batch in which nothing can run waits for a time ahead. *)

\* The steps a task has left: three per attempt, the last of them its answer.
StepsLeft(t) ==
    IF t.at = "end" THEN 0
    ELSE 4 * (MaxRetries - t.attempt) + (IF t.at = "request" THEN 1 ELSE IF t.at = "queued" THEN 2 ELSE 3)

\* No step takes a task back: whatever host fails and however often, a URL is
\* requested, given up or answered after at most 4 * MaxRetries + 3 steps
\* (http_client.py:322).
TasksAdvance ==
    [][\A u \in Url : task'[u] # task[u] => StepsLeft(task'[u]) \in Nat /\ StepsLeft(task'[u]) < StepsLeft(task[u])]_hvars

\* Requests and sleeps end now or later, never in the past.
Awake ==
    phase = "waiting" =>
      \A u \in Url : task[u].at \in {"request", "backoff"} => task[u].due >= clock

\* No lost wakeup and no deadlock on the semaphores: where nothing is due, a request
\* is out or a task sleeps, and it ends after now.
WaitsForATime ==
    phase = "waiting" /\ ~Due =>
      \E u \in Url : task[u].at \in {"request", "backoff"} /\ task[u].due > clock

LEMMA StepsLeftOf ==
  ASSUME NEW t \in Task, t.attempt <= MaxRetries - 1
  PROVE  /\ StepsLeft(t) \in Nat
         /\ t.at # "end" => StepsLeft(t) > 0
  <1>1. t.attempt \in Nat /\ MaxRetries \in Nat
    BY HttpAssumption DEF Task
  <1> PICK a \in {t.attempt}, p \in {t.at} : TRUE
    OBVIOUS
  <1> QED
    BY <1>1 DEF StepsLeft

\* What a step of the task of u does to it, and that it leaves the others.
LEMMA StepOfTask ==
  ASSUME BatchInv, NEW u \in Url, Step(u)
  PROVE  /\ \A v \in Url : v # u => task'[v] = task[v]
         /\ \/ task[u].at # "end" /\ task'[u].at = "end"
            \/ task[u].at \in {"start", "backoff"} /\ task'[u].at = "queued" /\ task'[u].attempt = task[u].attempt
            \/ task[u].at = "queued" /\ task'[u].at = "request" /\ task'[u].attempt = task[u].attempt
            \/ task[u].at = "request" /\ task'[u].at = "backoff" /\ task'[u].attempt = task[u].attempt + 1
  <1>1. task \in [Url -> Task] /\ task[u] \in Task
    BY DEF BatchInv, HttpTypeOK
  <1>2. ASSUME NEW r, Return(u, r)
        PROVE  task'[u].at = "end" /\ \A v \in Url : v # u => task'[v] = task[v]
    BY <1>1, <1>2 DEF Return, Task
  <1>3. ASSUME NEW r, Again(u, r)
        PROVE  /\ \A v \in Url : v # u => task'[v] = task[v]
               /\ \/ task'[u].at = "end"
                  \/ task'[u].at = "backoff" /\ task'[u].attempt = task[u].attempt + 1
    <2> DEFINE wait == 2 ^ task[u].attempt
    <2>1. \/ Return(u, r)
          \/ task' = [task EXCEPT ![u].at = "backoff", ![u].due = clock + wait,
                                  ![u].attempt = @ + 1, ![u].last = r]
      BY <1>3 DEF Again
    <2> HIDE DEF wait
    <2> QED
      BY <1>1, <1>2, <2>1 DEF Task
  <1>4. CASE Attempt(u)
    <2> DEFINE most == IF deadline # NoBudget /\ deadline - clock < Timeout
                       THEN deadline - clock ELSE Timeout
    <2>1. \/ \E r : Return(u, r)
          \/ task' = [task EXCEPT ![u].at = "queued", ![u].due = Free, ![u].capped = most]
      BY <1>4 DEF Attempt
    <2>2. task[u].at \in {"start", "backoff"}
      BY <1>4 DEF Attempt
    <2> HIDE DEF most
    <2> QED
      BY <1>1, <1>2, <2>1, <2>2 DEF Task
  <1>5. CASE Request(u)
    BY <1>1, <1>5 DEF Request, Task
  <1>6. CASE Answer(u) \/ Fails(u)
    BY <1>2, <1>3, <1>6 DEF Answer, Fails
  <1> QED
    BY <1>4, <1>5, <1>6 DEF Step

THEOREM BatchesAdvance == HttpSpec => TasksAdvance
  <1>1. ASSUME BatchInv, BatchInv', HttpNext, NEW u \in Url, task'[u] # task[u]
        PROVE  StepsLeft(task'[u]) \in Nat /\ StepsLeft(task'[u]) < StepsLeft(task[u])
    <2>1. /\ task[u] \in Task /\ task[u].attempt <= MaxRetries - 1
          /\ task'[u] \in Task /\ task'[u].attempt <= MaxRetries - 1
      BY <1>1 DEF BatchInv, HttpTypeOK, Counted
    <2>2. task[u].attempt \in Nat /\ MaxRetries \in Nat
      BY <2>1, HttpAssumption DEF Task
    <2>3. \/ task[u].at # "end" /\ task'[u].at = "end"
          \/ task[u].at \in {"start", "backoff"} /\ task'[u].at = "queued" /\ task'[u].attempt = task[u].attempt
          \/ task[u].at = "queued" /\ task'[u].at = "request" /\ task'[u].attempt = task[u].attempt
          \/ task[u].at = "request" /\ task'[u].at = "backoff" /\ task'[u].attempt = task[u].attempt + 1
      <3>1. CASE \E v \in Url : Step(v)
        BY <1>1, <3>1, StepOfTask
      <3>2. CASE Collect
        <4>1. task'[u] = [task[u] EXCEPT !.at = "end"]
          BY <3>2 DEF Collect
        <4> QED
          BY <1>1, <2>1, <4>1 DEF Task
      <3>3. CASE Pass
        BY <1>1, <3>3 DEF Pass
      <3> QED
        BY <1>1, <3>1, <3>2, <3>3 DEF HttpNext
    <2>4. StepsLeft(task[u]) \in Nat /\ StepsLeft(task'[u]) \in Nat
      BY <2>1, StepsLeftOf
    <2>5. CASE task[u].at # "end" /\ task'[u].at = "end"
      BY <2>1, <2>4, <2>5, StepsLeftOf DEF StepsLeft
    <2>6. CASE task'[u].at # "end" /\ task[u].at # "end"
      <3> PICK a \in {task[u].attempt}, b \in {task'[u].attempt}, p \in {task[u].at}, q \in {task'[u].at} : TRUE
        OBVIOUS
      <3> QED
        BY <2>2, <2>3, <2>4, <2>6 DEF StepsLeft
    <2> QED
      BY <2>3, <2>4, <2>5, <2>6
  <1>2. BatchInv /\ BatchInv' /\ [HttpNext]_hvars
          => [\A u \in Url : task'[u] # task[u] => StepsLeft(task'[u]) \in Nat
                                                  /\ StepsLeft(task'[u]) < StepsLeft(task[u])]_hvars
    BY <1>1
  <1> QED
    BY <1>2, BatchInvariant, PTL DEF HttpSpec, TasksAdvance

\* A task that goes on waits until now or later.
LEMMA StepStaysAwake ==
  ASSUME BatchInv, Awake, phase = "waiting", NEW u \in Url, Step(u), UNCHANGED <<clock, deadline, phase, result>>
  PROVE  Awake'
  <1>1. task \in [Url -> Task] /\ task[u] \in Task /\ clock \in Int /\ task[u].capped \in Nat
        /\ task[u].attempt \in 0..MaxRetries
    BY HttpAssumption DEF BatchInv, HttpTypeOK, Task
  <1>2. \A v \in Url : v # u => task'[v] = task[v]
    BY StepOfTask
  <1>3. task'[u].at \in {"request", "backoff"} => task'[u].due >= clock
    <2>1. ASSUME NEW r, Return(u, r) PROVE task'[u].at = "end"
      BY <1>1, <2>1 DEF Return, Task
    <2>2. CASE Request(u)
      <3>1. task'[u].due = clock + task[u].capped
        BY <1>1, <2>2 DEF Request, Task
      <3> QED
        BY <1>1, <3>1
    <2>3. CASE Attempt(u)
      <3> DEFINE most == IF deadline # NoBudget /\ deadline - clock < Timeout
                         THEN deadline - clock ELSE Timeout
      <3>1. \/ \E r : Return(u, r)
            \/ task' = [task EXCEPT ![u].at = "queued", ![u].due = Free, ![u].capped = most]
        BY <2>3 DEF Attempt
      <3> HIDE DEF most
      <3> QED
        BY <1>1, <2>1, <3>1 DEF Task
    <2>4. ASSUME NEW r, Again(u, r)
          PROVE  task'[u].at = "end" \/ task'[u].due >= clock
      <3> DEFINE wait == 2 ^ task[u].attempt
      <3>1. wait \in Nat
        BY <1>1, HttpAssumption
      <3>2. \/ Return(u, r)
            \/ task' = [task EXCEPT ![u].at = "backoff", ![u].due = clock + wait,
                                    ![u].attempt = @ + 1, ![u].last = r]
        BY <2>4 DEF Again
      <3> HIDE DEF wait
      <3>3. Return(u, r) \/ task'[u].due = clock + wait
        BY <1>1, <3>2 DEF Task
      <3> QED
        BY <1>1, <2>1, <3>1, <3>3
    <2>5. CASE Answer(u) \/ Fails(u)
      BY <2>1, <2>4, <2>5 DEF Answer, Fails
    <2> QED
      BY <2>2, <2>3, <2>5 DEF Step
  <1> QED
    BY <1>2, <1>3 DEF Awake

LEMMA AwakeStep == BatchInv /\ Awake /\ [HttpNext]_hvars => Awake'
  <1> SUFFICES ASSUME BatchInv, Awake, [HttpNext]_hvars
               PROVE  Awake'
    OBVIOUS
  <1>1. CASE Collect
    BY <1>1 DEF Awake, Collect
  <1>2. CASE Pass
    <2>1. \A u \in Url : task[u].due \in Int /\ task[u].due # clock
      BY <1>2 DEF Pass, Due, BatchInv, HttpTypeOK, Task
    <2>2. clock \in Nat
      BY HttpAssumption DEF BatchInv, HttpTypeOK
    <2> QED
      BY <1>2, <2>1, <2>2 DEF Pass, Awake
  <1>3. CASE UNCHANGED hvars
    BY <1>3 DEF hvars, Awake
  <1> QED
    BY <1>1, <1>2, <1>3, StepStaysAwake DEF HttpNext

\* Where the event loop has nothing to run, it has a time to wake up at: no task is
\* left queueing at a semaphore that nobody will release (async_fetch_many).
THEOREM NothingStuck == HttpSpec => []WaitsForATime
  <1>1. HttpInit => Awake
    BY DEF HttpInit, Awake
  <1>2. BatchInv /\ Awake => WaitsForATime
    <2> SUFFICES ASSUME BatchInv, Awake, phase = "waiting", ~Due
                 PROVE  \E u \in Url : task[u].at \in {"request", "backoff"} /\ task[u].due > clock
      BY DEF WaitsForATime
    <2>1. \A u \in Url : /\ task[u] \in Task /\ task[u].due \in Int /\ clock \in Int
                         /\ task[u].due # clock /\ task[u].at # "start"
      BY DEF Due, BatchInv, HttpTypeOK, Task
    <2>2. \A u \in Url : task[u].at \in {"request", "backoff"} => task[u].due > clock
      BY <2>1 DEF Awake
    <2>3. PICK u \in Url : task[u].at # "end"
      BY DEF Due, AllEnded
    <2>4. CASE task[u].at = "queued"
      <3>1. ~ Admitted(u)
        BY <2>4 DEF Due
      <3>2. limit[hostOf[u]] >= 1
        BY HttpAssumption
      <3>3. Cardinality(InFlight(hostOf[u])) # 0
        BY <3>1, <3>2, HttpAssumption DEF Admitted
      <3>4. InFlight(hostOf[u]) # {}
        BY <3>3, FS_EmptySet
      <3> QED
        BY <2>2, <3>4 DEF InFlight
    <2> QED
      BY <2>1, <2>2, <2>3, <2>4 DEF Task
  <1> QED
    BY <1>1, <1>2, AwakeStep, BatchInvariant, PTL DEF HttpSpec

-----------------------------------------------------------------------------
(* FeedParsers                                                             *)

\* What ReadingsTrue says of one row.
ReadingTrue(r) ==
    \/ /\ r.source = (IF r.of = "A" THEN 1 ELSE 2)
       /\ r.at = r.hour /\ r.type = Type /\ r.amount = "as measured"
    \/ Twice(Zone(feed), r.hour)
    \/ Cardinality(r.by) = 1 /\ r.of = "B"
    \/ feed \in Local /\ \E s \in r.by : s.id = r.source /\ s.zone = "null"
    \/ feed = "wa_gov" /\ ~style.label
    \/ feed = "nwrfc_xml" /\ UnitOf = "kcfs"

\* Sources are one of the ways a URL has them, whatever changed.
FeedTyped == /\ utc \in Nat /\ utc <= LastHour /\ feed \in Parser /\ style \in Styles(feed)
             /\ sources \in Configs(feed)
FeedInv == FeedTyped /\ \A r \in observation : ReadingTrue(r)

-----------------------------------------------------------------------------
(* When                                                                    *)

\* Which parser goes by which name.
LEMMA RegistryIs ==
  /\ Parser = {"nwps", "usbr", "usace_cda", "pacificorp", "nwrfc_textplot", "nwrfc_xml", "wa_gov", "licor"}
  /\ Registry["nwps"] = Nwps /\ Registry["usbr"] = Usbr /\ Registry["usace_cda"] = UsaceCda
  /\ Registry["pacificorp"] = PacifiCorp /\ Registry["nwrfc_textplot"] = NwrfcTextPlot
  /\ Registry["nwrfc_xml"] = NwrfcXml /\ Registry["wa_gov"] = WaGov /\ Registry["licor"] = Licor
  BY DEF Parser, Registry

\* A clock shows UTC, standard time or saves daylight.
LEMMA ZoneKnown ==
  ASSUME NEW p \in Parser
  PROVE  Zone(p) \in Zones
  <1>1. Nwps.zone = "utc" /\ UsaceCda.zone = "utc" /\ NwrfcTextPlot.zone = "utc" /\ NwrfcXml.zone = "utc"
    BY DEF Nwps, UsaceCda, NwrfcTextPlot, NwrfcXml, Plain
  <1>2. Licor.zone = "utc" /\ Usbr.zone = "saving" /\ PacifiCorp.zone = "saving" /\ WaGov.zone = "standard"
    BY DEF Licor, Usbr, PacifiCorp, WaGov, Plain
  <1>3. Registry[p].zone \in Zones
    BY <1>1, <1>2, RegistryIs DEF Zones
  <1> QED
    BY <1>3 DEF Zone, Zones

\* Two hours that the clocks show alike are one apart.
LEMMA WallApart ==
  ASSUME NEW z \in Zones, NEW u \in Int, NEW v \in Int, Wall(z, u) = Wall(z, v)
  PROVE  u - v \in {-1, 0, 1}
  <1>1. Offset(z, u) \in {0, 1, 2} /\ Offset(z, v) \in {0, 1, 2}
    BY DEF Offset, Zones
  <1>2. z \in {"utc", "standard"} => Offset(z, u) = Offset(z, v)
    BY DEF Offset
  <1>3. z = "saving" => Offset(z, u) \in {1, 2} /\ Offset(z, v) \in {1, 2}
    BY DEF Offset
  <1>4. u - Offset(z, u) = v - Offset(z, v)
    BY DEF Wall
  <1> QED
    BY <1>1, <1>2, <1>3, <1>4 DEF Zones

\* The clock is read back right, unless it shows the hour twice.
LEMMA ClockReadBack ==
  ASSUME NEW z \in Zones, NEW u \in 0..LastHour + 1, ~Twice(z, u)
  PROVE  ToUtc[z][Wall(z, u)] = u
  <1>0. LastHour \in Nat
    BY FeedAssumption
  <1> DEFINE w == Wall(z, u)
             S == {v \in -4..LastHour + 6 : Wall(z, v) = w}
  <1>1. w \in -4..LastHour + 4
    <2>1. Offset(z, u) \in {0, 1, 2}
      BY DEF Offset, Zones
    <2> QED
      BY <1>0, <2>1 DEF Wall
  <1>2. ToUtc[z][w] = Min(S \cup {LastHour + 99})
    BY <1>1 DEF ToUtc
  <1>3. \A v \in S : v = u
    <2>1. SUFFICES ASSUME NEW v \in -4..LastHour + 6, Wall(z, v) = Wall(z, u), v # u PROVE FALSE
      OBVIOUS
    <2>2. v - u \in {-1, 0, 1}
      BY <1>0, <2>1, WallApart
    <2>3. v \in -2..LastHour + 2
      BY <1>0, <2>2
    <2> QED
      BY <2>1, <2>3 DEF Twice
  <1>4. u \in S
    BY <1>0
  <1>5. S = {u}
    BY <1>3, <1>4
  <1> HIDE DEF S, w
  <1>6. S \cup {LastHour + 99} = {u, LastHour + 99}
    BY <1>5
  <1>7. Min({u, LastHour + 99}) = u
    <2>1. Min({u, LastHour + 99}) =
            CHOOSE x \in {u, LastHour + 99} : \A y \in {u, LastHour + 99} : x <= y
      BY DEF Min
    <2>2. \A x \in {u, LastHour + 99} : (\A y \in {u, LastHour + 99} : x <= y) => x = u
      BY <1>0
    <2>3. \A y \in {u, LastHour + 99} : u <= y
      BY <1>0
    <2> QED
      BY <2>1, <2>2, <2>3
  <1> QED
    BY <1>2, <1>6, <1>7 DEF w

-----------------------------------------------------------------------------
(* Whose                                                                   *)

\* The five ways the sources of an URL are, seen from the fields of a source.
LEMMA SourcesAre ==
  ASSUME NEW p, sources \in Configs(p)
  PROVE  \E a, b \in sources :
           /\ a.id = 1 /\ a.name \in {"A", "A_STG"} /\ a.zone = ZoneThere(p)
           /\ \/ sources = {a}
              \/ /\ sources = {a, b} /\ b.id = 2 /\ b.name = "B"
                 /\ b.zone = ZoneThere(p) \/ (b.zone = "null" /\ a.name = "A")
  <1> PICK z \in {ZoneThere(p)} : TRUE
    OBVIOUS
  <1> DEFINE A == Source(1, "A", z)
             F == Source(1, "A_STG", z)
             B == Source(2, "B", z)
             N == Source(2, "B", "null")
  <1>1. /\ A.id = 1 /\ A.name = "A" /\ A.zone = z
        /\ F.id = 1 /\ F.name = "A_STG" /\ F.zone = z
        /\ B.id = 2 /\ B.name = "B" /\ B.zone = z
        /\ N.id = 2 /\ N.name = "B" /\ N.zone = "null"
    BY DEF Source
  <1>2. sources \in {{A}, {F}, {A, B}, {F, B}, {A, N}}
    BY DEF Configs
  <1> HIDE DEF A, F, B, N
  <1>3. CASE sources = {A}
    BY <1>1, <1>3
  <1>4. CASE sources = {F}
    BY <1>1, <1>4
  <1>5. CASE sources = {A, B}
    BY <1>1, <1>5
  <1>6. CASE sources = {F, B}
    BY <1>1, <1>6
  <1>7. CASE sources = {A, N}
    BY <1>1, <1>7
  <1> QED
    BY <1>2, <1>3, <1>4, <1>5, <1>6, <1>7

\* The sizes of the sets of sources.
LEMMA OneOrTwo ==
  /\ \A x : Cardinality({x}) = 1
  /\ \A x, y : x # y => Cardinality({x, y}) = 2
  <1>1. \A x : IsFiniteSet({x}) /\ Cardinality({x}) = 1
    BY FS_Singleton
  <1>2. ASSUME NEW x, NEW y, x # y PROVE Cardinality({x, y}) = 2
    <2>1. y \notin {x} /\ {x, y} = {x} \cup {y}
      BY <1>2
    <2>2. Cardinality({x} \cup {y}) = Cardinality({x}) + 1
      BY <1>1, <2>1, FS_AddElement
    <2> QED
      BY <1>1, <2>1, <2>2
  <1> QED
    BY <1>1, <1>2

\* The readings of a station are stored for its own source, except that the only
\* source of a URL takes any.
LEMMA OwnSource ==
  ASSUME NEW p, sources \in Configs(p), NEW n \in Station, NEW id \in SourceOf(n)
  PROVE  id = (IF n = "A" THEN 1 ELSE 2) \/ (Cardinality(sources) = 1 /\ n = "B")
  <1>1. PICK a, b \in sources :
           /\ a.id = 1 /\ a.name \in {"A", "A_STG"} /\ a.zone = ZoneThere(p)
           /\ \/ sources = {a}
              \/ /\ sources = {a, b} /\ b.id = 2 /\ b.name = "B"
                 /\ b.zone = ZoneThere(p) \/ (b.zone = "null" /\ a.name = "A")
    BY SourcesAre
  <1>2. CASE sources = {a}
    <2>1. Cardinality(sources) = 1
      BY <1>2, OneOrTwo
    <2>2. id = 1
      BY <1>1, <1>2 DEF SourceOf, Named
    <2> QED
      BY <2>1, <2>2 DEF Station
  <1>3. CASE sources = {a, b} /\ b.id = 2 /\ b.name = "B"
    <2>1. Cardinality(sources) = 2
      BY <1>1, <1>3, OneOrTwo
    <2>2. CASE n = "B"
      <3>1. Named(n) = {b}
        BY <1>1, <1>3, <2>2 DEF Named
      <3> QED
        BY <1>3, <2>2, <3>1 DEF SourceOf
    <2>3. CASE n = "A"
      <3>1. Named(n) \subseteq {a} /\ Named(n) # {}
        BY <1>1, <1>3, <2>1, <2>3 DEF Named, SourceOf
      <3> QED
        BY <1>1, <2>3, <3>1 DEF SourceOf
    <2> QED
      BY <2>2, <2>3 DEF Station
  <1> QED
    BY <1>1, <1>2, <1>3

\* A local time is read in the zone of the feed, whichever way it is found.
LEMMA OwnZone ==
  ASSUME feed \in Local, sources \in Configs(feed), NEW n \in Station, SourceOf(n) # {}, NEW w
  PROVE  Localize(n, w) = ToUtc[Zone(feed)][w]
  <1>0. ZoneThere(feed) = Zone(feed) /\ Zone(feed) # "null"
    BY ZoneKnown DEF ZoneThere, Zones, Local
  <1> PICK z \in {Zone(feed)} : TRUE
    OBVIOUS
  <1>1. PICK a, b \in sources :
           /\ a.id = 1 /\ a.name \in {"A", "A_STG"} /\ a.zone = z
           /\ \/ sources = {a}
              \/ /\ sources = {a, b} /\ b.id = 2 /\ b.name = "B"
                 /\ b.zone = z \/ (b.zone = "null" /\ a.name = "A")
    BY <1>0, SourcesAre
  <1>2. \A s \in Zoned : s.zone = z
    BY <1>1 DEF Zoned
  <1>3. Named(n) \cap Zoned # {} \/ Cardinality(Zoned) = 1
    <2>1. CASE Zoned = {a}
      BY <2>1, OneOrTwo
    <2>2. CASE Zoned # {a}
      <3>1. sources = {a, b} /\ b.id = 2 /\ b.name = "B" /\ b.zone = z /\ a \in Zoned /\ b \in Zoned
        BY <1>0, <1>1, <2>2 DEF Zoned
      <3>2. CASE n = "B"
        BY <3>1, <3>2 DEF Named
      <3>3. CASE n = "A"
        <4>1. Cardinality(sources) = 2
          BY <1>1, <3>1, OneOrTwo
        <4>2. a.name = "A"
          BY <1>1, <3>1, <3>3, <4>1 DEF SourceOf, Named
        <4> QED
          BY <1>1, <3>1, <3>3, <4>2 DEF Named
      <3> QED
        BY <3>2, <3>3 DEF Station
    <2> QED
      BY <2>1, <2>2
  <1>4. Named(n) \cap Zoned # {} =>
          (CHOOSE s \in Named(n) \cap Zoned : TRUE) \in Named(n) \cap Zoned
    OBVIOUS
  <1>5. Cardinality(Zoned) = 1 => (CHOOSE s \in Zoned : TRUE) \in Zoned
    <2>1. Cardinality(Zoned) = 1 => Zoned # {}
      BY FS_EmptySet
    <2> QED
      BY <2>1
  <1> QED
    BY <1>2, <1>3, <1>4, <1>5 DEF Localize

-----------------------------------------------------------------------------
(* How much                                                                *)

\* The unit of each type.
LEMMA CanonicalUnits ==
  /\ Canonical["flow"] = "cfs" /\ Canonical["inflow"] = "cfs" /\ Canonical["gauge"] = "ft"
  /\ Canonical["temperature"] = "F"
  BY DEF Canonical

\* Of the units that a parser takes, each is canonical or converted - but kcfs of
\* nwrfc.xml.
LEMMA TakenIsCanonical ==
  ASSUME feed \in Parser, style \in Styles(feed), Taken, style.label
  PROVE  (TypeOf = Type /\ Amount = "as measured") \/ (feed = "nwrfc_xml" /\ UnitOf = "kcfs")
  <1> PICK e \in {style.of} : TRUE
    OBVIOUS
  <1>1. e \in Registry[feed].published /\ UnitOf = e[2] /\ Type = e[1]
    BY DEF Styles, UnitOf, Type
  <1>2. e[2] \in Registry[feed].units
    BY <1>1 DEF Taken
  <1>3. SUFFICES e[2] = Canonical[e[1]] \/ e[2] \in Registry[feed].converts
                 \/ (feed = "nwrfc_xml" /\ e[2] = "kcfs")
    BY <1>1 DEF TypeOf, Amount
  <1>4. CASE feed = "nwps"
    <2>1. /\ Nwps.published = {<<"flow", "cfs">>, <<"flow", "kcfs">>, <<"flow", "cms">>, <<"gauge", "ft">>, <<"gauge", "m">>}
          /\ Nwps.units = {"ft", "cfs", "kcfs"} /\ Nwps.converts = {"kcfs"}
      BY DEF Nwps, Plain
    <2> QED
      BY <1>1, <1>2, <1>4, <2>1, RegistryIs, CanonicalUnits
  <1>5. CASE feed = "usbr"
    <2>1. /\ Usbr.published = {<<"flow", "cfs">>, <<"inflow", "cfs">>, <<"gauge", "ft">>, <<"temperature", "C">>,
                   <<"temperature", "F">>}
          /\ Usbr.converts = {"C"}
      BY DEF Usbr, Plain
    <2> QED
      BY <1>1, <1>5, <2>1, RegistryIs, CanonicalUnits
  <1>6. CASE feed = "usace_cda"
    <2>1. /\ UsaceCda.published = {<<"flow", "cfs">>, <<"flow", "kcfs">>, <<"inflow", "kcfs">>, <<"gauge", "ft">>}
          /\ UsaceCda.converts = {"kcfs"}
      BY DEF UsaceCda, Plain
    <2> QED
      BY <1>1, <1>6, <2>1, RegistryIs, CanonicalUnits
  <1>7. CASE feed = "pacificorp"
    <2>1. /\ PacifiCorp.published = {<<"flow", "cfs">>, <<"flow", "cms">>} /\ PacifiCorp.units = {"cfs"}
      BY DEF PacifiCorp, Plain
    <2> QED
      BY <1>1, <1>2, <1>7, <2>1, RegistryIs, CanonicalUnits
  <1>8. CASE feed = "nwrfc_textplot"
    <2>1. NwrfcTextPlot.published = {<<"flow", "cfs">>, <<"inflow", "cfs">>, <<"gauge", "ft">>, <<"temperature", "F">>}
      BY DEF NwrfcTextPlot, Plain
    <2> QED
      BY <1>1, <1>8, <2>1, RegistryIs, CanonicalUnits
  <1>9. CASE feed = "nwrfc_xml"
    <2>1. /\ NwrfcXml.published = {<<"flow", "cfs">>, <<"flow", "kcfs">>, <<"inflow", "cfs">>, <<"gauge", "ft">>,
                                   <<"gauge", "m">>}
          /\ NwrfcXml.units = {"ft", "cfs", "kcfs"}
      BY DEF NwrfcXml, Plain
    <2> QED
      BY <1>1, <1>2, <1>9, <2>1, RegistryIs, CanonicalUnits
  <1>10. CASE feed = "wa_gov"
    <2>1. /\ WaGov.published = {<<"flow", "cfs">>, <<"gauge", "ft">>, <<"temperature", "C">>}
          /\ WaGov.converts = {"C"}
      BY DEF WaGov, Plain
    <2> QED
      BY <1>1, <1>10, <2>1, RegistryIs, CanonicalUnits
  <1>11. CASE feed = "licor"
    <2>1. Licor.published = {<<"flow", "cfs">>, <<"gauge", "ft">>, <<"temperature", "F">>}
      BY DEF Licor, Plain
    <2> QED
      BY <1>1, <1>11, <2>1, RegistryIs, CanonicalUnits
  <1> QED
    BY <1>4, <1>5, <1>6, <1>7, <1>8, <1>9, <1>10, <1>11, RegistryIs

\* Only wa.gov takes a column that it has no type for.
LEMMA TakenIsLabelled ==
  ASSUME feed \in Parser, Taken, ~style.label
  PROVE  feed = "wa_gov"
  <1>1. /\ Nwps.unlabelled = "none" /\ UsaceCda.unlabelled = "none" /\ NwrfcTextPlot.unlabelled = "none"
        /\ NwrfcXml.unlabelled = "none"
    BY DEF Nwps, UsaceCda, NwrfcTextPlot, NwrfcXml, Plain
  <1>2. Licor.unlabelled = "none" /\ Usbr.unlabelled = "none" /\ PacifiCorp.unlabelled = "none"
    BY DEF Licor, Usbr, PacifiCorp, Plain
  <1>3. Registry[feed].unlabelled # "none"
    BY DEF Taken, TypeOf
  <1> QED
    BY <1>1, <1>2, <1>3, RegistryIs

-----------------------------------------------------------------------------
(* The steps                                                               *)

\* Each row of a fetch is a true reading.
LEMMA RowTrue ==
  ASSUME FeedTyped, Taken, NEW n \in Station, NEW row \in Rows(n)
  PROVE  ReadingTrue(row)
  <1>1. PICK id \in SourceOf(n), u \in {u \in utc - Back .. utc + 1 : u >= 0 /\ InTime(u, StampOf(n, u))} :
          row = [source |-> id, type |-> TypeOf, at |-> StampOf(n, u), amount |-> Amount, of |-> n, hour |-> u,
                 by |-> sources]
    BY DEF Rows
  <1>2. u \in 0..LastHour + 1
    BY FeedAssumption DEF FeedTyped
  <1> PICK y \in {TypeOf}, t \in {StampOf(n, u)}, m \in {Amount} : TRUE
    OBVIOUS
  <1>3. /\ row.source = id /\ row.type = y /\ row.at = t /\ row.amount = m /\ row.of = n /\ row.hour = u
        /\ row.by = sources
    BY <1>1
  <1>4. id = (IF n = "A" THEN 1 ELSE 2) \/ (Cardinality(sources) = 1 /\ n = "B")
    BY OwnSource DEF FeedTyped
  <1>5. t = u \/ Twice(Zone(feed), u)
    <2>1. CASE feed \in Local
      <3>1. Zone(feed) \in Zones
        BY ZoneKnown DEF FeedTyped
      <3>2. t = ToUtc[Zone(feed)][Wall(Zone(feed), u)]
        BY <2>1, OwnZone DEF StampOf, FeedTyped
      <3> QED
        BY <1>2, <3>1, <3>2, ClockReadBack
    <2>2. CASE feed \notin Local
      BY <2>2 DEF StampOf
    <2> QED
      BY <2>1, <2>2
  <1>6. (y = Type /\ m = "as measured") \/ (feed = "nwrfc_xml" /\ UnitOf = "kcfs") \/ (feed = "wa_gov" /\ ~style.label)
    <2>1. CASE style.label
      BY <2>1, TakenIsCanonical DEF FeedTyped
    <2>2. CASE ~style.label
      BY <2>2, TakenIsLabelled DEF FeedTyped
    <2> QED
      BY <2>1, <2>2
  <1> QED
    BY <1>3, <1>4, <1>5, <1>6 DEF ReadingTrue

\* Rows already stored keep their truth: it does not depend on the sources of now.
LEMMA FeedStep ==
  ASSUME FeedInv, [FeedNext]_fvars
  PROVE  FeedInv'
  <1>1. CASE Fetch
    <2>1. Taken /\ UNCHANGED <<utc, feed, style, sources, changes>>
      BY <1>1 DEF Fetch
    <2>2. PICK named \in {{"A"}, Station} :
            observation' = LET new == Wins(UNION {Rows(n) : n \in named})
                           IN  new \cup {r \in observation : \A q \in new : Key(q) # Key(r)}
      BY <1>1 DEF Fetch
    <2>3. \A r \in observation' : r \in observation \/ \E n \in Station : r \in Rows(n)
      BY <2>2 DEF Wins, Station
    <2>4. \A r \in observation' : ReadingTrue(r)
      BY <2>1, <2>3, RowTrue DEF FeedInv
    <2>5. \A r : ReadingTrue(r)' <=> ReadingTrue(r)
      BY <2>1 DEF ReadingTrue, Type, UnitOf, Zone
    <2> QED
      BY <2>1, <2>4, <2>5 DEF FeedInv, FeedTyped, Styles, Configs, ZoneThere, Zone
  <1>2. CASE ChangeSources \/ HourGoes \/ UNCHANGED fvars
    <2>1. UNCHANGED <<feed, style, observation>> /\ sources' \in Configs(feed) /\ utc' \in Nat /\ utc' <= LastHour
      BY <1>2, FeedAssumption DEF ChangeSources, HourGoes, fvars, FeedInv, FeedTyped
    <2>2. \A r : ReadingTrue(r)' <=> ReadingTrue(r)
      BY <2>1 DEF ReadingTrue, Type, UnitOf, Zone
    <2>3. Configs(feed)' = Configs(feed) /\ Styles(feed)' = Styles(feed)
      BY <2>1 DEF Styles, Configs, ZoneThere, Zone
    <2> QED
      BY <2>1, <2>2, <2>3 DEF FeedInv, FeedTyped
  <1> QED
    BY <1>1, <1>2 DEF FeedNext

\* The inductive invariant of a feed: its URL has known sources and every stored row
\* is a true reading, for any end of daylight saving and any history of the sources.
THEOREM FeedInvariant == FeedSpec => []FeedInv
  <1>1. FeedInit => FeedInv
    BY FeedAssumption DEF FeedInit, FeedInv, FeedTyped
  <1> QED
    BY <1>1, FeedStep, PTL DEF FeedSpec

\* However the sources of a URL change between fetches, a stored row is its own
\* station's reading of that hour, type and unit, but for the exceptions listed in
\* ReadingsTrue (BaseParser.dump_to_db).
THEOREM ReadingsAlwaysTrue == FeedSpec => []ReadingsTrue
  <1>1. FeedInv => ReadingsTrue
    BY DEF FeedInv, ReadingTrue, ReadingsTrue
  <1> QED
    BY <1>1, FeedInvariant, PTL

-----------------------------------------------------------------------------
(* GaugeAudit                                                              *)

\* Times are natural numbers up to now, so a set of them has a least and a greatest.
LEMMA LeastTime ==
  ASSUME NEW S \in SUBSET Nat, S # {}
  PROVE  \E m \in S : \A x \in S : m <= x
  <1> DEFINE R == OpToRel(<, Nat)
  <1>1. IsWellFoundedOn(R, Nat)
    BY NatLessThanWellFounded DEF R
  <1>2. PICK m \in S : \A x \in S : ~ (<<x, m>> \in R)
    <2> HIDE DEF R
    <2> QED
      BY <1>1, WFMin
  <1>3. \A x \in S : ~ (x < m)
    BY <1>2 DEF OpToRel
  <1> QED
    BY <1>3

\* A nonempty set of integers with an upper bound has a greatest, and Max is it.
LEMMA GreatestTime ==
  ASSUME NEW n \in Int, NEW S \in SUBSET Int, S # {}, \A x \in S : x <= n
  PROVE  Max(S) \in S /\ \A x \in S : x <= Max(S)
  <1> DEFINE D == {n - x : x \in S}
  <1>1. D \in SUBSET Nat /\ D # {}
    <2>1. \A x \in S : n - x \in Nat
      OBVIOUS
    <2>2. D \in SUBSET Nat
      BY <2>1, Zenon
    <2>3. D # {}
      BY Zenon
    <2> QED
      BY <2>2, <2>3
  <1>2. PICK m \in D : \A x \in D : m <= x
    <2> HIDE DEF D
    <2> QED
      BY <1>1, LeastTime
  <1>3. PICK g \in S : m = n - g
    OBVIOUS
  <1>4. \A x \in S : x <= g
    <2> SUFFICES ASSUME NEW x \in S PROVE x <= g
      OBVIOUS
    <2>1. n - x \in D
      OBVIOUS
    <2>2. m <= n - x
      BY <1>2, <2>1
    <2>3. x \in Int /\ g \in Int
      BY <1>3
    <2> HIDE DEF D
    <2> QED
      BY <1>3, <2>2, <2>3
  <1>5. \E h \in S : \A x \in S : h >= x
    <2>1. \A x \in S : x \in Int /\ g \in Int
      OBVIOUS
    <2> QED
      BY <1>4, <2>1
  <1>6. Max(S) \in S /\ \A x \in S : Max(S) >= x
    BY <1>5 DEF Max
  <1> QED
    BY <1>6

\* Min is the least of a nonempty set of natural numbers.
LEMMA MinOf ==
  ASSUME NEW S \in SUBSET Nat, S # {}
  PROVE  Min(S) \in S /\ \A x \in S : Min(S) <= x
  <1>1. \E m \in S : \A x \in S : m <= x
    BY LeastTime
  <1> QED
    BY <1>1 DEF Min

-----------------------------------------------------------------------------

\* Nothing is seen before its time; the audits follow each other as the timer runs.
AuditTyped ==
    /\ now \in Nat /\ step \in {"idle", "dates", "nwps", "report"}
    /\ seen \in [Feed -> SUBSET Nat] /\ \A f \in Feed : \A t \in seen[f] : t <= now
    /\ world \in Worlds \cup {PlainWorld}
    /\ audits \in [last : Nat, stop : Int, inTime : BOOLEAN]
    /\ audits.last <= now /\ now - audits.last <= MaxGap

\* A report is of this very moment.
ReportFresh == report # NoReport => report = Digest /\ audits.last = now /\ step = "idle"

\* The audits that came more than Days after the last time that any feed
\* delivered said so, one of them at least.
SilenceTold ==
    (/\ audits.inTime /\ MaxGap <= Days
     /\ LastOf(Flow) >= LastOf(Feed) /\ LastOf(Flow) # Never
     /\ audits.last > LastOf(Flow) + Days)
       => audits.stop > LastOf(Flow)

\* The inductive invariant.
AuditInv == AuditTyped /\ ReportFresh /\ SilenceTold

\* Whatever the feeds: the times seen.
LEMMA TimesTyped ==
  ASSUME AuditTyped, NEW F \in SUBSET Feed
  PROVE  TimesOf(F) \in SUBSET Nat /\ \A t \in TimesOf(F) : t <= now
  BY DEF AuditTyped, TimesOf

\* The last of the times, if there is one.
LEMMA LastIs ==
  ASSUME AuditTyped, NEW F \in SUBSET Feed
  PROVE  /\ LastOf(F) \in TimesOf(F) \cup {Never}
         /\ \A t \in TimesOf(F) : t <= LastOf(F)
         /\ LastOf(F) <= now
         /\ LastOf(F) = Never <=> TimesOf(F) = {}
  <1> DEFINE T == TimesOf(F)
  <1>1. T \in SUBSET Nat /\ \A t \in T : t <= now
    BY TimesTyped
  <1>2. now \in Nat
    BY DEF AuditTyped
  <1> HIDE DEF T
  <1>3. /\ Max(T \cup {Never}) \in T \cup {Never}
        /\ \A t \in T \cup {Never} : t <= Max(T \cup {Never})
    <2> DEFINE U == T \cup {Never}
    <2>1. U \in SUBSET Int /\ U # {} /\ \A t \in U : t <= now
      BY <1>1, <1>2 DEF Never
    <2> HIDE DEF U
    <2>2. now \in Int
      BY <1>2
    <2>3. Max(U) \in U /\ \A t \in U : t <= Max(U)
      BY <2>1, <2>2, GreatestTime
    <2> QED
      BY <2>3 DEF U
  <1>4. LastOf(F) = Max(T \cup {Never})
    BY DEF LastOf, T
  <1> QED
    BY <1>1, <1>2, <1>3, <1>4 DEF T, Never

\* Before, without Max.
LEMMA BeforeMeans ==
  ASSUME AuditTyped, NEW T \in SUBSET Nat, \A t \in T : t <= now, NEW b \in Int
  PROVE  Before(T, b) <=> \A t \in T : t < b
  <1>1. CASE T = {}
    BY <1>1 DEF Before
  <1>2. CASE T # {}
    <2>1. Max(T) \in T /\ \A t \in T : t <= Max(T)
      <3>1. now \in Int /\ T \in SUBSET Int
        BY DEF AuditTyped
      <3> QED
        BY <1>2, <3>1, GreatestTime
    <2> DEFINE m == Max(T)
    <2>2. Before(T, b) <=> m < b
      BY <1>2 DEF Before
    <2> HIDE DEF m
    <2>3. m \in Nat /\ \A t \in T : t \in Nat /\ t <= m
      BY <2>1 DEF m
    <2>4. m \in T
      BY <2>1 DEF m
    <2> QED
      BY <2>2, <2>3, <2>4
  <1> QED
    BY <1>1, <1>2

\* What "stopped" means: there was flow in the window, and nothing of late.
LEMMA StoppedMeans ==
  ASSUME AuditTyped
  PROVE  Stopped <=> /\ \E t \in TimesOf(Flow) : t >= now - 2 * Days
                     /\ \A t \in TimesOf(Feed) : t < now - Days
  <1>1. Days \in Nat /\ Days > 0 /\ now \in Nat
    BY AuditAssumption DEF AuditTyped
  <1>2. TimesOf(Feed) = TimesOf(Flow) \cup TimesOf({"gauge 1"})
    BY DEF TimesOf, Feed
  <1>3. TimesOf(Feed) \in SUBSET Nat /\ \A t \in TimesOf(Feed) : t <= now
    BY TimesTyped
  <1> DEFINE A == Window(Flow)
             B == Window({"gauge 1"})
  <1>4. /\ A = {t \in TimesOf(Flow) : t >= now - 2 * Days}
        /\ B = {t \in TimesOf({"gauge 1"}) : t >= now - 2 * Days}
    BY DEF Window
  <1>5. A \in SUBSET Nat /\ B \in SUBSET Nat /\ (\A t \in A : t <= now) /\ (\A t \in B : t <= now)
    BY <1>2, <1>3, <1>4
  <1>6. Stopped <=> A # {} /\ Max(A) < now - Days /\ Before(B, now - Days)
    BY DEF Stopped
  <1> HIDE DEF A, B
  <1>7. Before(B, now - Days) <=> \A t \in B : t < now - Days
    <2>1. now - Days \in Int
      BY <1>1
    <2> QED
      BY <1>5, <2>1, BeforeMeans
  <1>8. A # {} => (Max(A) < now - Days <=> \A t \in A : t < now - Days)
    <2>1. A # {} => Max(A) \in A /\ \A t \in A : t <= Max(A)
      <3>1. now \in Int /\ A \in SUBSET Int
        BY <1>1, <1>5
      <3> QED
        BY <1>5, <3>1, GreatestTime
    <2> DEFINE m == Max(A)
    <2>2. A # {} => m \in A /\ m \in Nat /\ \A t \in A : t \in Nat /\ t <= m
      BY <1>5, <2>1
    <2>3. now - Days \in Int
      BY <1>1
    <2> HIDE DEF m
    <2>4. A # {} => (m < now - Days <=> \A t \in A : t < now - Days)
      BY <2>2, <2>3
    <2> QED
      BY <2>4 DEF m
  <1>9. \A t \in TimesOf(Feed) : t < now - 2 * Days => t < now - Days
    BY <1>1, <1>3
  <1>10. Stopped <=> A # {} /\ (\A t \in A : t < now - Days) /\ \A t \in B : t < now - Days
    BY <1>6, <1>7, <1>8
  <1>11. A # {} <=> \E t \in TimesOf(Flow) : t >= now - 2 * Days
    BY <1>4
  <1>12. (\A t \in A : t < now - Days) /\ (\A t \in B : t < now - Days)
           <=> \A t \in TimesOf(Feed) : t < now - Days
    <2>1. \A t \in TimesOf(Feed) : t \in Nat /\ ~(t >= now - 2 * Days) => t < now - Days
      BY <1>1, <1>3
    <2> QED
      BY <1>2, <1>3, <1>4, <2>1
  <1> QED
    BY <1>10, <1>11, <1>12

\* What "stale" means: no reading of late, of any feed.
LEMMA StaleMeans ==
  ASSUME AuditTyped
  PROVE  Stale <=> \A t \in TimesOf(Feed) : t < now - Days
  <1>1. now - Days \in Int
    BY AuditAssumption DEF AuditTyped
  <1>2. TimesOf(Feed) \in SUBSET Nat /\ \A t \in TimesOf(Feed) : t <= now
    BY TimesTyped
  <1> QED
    BY <1>1, <1>2, BeforeMeans DEF Stale

\* What "started" means: flow of late, none in the window before, some before that.
LEMMA StartedMeans ==
  ASSUME AuditTyped
  PROVE  Started <=> /\ \E t \in TimesOf(Flow) : t >= now - 2 * Days
                     /\ \A t \in TimesOf(Flow) : t >= now - 2 * Days => t >= now - Days
                     /\ \E t \in TimesOf(Flow) : t < now - 2 * Days
  <1>1. Days \in Nat /\ Days > 0 /\ now \in Nat
    BY AuditAssumption DEF AuditTyped
  <1>2. TimesOf(Flow) \in SUBSET Nat
    BY TimesTyped DEF Feed
  <1> DEFINE A == Window(Flow)
  <1>3. A = {t \in TimesOf(Flow) : t >= now - 2 * Days} /\ A \in SUBSET Nat
    BY <1>2 DEF Window
  <1>4. Started <=> /\ A # {} /\ Min(A) >= now - Days
                    /\ \E t \in TimesOf(Flow) : t < now - 2 * Days
    BY DEF Started
  <1> HIDE DEF A
  <1>5. A # {} => (Min(A) >= now - Days <=> \A t \in A : t >= now - Days)
    <2>1. A # {} => Min(A) \in A /\ \A t \in A : Min(A) <= t
      BY <1>3, MinOf
    <2> QED
      BY <1>1, <1>3, <2>1
  <1> QED
    BY <1>3, <1>4, <1>5

-----------------------------------------------------------------------------
(* The steps                                                               *)

\* The initial states.
LEMMA AuditStarts ==
  ASSUME AuditInit
  PROVE  AuditInv
  <1>0. Days \in Nat /\ Days > 0 /\ MaxGap \in Nat /\ MaxGap > 0 /\ MaxTick \in Nat
    BY AuditAssumption
  <1>1. now \in {0, MaxTick}
    BY DEF AuditInit
  <1>2. Max({now - 1, 0}) \in {now - 1, 0} /\ \A x \in {now - 1, 0} : x <= Max({now - 1, 0})
    <2> DEFINE U == {now - 1, 0}
    <2>1. U \in SUBSET Int /\ U # {} /\ \A x \in U : x <= now
      BY <1>0, <1>1
    <2>2. now \in Int
      BY <1>0, <1>1
    <2> HIDE DEF U
    <2>3. Max(U) \in U /\ \A t \in U : t <= Max(U)
      BY <2>1, <2>2, GreatestTime
    <2> QED
      BY <2>3 DEF U
  <1> PICK m \in {Max({now - 1, 0})} : TRUE
    OBVIOUS
  <1>3. m \in {now - 1, 0} /\ now - 1 <= m /\ 0 <= m
    BY <1>2
  <1>4. audits = [last |-> m, stop |-> Never, inTime |-> now = 0]
    BY DEF AuditInit
  <1>5. audits.last = m /\ audits.inTime = (now = 0) /\ audits \in [last : Nat, stop : Int, inTime : BOOLEAN]
    BY <1>0, <1>1, <1>3, <1>4 DEF Never
  <1>6. m \in Nat /\ m <= now /\ now - m <= 1
    BY <1>0, <1>1, <1>3
  <1>7. seen \in [Feed -> SUBSET Nat] /\ \A f \in Feed : \A t \in seen[f] : t <= now
    <2>1. CASE seen = [f \in Feed |-> {0}]
      BY <1>0, <1>1, <2>1
    <2>2. CASE seen = [f \in Feed |-> {}]
      BY <2>2
    <2> QED
      BY <2>1, <2>2 DEF AuditInit
  <1>8. AuditTyped
    BY <1>0, <1>1, <1>5, <1>6, <1>7 DEF AuditInit, AuditTyped
  <1>9. ReportFresh
    BY DEF AuditInit, ReportFresh
  <1>10. SilenceTold
    <2>1. SUFFICES ASSUME now = 0, LastOf(Flow) # Never, audits.last > LastOf(Flow) + Days PROVE FALSE
      BY <1>5 DEF SilenceTold
    <2>2. LastOf(Flow) \in Nat
      <3>1. TimesOf(Flow) \in SUBSET Nat
        BY <1>8, TimesTyped DEF Feed
      <3>2. LastOf(Flow) \in TimesOf(Flow) \cup {Never}
        BY <1>8, LastIs DEF Feed
      <3> QED
        BY <2>1, <3>1, <3>2
    <2>3. audits.last = m /\ m <= 0
      BY <1>5, <1>6, <2>1
    <2> QED
      BY <1>0, <1>6, <2>1, <2>2, <2>3
  <1> QED
    BY <1>8, <1>9, <1>10 DEF AuditInv

\* A step of the refresh: nothing that a report or the clock is about.
LEMMA RefreshStep ==
  ASSUME AuditInv, step # "idle" \/ audits.last < now, step' \in {"dates", "nwps", "report"},
         UNCHANGED <<now, alive, flips, seen, world, report, audits>>
  PROVE  AuditInv'
  <1>1. AuditTyped'
    BY DEF AuditInv, AuditTyped
  <1>2. report = NoReport
    BY DEF AuditInv, AuditTyped, ReportFresh
  <1>3. SilenceTold'
    BY DEF AuditInv, SilenceTold, LastOf, TimesOf
  <1> QED
    BY <1>1, <1>2, <1>3 DEF AuditInv, ReportFresh, NoReport

\* A report: a silence longer than Days either is younger than twice that, and told
\* now, or was told by the audit before.
LEMMA ReportStep ==
  ASSUME AuditInv, Report
  PROVE  AuditInv'
  <1>0. Days \in Nat /\ Days > 0 /\ MaxGap \in Nat /\ now \in Nat
    BY AuditAssumption DEF AuditInv, AuditTyped
  <1> PICK st \in {IF Stopped THEN now ELSE audits.stop} : TRUE
    OBVIOUS
  <1>1. /\ step' = "idle" /\ report' = Digest /\ UNCHANGED <<now, alive, flips, seen, world, cache>>
        /\ audits' = [audits EXCEPT !.last = now, !.stop = st]
    BY DEF Report
  <1>2. audits \in [last : Nat, stop : Int, inTime : BOOLEAN] /\ audits.last <= now /\ now - audits.last <= MaxGap
    BY DEF AuditInv, AuditTyped
  <1>3. st \in Int /\ (Stopped => st = now) /\ (~Stopped => st = audits.stop)
    BY <1>0, <1>2
  <1>4. /\ audits' \in [last : Nat, stop : Int, inTime : BOOLEAN] /\ audits'.last = now
        /\ audits'.stop = st /\ audits'.inTime = audits.inTime
    BY <1>0, <1>1, <1>2, <1>3
  <1>5. AuditTyped'
    BY <1>0, <1>1, <1>4 DEF AuditInv, AuditTyped
  <1>6. ReportFresh'
    <2>1. Digest' = Digest
      <3>1. \A F : TimesOf(F)' = TimesOf(F) /\ Window(F)' = Window(F)
        BY <1>1 DEF TimesOf, Window
      <3>2. Stopped' = Stopped
        BY <1>1, <3>1 DEF Stopped
      <3>3. Started' = Started
        BY <1>1, <3>1 DEF Started
      <3>4. Stale' = Stale
        BY <1>1, <3>1 DEF Stale
      <3>5. Candidate' = Candidate
        BY <1>1 DEF Candidate, NewSite, Matches
      <3> QED
        BY <1>1, <3>2, <3>3, <3>4, <3>5 DEF Digest
    <2> QED
      BY <1>1, <1>4, <2>1 DEF ReportFresh
  <1>7. SilenceTold'
    <2> DEFINE L == LastOf(Flow)
    <2>1. LastOf(Flow)' = L /\ LastOf(Feed)' = LastOf(Feed)
      BY <1>1 DEF LastOf, TimesOf
    <2>2. SUFFICES ASSUME audits.inTime, MaxGap <= Days, L >= LastOf(Feed), L # Never, now > L + Days
                   PROVE  st > L
      BY <1>4, <2>1 DEF SilenceTold
    <2>3. L \in TimesOf(Flow) /\ L \in Nat
      BY LastIs, TimesTyped, <2>2 DEF AuditInv, Feed
    <2>4. \A t \in TimesOf(Feed) : t \in Nat /\ t <= L
      <3>1. \A t \in TimesOf(Feed) : t \in Nat /\ t <= LastOf(Feed)
        BY LastIs, TimesTyped DEF AuditInv
      <3>2. LastOf(Feed) \in Int
        BY LastIs, TimesTyped DEF AuditInv, Never
      <3> HIDE DEF L
      <3> QED
        BY <2>2, <2>3, <3>1, <3>2
    <2> HIDE DEF L
    <2>5. CASE L >= now - 2 * Days
      <3>1. \A t \in TimesOf(Feed) : t < now - Days
        BY <1>0, <2>2, <2>3, <2>4
      <3>2. Stopped
        BY <2>3, <2>5, <3>1, StoppedMeans DEF AuditInv
      <3> QED
        BY <1>0, <1>3, <2>2, <2>3, <3>2
    <2>6. CASE L < now - 2 * Days
      <3>1. audits.last > L + Days
        BY <1>0, <1>2, <2>2, <2>3, <2>6
      <3>2. audits.stop > L
        BY <2>2, <3>1 DEF AuditInv, SilenceTold, L
      <3> QED
        BY <1>0, <1>3, <2>2, <2>3, <3>2
    <2> QED
      BY <1>0, <2>3, <2>5, <2>6
  <1> QED
    BY <1>5, <1>6, <1>7 DEF AuditInv

\* Time moves: what is seen now is later than any audit.
LEMMA TickStep ==
  ASSUME AuditInv, Tick
  PROVE  AuditInv'
  <1>0. Days \in Nat /\ Days > 0 /\ MaxGap \in Nat /\ now \in Nat
    BY AuditAssumption DEF AuditInv, AuditTyped
  <1>1. /\ now' = now + 1 /\ now - audits.last < MaxGap /\ report' = NoReport
        /\ seen' = [f \in Feed |-> IF f \in alive THEN seen[f] \cup {now + 1} ELSE seen[f]]
        /\ UNCHANGED <<alive, flips, world, cache, step, audits>>
    BY DEF Tick
  <1>2. seen \in [Feed -> SUBSET Nat] /\ \A f \in Feed : \A t \in seen[f] : t <= now
    BY DEF AuditInv, AuditTyped
  <1>3. seen' \in [Feed -> SUBSET Nat] /\ \A f \in Feed : \A t \in seen'[f] : t <= now + 1
    <2>1. ASSUME NEW f \in Feed
          PROVE  seen'[f] \in SUBSET Nat /\ \A t \in seen'[f] : t <= now + 1
      BY <1>0, <1>1, <1>2
    <2>2. seen' = [f \in Feed |-> seen'[f]]
      BY <1>1
    <2> QED
      BY <2>1, <2>2
  <1>4. AuditTyped'
    BY <1>0, <1>1, <1>3 DEF AuditInv, AuditTyped
  <1>5. ReportFresh'
    BY <1>1 DEF ReportFresh
  <1>6. SilenceTold'
    <2>1. CASE \E f \in Feed : f \in alive
      <3>1. PICK f \in Feed : f \in alive
        BY <2>1
      <3> DEFINE T == UNION {seen'[g] : g \in Feed}
                 U == T \cup {Never}
      <3>2. now + 1 \in T
        BY <1>1, <3>1
      <3>3. T \in SUBSET Nat /\ \A t \in T : t <= now + 1
        BY <1>3
      <3>4. LastOf(Feed)' = Max(U)
        BY DEF LastOf, TimesOf
      <3> HIDE DEF T
      <3>5. U \in SUBSET Int /\ U # {} /\ \A t \in U : t <= now + 1
        BY <1>0, <3>3 DEF Never
      <3> HIDE DEF U
      <3>6. Max(U) \in U /\ \A t \in U : t <= Max(U)
        <4>1. now + 1 \in Int
          BY <1>0
        <4> QED
          BY <3>5, <4>1, GreatestTime
      <3>7. now + 1 \in U
        BY <3>2 DEF U
      <3>8. LastOf(Feed)' \in Int /\ LastOf(Feed)' >= now + 1
        <4>1. Max(U) \in Int /\ now + 1 <= Max(U)
          BY <3>5, <3>6, <3>7
        <4> QED
          BY <1>0, <3>4, <4>1
      <3>9. LastOf(Flow)' \in Int
        <4> DEFINE W == UNION {seen'[g] : g \in Flow}
                   V == W \cup {Never}
        <4>0. W \in SUBSET Nat /\ \A t \in W : t <= now + 1
          BY <1>3 DEF Feed
        <4>2. LastOf(Flow)' = Max(V)
          BY DEF LastOf, TimesOf
        <4> HIDE DEF W
        <4>1. V \in SUBSET Int /\ V # {} /\ \A t \in V : t <= now + 1
          BY <1>0, <4>0 DEF Never
        <4> HIDE DEF V
        <4>3. now + 1 \in Int
          BY <1>0
        <4>4. Max(V) \in V
          BY <4>1, <4>3, GreatestTime
        <4> QED
          BY <4>1, <4>2, <4>4
      <3>10. audits.last \in Nat /\ audits.last <= now /\ audits' = audits
        BY <1>1 DEF AuditInv, AuditTyped
      <3> QED
        BY <1>0, <3>8, <3>9, <3>10 DEF SilenceTold
    <2>2. CASE \A f \in Feed : f \notin alive
      <3>1. \A f \in Feed : seen'[f] = seen[f]
        BY <1>1, <2>2
      <3>2. seen' = seen
        BY <1>1, <1>2, <3>1
      <3>3. LastOf(Flow)' = LastOf(Flow) /\ LastOf(Feed)' = LastOf(Feed)
        BY <3>2 DEF LastOf, TimesOf
      <3> QED
        BY <1>1, <3>3 DEF AuditInv, SilenceTold
    <2> QED
      BY <2>1, <2>2
  <1> QED
    BY <1>4, <1>5, <1>6 DEF AuditInv

\* A digest is a function of what the audit reads.
LEMMA SameDigest ==
  ASSUME UNCHANGED <<now, seen, world, cache>>
  PROVE  /\ Digest' = Digest /\ LastOf(Flow)' = LastOf(Flow) /\ LastOf(Feed)' = LastOf(Feed)
  <1>1. \A F : TimesOf(F)' = TimesOf(F) /\ Window(F)' = Window(F)
    BY DEF TimesOf, Window
  <1>2. Stopped' = Stopped
    BY <1>1 DEF Stopped
  <1>3. Started' = Started
    BY <1>1 DEF Started
  <1>4. Stale' = Stale
    BY <1>1 DEF Stale
  <1>5. Candidate' = Candidate
    BY DEF Candidate, NewSite, Matches
  <1>6. Digest' = Digest
    BY <1>2, <1>3, <1>4, <1>5 DEF Digest
  <1> QED
    BY <1>1, <1>6 DEF LastOf

\* Every step keeps the invariant.
LEMMA AuditStep ==
  ASSUME AuditInv, [AuditNext]_uvars
  PROVE  AuditInv'
  <1>1. CASE RefreshSites \/ RefreshDates \/ RefreshNwps \/ SkipRefresh
    BY <1>1, RefreshStep DEF RefreshSites, RefreshDates, RefreshNwps, SkipRefresh
  <1>2. CASE RefreshFails
    <2>1. /\ step' = "idle" /\ audits' = [audits EXCEPT !.inTime = FALSE]
          /\ UNCHANGED <<now, alive, flips, seen, world, cache, report>>
      BY <1>2 DEF RefreshFails
    <2>2. audits \in [last : Nat, stop : Int, inTime : BOOLEAN]
      BY DEF AuditInv, AuditTyped
    <2>3. /\ audits' \in [last : Nat, stop : Int, inTime : BOOLEAN] /\ audits'.last = audits.last
          /\ audits'.inTime = FALSE
      BY <2>1, <2>2
    <2>4. AuditTyped'
      BY <2>1, <2>3 DEF AuditInv, AuditTyped
    <2>5. ReportFresh'
      BY <2>1, <2>3, SameDigest DEF AuditInv, ReportFresh, NoReport
    <2> QED
      BY <2>3, <2>4, <2>5 DEF AuditInv, SilenceTold
  <1>3. CASE Report
    BY <1>3, ReportStep
  <1>4. CASE Tick
    BY <1>4, TickStep
  <1>5. CASE FeedsChange \/ UNCHANGED uvars
    <2>1. UNCHANGED <<now, seen, world, cache, step, report, audits>>
      BY <1>5 DEF FeedsChange, uvars
    <2> QED
      BY <2>1, SameDigest DEF AuditInv, AuditTyped, ReportFresh, SilenceTold, NoReport
  <1> QED
    BY <1>1, <1>2, <1>3, <1>4, <1>5 DEF AuditNext

\* A report is of the moment it was made, and of audits at most Days apart none of
\* which failed one told of a silence, for any history of the feeds and any Days.
THEOREM AuditInvariant == AuditSpec => []AuditInv
  BY AuditStarts, AuditStep, PTL DEF AuditSpec

-----------------------------------------------------------------------------
(* What the invariant says of a report                                     *)

\* A gauge that stopped is silent in all its feeds.
LEMMA StoppedIsSilence ==
  ASSUME AuditTyped, Stopped
  PROVE  {t \in TimesOf(Feed) : t >= now - Days} = {} /\ Stale /\ ~Started
  <1>1. Days \in Nat /\ now \in Nat
    BY AuditAssumption DEF AuditTyped
  <1>2. TimesOf(Feed) \in SUBSET Nat /\ TimesOf(Flow) \subseteq TimesOf(Feed)
    BY TimesTyped DEF TimesOf, Feed
  <1>3. \A t \in TimesOf(Feed) : t < now - Days /\ ~(t >= now - Days)
    BY <1>1, <1>2, StoppedMeans
  <1>4. ~Started
    BY <1>2, <1>3, StoppedMeans, StartedMeans
  <1> QED
    BY <1>3, <1>4, StaleMeans

\* A gauge that started had been quiet for Days.
LEMMA StartedAfterQuiet ==
  ASSUME AuditTyped, Started
  PROVE  \E t \in TimesOf(Flow) :
            t < now - 2 * Days /\ \A d \in t + 1 .. t + Days : d \notin TimesOf(Flow)
  <1>1. Days \in Nat /\ now \in Nat
    BY AuditAssumption DEF AuditTyped
  <1>2. TimesOf(Flow) \in SUBSET Nat
    BY TimesTyped DEF Feed
  <1> DEFINE Old == {t \in TimesOf(Flow) : t < now - 2 * Days}
  <1>3. Old # {} /\ Old \in SUBSET Int /\ \A t \in Old : t <= now
    BY <1>1, <1>2, StartedMeans
  <1>4. PICK t \in Old : \A d \in Old : d <= t
    <2> HIDE DEF Old
    <2>1. now \in Int
      BY <1>1
    <2> QED
      BY <1>3, <2>1, GreatestTime
  <1>5. t \in TimesOf(Flow) /\ t < now - 2 * Days /\ t \in Nat
    BY <1>2
  <1>6. ASSUME NEW d \in t + 1 .. t + Days, d \in TimesOf(Flow)
        PROVE  FALSE
    <2>1. d \in Nat /\ d > t /\ d <= t + Days
      BY <1>1, <1>5, <1>2, <1>6
    <2>2. CASE d < now - 2 * Days
      <3>1. d \in Old
        BY <1>6, <2>2
      <3> HIDE DEF Old
      <3> QED
        BY <1>4, <1>5, <2>1, <3>1
    <2>3. CASE d >= now - 2 * Days
      <3>1. d >= now - Days
        BY <1>6, <2>3, StartedMeans
      <3> QED
        BY <1>1, <1>5, <2>1, <3>1
    <2> QED
      BY <1>1, <2>1, <2>2, <2>3
  <1> QED
    BY <1>5, <1>6

\* How the site lies to both reaches.
LEMMA LiesTyped ==
  ASSUME AuditTyped
  PROVE  \A r \in Reach : /\ world.lies[r].miles \in {0, 2, 4} /\ world.lies[r].ignored \in BOOLEAN
                           /\ world.lies[r].sameName \in BOOLEAN
  <1>1. CASE world = PlainWorld
    BY <1>1 DEF PlainWorld, Nowhere
  <1>2. CASE world \in Worlds
    <2>1. PICK a \in Lie, b \in Lie : world.lies = [r1 |-> a, r2 |-> b]
      BY <1>2 DEF Worlds, Lies, Lie
    <2>2. world.lies["r1"] = a /\ world.lies["r2"] = b
      BY <2>1
    <2> QED
      BY <2>2 DEF Reach, Lie
  <1> QED
    BY <1>1, <1>2 DEF AuditTyped

\* A proposed reach is the nearest that fits, and one is proposed if any fits.
LEMMA CandidateFits ==
  ASSUME AuditTyped
  PROVE  /\ \A r \in Candidate :
               /\ ~world.known /\ (world.of = "usgs" => cache.date = "recent")
               /\ \A q \in Reach : world.lies[q].miles < world.lies[r].miles =>
                     q \in world.gauged \/ world.lies[q].ignored \/ ~world.lies[q].sameName
         /\ Candidate = {} /\ NewSite => \A r \in Reach : ~Matches(r)
  <1> DEFINE m(r) == world.lies[r].miles
             best == {r \in Reach : Matches(r) /\ \A q \in Reach : Matches(q) => m(r) <= m(q)}
  <1>1. \A r \in Reach : m(r) \in Int
    BY LiesTyped
  <1>2. Candidate = IF ~NewSite \/ best = {} THEN {} ELSE {CHOOSE r \in best : TRUE}
    BY DEF Candidate
  <1>3. \A r \in Candidate : NewSite /\ r \in best
    <2> HIDE DEF best
    <2> QED
      BY <1>2
  <1>4. ASSUME NEW r \in Candidate, NEW q \in Reach, m(q) < m(r)
        PROVE  q \in world.gauged \/ world.lies[q].ignored \/ ~world.lies[q].sameName
    <2>1. Matches(r) /\ r \in Reach /\ (Matches(q) => m(r) <= m(q))
      BY <1>3, <1>4
    <2>2. m(r) <= 3
      BY <2>1 DEF Matches
    <2>3. m(q) <= 3 /\ ~Matches(q)
      BY <1>1, <1>4, <2>1, <2>2
    <2> QED
      BY <2>3 DEF Matches
  <1>5. ASSUME NEW r \in Reach, Matches(r)
        PROVE  best # {}
    <2>1. PICK s \in Reach : Matches(s) /\ \A q \in Reach : Matches(q) => m(s) <= m(q)
      <3>1. m("r1") \in Int /\ m("r2") \in Int /\ r \in {"r1", "r2"}
        BY <1>1 DEF Reach
      <3>2. CASE Matches("r1") /\ (Matches("r2") => m("r1") <= m("r2"))
        BY <3>1, <3>2 DEF Reach
      <3>3. CASE Matches("r2") /\ (Matches("r1") => m("r2") <= m("r1"))
        BY <3>1, <3>3 DEF Reach
      <3> QED
        BY <1>5, <3>1, <3>2, <3>3
    <2> QED
      BY <2>1
  <1>6. Candidate = {} /\ NewSite => best = {}
    <2> HIDE DEF best
    <2> QED
      BY <1>2
  <1> QED
    BY <1>3, <1>4, <1>5, <1>6 DEF NewSite

\* Whatever feeds, sites and failures: a report of audit-gauges is true (audit.py:330,
\* 395) and, when no refresh fails and the timer runs often enough, complete.
THEOREM AuditsTruthful == AuditSpec => []AuditTruthful
  <1>1. AuditInv => AuditTruthful
    <2> SUFFICES ASSUME AuditInv, report # NoReport PROVE AuditTruthful
      BY DEF AuditTruthful
    <2>0. AuditTyped /\ audits.last = now /\ report = Digest
      BY DEF AuditInv, ReportFresh
    <2>1. /\ report.at = now /\ report.stopped = Stopped /\ report.started = Started /\ report.stale = Stale
          /\ report.candidates = Candidate /\ report.cache = cache
      BY <2>0 DEF Digest
    <2>2. Stopped => {t \in TimesOf(Feed) : t >= now - Days} = {} /\ Stale /\ ~Started
      BY <2>0, StoppedIsSilence
    <2>3. Started => \E t \in TimesOf(Flow) :
                  t < now - 2 * Days /\ \A d \in t + 1 .. t + Days : d \notin TimesOf(Flow)
      BY <2>0, StartedAfterQuiet
    <2>4. (audits.inTime /\ MaxGap <= Days /\ LastOf(Flow) >= LastOf(Feed) /\ LastOf(Flow) # Never
            /\ now - LastOf(Flow) >= 2 * Days) => audits.stop > LastOf(Flow)
      <3>1. Flow \in SUBSET Feed
        BY DEF Feed
      <3>2. LastOf(Flow) \in TimesOf(Flow) \cup {Never} /\ TimesOf(Flow) \in SUBSET Nat
        BY <2>0, <3>1, LastIs, TimesTyped
      <3>3. LastOf(Flow) \in Int /\ now \in Nat /\ Days \in Nat /\ Days > 0
        BY <2>0, <3>2, AuditAssumption DEF AuditTyped, Never
      <3>4. now - LastOf(Flow) >= 2 * Days => audits.last > LastOf(Flow) + Days
        BY <2>0, <3>3
      <3> QED
        BY <3>4 DEF AuditInv, SilenceTold
    <2>5. /\ \A r \in Candidate : /\ ~world.known /\ (world.of = "usgs" => cache.date = "recent")
                          /\ \A q \in Reach : world.lies[q].miles < world.lies[r].miles =>
                                q \in world.gauged \/ world.lies[q].ignored \/ ~world.lies[q].sameName
          /\ Candidate = {} /\ NewSite => \A r \in Reach : ~Matches(r)
      BY <2>0, CandidateFits
    <2> QED
      BY <2>1, <2>2, <2>3, <2>4, <2>5 DEF AuditTruthful, NewSite
  <1> QED
    BY <1>1, AuditInvariant, PTL

=============================================================================
