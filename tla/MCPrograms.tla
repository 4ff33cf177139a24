------------------------------ MODULE MCPrograms ------------------------------
(***************************************************************************)
(* Programs that share no state, for one run of TLC: a behaviour is one of  *)
(* `program', the others stand still in one initial state (an HTTP batch    *)
(* that stands still is over).                                             *)
(***************************************************************************)
EXTENDS HttpFetch, Accounts, DatasetGate, HostConfig, ReachTrace, GaugeAudit, FeedParsers

VARIABLE program

vars == <<program, hvars, avars, gvars, cvars, tvars, uvars, fvars>>

\* Two hosts, the first with three URLs and a limit of one.
MCHostOf == [u \in Url |-> IF u = "d" THEN "B" ELSE "A"]
MCLimit == [h \in Host |-> IF h = "A" THEN 1 ELSE 8]

\* Two ways to type one address.
MCCanonical == [a \in Address |-> "plain"]

HttpStill ==
    /\ clock = 0 /\ deadline = NoBudget /\ phase = "done"
    /\ task = [u \in Url |-> [at |-> "end", attempt |-> 0, sent |-> 0, due |-> Free, capped |-> 0,
                              last |-> "refused"]]
    /\ result = [u \in Url |-> "refused"]
GateStill == /\ place = "absent" /\ dataset = Nothing /\ verdict = "none" /\ db = NoRows
             /\ docroot = NoDocroot /\ pulls = 0
ConfigStill == secrets = [line |-> "none", value |-> "secret"] /\ ConfigInit
TraceStill == /\ reach = [river |-> Straight, cuts |-> {}, divide |-> Mouth, turned |-> FALSE, named |-> TRUE,
                           gap |-> -1, from |-> 0, putin |-> Straight[0], takeout |-> Straight[Mouth]]
              /\ stage = "nhd" /\ nhd = None /\ osm = None /\ traced = NoTrace
AuditStill == now = 0 /\ seen = [f \in Feed |-> {0}] /\ AuditInit
FeedStill ==
    /\ utc = 0 /\ changes = 0 /\ observation = {} /\ feed = "licor" /\ sources = {}
    /\ style = [of |-> <<"flow", "cfs">>, value |-> "reading", good |-> TRUE, label |-> TRUE, gmt |-> TRUE]

Runs(p, init, still) == IF program = p THEN init ELSE still

Init ==
    /\ program \in {"http", "accounts", "gate", "config", "trace", "audit", "feed"}
    /\ Runs("http", HttpInit, HttpStill) /\ Runs("accounts", AccountsInit, AccountsInit)
    /\ Runs("gate", GateInit, GateStill) /\ Runs("config", ConfigInit, ConfigStill)
    /\ Runs("trace", TraceInit, TraceStill) /\ Runs("audit", AuditInit, AuditStill)
    /\ Runs("feed", FeedInit, FeedStill)

Next ==
    /\ UNCHANGED program
    /\ \/ program = "http" /\ HttpNext /\ UNCHANGED <<avars, gvars, cvars, tvars, uvars, fvars>>
       \/ program = "accounts" /\ AccountsNext /\ UNCHANGED <<hvars, gvars, cvars, tvars, uvars, fvars>>
       \/ program = "gate" /\ GateNext /\ UNCHANGED <<hvars, avars, cvars, tvars, uvars, fvars>>
       \/ program = "config" /\ ConfigNext /\ UNCHANGED <<hvars, avars, gvars, tvars, uvars, fvars>>
       \/ program = "trace" /\ TraceNext /\ UNCHANGED <<hvars, avars, gvars, cvars, uvars, fvars>>
       \/ program = "audit" /\ AuditNext /\ UNCHANGED <<hvars, avars, gvars, cvars, tvars, fvars>>
       \/ program = "feed" /\ FeedNext /\ UNCHANGED <<hvars, avars, gvars, cvars, tvars, uvars>>

Spec == Init /\ [][Next]_vars /\ HttpFairness
=============================================================================
