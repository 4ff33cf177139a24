------------------------- MODULE MCObservationStore -------------------------
(* Two sources of one gauge on one URL, the second also a USGS and a LI-COR   *)
(* source, and a calculated source on a gauge of its own that reads it.       *)
EXTENDS ObservationStore

MCLinkOf == <<1, 1, 2>>
MCUrlSources == [u \in {"u", "p"} |-> IF u = "u" THEN {1, 2} ELSE {2}]
MCRefs == [s \in {3} |-> {<<1, "flow">>}]
MCCalcType == [s \in {3} |-> "flow"]
MCFlowAt == [v \in Value |-> IF v > 0 THEN v ELSE NoReading]
MCStageAt == [v \in Value |-> v]
\* Every way for the steps of one run to fail; and two runs of the programs
\* over several hours, in which one dies or a source is removed.
Fails == [payloads |-> 1, runs |-> 1, raises |-> 2, deaths |-> 0, removals |-> 0,
          jumps |-> 0, args |-> BOOLEAN \X BOOLEAN]
Hours == [payloads |-> 2, runs |-> 3, raises |-> 0, deaths |-> 0, removals |-> 0,
          jumps |-> 2, args |-> {<<FALSE, FALSE>>}]
Lost == [Hours EXCEPT !.deaths = 1, !.payloads = 1]
Gone == [Hours EXCEPT !.removals = 1, !.payloads = 1, !.runs = 2]
MCBudgets == {Fails, Hours, Lost, Gone}
MCValue == {-1, 1}
=============================================================================
