--------------------------- MODULE MCDatasetSync ---------------------------
(* Ids, gauges, names and sidecars small enough to enumerate; stations and *)
(* gauge names are interchangeable.                                        *)
EXTENDS DatasetSync, TLC

CONSTANTS s1, s2, n1, n2, r1, x

MCStation == {s1, s2}
MCGauge == {1, 2}
MCGaugeName == {n1, n2}
MCReach == {r1}
MCShape == {x}
Symmetry == {p @@ q : p \in Permutations(MCStation), q \in Permutations(MCGaugeName)}
=============================================================================
