------------------------------ MODULE ReachTrace ------------------------------
(***************************************************************************)
(* levels trace (tracing/trace.py, tracing/osm.py): the line of a reach     *)
(* from its put-in to its take-out.  One trace follows the NHD flowlines    *)
(* downstream, the other walks a graph of OSM waterways; a gate decides     *)
(* which of the two becomes the reach's geometry.                           *)
(*                                                                         *)
(* The river runs through the points 0..Mouth of a grid, cut into flowlines; *)
(* distances are grid distances, a flowline has a vertex at every point.    *)
(***************************************************************************)
EXTENDS Integers, Sequences, FiniteSets, SequencesExt

CONSTANTS
    Mouth,      \* the last point of the river
    MaxDev      \* GATE_MAX_DEV_M

VARIABLES
    reach,      \* what there is to trace
    stage,      \* the steps of osm.trace_reach
    nhd, osm,   \* the traces, None if there is none
    traced      \* what is returned

tvars == <<reach, stage, nhd, osm, traced>>

-----------------------------------------------------------------------------
(* Geometry                                                                *)

Pos == 0..Mouth
Abs(n) == IF n < 0 THEN -n ELSE n
Distance(p, q) == Abs(p[1] - q[1]) + Abs(p[2] - q[2])

\* A straight river, and one that turns back beside itself.
Straight == [i \in Pos |-> <<i, 0>>]
Horseshoe == [i \in Pos |-> IF i <= 3 THEN <<i, 0>> ELSE IF i <= 5 THEN <<3, i - 3>> ELSE <<Mouth - i, 2>>]

None == <<>>
ToSeq(f, a, b) == [i \in 1..(b - a + 1) |-> f[a + i - 1]]
DistanceTo(p, line) == CHOOSE d \in 0..2 * Mouth :
    /\ \E i \in DOMAIN line : Distance(p, line[i]) = d
    /\ \A i \in DOMAIN line : Distance(p, line[i]) >= d

\* The first of the elements of a sequence for which cost is least.
FirstLeast(s, cost(_)) == CHOOSE i \in DOMAIN s : /\ \A j \in DOMAIN s : cost(s[i]) <= cost(s[j])
                                                  /\ \A j \in 1..(i - 1) : cost(s[j]) > cost(s[i])

-----------------------------------------------------------------------------
(* The NHD network of a reach                                              *)

\* Flowlines of the river from cut to cut, and a tributary when one is at Enters.
Enters == 2
Cuts(r) == r.cuts \cup {0, Mouth}
Flowlines(r) == {<<a, b>> \in Cuts(r) \X Cuts(r) : a < b /\ \A c \in Cuts(r) : c <= a \/ c >= b}
Tributary(r) == LET p == r.river[Enters] IN << <<p[1], -2>>, <<p[1], -1>>, p >>
Vertices(r, f) == IF f = <<-1, Enters>> THEN Tributary(r) ELSE ToSeq(r.river, f[1], f[2])
All(r) == Flowlines(r) \cup IF Enters \in Cuts(r) THEN {<<-1, Enters>>} ELSE {}

\* Which HUC4 a flowline is in; a basin may end within the reach.
Basin(r, f) == IF f[1] >= r.divide THEN "lower" ELSE "upper"
InBasin(r, h) == SetToSeq({f \in All(r) : Basin(r, f) = h})
Digitized(r, f) == IF r.turned /\ f[1] > r.from THEN Reverse(Vertices(r, f)) ELSE Vertices(r, f)

\* find_huc4_with_distance, _resolve_huc4: the end nearer to its flowline wins.
NearestIn(r, p) ==
    LET all == SetToSeq(All(r))
        i == FirstLeast(all, LAMBDA f : DistanceTo(p, Vertices(r, f)))
    IN  [huc |-> Basin(r, all[i]), dist |-> DistanceTo(p, Vertices(r, all[i]))]
Huc4(r) ==
    LET a == NearestIn(r, r.putin) b == NearestIn(r, r.takeout)
    IN  IF a.huc # b.huc /\ b.dist < a.dist THEN b.huc ELSE a.huc

\* find_nearest_flowline
Nearest(r, p, fs) == fs[FirstLeast(fs, LAMBDA f : DistanceTo(p, Vertices(r, f)))]

\* DnHydroSeq, as long as it stays in the basin.
Downstream(r, h, f) == {g \in Flowlines(r) : g[1] = f[2] /\ Basin(r, g) = h}

\* The chain from a flowline to where the network ends.
Chain(r, h, f) ==
    LET c[n \in 0..Cardinality(All(r))] ==
            IF n = 0 THEN <<f>>
            ELSE LET p == c[n - 1]
                     d == Downstream(r, h, p[Len(p)])
                 IN  IF d = {} THEN p ELSE Append(p, CHOOSE g \in d : TRUE)
    IN  c[Cardinality(All(r))]

\* trace_hydroseq, or _extend_and_trim_path when the take-out is not on the chain.
Path(r, h) ==
    LET fs == InBasin(r, h)
        start == Nearest(r, r.putin, fs)
        end == Nearest(r, r.takeout, fs)
        chain == Chain(r, h, start)
        near(p) == FirstLeast(chain, LAMBDA f : DistanceTo(p, Vertices(r, f)))
    IN  IF end \in ToSet(chain)
        THEN SubSeq(chain, 1, CHOOSE i \in DOMAIN chain : chain[i] = end)
        ELSE SubSeq(chain, near(r.putin), near(r.takeout))

\* Slip: the segments are strung together as they were digitized.
JoinedAsIs(line, seg) ==
    IF line = None THEN seg ELSE line \o (IF seg[1] = line[Len(line)] THEN Tail(seg) ELSE seg)

\* The loop of build_trace: turn a segment whose other end is nearer, drop the
\* point that is there twice.
Joined(line, seg) ==
    IF line = None THEN seg
    ELSE LET at == line[Len(line)]
             s == IF Distance(at, seg[Len(seg)]) < Distance(at, seg[1]) THEN Reverse(seg) ELSE seg
         IN  line \o (IF s[1] = at THEN Tail(s) ELSE s)

\* Orientation, by the first point and the last of the whole path.
Oriented(line, p) ==
    IF Distance(line[Len(line)], p) < Distance(line[1], p) THEN Reverse(line) ELSE line

Trimmed(line, p, q) ==
    LET i == FirstLeast(line, LAMBDA v : Distance(v, p))
        j == FirstLeast(line, LAMBDA v : Distance(v, q))
    IN  IF Len(line) <= 2 THEN line ELSE IF i <= j THEN SubSeq(line, i, j) ELSE SubSeq(line, j, i)

\* trace.trace_reach
NhdTrace(r) ==
    LET path == Path(r, Huc4(r))
        line == FoldLeft(LAMBDA l, f : Joined(l, Digitized(r, f)), None, path)
    IN  Trimmed(Oriented(line, r.putin), r.putin, r.takeout)

-----------------------------------------------------------------------------
(* The OSM walk                                                            *)

\* A side channel across the neck of the horseshoe, mapped as a stream.
Neck == <<2, Mouth - 2>>
Chute(r) == << r.river[Neck[1]], <<2, 1>>, r.river[Neck[2]] >>

\* _node_ways: the river in pieces between junctions, one of them not mapped.
Nodes(r) == Cuts(r) \cup IF r.river = Horseshoe THEN {Neck[1], Neck[2]} ELSE {}
Piece(type, line) == [type |-> type, line |-> line]
Pieces(r) ==
    {Piece("river", ToSeq(r.river, e[1], e[2])) :
        e \in {e \in Nodes(r) \X Nodes(r) : /\ e[1] < e[2] /\ e[1] # r.gap
                                            /\ \A c \in Nodes(r) : c <= e[1] \/ c >= e[2]}}
      \cup (IF r.river = Horseshoe THEN {Piece("stream", Chute(r))} ELSE {})
      \cup (IF Enters \in Cuts(r) THEN {Piece("stream", Tributary(r))} ELSE {})

\* _penalty; a piece an end is snapped to costs its length.
Penalty(r, piece, own) ==
    IF piece \in own THEN 1 ELSE IF piece.type = "stream" THEN 12 ELSE IF r.named THEN 1 ELSE 3

Snapped(p, pool) ==
    LET ps == SetToSeq(pool)
        piece == ps[FirstLeast(ps, LAMBDA x : DistanceTo(p, x.line))]
    IN  [piece |-> piece, at |-> piece.line[FirstLeast(piece.line, LAMBDA v : Distance(v, p))]]

\* The steps from vertex to vertex: <<from, to, cost>>.
Steps(r, own) ==
    UNION {LET edges == {<<x.line[i], x.line[i + 1]>> : i \in 1..(Len(x.line) - 1)}
           IN  {<<e[1], e[2], Penalty(r, x, own)>> : e \in edges}
                 \cup {<<e[2], e[1], Penalty(r, x, own)>> : e \in edges} : x \in Pieces(r)}

\* _dijkstra: the cheapest route to every vertex it reaches.
Routes(r, from, own) ==
    LET steps == Steps(r, own)
        f[n \in 0..2 * Mouth] ==
            IF n = 0 THEN (from :> [cost |-> 0, line |-> <<from>>])
            ELSE LET g == f[n - 1]
                     better(v) == {s \in steps : s[2] = v /\ s[1] \in DOMAIN g
                                      /\ (v \in DOMAIN g => g[s[1]].cost + s[3] < g[v].cost)}
                     reached == DOMAIN g \cup {s[2] : s \in {s \in steps : s[1] \in DOMAIN g}}
                     least(v) == CHOOSE s \in better(v) : \A t \in better(v) :
                                    g[s[1]].cost + s[3] <= g[t[1]].cost + t[3]
                 IN  [v \in reached |-> IF better(v) = {} THEN g[v]
                        ELSE LET s == least(v)
                             IN  [cost |-> g[s[1]].cost + s[3], line |-> Append(g[s[1]].line, v)]]
    IN  f[2 * Mouth]

\* _walk: a clip of one piece, or the route between the two.
Walk(r, pool) ==
    LET a == Snapped(r.putin, pool) b == Snapped(r.takeout, pool)
        routes == Routes(r, a.at, {a.piece, b.piece})
    IN  IF b.at \in DOMAIN routes /\ Len(routes[b.at].line) >= 2 THEN routes[b.at].line ELSE None

\* osm_trace_reach: the named river first, then everything; put-in first.
OsmTrace(r) ==
    LET river == {x \in Pieces(r) : x.type = "river" /\ r.named}
        named == IF river = {} THEN None ELSE Walk(r, river)
        line == IF named # None THEN named ELSE Walk(r, Pieces(r))
        ends(l) == Distance(l[1], r.putin) + Distance(l[Len(l)], r.takeout)
    IN  IF line # None /\ ends(Reverse(line)) < ends(line) THEN Reverse(line) ELSE line

\* max_deviation
Deviation(a, b) == CHOOSE d \in 0..2 * Mouth : /\ \E i \in DOMAIN a : DistanceTo(a[i], b) = d
                                              /\ \A i \in DOMAIN a : DistanceTo(a[i], b) <= d

\* hausdorff
Agree(o, n) == Deviation(o, n) <= MaxDev /\ Deviation(n, o) <= MaxDev

\* gate_ok: the length ratio and the distance both ways.
GateOk(o, n) ==
    /\ Len(o) >= 2 /\ Len(n) >= 2
    /\ 7 * (Len(n) - 1) <= 10 * (Len(o) - 1) /\ 10 * (Len(o) - 1) <= 14 * (Len(n) - 1)
    /\ Agree(o, n)

-----------------------------------------------------------------------------

CutSets == {{}, {2}, {4}, {2, 6}, {3, 5}}
Bank(j) == IF j = Enters THEN {<<Enters, -1>>} ELSE {}
TakeOuts(w, i) == UNION {{w[j]} \cup Bank(j) : j \in i + 1..Mouth}
NoTrace == [line |-> None, source |-> "none"]

\* The put-in is upstream of the take-out, which may be across the river on the
\* bank of a tributary; flowlines below the put-in may be digitized upstream.
TraceInit ==
    /\ \E w \in {Straight, Horseshoe}, c \in CutSets, d \in {4, Mouth}, t, n \in BOOLEAN, g \in {-1, 4}, i \in Pos :
          \E q \in TakeOuts(w, i) :
             reach = [river |-> w, cuts |-> c, divide |-> d, turned |-> t, named |-> n, gap |-> g,
                      from |-> i, putin |-> w[i], takeout |-> q]
    /\ stage = "nhd" /\ nhd = None /\ osm = None /\ traced = NoTrace

\* The NHD trace, or none: no data, no flowline near.
TraceNhd ==
    /\ stage = "nhd" /\ stage' = "osm"
    /\ nhd' \in {None, NhdTrace(reach)}
    /\ UNCHANGED <<reach, osm, traced>>

\* The OSM trace, or none: no file, no waterway in the window.
TraceOsm ==
    /\ stage = "osm" /\ stage' = "choose"
    /\ osm' \in {None, OsmTrace(reach)}
    /\ UNCHANGED <<reach, nhd, traced>>

\* osm.trace_reach: OSM when it agrees with NHD or there is no NHD trace.
Choose ==
    /\ stage = "choose" /\ stage' = "done"
    /\ traced' = IF osm # None /\ nhd = None THEN [line |-> osm, source |-> "osm (ungated)"]
                 ELSE IF osm # None /\ GateOk(osm, nhd) THEN [line |-> osm, source |-> "osm"]
                 ELSE [line |-> nhd, source |-> "nhd"]
    /\ UNCHANGED <<reach, nhd, osm>>

TraceNext == TraceNhd \/ TraceOsm \/ Choose

TraceSpec == TraceInit /\ [][TraceNext]_tvars

-----------------------------------------------------------------------------
(* Properties                                                              *)

\* Whatever the flowlines and waterways look like: a trace has no gap and visits
\* no point twice, its ends are the vertices nearest to put-in and take-out of
\* the line it was cut from, and a trace that was gated strays nowhere from the
\* NHD trace and leaves no part of it out (trace.py:288, osm.py:293).
TraceWhole ==
    stage = "done" /\ traced.line # None =>
      LET l == traced.line
      IN  /\ \A i \in 1..(Len(l) - 1) : Distance(l[i], l[i + 1]) = 1
          /\ IsInjective(l)
          /\ nhd # None => /\ \A v \in ToSet(l) : DistanceTo(v, nhd) <= MaxDev
                           /\ \A v \in ToSet(nhd) : DistanceTo(v, l) <= MaxDev
          /\ traced.source = "nhd" => reach.putin \in {l[1], l[Len(l)]} \/ Huc4(reach) = "lower"

\* trace.py:507 "list of (lat, lon) tuples from put-in to take-out", :291 "orients
\* the full trace from put-in to take-out".
PutinFirst == stage = "osm" /\ nhd # None =>
    Distance(nhd[1], reach.putin) <= Distance(nhd[Len(nhd)], reach.putin)
=============================================================================
