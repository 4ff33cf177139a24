----------------------- MODULE ObservationStoreProofs -----------------------
(***************************************************************************)
(* The store, its caches and the pipeline's verdict, for any number of     *)
(* sources, gauges, readings, hours, runs, failures and removals.          *)
(*                                                                         *)
(* Every writer refreshes, in its own transaction, the rows of the pairs   *)
(* it touched, so what a cache owes the observations never depends on what *)
(* another program read and has in hand.  What a run has in hand matters   *)
(* in one place: that what it is about to store has a time (RunOK).        *)
(***************************************************************************)
EXTENDS ObservationStore, FiniteSetTheorems, WellFoundedInduction, TLAPS

-----------------------------------------------------------------------------
(* Largest, smallest and the slots of a day                                *)

LEMMA FiniteMax ==
  ASSUME NEW S \in SUBSET Int, IsFiniteSet(S), S # {}
  PROVE  \E m \in S : \A x \in S : x <= m
  <1> DEFINE Bad == {n \in Nat : \E X \in SUBSET S :
                        /\ X # {} /\ Cardinality(X) = n
                        /\ ~ \E m \in X : \A x \in X : x <= m}
             R == OpToRel(<, Nat)
  <1>1. SUFFICES ASSUME Bad # {} PROVE FALSE
    BY FS_CardinalityType
  <1>2. PICK n \in Bad : \A k \in Bad : ~ (<<k, n>> \in R)
    <2>1. Bad \subseteq Nat
      OBVIOUS
    <2> HIDE DEF Bad, R
    <2>2. IsWellFoundedOn(R, Nat)
      BY NatLessThanWellFounded DEF R
    <2> QED
      BY <1>1, <2>1, <2>2, WFMin
  <1>3. \A k \in Bad : ~ (k < n)
    BY <1>2 DEF OpToRel
  <1>4. PICK X \in SUBSET S : /\ X # {} /\ Cardinality(X) = n
                              /\ ~ \E m \in X : \A x \in X : x <= m
    BY <1>2
  <1>5. PICK y \in X : TRUE
    BY <1>4
  <1>6. /\ IsFiniteSet(X) /\ Cardinality(X) \in Nat
        /\ Cardinality(X \ {y}) = Cardinality(X) - 1
        /\ Cardinality(X \ {y}) \in Nat
    BY <1>5, FS_Subset, FS_CardinalityType, FS_RemoveElement
  <1>7. X \ {y} # {}
    BY <1>4, <1>5
  <1>8. Cardinality(X \ {y}) \notin Bad
    <2>1. Cardinality(X \ {y}) < n
      BY <1>4, <1>6
    <2> HIDE DEF Bad
    <2> QED
      BY <1>3, <2>1
  <1>9. PICK z \in X \ {y} : \A x \in X \ {y} : x <= z
    BY <1>6, <1>7, <1>8
  <1>10. \/ \A x \in X : x <= z
         \/ \A x \in X : x <= y
    BY <1>5, <1>9
  <1> QED
    BY <1>4, <1>5, <1>9, <1>10

LEMMA OldestIsOne ==
  ASSUME NEW S \in SUBSET Nat, S # {}
  PROVE  Min(S) \in S
  <1>1. PICK m \in S : \A x \in S : ~ (<<x, m>> \in OpToRel(<, Nat))
    BY NatLessThanWellFounded, WFMin
  <1>2. \A x \in S : ~ (x < m)
    BY <1>1 DEF OpToRel
  <1>3. \A x \in S : m <= x
    BY <1>2
  <1> QED
    BY <1>3 DEF Min

\* A slot of h ticks lies in one slot of l ticks.
LEMMA SameLongSlot ==
  ASSUME NEW a \in Nat, NEW b \in Nat, NEW h \in Nat \ {0}, NEW l \in Nat \ {0},
         l % h = 0, a \div h = b \div h
  PROVE  a \div l = b \div l
  <1> DEFINE m == l \div h   q == a \div h   t == q \div m   r == q % m
  <1>1. l = h * m /\ m \in Nat \ {0}
    OBVIOUS
  <1>2. /\ q \in Nat
        /\ a = h * q + (a % h) /\ a % h \in 0..(h-1)
        /\ b = h * q + (b % h) /\ b % h \in 0..(h-1)
    <2>1. ASSUME NEW x \in Nat PROVE x = h * (x \div h) + (x % h) /\ (x % h) \in 0..(h-1) /\ x \div h \in Nat
      <3>1. (x % h) \in 0..(h-1)
        OBVIOUS
      <3>2. x \div h \in Nat
        OBVIOUS
      <3>3. x = h * (x \div h) + (x % h)
        OBVIOUS
      <3> QED
        BY <3>1, <3>2, <3>3
    <2> QED
      BY <2>1
  <1> HIDE DEF m, q
  <1>3. t \in Nat /\ r \in 0..(m-1) /\ q = m * t + r
    BY <1>1, <1>2
  <1> HIDE DEF t, r
  <1>4. \A s \in 0..(h-1) : h * r + s \in 0..(l-1)
    <2> TAKE s \in 0..(h-1)
    <2>1. h * r <= h * (m - 1)
      BY <1>1, <1>3
    <2>2. h * (m - 1) = l - h /\ h * r \in Nat
      BY <1>1, <1>3
    <2> QED
      BY <2>1, <2>2, <1>1, <1>3
  <1>5. \A s \in 0..(h-1) : (h * q + s) \div l = t
    <2> TAKE s \in 0..(h-1)
    <2>1. h * q + s = l * t + (h * r + s)
      BY <1>1, <1>3
    <2>2. h * r + s \in 0..(l-1)
      BY <1>4
    <2> DEFINE e == h * r + s
    <2>3. \A f \in 0..(l-1) : (l * t + f) \div l = t
      BY <1>1, <1>3
    <2> QED
      BY <2>1, <2>2, <2>3
  <1> QED
    BY <1>2, <1>5

-----------------------------------------------------------------------------
(* The inductive invariant                                                 *)

\* A stored reading names a source that is there, and a time.
StoredOK(o) ==
    /\ o = [k \in DOMAIN o |-> o[k]]
    /\ \A k \in DOMAIN o : k[1] \in sources /\ k[3] \in Nat

\* A gauge row is empty, or has the time of a reading.
TimedRow(row) == row = NoRow \/ ("at" \in DOMAIN row /\ row.at \in Nat)

RunFields == {"step", "busy", "results", "keep", "known", "todo", "rows",
              "rejected", "refreshed", "exit"}

\* What the pipeline has in hand.
RunOK ==
    /\ DOMAIN run = RunFields
    /\ In("calculator") => run.todo \subseteq CalcSource
    /\ \A k \in DOMAIN run.rows : k[3] \in Nat

TablesOK ==
    /\ now \in Nat /\ sources \subseteq Source
    /\ StoredOK(obs)
    /\ \A p \in GaugePair : TimedRow(glatest[p])
    /\ SourceCacheExact /\ GaugeCacheExact /\ HistoryCovered

StoreInv == TablesOK /\ RunOK

-----------------------------------------------------------------------------
(* A row of a cache is a function of the readings it is about              *)

Stamped(keys) == \A k \in keys : k[1] \in Source /\ k[3] \in Nat

LEMMA NewestIsOne ==
  ASSUME NEW keys, keys # {}, Stamped(keys), NEW u \in Nat, \A k \in keys : k[3] <= u
  PROVE  Newest(keys) \in keys
  <1> DEFINE T == {k[3] : k \in keys}
  <1>1. T \in SUBSET Int /\ T # {} /\ IsFiniteSet(T)
    <2>1. T \in SUBSET Nat /\ T # {} /\ \A x \in T : x <= u
      BY DEF Stamped
    <2> HIDE DEF T
    <2>2. IsFiniteSet(T)
      BY <2>1, FS_BoundedSetOfNaturals
    <2> QED
      BY <2>1, <2>2
  <1>2. PICK t \in T : \A x \in T : x <= t
    <2> HIDE DEF T
    <2> QED
      BY <1>1, FiniteMax
  <1> DEFINE I == {k[1] : k \in {j \in keys : j[3] = t}}
  <1>3. I \in SUBSET Int /\ I # {} /\ IsFiniteSet(I)
    <2>1. I \in SUBSET Source /\ I # {}
      BY <1>2 DEF Stamped
    <2>2. Source \subseteq Nat /\ IsFiniteSet(Source)
      BY StoreAssumption
    <2> HIDE DEF I
    <2>3. IsFiniteSet(I)
      BY <2>1, <2>2, FS_Subset
    <2> QED
      BY <2>1, <2>2, <2>3
  <1>4. PICK i \in I : \A x \in I : x <= i
    <2> HIDE DEF I, T
    <2> QED
      BY <1>3, FiniteMax
  <1>5. PICK k \in keys : k[3] = t /\ k[1] = i
    BY <1>4
  <1>6. \A j \in keys : j[3] \in Nat /\ j[3] <= t /\ (j[3] = t => j[1] <= i)
    BY <1>2, <1>4 DEF Stamped
  <1>7. \A j \in keys : j[3] < k[3] \/ (j[3] = k[3] /\ j[1] <= k[1])
    <2>1. k[3] \in Nat
      BY <1>6
    <2> QED
      BY <2>1, <1>5, <1>6
  <1> QED
    BY <1>7 DEF Newest

LEMMA SummaryOfReadings ==
  ASSUME NEW o, NEW q, NEW S \in SUBSET Source, NEW T \in SUBSET Source, NEW ty,
         NEW since \in Int, NEW lag \in Nat,
         \A k \in DOMAIN o : k[3] \in Nat,
         LET keys == Readings(o, S, ty, since, MaxTime + Ahead)
         IN  /\ keys = Readings(q, T, ty, since, MaxTime + Ahead)
             /\ \A k \in keys : o[k] = q[k]
  PROVE  /\ Summary(o, S, ty, since, lag) = Summary(q, T, ty, since, lag)
         /\ TimedRow(Summary(o, S, ty, since, lag))
         /\ Summary(o, S, ty, since, lag).source \in S \cup {NoSource}
  <1> DEFINE u == MaxTime + Ahead
             keys == Readings(o, S, ty, since, u)
             top == Newest(keys)
             older == Readings(o, S, ty, since, top[3] - lag)
             olderQ == Readings(q, T, ty, since, top[3] - lag)
  <1>0. u \in Nat
    BY StoreAssumption
  <1>1. keys = Readings(q, T, ty, since, u) /\ \A k \in keys : o[k] = q[k]
    OBVIOUS
  <1>2. Stamped(keys) /\ \A k \in keys : k[3] <= u /\ k[1] \in S
    BY <1>0 DEF Readings, Stamped
  <1>3. CASE keys = {}
    <2> HIDE DEF keys
    <2>1. Summary(o, S, ty, since, lag) = NoRow /\ Summary(q, T, ty, since, lag) = NoRow
      BY <1>1, <1>3 DEF Summary, keys, u
    <2> QED
      BY <2>1 DEF TimedRow, NoRow
  <1>4. CASE keys # {}
    <2> HIDE DEF keys
    <2>1. top \in keys
      BY <1>0, <1>2, <1>4, NewestIsOne
    <2>2. top[3] \in Nat /\ top[3] <= u /\ top[1] \in S
      BY <2>1, <1>2 DEF Stamped
    <2>3. /\ older = {k \in keys : k[3] <= top[3] - lag}
          /\ olderQ = {k \in keys : k[3] <= top[3] - lag}
      <3>1. \A x : x \in since..(top[3] - lag) <=> x \in since..u /\ x <= top[3] - lag
        BY <1>0, <2>2
      <3>2. older = {k \in keys : k[3] <= top[3] - lag}
        BY <3>1 DEF Readings, keys
      <3>3. keys = Readings(q, T, ty, since, u)
        BY <1>1
      <3> HIDE DEF keys
      <3>4. olderQ = {k \in Readings(q, T, ty, since, u) : k[3] <= top[3] - lag}
        BY <3>1 DEF Readings
      <3> QED
        BY <3>2, <3>3, <3>4
    <2> HIDE DEF top, older, olderQ
    <2>4. older = olderQ
      BY <2>3
    <2>5. older # {} => Newest(older) \in older
      <3>1. Stamped(older) /\ \A k \in older : k[3] <= u
        BY <2>3, <1>2 DEF Stamped
      <3> QED
        BY <3>1, <1>0, NewestIsOne
    <2>6. o[top] = q[top] /\ (older # {} => o[Newest(older)] = q[Newest(older)])
      BY <1>1, <2>1, <2>3, <2>5
    <2>7. Summary(o, S, ty, since, lag) =
            [source |-> top[1], at |-> top[3], value |-> o[top],
             prevAt |-> IF older = {} THEN NoTime ELSE Newest(older)[3],
             prev   |-> IF older = {} THEN NoReading ELSE o[Newest(older)]]
      BY <1>4 DEF Summary, keys, top, older, u
    <2>8. Summary(q, T, ty, since, lag) =
            [source |-> top[1], at |-> top[3], value |-> q[top],
             prevAt |-> IF older = {} THEN NoTime ELSE Newest(older)[3],
             prev   |-> IF older = {} THEN NoReading ELSE q[Newest(older)]]
      <3>1. Summary(q, T, ty, since, lag) =
              [source |-> top[1], at |-> top[3], value |-> q[top],
               prevAt |-> IF olderQ = {} THEN NoTime ELSE Newest(olderQ)[3],
               prev   |-> IF olderQ = {} THEN NoReading ELSE q[Newest(olderQ)]]
        BY <1>1, <1>4 DEF Summary, top, olderQ, u
      <3> QED
        BY <3>1, <2>4
    <2>9. Summary(o, S, ty, since, lag) = Summary(q, T, ty, since, lag)
      BY <2>6, <2>7, <2>8
    <2> QED
      BY <2>2, <2>7, <2>9 DEF TimedRow
  <1> QED
    BY <1>3, <1>4

\* Two stores with the same readings of S (and T) give the same row.
LEMMA RowKept ==
  ASSUME NEW o, NEW q, NEW S \in SUBSET Source, NEW T \in SUBSET Source, NEW ty,
         NEW since \in Int, NEW lag \in Nat,
         \A k \in DOMAIN o : k[3] \in Nat,
         \A k : k \in DOMAIN o /\ k[1] \in S /\ k[2] = ty
                  <=> k \in DOMAIN q /\ k[1] \in T /\ k[2] = ty,
         \A k \in DOMAIN o : k[1] \in S /\ k[2] = ty => o[k] = q[k]
  PROVE  Summary(o, S, ty, since, lag) = Summary(q, T, ty, since, lag)
  <1> DEFINE keys == Readings(o, S, ty, since, MaxTime + Ahead)
  <1>1. keys = Readings(q, T, ty, since, MaxTime + Ahead)
    BY DEF Readings
  <1>2. \A k \in keys : o[k] = q[k]
    BY DEF Readings
  <1> QED
    BY <1>1, <1>2, SummaryOfReadings

\* It is empty or has a time and one of the sources.
LEMMA RowOfOne ==
  ASSUME NEW o, NEW S \in SUBSET Source, NEW ty, NEW since \in Int, NEW lag \in Nat,
         \A k \in DOMAIN o : k[3] \in Nat
  PROVE  /\ TimedRow(Summary(o, S, ty, since, lag))
         /\ Summary(o, S, ty, since, lag).source \in S \cup {NoSource}
  BY SummaryOfReadings

LEMMA Numbers ==
  /\ Lookback \in Nat /\ Lookback + 1 \in Nat /\ Window \in Nat /\ Ahead \in Nat /\ MaxTime \in Nat
  /\ Source \subseteq Nat /\ NoSource \notin Source
  /\ HourTicks \in Nat \ {0} /\ LongTicks \in Nat \ {0} /\ LongTicks % HourTicks = 0
  /\ linkOf \in [Source -> Gauge]
  <1>1. {Lookback, Window, RecentAge, ArchiveAge, Ahead, FirstTime, MaxTime} \subseteq Nat
    BY StoreAssumption
  <1>2. Source \subseteq Nat \ {NoSource} /\ linkOf \in [Source -> Gauge]
    BY StoreAssumption
  <1>3. {HourTicks, LongTicks} \subseteq Nat \ {0} /\ LongTicks % HourTicks = 0
    BY StoreAssumption
  <1>4. Lookback \in Nat /\ Lookback + 1 \in Nat /\ Window \in Nat /\ Ahead \in Nat /\ MaxTime \in Nat
    BY <1>1
  <1>5. Source \subseteq Nat /\ NoSource \notin Source
    BY <1>2
  <1>6. HourTicks \in Nat \ {0} /\ LongTicks \in Nat \ {0}
    BY <1>3
  <1> QED
    BY <1>2, <1>3, <1>4, <1>5, <1>6

\* The row of a pair, after a change that left its readings alone.
LEMMA SourceRowKept ==
  ASSUME NEW o, NEW q, NEW p \in Pair,
         \A k \in DOMAIN o : k[3] \in Nat,
         \A k : k[1] = p[1] /\ k[2] = p[2] => (k \in DOMAIN o <=> k \in DOMAIN q),
         \A k \in DOMAIN o : k[1] = p[1] /\ k[2] = p[2] => o[k] = q[k]
  PROVE  UpdateLatest(o, p) = UpdateLatest(q, p)
  <1>1. {p[1]} \in SUBSET Source
    BY DEF Pair
  <1> DEFINE S == {p[1]}
  <1>2. Summary(o, S, p[2], 0, Lookback) = Summary(q, S, p[2], 0, Lookback)
    <2>1. \A k : k[1] \in S <=> k[1] = p[1]
      OBVIOUS
    <2>2. S \in SUBSET Source
      BY <1>1
    <2> HIDE DEF S
    <2>3. \A k : k \in DOMAIN o /\ k[1] \in S /\ k[2] = p[2]
                   <=> k \in DOMAIN q /\ k[1] \in S /\ k[2] = p[2]
      BY <2>1
    <2>4. \A k \in DOMAIN o : k[1] \in S /\ k[2] = p[2] => o[k] = q[k]
      BY <2>1
    <2> QED
      BY <2>2, <2>3, <2>4, Numbers, RowKept
  <1> QED
    BY <1>2 DEF UpdateLatest

LEMMA GaugeRowKept ==
  ASSUME NEW o, NEW q, NEW S \in SUBSET Source, NEW T \in SUBSET Source, NEW p \in GaugePair,
         now \in Nat,
         \A k \in DOMAIN o : k[1] \in S /\ k[3] \in Nat,
         \A k \in DOMAIN q : k[1] \in T,
         \A k : k[1] \in Source /\ linkOf[k[1]] = p[1] /\ k[2] = p[2]
                  => (k \in DOMAIN o <=> k \in DOMAIN q),
         \A k \in DOMAIN o : linkOf[k[1]] = p[1] /\ k[2] = p[2] => o[k] = q[k]
  PROVE  /\ UpdateLatestGauge(o, S, p) = UpdateLatestGauge(q, T, p)
         /\ BulkRow(o, S, p) = BulkRow(q, T, p)
  <1> DEFINE A == SourcesOf(p[1], S)  B == SourcesOf(p[1], T)
  <1>1. A \in SUBSET Source /\ B \in SUBSET Source
    BY DEF SourcesOf
  <1>2. now - Window \in Int
    BY Numbers
  <1>3. \A k : k \in DOMAIN o /\ k[1] \in A /\ k[2] = p[2]
                 <=> k \in DOMAIN q /\ k[1] \in B /\ k[2] = p[2]
    BY DEF SourcesOf
  <1>4. \A k \in DOMAIN o : k[1] \in A /\ k[2] = p[2] => o[k] = q[k]
    BY DEF SourcesOf
  <1> HIDE DEF A, B
  <1>5. \A lag \in Nat : Summary(o, A, p[2], now - Window, lag) = Summary(q, B, p[2], now - Window, lag)
    BY <1>1, <1>2, <1>3, <1>4, RowKept
  <1> QED
    BY <1>5, Numbers DEF UpdateLatestGauge, BulkRow, A, B

\* A gauge row names one of the gauge's sources.
LEMMA GaugeRowNames ==
  ASSUME TablesOK, NEW p \in GaugePair
  PROVE  /\ TimedRow(UpdateLatestGauge(obs, sources, p)) /\ TimedRow(BulkRow(obs, sources, p))
         /\ \A row \in {UpdateLatestGauge(obs, sources, p), BulkRow(obs, sources, p)} :
              row.source # NoSource => row.source \in sources /\ linkOf[row.source] = p[1]
  <1> DEFINE A == SourcesOf(p[1], sources)
  <1>1. A \in SUBSET Source /\ \A x \in A : x \in sources /\ linkOf[x] = p[1]
    BY DEF SourcesOf, TablesOK
  <1>2. now - Window \in Int /\ \A k \in DOMAIN obs : k[3] \in Nat
    BY Numbers DEF TablesOK, StoredOK
  <1> HIDE DEF A
  <1>3. \A lag \in Nat : LET row == Summary(obs, A, p[2], now - Window, lag)
                         IN  TimedRow(row) /\ row.source \in A \cup {NoSource}
    BY <1>1, <1>2, RowOfOne
  <1>4. /\ UpdateLatestGauge(obs, sources, p) = Summary(obs, A, p[2], now - Window, Lookback)
        /\ BulkRow(obs, sources, p) = Summary(obs, A, p[2], now - Window, Lookback + 1)
    BY DEF UpdateLatestGauge, BulkRow, A
  <1> QED
    BY <1>1, <1>3, <1>4, Numbers

-----------------------------------------------------------------------------
(* One lemma per transaction                                               *)

LEMMA SameTables ==
  ASSUME TablesOK, UNCHANGED <<now, tables, covered, stale>>
  PROVE  TablesOK'
  BY DEF TablesOK, tables, StoredOK, SourceCacheExact, GaugeCacheExact, HistoryCovered,
         UpdateLatestGauge, BulkRow

\* Upsert and refresh.
LEMMA StoreKeeps ==
  ASSUME TablesOK, NEW rows, NEW pairs,
         \A k \in Accepted(rows) : k[3] \in Nat /\ <<k[1], k[2]>> \in pairs,
         ForeignKeysHold(rows), Store(rows, pairs), now' = now
  PROVE  TablesOK'
  <1> DEFINE o == Upserted(obs, rows)
  <1>1. /\ obs' = o /\ sources' = sources /\ now' = now
        /\ latest' = [p \in Pair |-> IF p \in pairs THEN UpdateLatest(o, p) ELSE latest[p]]
        /\ glatest' = GaugeRows(o, pairs)
        /\ stale' = stale \ GaugesOf(pairs)
        /\ covered' = covered \cup {Period(k) : k \in Accepted(rows)}
    BY DEF Store
  <1>2. /\ DOMAIN o = DOMAIN obs \cup Accepted(rows)
        /\ \A k \in DOMAIN obs \ Accepted(rows) : o[k] = obs[k]
        /\ o = [k \in DOMAIN o |-> o[k]]
    BY DEF Upserted
  <1> HIDE DEF o
  <1>3. \A k \in DOMAIN o : k[1] \in sources /\ k[3] \in Nat
    BY <1>2 DEF TablesOK, StoredOK, ForeignKeysHold
  <1>4. StoredOK(obs)'
    BY <1>1, <1>2, <1>3 DEF StoredOK
  <1>5. SourceCacheExact'
    <2> SUFFICES ASSUME NEW p \in Pair
                 PROVE  latest'[p] = IF p[1] \in sources THEN UpdateLatest(o, p) ELSE NoRow
      BY <1>1 DEF SourceCacheExact
    <2>1. CASE p \notin pairs
      <3>1. \A k \in Accepted(rows) : ~(k[1] = p[1] /\ k[2] = p[2])
        BY <2>1 DEF Pair
      <3>2. UpdateLatest(obs, p) = UpdateLatest(o, p)
        BY <1>2, <3>1, SourceRowKept DEF TablesOK, StoredOK
      <3> QED
        BY <1>1, <2>1, <3>2 DEF TablesOK, SourceCacheExact
    <2>2. CASE p \in pairs /\ p[1] \notin sources
      <3>1. Readings(o, {p[1]}, p[2], 0, MaxTime + Ahead) = {}
        BY <1>3, <2>2 DEF Readings
      <3> QED
        BY <1>1, <2>2, <3>1 DEF UpdateLatest, Summary
    <2>3. CASE p \in pairs /\ p[1] \in sources
      BY <1>1, <2>3
    <2> QED
      BY <2>1, <2>2, <2>3
  <1>6. \A p \in GaugePair : TimedRow(UpdateLatestGauge(o, sources, p))
    <2> TAKE p \in GaugePair
    <2>1. SourcesOf(p[1], sources) \in SUBSET Source /\ now - Window \in Int /\ Lookback \in Nat
      BY Numbers DEF SourcesOf, TablesOK
    <2> QED
      BY <1>3, <2>1, RowOfOne DEF UpdateLatestGauge
  <1>7. \A p \in GaugePair : glatest'[p] = IF p \in GaugesOf(pairs)
                                THEN UpdateLatestGauge(o, sources, p) ELSE glatest[p]
    BY <1>1 DEF GaugeRows
  <1>8. \A p \in GaugePair : TimedRow(glatest'[p])
    BY <1>6, <1>7 DEF TablesOK
  <1>9. GaugeCacheExact'
    <2> SUFFICES ASSUME NEW p \in GaugePair, p \notin stale'
                 PROVE  glatest'[p] \in {UpdateLatestGauge(o, sources, p), BulkRow(o, sources, p)}
      BY <1>1 DEF GaugeCacheExact, UpdateLatestGauge, BulkRow
    <2>1. CASE p \in GaugesOf(pairs)
      BY <1>7, <2>1
    <2>2. CASE p \notin GaugesOf(pairs)
      <3>1. \A k \in Accepted(rows) : ~(linkOf[k[1]] = p[1] /\ k[2] = p[2])
        <4> SUFFICES ASSUME NEW k \in Accepted(rows), linkOf[k[1]] = p[1], k[2] = p[2]
                     PROVE  FALSE
          OBVIOUS
        <4>1. <<k[1], k[2]>> \in {q \in pairs : q[1] \in sources}
          BY DEF ForeignKeysHold
        <4>2. <<linkOf[k[1]], k[2]>> \in GaugesOf(pairs)
          BY <4>1 DEF GaugesOf
        <4>3. <<linkOf[k[1]], k[2]>> = p
          BY DEF GaugePair
        <4> QED
          BY <2>2, <4>2, <4>3
      <3>2. sources \in SUBSET Source /\ now \in Nat /\ \A k \in DOMAIN obs : k[1] \in sources /\ k[3] \in Nat
        BY DEF TablesOK, StoredOK
      <3>3. \A k : k[1] \in Source /\ linkOf[k[1]] = p[1] /\ k[2] = p[2]
                     => (k \in DOMAIN obs <=> k \in DOMAIN o)
        BY <1>2, <3>1
      <3>4. \A k \in DOMAIN obs : linkOf[k[1]] = p[1] /\ k[2] = p[2] => obs[k] = o[k]
        BY <1>2, <3>1
      <3>5. /\ UpdateLatestGauge(obs, sources, p) = UpdateLatestGauge(o, sources, p)
            /\ BulkRow(obs, sources, p) = BulkRow(o, sources, p)
        BY <1>3, <3>2, <3>3, <3>4, GaugeRowKept
      <3>6. p \notin stale
        BY <1>1, <2>2
      <3> QED
        BY <1>7, <2>2, <3>5, <3>6 DEF TablesOK, GaugeCacheExact
    <2> QED
      BY <2>1, <2>2
  <1>10. HistoryCovered'
    BY <1>1, <1>2 DEF TablesOK, HistoryCovered
  <1> QED
    BY <1>1, <1>4, <1>5, <1>8, <1>9, <1>10 DEF TablesOK

\* update-gauge-cache and the end of decimate.
LEMMA RebuildKeeps ==
  ASSUME TablesOK, glatest' = UpdateAllLatestGauges(obs, sources), stale' = {},
         UNCHANGED <<now, sources, obs, latest, covered>>
  PROVE  TablesOK'
  <1>1. \A p \in GaugePair : glatest'[p] = BulkRow(obs, sources, p) /\ TimedRow(glatest'[p])
    BY GaugeRowNames DEF UpdateAllLatestGauges
  <1>2. GaugeCacheExact'
    BY <1>1 DEF GaugeCacheExact, BulkRow
  <1> QED
    BY <1>1, <1>2 DEF TablesOK, StoredOK, SourceCacheExact, HistoryCovered

\* What the thinning of a class leaves covers what was there.
LEMMA SurvivorsCover ==
  ASSUME NEW keys, \A k \in keys : k[3] \in Nat,
         NEW w \in {HourTicks, LongTicks}, NEW K \in Survivors(keys, w), NEW k \in keys
  PROVE  \E j \in K : Period(j) = Period(k)
  <1>1. K \subseteq keys /\ Cardinality({j \in K : SameSlot(k, j, w)}) = 1
    BY DEF Survivors
  <1>2. PICK j \in K : SameSlot(k, j, w)
    BY <1>1, FS_EmptySet
  <1>3. j[3] \in Nat /\ k[3] \in Nat /\ k[1] = j[1] /\ k[2] = j[2] /\ k[3] \div w = j[3] \div w
    BY <1>1, <1>2 DEF SameSlot
  <1>4. k[3] \div LongTicks = j[3] \div LongTicks
    BY <1>3, Numbers, SameLongSlot
  <1> QED
    BY <1>3, <1>4 DEF Period

\* One source loses readings, and its rows are refreshed.
LEMMA ThinningKeeps ==
  ASSUME TablesOK, NEW s \in Source, NEW kept \in SUBSET DOMAIN obs,
         \A k \in DOMAIN obs \ kept : k[1] = s,
         \A k \in DOMAIN obs : \E j \in kept : Period(j) = Period(k),
         obs' = [k \in kept |-> obs[k]],
         latest' = AfterThinning(obs', s, kept # DOMAIN obs),
         stale' = IF kept # DOMAIN obs THEN stale \cup ({linkOf[s]} \X DataType) ELSE stale,
         UNCHANGED <<now, sources, glatest, covered>>
  PROVE  TablesOK'
  <1> DEFINE o == [k \in kept |-> obs[k]]
  <1>1. StoredOK(obs)'
    BY DEF StoredOK, TablesOK
  <1>2. HistoryCovered'
    BY DEF HistoryCovered, TablesOK
  <1>3. CASE kept = DOMAIN obs
    <2>1. obs' = obs /\ stale' = stale /\ \A p \in Pair : latest'[p] = latest[p]
      BY <1>3 DEF TablesOK, StoredOK, AfterThinning
    <2> QED
      BY <1>1, <1>2, <2>1 DEF TablesOK, SourceCacheExact, GaugeCacheExact, UpdateLatestGauge, BulkRow
  <1>4. CASE kept # DOMAIN obs
    <2>1. /\ \A p \in Pair : latest'[p] = IF p[1] = s THEN UpdateLatest(o, p) ELSE latest[p]
          /\ stale' = stale \cup ({linkOf[s]} \X DataType) /\ obs' = o
      BY <1>4 DEF AfterThinning
    <2>2. DOMAIN o = kept /\ \A k \in DOMAIN o : o[k] = obs[k]
      OBVIOUS
    <2> HIDE DEF o
    <2>3. \A k \in DOMAIN obs : k[1] \in sources /\ k[3] \in Nat
      BY DEF TablesOK, StoredOK
    <2>6. \A k \in DOMAIN o : k[1] \in sources
      BY <2>2, <2>3
    <2>4. SourceCacheExact'
      <3> SUFFICES ASSUME NEW p \in Pair
                   PROVE  latest'[p] = IF p[1] \in sources THEN UpdateLatest(o, p) ELSE NoRow
        BY <2>1 DEF SourceCacheExact
      <3>1. CASE p[1] # s
        <4>1. UpdateLatest(obs, p) = UpdateLatest(o, p)
          <5>1. \A k : k[1] = p[1] /\ k[2] = p[2] => (k \in DOMAIN obs <=> k \in DOMAIN o)
            BY <2>2, <3>1
          <5>2. \A k \in DOMAIN obs : k[1] = p[1] /\ k[2] = p[2] => obs[k] = o[k]
            BY <2>2, <3>1
          <5> QED
            BY <2>3, <5>1, <5>2, SourceRowKept
        <4> QED
          BY <2>1, <3>1, <4>1 DEF TablesOK, SourceCacheExact
      <3>2. CASE p[1] = s /\ p[1] \notin sources
        <4>1. Readings(o, {p[1]}, p[2], 0, MaxTime + Ahead) = {}
          BY <2>2, <2>3, <3>2 DEF Readings
        <4> QED
          BY <2>1, <3>2, <4>1 DEF UpdateLatest, Summary
      <3> QED
        BY <2>1, <3>1, <3>2
    <2>5. GaugeCacheExact'
      <3> SUFFICES ASSUME NEW p \in GaugePair, p \notin stale'
                   PROVE  glatest[p] \in {UpdateLatestGauge(o, sources, p), BulkRow(o, sources, p)}
        BY <2>1 DEF GaugeCacheExact, UpdateLatestGauge, BulkRow
      <3>1. p \notin stale /\ p[1] # linkOf[s]
        BY <2>1 DEF GaugePair
      <3>2. sources \in SUBSET Source /\ now \in Nat
        BY DEF TablesOK
      <3>3. \A k : k[1] \in Source /\ linkOf[k[1]] = p[1] /\ k[2] = p[2]
                     => (k \in DOMAIN obs <=> k \in DOMAIN o)
        BY <2>2, <3>1
      <3>4. \A k \in DOMAIN obs : linkOf[k[1]] = p[1] /\ k[2] = p[2] => obs[k] = o[k]
        BY <2>2, <3>1
      <3>5. /\ UpdateLatestGauge(obs, sources, p) = UpdateLatestGauge(o, sources, p)
            /\ BulkRow(obs, sources, p) = BulkRow(o, sources, p)
        BY <2>3, <2>6, <3>2, <3>3, <3>4, GaugeRowKept, SMTT(60)
      <3> QED
        BY <3>1, <3>5 DEF TablesOK, GaugeCacheExact
    <2> QED
      BY <1>1, <1>2, <2>1, <2>4, <2>5 DEF TablesOK
  <1> QED
    BY <1>3, <1>4

LEMMA DecimateKeeps ==
  ASSUME TablesOK, DecimateSource
  PROVE  TablesOK'
  <1>1. PICK s \in thin.todo :
          LET mine == {k \in DOMAIN obs : k[1] = s}
              medium == {k \in mine : k[3] \in thin.archive..(thin.medium - 1)}
              archive == {k \in mine : k[3] < thin.archive}
          IN  \E M \in Survivors(medium, HourTicks), A \in Survivors(archive, LongTicks) :
                LET kept == (DOMAIN obs \ (medium \cup archive)) \cup M \cup A
                    o == [k \in kept |-> obs[k]]
                    gone == kept # DOMAIN obs
                IN  /\ obs' = o
                    /\ latest' = AfterThinning(o, s, gone)
                    /\ stale' = IF gone THEN stale \cup ({linkOf[s]} \X DataType) ELSE stale
    BY DEF DecimateSource
  <1> DEFINE mine == {k \in DOMAIN obs : k[1] = s}
             medium == {k \in mine : k[3] \in thin.archive..(thin.medium - 1)}
             archive == {k \in mine : k[3] < thin.archive}
  <1>2. PICK M \in Survivors(medium, HourTicks), A \in Survivors(archive, LongTicks) :
                LET kept == (DOMAIN obs \ (medium \cup archive)) \cup M \cup A
                    o == [k \in kept |-> obs[k]]
                    gone == kept # DOMAIN obs
                IN  /\ obs' = o
                    /\ latest' = AfterThinning(o, s, gone)
                    /\ stale' = IF gone THEN stale \cup ({linkOf[s]} \X DataType) ELSE stale
    BY <1>1
  <1> DEFINE kept == (DOMAIN obs \ (medium \cup archive)) \cup M \cup A
  <1>3. \A k \in DOMAIN obs : k[1] \in sources /\ k[3] \in Nat
    BY DEF TablesOK, StoredOK
  <1>4. medium \subseteq mine /\ archive \subseteq mine /\ mine \subseteq DOMAIN obs
    OBVIOUS
  <1>5. \A k \in mine : k[1] = s
    OBVIOUS
  <1> HIDE DEF mine, medium, archive
  <1>6. M \subseteq medium /\ A \subseteq archive
    BY DEF Survivors
  <1>7. \A k \in medium : \E j \in M : Period(j) = Period(k)
    BY <1>3, <1>4, SurvivorsCover
  <1>8. \A k \in archive : \E j \in A : Period(j) = Period(k)
    BY <1>3, <1>4, SurvivorsCover
  <1>9. kept \in SUBSET DOMAIN obs /\ \A k \in DOMAIN obs \ kept : k[1] = s
    BY <1>4, <1>5, <1>6
  <1>10. \A k \in DOMAIN obs : \E j \in kept : Period(j) = Period(k)
    BY <1>7, <1>8
  <1>11. /\ obs' = [k \in kept |-> obs[k]]
         /\ latest' = AfterThinning(obs', s, kept # DOMAIN obs)
         /\ stale' = IF kept # DOMAIN obs THEN stale \cup ({linkOf[s]} \X DataType) ELSE stale
    BY <1>2
  <1>12. UNCHANGED <<now, sources, glatest, covered>>
    BY DEF DecimateSource
  <1> HIDE DEF kept
  <1>13. CASE s \in Source
    BY <1>9, <1>10, <1>11, <1>12, <1>13, ThinningKeeps
  <1>14. CASE s \notin Source
    <2>1. mine = {}
      BY <1>3, <1>14 DEF mine, TablesOK
    <2>2. kept = DOMAIN obs
      BY <2>1, <1>4, <1>6 DEF kept
    <2>3. obs' = obs /\ stale' = stale /\ \A p \in Pair : latest'[p] = latest[p]
      BY <1>11, <2>2 DEF TablesOK, StoredOK, AfterThinning
    <2> QED
      BY <1>12, <2>3 DEF TablesOK, StoredOK, HistoryCovered, SourceCacheExact, GaugeCacheExact,
                         UpdateLatestGauge, BulkRow
  <1> QED
    BY <1>13, <1>14

LEMMA RemoveKeeps ==
  ASSUME TablesOK, RemoveSource
  PROVE  TablesOK'
  <1>1. PICK s \in sources :
          /\ sources' = sources \ {s}
          /\ obs' = [k \in {j \in DOMAIN obs : j[1] # s} |-> obs[k]]
          /\ latest' = [p \in Pair |-> IF p[1] = s THEN NoRow ELSE latest[p]]
          /\ glatest' = [p \in GaugePair |->
               IF glatest[p].source = s THEN [glatest[p] EXCEPT !.source = NoSource] ELSE glatest[p]]
          /\ stale' = stale \cup ({linkOf[s]} \X DataType)
          /\ covered' = {c \in covered : c[1] # s}
    BY DEF RemoveSource
  <1>2. now' = now
    BY DEF RemoveSource
  <1>3. s \in Source /\ s # NoSource /\ sources \in SUBSET Source /\ sources' \in SUBSET Source
    BY <1>1, Numbers DEF TablesOK
  <1>4. /\ \A k \in DOMAIN obs : k[1] \in sources /\ k[3] \in Nat
        /\ \A k : k \in DOMAIN obs' <=> k \in DOMAIN obs /\ k[1] # s
        /\ \A k \in DOMAIN obs' : obs'[k] = obs[k] /\ k[1] \in sources'
    BY <1>1 DEF TablesOK, StoredOK
  <1>5. StoredOK(obs)'
    BY <1>1, <1>4 DEF StoredOK
  <1>6. HistoryCovered'
    BY <1>1, <1>4 DEF TablesOK, HistoryCovered, Period
  <1>7. SourceCacheExact'
    <2> SUFFICES ASSUME NEW p \in Pair
                 PROVE  latest'[p] = IF p[1] \in sources' THEN UpdateLatest(obs', p) ELSE NoRow
      BY DEF SourceCacheExact
    <2>1. CASE p[1] = s
      BY <1>1, <2>1
    <2>2. CASE p[1] # s
      <3>1. \A k : k[1] = p[1] /\ k[2] = p[2] => (k \in DOMAIN obs <=> k \in DOMAIN obs')
        BY <1>4, <2>2
      <3>2. \A k \in DOMAIN obs : k[1] = p[1] /\ k[2] = p[2] => obs[k] = obs'[k]
        BY <1>4, <2>2
      <3>3. UpdateLatest(obs, p) = UpdateLatest(obs', p)
        BY <1>4, <3>1, <3>2, SourceRowKept
      <3> QED
        BY <1>1, <2>2, <3>3 DEF TablesOK, SourceCacheExact
    <2> QED
      BY <2>1, <2>2
  <1>8. \A p \in GaugePair : TimedRow(glatest'[p])
    <2> TAKE p \in GaugePair
    <2>1. glatest'[p] = IF glatest[p].source = s THEN [glatest[p] EXCEPT !.source = NoSource] ELSE glatest[p]
      BY <1>1
    <2>2. CASE glatest[p] = NoRow
      <3>1. glatest[p].source # s
        BY <1>3, <2>2 DEF NoRow
      <3> QED
        BY <2>1, <2>2, <3>1 DEF TimedRow
    <2>3. CASE "at" \in DOMAIN glatest[p] /\ glatest[p].at \in Nat
      BY <2>1, <2>3 DEF TimedRow
    <2> QED
      BY <2>2, <2>3 DEF TablesOK, TimedRow
  <1>9. GaugeCacheExact'
    <2> SUFFICES ASSUME NEW p \in GaugePair, p \notin stale'
                 PROVE  glatest'[p] \in {UpdateLatestGauge(obs', sources', p), BulkRow(obs', sources', p)}
      BY <1>2 DEF GaugeCacheExact, UpdateLatestGauge, BulkRow
    <2>1. p \notin stale /\ p[1] # linkOf[s]
      BY <1>1 DEF GaugePair
    <2>2. glatest[p] \in {UpdateLatestGauge(obs, sources, p), BulkRow(obs, sources, p)}
      BY <2>1 DEF TablesOK, GaugeCacheExact
    <2>3. glatest[p].source # s
      BY <1>3, <2>1, <2>2, GaugeRowNames
    <2>4. glatest'[p] = glatest[p]
      BY <1>1, <2>3
    <2>5. \A k : k[1] \in Source /\ linkOf[k[1]] = p[1] /\ k[2] = p[2]
                   => (k \in DOMAIN obs <=> k \in DOMAIN obs')
      BY <1>4, <2>1
    <2>6. \A k \in DOMAIN obs : linkOf[k[1]] = p[1] /\ k[2] = p[2] => obs[k] = obs'[k]
      BY <1>4, <2>1
    <2>7. now \in Nat
      BY DEF TablesOK
    <2>8. /\ UpdateLatestGauge(obs, sources, p) = UpdateLatestGauge(obs', sources', p)
          /\ BulkRow(obs, sources, p) = BulkRow(obs', sources', p)
      BY <1>3, <1>4, <2>5, <2>6, <2>7, GaugeRowKept
    <2> QED
      BY <2>2, <2>4, <2>8
  <1> QED
    BY <1>2, <1>3, <1>5, <1>6, <1>7, <1>8, <1>9 DEF TablesOK

LEMMA AdvanceKeeps ==
  ASSUME TablesOK, Advance
  PROVE  TablesOK'
  <1>1. now' \in Nat
    BY StoreAssumption DEF Advance, TablesOK
  <1>2. GaugeCacheExact'
    BY DEF Advance, GaugeCacheExact
  <1> QED
    BY <1>1, <1>2 DEF Advance, TablesOK, tables, StoredOK, SourceCacheExact, HistoryCovered

-----------------------------------------------------------------------------
(* The pipeline                                                            *)

LEMMA Fetched ==
  ASSUME NEW S, NEW rows \in Payload(S)
  PROVE  \A k \in Accepted(rows) : k[3] \in Nat /\ <<k[1], k[2]>> \in PairsOf(rows)
  <1> DEFINE keys == {k \in Key : k[1] \in S /\ k[3] \in (now - 1)..(now + Ahead + 1)}
             chosen == UNION {kSubset(i, keys) : i \in 0..MaxBatch}
  <1>1. PICK K \in chosen : rows \in [K -> Value]
    <2>1. rows \in UNION {[K -> Value] : K \in chosen}
      BY DEF Payload
    <2> HIDE DEF chosen
    <2> QED
      BY <2>1
  <1>2. K \subseteq Key
    BY <1>1 DEF kSubset
  <1>3. \A k \in Key : k[3] \in Nat
    BY Numbers DEF Key, Time
  <1> QED
    BY <1>1, <1>2, <1>3 DEF Accepted, PairsOf

\* A rated reading has the time of the one it came from, a calculated one the
\* oldest of the times it was made of.
LEMMA Derived ==
  ASSUME TablesOK, RunOK, CalculatorReads \/ RatingReads
  PROVE  \A k \in DOMAIN run'.rows : k[3] \in Nat
  <1>1. CASE RatingReads
    <2>1. PICK g \in run.todo : run' = [run EXCEPT !.todo = @ \ {g}, !.rows = Fill(g)]
      BY <1>1 DEF RatingReads
    <2>2. run'.rows = Fill(g)
      BY <2>1 DEF RunOK, RunFields
    <2>3. \A k \in DOMAIN Fill(g) : k[3] \in Nat
      <3>1. \A k \in DOMAIN obs : k[3] \in Nat
        BY DEF TablesOK, StoredOK
      <3>2. \A j \in DOMAIN Fill(g) : \E k \in DOMAIN obs : \E ty : j = <<k[1], ty, k[3]>>
        BY DEF Fill
      <3> QED
        BY <3>1, <3>2
    <2> QED
      BY <2>2, <2>3
  <1>2. CASE CalculatorReads
    <2>1. PICK s \in run.todo :
            IF refs[s] # {} /\ \A r \in refs[s] : glatest[r] # NoRow
            THEN \E v \in Value :
                   LET at == Min({glatest[r].at : r \in refs[s]})
                       clipped == IF s \in NegativeOk \/ v > 0 THEN v ELSE 0
                   IN  run' = [run EXCEPT !.todo = @ \ {s},
                                  !.rows = [k \in {<<s, calcType[s], at>>} |-> clipped]]
            ELSE run' = [run EXCEPT !.todo = @ \ {s}]
      BY <1>2 DEF CalculatorReads
    <2>2. s \in CalcSource
      BY <1>2, <2>1 DEF CalculatorReads, RunOK
    <2>3. CASE refs[s] # {} /\ \A r \in refs[s] : glatest[r] # NoRow
      <3> DEFINE times == {glatest[r].at : r \in refs[s]}
      <3>1. times \in SUBSET Nat /\ times # {}
        <4>1. refs[s] \subseteq GaugePair
          BY <2>2, StoreAssumption
        <4> QED
          BY <4>1, <2>3 DEF TablesOK, TimedRow
      <3> HIDE DEF times
      <3>2. Min(times) \in Nat
        BY <3>1, OldestIsOne
      <3>3. PICK c : run' = [run EXCEPT !.todo = @ \ {s},
                               !.rows = [k \in {<<s, calcType[s], Min(times)>>} |-> c]]
        <4>1. \E v \in Value :
                LET clipped == IF s \in NegativeOk \/ v > 0 THEN v ELSE 0
                IN  run' = [run EXCEPT !.todo = @ \ {s},
                               !.rows = [k \in {<<s, calcType[s], Min(times)>>} |-> clipped]]
          BY <2>1, <2>3 DEF times
        <4> QED
          BY <4>1
      <3>4. run'.rows = [k \in {<<s, calcType[s], Min(times)>>} |-> c]
        BY <3>3 DEF RunOK, RunFields
      <3> QED
        BY <3>2, <3>4
    <2>4. CASE ~ (refs[s] # {} /\ \A r \in refs[s] : glatest[r] # NoRow)
      <3>1. run'.rows = run.rows
        BY <2>1, <2>4 DEF RunOK, RunFields
      <3> QED
        BY <3>1 DEF RunOK
    <2> QED
      BY <2>3, <2>4
  <1> QED
    BY <1>1, <1>2

\* What an action does to the pipeline.
LEMMA RunKeeps ==
  ASSUME TablesOK, RunOK, [Next]_vars
  PROVE  RunOK'
  <1>1. ASSUME UNCHANGED run PROVE RunOK'
    BY <1>1 DEF RunOK, In, Current
  <1>2. \A k \in DOMAIN NoRows : k[3] \in Nat
    BY DEF NoRows
  <1>3. ASSUME DOMAIN run' = RunFields /\ ~run'.busy /\ run'.rows = NoRows
        PROVE  RunOK'
    BY <1>2, <1>3 DEF RunOK, In
  <1>4. ASSUME NEW outcome, Finish(outcome) PROVE RunOK'
    <2>1. DOMAIN run' = RunFields /\ ~run'.busy /\ run'.rows = NoRows
      BY <1>4 DEF Finish, RunOK, RunFields
    <2> QED
      BY <2>1, <1>3
  <1>5. CASE StartPipeline
    <2>1. DOMAIN run' = RunFields /\ ~run'.busy /\ run'.rows = NoRows
      BY <1>5 DEF StartPipeline, AtRest, RunFields
    <2> QED
      BY <2>1, <1>3
  <1>6. CASE BeginStep
    <2>1. CASE ShouldSkip(Current, run.results, run.keep)
      <3>1. run' = [run EXCEPT !.results[Current.name] = "skipped", !.step = @ + 1]
        BY <1>6, <2>1 DEF BeginStep
      <3>2. DOMAIN run' = RunFields /\ ~run'.busy /\ run'.rows = run.rows
        BY <1>6, <3>1 DEF BeginStep, RunOK, RunFields
      <3> QED
        BY <3>2 DEF RunOK, In
    <2>2. CASE ~ShouldSkip(Current, run.results, run.keep)
      <3>1. run' = [run EXCEPT !.busy = TRUE, !.rejected = FALSE, !.rows = NoRows,
                               !.known = KnownSources, !.todo = WorkItems(Current.name)]
        BY <1>6, <2>2 DEF BeginStep
      <3>2. /\ DOMAIN run' = RunFields /\ run'.rows = NoRows /\ run'.step = run.step
            /\ run'.todo = WorkItems(Current.name)
        BY <3>1 DEF RunOK, RunFields
      <3>3. Current' = Current
        BY <3>2 DEF Current
      <3>4. WorkItems("calculator") \subseteq CalcSource
        BY DEF WorkItems
      <3>5. In("calculator")' => run'.todo \subseteq CalcSource
        BY <3>2, <3>3, <3>4 DEF In
      <3> QED
        BY <1>2, <3>2, <3>5 DEF RunOK
    <2> QED
      BY <2>1, <2>2
  <1>7. ASSUME NEW u, run' = [run EXCEPT !.todo = u], u \subseteq run.todo PROVE RunOK'
    <2>1. /\ DOMAIN run' = RunFields /\ run'.rows = run.rows /\ run'.step = run.step
          /\ run'.busy = run.busy /\ run'.todo = u
      BY <1>7 DEF RunOK, RunFields
    <2> QED
      BY <1>7, <2>1 DEF RunOK, In, Current
  <1>8. CASE FetchUrl
    <2>1. PICK u \in run.todo, unknown \in BOOLEAN :
            run' = [run EXCEPT !.todo = @ \ {u},
                               !.rejected = @ \/ (unknown /\ Cardinality(run.known[u]) # 1)]
      BY <1>8 DEF FetchUrl
    <2>2. /\ DOMAIN run' = RunFields /\ run'.rows = run.rows /\ run'.step = run.step
          /\ run'.busy = run.busy /\ run'.todo = run.todo \ {u}
      BY <2>1 DEF RunOK, RunFields
    <2> QED
      BY <2>2 DEF RunOK, In, Current
  <1>9. CASE FetchLicorUrl
    <2>1. PICK u \in run.todo : run' = [run EXCEPT !.todo = @ \ {u}]
      BY <1>9 DEF FetchLicorUrl
    <2> QED
      BY <2>1, <1>7
  <1>10. CASE FetchNothing
    BY <1>10, <1>7 DEF FetchNothing
  <1>11. CASE RatingReads \/ CalculatorReads
    <2>1. \A k \in DOMAIN run'.rows : k[3] \in Nat
      BY <1>11, Derived
    <2>2. DOMAIN run' = RunFields /\ run'.step = run.step /\ run'.busy = run.busy
          /\ run'.todo \subseteq run.todo
      BY <1>11 DEF RatingReads, CalculatorReads, RunOK, RunFields
    <2> QED
      BY <2>1, <2>2 DEF RunOK, In, Current
  <1>12. CASE StoreDerived
    <2>1. run' = [run EXCEPT !.rows = NoRows]
      BY <1>12 DEF StoreDerived
    <2>2. /\ DOMAIN run' = RunFields /\ run'.rows = NoRows /\ run'.step = run.step
          /\ run'.busy = run.busy /\ run'.todo = run.todo
      BY <2>1 DEF RunOK, RunFields
    <2> QED
      BY <1>2, <2>2 DEF RunOK, In, Current
  <1>13. CASE PipelineEnds \/ PipelineDies
    <2>1. DOMAIN run' = RunFields /\ ~run'.busy /\ run'.rows = NoRows
      BY <1>13 DEF PipelineEnds, PipelineDies, AtRest, RunFields
    <2> QED
      BY <2>1, <1>3
  <1>14. CASE StepRaises
    BY <1>14, <1>4 DEF StepRaises
  <1>15. CASE FetchEnds
    BY <1>15, <1>4 DEF FetchEnds
  <1>16. CASE FetchLicorEnds
    BY <1>16, <1>4 DEF FetchLicorEnds
  <1>17. CASE FetchUsgs
    BY <1>17, <1>4 DEF FetchUsgs
  <1>18. CASE FetchUsgsNothing
    BY <1>18, <1>4 DEF FetchUsgsNothing
  <1>19. CASE DerivedEnds
    BY <1>19, <1>4 DEF DerivedEnds
  <1>20. CASE UpdateGaugeCache
    BY <1>20, <1>4 DEF UpdateGaugeCache
  <1>21. CASE ReadOnlyStep
    BY <1>21, <1>4 DEF ReadOnlyStep
  <1>22. CASE Decimate \/ RemoveSource \/ Advance
    BY <1>22, <1>1 DEF Decimate, StartDecimate, DecimateSource, DecimateEnds, DecimateDies,
                       RemoveSource, Advance
  <1>23. CASE UNCHANGED vars
    BY <1>23, <1>1 DEF vars
  <1> QED
    BY <1>5, <1>6, <1>8, <1>9, <1>10, <1>11, <1>12, <1>13, <1>14, <1>15, <1>16, <1>17, <1>18,
       <1>19, <1>20, <1>21, <1>22, <1>23 DEF Next, Pipeline

\* What an action does to the tables.
LEMMA TablesKept ==
  ASSUME TablesOK, RunOK, [Next]_vars
  PROVE  TablesOK'
  <1>1. ASSUME NEW S, NEW rows \in Payload(S), now' = now,
               IF ForeignKeysHold(rows) THEN Store(rows, PairsOf(rows)) ELSE Rollback
        PROVE  TablesOK'
    <2>1. CASE ForeignKeysHold(rows)
      BY <1>1, <2>1, Fetched, StoreKeeps
    <2>2. CASE ~ForeignKeysHold(rows)
      BY <1>1, <2>2, SameTables DEF Rollback, tables
    <2> QED
      BY <2>1, <2>2
  <1>2. CASE FetchUrl
    <2>1. PICK u \in run.todo : StoreUrl(u)
      BY <1>2 DEF FetchUrl
    <2> QED
      BY <1>1, <1>2, <2>1 DEF FetchUrl, StoreUrl
  <1>3. CASE FetchLicorUrl
    <2>1. PICK u \in run.todo : StoreUrl(u)
      BY <1>3 DEF FetchLicorUrl
    <2> QED
      BY <1>1, <1>3, <2>1 DEF FetchLicorUrl, StoreUrl
  <1>4. CASE FetchUsgs
    <2>1. PICK rows \in Payload(run.todo) :
            IF ForeignKeysHold(rows) THEN Store(rows, PairsOf(rows)) ELSE Rollback
      BY <1>4 DEF FetchUsgs
    <2>2. now' = now
      BY <1>4 DEF FetchUsgs
    <2> QED
      BY <1>1, <2>1, <2>2
  <1>5. CASE StoreDerived
    <2> DEFINE pairs == {<<k[1], k[2]>> : k \in Accepted(run.rows)}
    <2>1. /\ IF ForeignKeysHold(run.rows) THEN Store(run.rows, pairs) ELSE Rollback
          /\ now' = now
      BY <1>5 DEF StoreDerived
    <2>2. \A k \in Accepted(run.rows) : k[3] \in Nat /\ <<k[1], k[2]>> \in pairs
      BY DEF Accepted, RunOK
    <2> HIDE DEF pairs
    <2>3. CASE ForeignKeysHold(run.rows)
      BY <2>1, <2>2, <2>3, StoreKeeps
    <2>4. CASE ~ForeignKeysHold(run.rows)
      BY <2>1, <2>4, SameTables DEF Rollback, tables
    <2> QED
      BY <2>3, <2>4
  <1>6. CASE UpdateGaugeCache
    BY <1>6, RebuildKeeps DEF UpdateGaugeCache
  <1>7. CASE DecimateEnds
    BY <1>7, RebuildKeeps, SameTables DEF DecimateEnds, tables
  <1>8. CASE DecimateSource
    BY <1>8, DecimateKeeps
  <1>9. CASE RemoveSource
    BY <1>9, RemoveKeeps
  <1>10. CASE Advance
    BY <1>10, AdvanceKeeps
  <1>11. CASE \/ StartPipeline \/ BeginStep \/ StepRaises \/ FetchNothing \/ FetchEnds \/ FetchLicorEnds
              \/ FetchUsgsNothing \/ RatingReads \/ CalculatorReads \/ DerivedEnds \/ ReadOnlyStep
              \/ PipelineEnds \/ PipelineDies
    BY <1>11, SameTables
       DEF StartPipeline, BeginStep, StepRaises, FetchNothing, FetchEnds, FetchLicorEnds,
           FetchUsgsNothing, RatingReads, CalculatorReads, DerivedEnds, ReadOnlyStep,
           PipelineEnds, PipelineDies
  <1>12. CASE StartDecimate \/ DecimateDies \/ UNCHANGED vars
    BY <1>12, SameTables DEF StartDecimate, DecimateDies, vars, tables
  <1> QED
    BY <1>2, <1>3, <1>4, <1>5, <1>6, <1>7, <1>8, <1>9, <1>10, <1>11, <1>12
       DEF Next, Pipeline, Decimate

LEMMA InitInv == Init => StoreInv
  <1> SUFFICES ASSUME Init PROVE StoreInv
    OBVIOUS
  <1>1. /\ now \in Nat /\ sources = Source /\ obs = NoRows
        /\ latest = [p \in Pair |-> NoRow] /\ glatest = [p \in GaugePair |-> NoRow]
        /\ run = AtRest /\ covered = {}
    BY StoreAssumption DEF Init
  <1>2. DOMAIN obs = {} /\ StoredOK(obs)
    BY <1>1 DEF NoRows, StoredOK
  <1>3. \A S, ty, since, lag : Summary(obs, S, ty, since, lag) = NoRow
    BY <1>2 DEF Summary, Readings
  <1>4. SourceCacheExact /\ GaugeCacheExact
    BY <1>1, <1>3 DEF SourceCacheExact, GaugeCacheExact, UpdateLatest, UpdateLatestGauge
  <1>5. HistoryCovered
    BY <1>1, <1>2 DEF HistoryCovered
  <1>6. RunOK
    BY <1>1 DEF RunOK, AtRest, RunFields, In, NoRows
  <1> QED
    BY <1>1, <1>2, <1>4, <1>5, <1>6 DEF StoreInv, TablesOK, TimedRow

\* The invariant, of the tables and of what the pipeline has in hand.
THEOREM StoreInvariant == Spec => []StoreInv
  <1>1. StoreInv /\ [Next]_vars => StoreInv'
    BY RunKeeps, TablesKept DEF StoreInv
  <1> QED
    BY InitInv, <1>1, PTL DEF Spec

\* A latest_observation row is what the source's observations say, whoever wrote
\* last and wherever a program died (update_latest, cache.py:35).
THEOREM SourceRowsExact == Spec => []SourceCacheExact
  <1>1. StoreInv => SourceCacheExact
    BY DEF StoreInv, TablesOK
  <1> QED
    BY StoreInvariant, <1>1, PTL

\* A latest_gauge_observation row that nothing has aged is what the gauge's
\* observations say, by either refresh (cache.py:149 and 320).
THEOREM GaugeRowsExact == Spec => []GaugeCacheExact
  <1>1. StoreInv => GaugeCacheExact
    BY DEF StoreInv, TablesOK
  <1> QED
    BY StoreInvariant, <1>1, PTL

\* Thinning leaves a reading in every six-hour period that had one, because an
\* hour lies in one of them (decimate.py:20).
THEOREM ThinningCovers == Spec => []HistoryCovered
  <1>1. StoreInv => HistoryCovered
    BY DEF StoreInv, TablesOK
  <1> QED
    BY StoreInvariant, <1>1, PTL

-----------------------------------------------------------------------------
(* The verdict                                                             *)

Name(i) == Steps[i].name
Outcome == {"ok", "failed", "soft_failed", "skipped"}

\* The steps before the current one are decided, each as its requirements said;
\* those after it are not.
ScheduleOK ==
    /\ run.step \in 0..10
    /\ run.busy => run.step \in 1..9 /\ ~ShouldSkip(Current, run.results, run.keep)
    /\ run.step # Idle =>
         /\ DOMAIN run.results = StepName
         /\ \A i \in 1..9 : i >= run.step => run.results[Name(i)] = "none"
         /\ \A i \in 1..9 : i < run.step =>
              \/ i = 1 /\ run.results[Name(i)] = "none"
              \/ /\ run.results[Name(i)] \in Outcome
                 /\ run.results[Name(i)] = "skipped" <=> ShouldSkip(Steps[i], run.results, run.keep)
         /\ run.results["update-gauge-cache"] # "soft_failed"
         /\ run.results["update-gauge-cache"] = "ok" => run.refreshed

LEMMA TheSteps ==
  /\ Len(Steps) = 9 /\ Done = 10
  /\ Name(1) = "fetch" /\ Name(2) = "fetch-usgs-ogc" /\ Name(3) = "fetch-licor"
  /\ Name(4) = "calc-rating" /\ Name(5) = "update-gauge-cache" /\ Name(6) = "calculator"
  /\ Name(7) = "build" /\ Name(8) = "orphan-check" /\ Name(9) = "check-reaches"
  /\ Steps[1].requires = {} /\ Steps[2].requires = {} /\ Steps[3].requires = {}
  /\ Steps[4].requires = {Name(1), Name(2)} /\ Steps[5].requires = {Name(4), Name(3)}
  /\ Steps[6].requires = {Name(5)} /\ Steps[7].requires = {Name(5), Name(6)}
  /\ Steps[8].requires = {Name(7)} /\ Steps[9].requires = {Name(7)}
  BY DEF Steps, Name, Done

LEMMA NamesDiffer == \A i, j \in 1..9 : Name(i) = Name(j) => i = j
  BY TheSteps

LEMMA RequiredBefore == \A i \in 1..9 : \A r \in Steps[i].requires : \E j \in 1..9 : j < i /\ r = Name(j)
  <1> TAKE i \in 1..9
  <1>1. i \in {1, 2, 3} \/ i = 4 \/ i = 5 \/ i = 6 \/ i = 7 \/ i = 8 \/ i = 9
    OBVIOUS
  <1> QED
    BY <1>1, TheSteps

LEMMA TheNames == StepName = {Name(i) : i \in 1..9}
  BY TheSteps DEF StepName, Name

\* A decided step is not reconsidered, and what it requires does not change.
LEMMA Recorded ==
  ASSUME ScheduleOK, run.step \in 1..9, NEW o \in Outcome,
         o = "skipped" <=> ShouldSkip(Current, run.results, run.keep),
         run'.step = run.step + 1, run'.keep = run.keep, ~run'.busy,
         run'.results = [run.results EXCEPT ![Current.name] = o],
         Current.name = "update-gauge-cache" => o # "soft_failed" /\ (o = "ok" => run'.refreshed),
         run.refreshed => run'.refreshed
  PROVE  ScheduleOK'
  <1> DEFINE n == run.step
  <1>1. /\ DOMAIN run.results = StepName /\ Current = Steps[n] /\ Current.name = Name(n)
        /\ Name(n) \in StepName
    BY TheNames DEF ScheduleOK, Idle, Current, Name
  <1>2. run'.results[Name(n)] = o
    BY <1>1
  <1>3. \A i \in 1..9 : i # n => run'.results[Name(i)] = run.results[Name(i)]
    BY <1>1, NamesDiffer, TheNames
  <1>4. \A i \in 1..9 : i <= n =>
          (ShouldSkip(Steps[i], run'.results, run'.keep) <=> ShouldSkip(Steps[i], run.results, run.keep))
    <2> TAKE i \in 1..9
    <2> HAVE i <= n
    <2>1. \A r \in Steps[i].requires : run'.results[r] = run.results[r]
      BY <1>3, RequiredBefore
    <2> QED
      BY <2>1 DEF ShouldSkip
  <1>5. \A i \in 1..9 : i >= n + 1 => run'.results[Name(i)] = "none"
    BY <1>3 DEF ScheduleOK, Idle
  <1>6. ASSUME NEW i \in 1..9, i < n + 1
        PROVE  \/ i = 1 /\ run'.results[Name(i)] = "none"
               \/ /\ run'.results[Name(i)] \in Outcome
                  /\ run'.results[Name(i)] = "skipped" <=> ShouldSkip(Steps[i], run'.results, run'.keep)
    <2>1. CASE i = n
      BY <1>1, <1>2, <1>4, <2>1
    <2>2. CASE i # n
      <3>1. i < n /\ run'.results[Name(i)] = run.results[Name(i)]
        BY <1>3, <1>6, <2>2
      <3>2. ShouldSkip(Steps[i], run'.results, run'.keep) <=> ShouldSkip(Steps[i], run.results, run.keep)
        BY <1>4, <3>1
      <3> QED
        BY <3>1, <3>2 DEF ScheduleOK, Idle
    <2> QED
      BY <2>1, <2>2
  <1>7. /\ run'.results["update-gauge-cache"] # "soft_failed"
        /\ run'.results["update-gauge-cache"] = "ok" => run'.refreshed
    <2>1. CASE n = 5
      BY <1>1, <1>2, <2>1, TheSteps
    <2>2. CASE n # 5
      BY <1>3, <2>2, TheSteps DEF ScheduleOK, Idle
    <2> QED
      BY <2>1, <2>2
  <1>8. DOMAIN run'.results = StepName
    BY <1>1
  <1>9. run'.step \in 0..10 /\ run'.step = n + 1 /\ ~run'.busy
    OBVIOUS
  <1> QED
    BY <1>5, <1>6, <1>7, <1>8, <1>9 DEF ScheduleOK

LEMMA ScheduleKept ==
  ASSUME ScheduleOK, RunOK, [Next]_vars
  PROVE  ScheduleOK'
  <1>1. ASSUME UNCHANGED <<run.step, run.busy, run.results, run.keep, run.refreshed>> PROVE ScheduleOK'
    BY <1>1 DEF ScheduleOK, Current
  <1>2. ASSUME NEW o \in {"ok", "failed", "soft_failed"}, run.busy, Finish(o),
               Current.name = "update-gauge-cache" => o # "soft_failed"
        PROVE  ScheduleOK'
    <2>1. run.step \in 1..9 /\ ~ShouldSkip(Current, run.results, run.keep) /\ o \in Outcome /\ o # "skipped"
      BY <1>2 DEF ScheduleOK, Outcome
    <2>2. /\ run'.step = run.step + 1 /\ run'.keep = run.keep /\ ~run'.busy
          /\ run'.results = [run.results EXCEPT ![Current.name] = o]
          /\ run'.refreshed = (run.refreshed \/ (Current.name = "update-gauge-cache" /\ o = "ok"))
      BY <1>2 DEF Finish, RunOK, RunFields
    <2> QED
      BY <1>2, <2>1, <2>2, Recorded
  <1>3. CASE StartPipeline
    <2>1. PICK args : run' = [AtRest EXCEPT !.step = IF args[1] THEN 2 ELSE 1, !.keep = args[2]]
      BY <1>3 DEF StartPipeline
    <2>2. run'.step \in {1, 2} /\ run'.results = [s \in StepName |-> "none"] /\ run'.busy = FALSE
      BY <2>1 DEF AtRest
    <2>3. \A i \in 1..9 : run'.results[Name(i)] = "none"
      BY <2>2, TheNames
    <2> QED
      BY <2>2, <2>3, TheSteps DEF ScheduleOK
  <1>4. CASE BeginStep
    <2>1. CASE ShouldSkip(Current, run.results, run.keep)
      <3>1. run' = [run EXCEPT !.results[Current.name] = "skipped", !.step = @ + 1]
        BY <1>4, <2>1 DEF BeginStep
      <3>2. run.step \in 1..9 /\ ~run.busy
        BY <1>4, TheSteps DEF BeginStep
      <3>3. /\ run'.step = run.step + 1 /\ run'.keep = run.keep /\ (run'.busy <=> run.busy)
            /\ run'.results = [run.results EXCEPT ![Current.name] = "skipped"]
            /\ run'.refreshed = run.refreshed
        BY <3>1 DEF RunOK, RunFields
      <3> QED
        BY <2>1, <3>2, <3>3, Recorded DEF Outcome
    <2>2. CASE ~ShouldSkip(Current, run.results, run.keep)
      <3>1. run' = [run EXCEPT !.busy = TRUE, !.rejected = FALSE, !.rows = NoRows,
                               !.known = KnownSources, !.todo = WorkItems(Current.name)]
        BY <1>4, <2>2 DEF BeginStep
      <3>2. run.step \in 1..9
        BY <1>4, TheSteps DEF BeginStep
      <3>3. UNCHANGED <<run.step, run.results, run.keep, run.refreshed>> /\ run'.busy = TRUE
        BY <3>1 DEF RunOK, RunFields
      <3> QED
        BY <2>2, <3>2, <3>3 DEF ScheduleOK, Current
    <2> QED
      BY <2>1, <2>2
  <1>5. CASE FetchUrl \/ FetchLicorUrl \/ FetchNothing \/ RatingReads \/ CalculatorReads \/ StoreDerived
    <2>1. CASE FetchUrl
      <3>1. PICK u \in run.todo, unknown \in BOOLEAN :
              run' = [run EXCEPT !.todo = @ \ {u},
                                 !.rejected = @ \/ (unknown /\ Cardinality(run.known[u]) # 1)]
        BY <2>1 DEF FetchUrl
      <3> QED
        BY <3>1, <1>1 DEF RunOK, RunFields
    <2>2. CASE FetchLicorUrl
      BY <2>2, <1>1 DEF FetchLicorUrl, RunOK, RunFields
    <2>3. CASE FetchNothing \/ StoreDerived
      BY <2>3, <1>1 DEF FetchNothing, StoreDerived, RunOK, RunFields
    <2>4. CASE RatingReads
      BY <2>4, <1>1 DEF RatingReads, RunOK, RunFields
    <2>5. CASE CalculatorReads
      BY <2>5, <1>1 DEF CalculatorReads, RunOK, RunFields
    <2> QED
      BY <1>5, <2>1, <2>2, <2>3, <2>4, <2>5
  <1>6. CASE PipelineEnds \/ PipelineDies
    <2>1. run'.step = Idle /\ run'.busy = FALSE
      BY <1>6 DEF PipelineEnds, PipelineDies, AtRest
    <2> QED
      BY <2>1 DEF ScheduleOK, Idle
  <1>7. CASE StepRaises
    BY <1>7, <1>2 DEF StepRaises
  <1>8. CASE FetchEnds
    BY <1>8, <1>2 DEF FetchEnds, In
  <1>9. CASE FetchLicorEnds
    BY <1>9, <1>2 DEF FetchLicorEnds, In
  <1>10. CASE FetchUsgs
    BY <1>10, <1>2 DEF FetchUsgs, In
  <1>11. CASE FetchUsgsNothing
    BY <1>11, <1>2 DEF FetchUsgsNothing, In
  <1>12. CASE DerivedEnds
    BY <1>12, <1>2 DEF DerivedEnds, In
  <1>13. CASE UpdateGaugeCache
    BY <1>13, <1>2 DEF UpdateGaugeCache, In
  <1>14. CASE ReadOnlyStep
    BY <1>14, <1>2 DEF ReadOnlyStep, In
  <1>15. CASE Decimate \/ RemoveSource \/ Advance \/ UNCHANGED vars
    BY <1>15, <1>1 DEF Decimate, StartDecimate, DecimateSource, DecimateEnds, DecimateDies,
                       RemoveSource, Advance, vars
  <1> QED
    BY <1>3, <1>4, <1>5, <1>6, <1>7, <1>8, <1>9, <1>10, <1>11, <1>12, <1>13, <1>14, <1>15
       DEF Next, Pipeline

\* What systemd is told, and whether the site was rebuilt, follows from which
\* steps failed, at any number of failures (pipeline.py:260).
THEOREM VerdictIsRight == Spec => PipelineVerdict
  <1>1. Init => ScheduleOK
    BY DEF Init, AtRest, Idle, ScheduleOK
  <1>2. RunOK /\ ScheduleOK /\ PipelineEnds =>
          /\ run'.exit = 1 <=> ~run.keep /\ \E s \in StepName : run.results[s] \notin {"ok", "none"}
          /\ run.results["build"] = "skipped"
               <=> ~run.keep /\ \E s \in Upstream : run.results[s] = "failed"
          /\ run.results["build"] = "ok" /\ ~run.keep => run.refreshed
    <2> SUFFICES ASSUME RunOK, ScheduleOK, PipelineEnds
                 PROVE  /\ run'.exit = 1 <=> ~run.keep /\ \E s \in StepName : run.results[s] \notin {"ok", "none"}
                        /\ run.results["build"] = "skipped"
                             <=> ~run.keep /\ \E s \in Upstream : run.results[s] = "failed"
                        /\ run.results["build"] = "ok" /\ ~run.keep => run.refreshed
      OBVIOUS
    <2> DEFINE R(i) == run.results[Name(i)]
               Bad(i) == R(i) \in {"failed", "skipped"}
    <2>1. run.step = 10
      BY TheSteps DEF PipelineEnds
    <2>2. \A i \in 1..9 : \/ i = 1 /\ R(i) = "none"
                          \/ /\ R(i) \in Outcome
                             /\ R(i) = "skipped" <=> ShouldSkip(Steps[i], run.results, run.keep)
      BY <2>1 DEF ScheduleOK, Idle
    <2>3. /\ R(1) # "skipped" /\ R(2) # "skipped" /\ R(3) # "skipped"
          /\ R(4) = "skipped" <=> ~run.keep /\ (Bad(1) \/ Bad(2))
          /\ R(5) = "skipped" <=> ~run.keep /\ (Bad(4) \/ Bad(3))
          /\ R(6) = "skipped" <=> ~run.keep /\ Bad(5)
          /\ R(7) = "skipped" <=> ~run.keep /\ (Bad(5) \/ Bad(6))
          /\ R(8) = "skipped" <=> ~run.keep /\ Bad(7)
          /\ R(9) = "skipped" <=> ~run.keep /\ Bad(7)
      BY <2>2, TheSteps DEF ShouldSkip
    <2>4. (\E i \in 1..9 : R(i) = "skipped") => ~run.keep /\ \E i \in 1..9 : R(i) = "failed"
      BY <2>3
    <2>5. R(7) = "skipped" <=> ~run.keep /\ \E i \in 1..6 : R(i) = "failed"
      BY <2>3
    <2>6. Upstream = {Name(i) : i \in 1..6}
      BY TheNames, TheSteps DEF Upstream
    <2>7. run'.exit = IF Failures # {} /\ ~run.keep THEN 1 ELSE 0
      BY DEF PipelineEnds, AtRest
    <2>8. Failures # {} <=> \E i \in 1..9 : R(i) \in {"failed", "soft_failed"}
      BY TheNames DEF Failures
    <2>9. (\E s \in StepName : run.results[s] \notin {"ok", "none"})
            <=> \E i \in 1..9 : R(i) \in {"failed", "soft_failed", "skipped"}
      BY <2>2, TheNames DEF Outcome
    <2>10. R(7) = "ok" /\ ~run.keep => run.refreshed
      <3>1. R(5) \in Outcome /\ R(5) # "soft_failed" /\ (R(5) = "ok" => run.refreshed)
        BY <2>1, <2>2, TheSteps DEF ScheduleOK, Idle
      <3> QED
        BY <2>3, <3>1 DEF Outcome
    <2> QED
      BY <2>4, <2>5, <2>6, <2>7, <2>8, <2>9, <2>10, TheSteps
  <1>3. RunOK /\ ScheduleOK /\ [Next]_vars => ScheduleOK'
    BY ScheduleKept
  <1>4. StoreInv => RunOK
    BY DEF StoreInv
  <1> QED
    BY StoreInvariant, <1>1, <1>2, <1>3, <1>4, PTL DEF Spec, PipelineVerdict
=============================================================================
