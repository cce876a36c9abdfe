------------------------------ MODULE GoldProofs ------------------------------
(***************************************************************************)
(* Proofs about CandlesToGold, for any finite set of trades, any order of  *)
(* adding and merging, any units of time and any frame lengths.            *)
(*                                                                         *)
(* A minute's row is the candle of its trades (CandlesFaithful), a day's   *)
(* the candle of the rows of its minutes and so, by RolledUp, of its       *)
(* trades.  The tables made from the trades one by one are sums over a     *)
(* partition of the same trades, into hours, and agree for that reason.    *)
(*                                                                         *)
(* The frames: the number of days after e up to d is an injection of the k *)
(* days up to d into 0..k-1, hence onto it; a frame of n is what it maps   *)
(* below n, the last n days in the order of dates.                         *)
(***************************************************************************)
EXTENDS CandlesToGold, OHLCVCombineProofs

UpTo(daily, d) == {e \in DOMAIN daily : e <= d}
After(daily, e, d) == {f \in DOMAIN daily : e < f /\ f <= d}

\* The days up to d are numbered, from the last one back, without gaps.
LEMMA Ranks ==
    ASSUME NEW daily, IsFiniteSet(DOMAIN daily), DOMAIN daily \subseteq Int,
           NEW d \in DOMAIN daily
    PROVE  LET P == UpTo(daily, d)
               k == Cardinality(P)
               g == [e \in P |-> Cardinality(After(daily, e, d))]
           IN  /\ IsFiniteSet(P) /\ k \in Nat \ {0}
               /\ g \in Injection(P, 0..(k - 1))
               /\ g \in Surjection(P, 0..(k - 1))
<1> DEFINE P == UpTo(daily, d)
           k == Cardinality(P)
           A(e) == After(daily, e, d)
           g == [e \in P |-> Cardinality(A(e))]
<1>1. /\ P \subseteq Int /\ d \in P /\ P \subseteq DOMAIN daily
      /\ \A e \in P : e <= d
      /\ \A e \in P : A(e) = {f \in P : e < f}
    BY DEF UpTo, After
<1> HIDE DEF P, A
<1>2. IsFiniteSet(P)
    BY <1>1, FS_Subset
<1>3. k \in Nat \ {0}
    BY <1>1, <1>2, FS_CardinalityType, FS_EmptySet
<1>4. ASSUME NEW S \in SUBSET P, NEW R \in SUBSET S, NEW x \in S, x \notin R
      PROVE  Cardinality(R) \in Nat /\ Cardinality(R) < Cardinality(S)
    <2>1. IsFiniteSet(S) /\ IsFiniteSet(R) /\ R # S
        BY <1>2, <1>4, FS_Subset
    <2>2. Cardinality(R) <= Cardinality(S) /\ Cardinality(R) # Cardinality(S)
        BY <2>1, FS_Subset
    <2>3. Cardinality(R) \in Nat /\ Cardinality(S) \in Nat
        BY <2>1, FS_CardinalityType
    <2> QED BY <2>2, <2>3
<1>5. ASSUME NEW e \in P PROVE Cardinality(A(e)) \in 0..(k - 1)
    <2>1. A(e) \in SUBSET P /\ e \notin A(e)
        BY <1>1
    <2>2. Cardinality(A(e)) \in Nat /\ Cardinality(A(e)) < k
        BY <2>1, <1>4
    <2> QED BY <2>2, <1>3
<1>6. ASSUME NEW e \in P, NEW f \in P, e < f
      PROVE  Cardinality(A(f)) < Cardinality(A(e))
    <2>1. /\ A(e) = {x \in P : e < x} /\ A(f) = {x \in P : f < x}
          /\ P \subseteq Int
        BY <1>1
    <2>2. A(e) \in SUBSET P /\ A(f) \in SUBSET A(e)
        <3>1. \A x \in P : f < x => e < x
            BY <1>6, <2>1
        <3> QED BY <2>1, <3>1, Zenon
    <2>3. f \in A(e) /\ f \notin A(f)
        BY <1>6, <2>1
    <2> QED BY <2>2, <2>3, <1>4
<1>7. g \in [P -> 0..(k - 1)]
    BY <1>5
<1>8. ASSUME NEW e \in P, NEW f \in P, g[e] = g[f] PROVE e = f
    <2>1. Cardinality(A(e)) = Cardinality(A(f)) /\ Cardinality(A(e)) \in Nat
        BY <1>8, <1>5
    <2>2. e \in Int /\ f \in Int /\ ~(e < f) /\ ~(f < e)
        BY <1>1, <1>6, <2>1
    <2> QED BY <2>2
<1>9. g \in Injection(P, 0..(k - 1))
    BY <1>7, <1>8 DEF Injection, IsInjective
<1>10. IsFiniteSet(0..(k - 1)) /\ Cardinality(0..(k - 1)) = k
    <2>1. k - 1 \in Int /\ 0 \in Int /\ ~(0 > k - 1)
        BY <1>3
    <2>2. /\ IsFiniteSet(0..(k - 1))
          /\ Cardinality(0..(k - 1)) =
                IF 0 > k - 1 THEN 0 ELSE (k - 1) - 0 + 1
        BY <2>1, FS_Interval
    <2> QED BY <1>3, <2>1, <2>2
<1>11. g \in Surjection(P, 0..(k - 1))
    <2>1. Cardinality(P) = Cardinality(0..(k - 1))
        BY <1>10
    <2> HIDE DEF g, k
    <2> QED BY <1>9, <1>10, <2>1, FS_Injection
<1> QED BY <1>2, <1>3, <1>9, <1>11 DEF P, A

\* ROWS BETWEEN n-1 PRECEDING AND CURRENT ROW holds n rows, or all there are.
LEMMA FrameSize ==
    ASSUME NEW daily, IsFiniteSet(DOMAIN daily), DOMAIN daily \subseteq Int,
           NEW d \in DOMAIN daily, NEW n \in Nat \ {0}
    PROVE  LET k == Cardinality(UpTo(daily, d))
           IN  Cardinality(Frame(daily, d, n)) = IF n <= k THEN n ELSE k
<1> DEFINE P == UpTo(daily, d)
           k == Cardinality(P)
           g == [e \in P |-> Cardinality(After(daily, e, d))]
           m == IF n <= k THEN n ELSE k
           F == {e \in P : g[e] < n}
           h == [e \in F |-> g[e]]
<1>1. /\ IsFiniteSet(P) /\ k \in Nat \ {0}
      /\ g \in Injection(P, 0..(k - 1))
      /\ g \in Surjection(P, 0..(k - 1))
    BY Ranks
<1>2. Frame(daily, d, n) = F
    BY DEF Frame, UpTo, After
<1> HIDE DEF P, k, g
<1>3. /\ g \in [P -> 0..(k - 1)]
      /\ \A e, f \in P : g[e] = g[f] => e = f
      /\ \A y \in 0..(k - 1) : \E e \in P : g[e] = y
    BY <1>1 DEF Injection, IsInjective, Surjection
<1>4. m \in Nat \ {0} /\ m <= n /\ m <= k
    BY <1>1
<1>5. ASSUME NEW e \in F PROVE g[e] \in 0..(m - 1)
    <2>1. g[e] \in 0..(k - 1) /\ g[e] < n
        BY <1>3
    <2> QED BY <1>1, <2>1
<1>6. h \in [F -> 0..(m - 1)]
    BY <1>5
<1>7. h \in Injection(F, 0..(m - 1))
    BY <1>3, <1>6 DEF Injection, IsInjective
<1>8. \A y \in 0..(m - 1) : \E e \in F : h[e] = y
    <2> TAKE y \in 0..(m - 1)
    <2>1. y \in 0..(k - 1) /\ y < n
        BY <1>1, <1>4
    <2>2. PICK e \in P : g[e] = y
        BY <1>3, <2>1
    <2>3. e \in F /\ h[e] = y
        BY <2>1, <2>2
    <2> QED BY <2>3
<1>9. h \in Surjection(F, 0..(m - 1))
    BY <1>6, <1>8 DEF Surjection
<1> HIDE DEF h, F, m
<1>10. IsFiniteSet(0..(m - 1)) /\ Cardinality(0..(m - 1)) = m
    <2>1. m - 1 \in Int /\ 0 \in Int /\ ~(0 > m - 1)
        BY <1>4
    <2>2. /\ IsFiniteSet(0..(m - 1))
          /\ Cardinality(0..(m - 1)) =
                IF 0 > m - 1 THEN 0 ELSE (m - 1) - 0 + 1
        BY <2>1, FS_Interval
    <2> QED BY <1>4, <2>1, <2>2
<1>11. Cardinality(F) = m
    BY <1>7, <1>9, <1>10, FS_Injection
<1> QED BY <1>2, <1>11 DEF m, k, P

\* A moving average is shown exactly when there are that many days of history,
\* wherever days without a candle lie (assert_sma_7d_lte_enough_days.sql), and
\* is never over more.
THEOREM AverageNeedsItsDays ==
    ASSUME NEW daily, IsFiniteSet(DOMAIN daily), DOMAIN daily \subseteq Int,
           NEW d \in DOMAIN daily, NEW n \in Nat \ {0}
    PROVE  /\ MovingAverage(daily, d, n).valid <=>
                Cardinality({e \in DOMAIN daily : e <= d}) >= n
           /\ Cardinality(Frame(daily, d, n)) <= n
<1> DEFINE k == Cardinality(UpTo(daily, d))
<1>1. k \in Nat
    BY Ranks
<1>2. Cardinality(Frame(daily, d, n)) = IF n <= k THEN n ELSE k
    BY FrameSize
<1>3. k = Cardinality({e \in DOMAIN daily : e <= d})
    BY DEF UpTo
<1> HIDE DEF k
<1>4. MovingAverage(daily, d, n).valid <=> Cardinality(Frame(daily, d, n)) = n
    BY DEF MovingAverage
<1>5. (Cardinality(Frame(daily, d, n)) = n <=> k >= n)
      /\ Cardinality(Frame(daily, d, n)) <= n
    BY <1>1, <1>2
<1> QED BY <1>3, <1>4, <1>5

\* The trend is withheld exactly while the history is shorter than the longer
\* of the two frames.
THEOREM TrendNeedsBoth ==
    ASSUME NEW daily, IsFiniteSet(DOMAIN daily), DOMAIN daily \subseteq Int,
           NEW d \in DOMAIN daily
    PROVE  LET row == MovingAverages(daily)[d]
           IN  row.trend = "insufficient_history" <=>
                    \/ row.days_of_history < ShortDays
                    \/ row.days_of_history < LongDays
<1> DEFINE short == MovingAverage(daily, d, ShortDays)
           long == MovingAverage(daily, d, LongDays)
           k == Cardinality({e \in DOMAIN daily : e <= d})
           row == MovingAverages(daily)[d]
<1>1. row.trend = Trend(daily[d].close, short, long) /\ row.days_of_history = k
    BY DEF MovingAverages
<1>2. (short.valid <=> k >= ShortDays) /\ (long.valid <=> k >= LongDays)
    BY AverageNeedsItsDays, GoldAssumption
<1>3. k \in Nat /\ ShortDays \in Nat /\ LongDays \in Nat
    BY Ranks, GoldAssumption DEF UpTo
<1> HIDE DEF row, short, long, k
<1>4. Trend(daily[d].close, short, long) = "insufficient_history" <=>
            ~short.valid \/ ~long.valid
    BY DEF Trend
<1> QED BY <1>1, <1>2, <1>3, <1>4 DEF row
-----------------------------------------------------------------------------
(* Units of time.                                                           *)

\* A minute lies in one hour and in one day, and an hour in one day.
LEMMA Units ==
    ASSUME NEW t \in Int
    PROVE  /\ Minute(t) \in Int /\ Hour(t) \in Int /\ Day(t) \in Int
           /\ Day(Hour(t) * HourSize) = Day(t)
           /\ Day(Minute(t) * MinuteSize) = Day(t)
<1>1. /\ MinuteSize \in Nat \ {0} /\ HourSize \in Nat \ {0}
      /\ DaySize \in Nat \ {0}
      /\ HourSize % MinuteSize = 0 /\ DaySize % HourSize = 0
    BY MinuteAssumption, GoldAssumption
<1>2. Minute(t) \in Int /\ Hour(t) \in Int /\ Day(t) \in Int
    BY <1>1, DivFloor DEF Minute, Hour, Day
<1>3. \A s \in Int : Day(Hour(s) * HourSize) = Day(s)
    BY <1>1, StartOfUnit DEF Hour, Day
<1>4. Hour(Minute(t) * MinuteSize) = Hour(t)
    BY <1>1, StartOfUnit DEF Hour, Minute
<1>5. Minute(t) * MinuteSize \in Int
    BY <1>1, <1>2
<1>6. Day(Hour(Minute(t) * MinuteSize) * HourSize) = Day(Minute(t) * MinuteSize)
    BY <1>3, <1>5
<1> QED BY <1>2, <1>3, <1>4, <1>6

-----------------------------------------------------------------------------
(* Candles of sets of trades.                                               *)

\* The equations of CandleOf: some trade is added to the candle of the rest.
Candles(g, W) ==
    g = [U \in SUBSET W |->
            IF U = {} THEN Empty
            ELSE AddInput(g[U \ {CHOOSE t \in U : TRUE}],
                          CHOOSE t \in U : TRUE)]

\* Adding a trade to the candle of others keeps it faithful.
LEMMA FaithfulAdd ==
    ASSUME NEW U \in SUBSET Trades, NEW t \in U, NEW a, Faithful(a, U \ {t})
    PROVE  Faithful(AddInput(a, t), U)
<1>1. /\ U \ {t} \in SUBSET Trades /\ {t} \in SUBSET Trades
      /\ (U \ {t}) \intersect {t} = {} /\ (U \ {t}) \union {t} = U
    OBVIOUS
<1>2. Faithful(Single(t), {t})
    BY FaithfulSingle
<1>3. Faithful(Merge(a, Single(t)), (U \ {t}) \union {t})
    BY <1>1, <1>2, FaithfulMerge
<1> QED BY <1>1, <1>3, AddIsMerge

\* A solution of the equations is faithful on every set.
LEMMA CandlesFaithful ==
    ASSUME NEW W \in SUBSET Trades, NEW g, Candles(g, W), NEW U \in SUBSET W
    PROVE  Faithful(g[U], U)
<1> DEFINE G == {V \in SUBSET W : Faithful(g[V], V)}
<1>1. ASSUME NEW V \in SUBSET W, \A R \in SUBSET V : R # V => R \in G
      PROVE  V \in G
    <2>1. CASE V = {}
        BY <2>1, FaithfulEmpty DEF Candles
    <2>2. CASE V # {}
        <3> DEFINE t == CHOOSE x \in V : TRUE
        <3>1. t \in V
            BY <2>2
        <3>2. g[V] = AddInput(g[V \ {t}], t)
            BY <2>2 DEF Candles
        <3> HIDE DEF t
        <3>3. Faithful(g[V \ {t}], V \ {t})
            BY <3>1, <1>1
        <3>4. Faithful(AddInput(g[V \ {t}], t), V)
            BY <3>1, <3>3, FaithfulAdd
        <3> QED BY <3>2, <3>4
    <2> QED BY <2>1, <2>2
<1>2. IsFiniteSet(W)
    BY FS_Subset, TradesAssumption
<1>3. G = SUBSET W
    <2> G \in SUBSET (SUBSET W)
        OBVIOUS
    <2> HIDE DEF G
    <2> QED BY <1>1, <1>2, SubsetInduction
<1> QED BY <1>3

\* There is a solution.
LEMMA CandlesExist ==
    ASSUME NEW W \in SUBSET Trades
    PROVE  \E g : Candles(g, W)
<1> DEFINE p == [U \in SUBSET W |-> CHOOSE t \in U : TRUE]
           h == [y \in W \X Accumulators |-> AddInput(y[2], y[1])]
<1>1. IsFiniteSet(W) /\ Picks(p, W)
    BY FS_Subset, TradesAssumption DEF Picks
<1>2. PICK g : Folds(g, W, p, h, Empty)
    <2> HIDE DEF p, h
    <2> QED BY <1>1, FoldExists
<1> DEFINE G == {V \in SUBSET W : Faithful(g[V], V)}
<1>3. ASSUME NEW V \in SUBSET W, V # {}, Faithful(g[V \ {p[V]}], V \ {p[V]})
      PROVE  g[V] = AddInput(g[V \ {p[V]}], p[V]) /\ p[V] \in V
    <2>1. g[V] = h[<<p[V], g[V \ {p[V]}]>>]
        BY <1>2, <1>3 DEF Folds
    <2>2. p[V] \in V /\ g[V \ {p[V]}] \in Accumulators
        BY <1>3 DEF Faithful
    <2> HIDE DEF p
    <2> QED BY <2>1, <2>2
<1>4. ASSUME NEW V \in SUBSET W, \A R \in SUBSET V : R # V => R \in G
      PROVE  V \in G
    <2>1. CASE V = {}
        BY <2>1, <1>2, FaithfulEmpty DEF Folds
    <2>2. CASE V # {}
        <3> DEFINE t == p[V]
        <3>1. t \in V
            BY <2>2
        <3> HIDE DEF p
        <3>2. Faithful(g[V \ {t}], V \ {t})
            BY <3>1, <1>4
        <3>3. g[V] = AddInput(g[V \ {t}], t)
            BY <2>2, <3>2, <1>3
        <3>4. Faithful(AddInput(g[V \ {t}], t), V)
            BY <3>1, <3>2, FaithfulAdd
        <3> QED BY <3>3, <3>4
    <2> QED BY <2>1, <2>2
<1>5. G = SUBSET W
    <2> G \in SUBSET (SUBSET W)
        OBVIOUS
    <2> HIDE DEF G
    <2> QED BY <1>1, <1>4, SubsetInduction
<1>6. \A V \in SUBSET W : V # {} => g[V] = AddInput(g[V \ {p[V]}], p[V])
    BY <1>3, <1>5
<1>7. g = [V \in SUBSET W |-> g[V]] /\ g[{}] = Empty
    BY <1>2 DEF Folds
<1>8. \A V \in SUBSET W : p[V] = CHOOSE t \in V : TRUE
    OBVIOUS
<1>9. Candles(g, W)
    <2> HIDE DEF p
    <2> QED BY <1>6, <1>7, <1>8 DEF Candles
<1> QED BY <1>9

\* The candle of a set of trades, added one by one, is faithful to it.
LEMMA CandleOfFaithful ==
    ASSUME NEW W \in SUBSET Trades
    PROVE  Faithful(CandleOf(W), W)
<1> DEFINE I == CHOOSE i : i = [U \in SUBSET W |->
                    IF U = {} THEN Empty
                    ELSE AddInput(i[U \ {CHOOSE t \in U : TRUE}],
                                  CHOOSE t \in U : TRUE)]
<1>1. CandleOf(W) = I[W]
    BY DEF CandleOf, FoldSet, MapThenFoldSet
<1>2. \E g : g = [U \in SUBSET W |->
                    IF U = {} THEN Empty
                    ELSE AddInput(g[U \ {CHOOSE t \in U : TRUE}],
                                  CHOOSE t \in U : TRUE)]
    BY CandlesExist DEF Candles
<1>3. I = [U \in SUBSET W |->
                    IF U = {} THEN Empty
                    ELSE AddInput(I[U \ {CHOOSE t \in U : TRUE}],
                                  CHOOSE t \in U : TRUE)]
    BY <1>2
<1> HIDE DEF I
<1>4. Candles(I, W)
    BY <1>3 DEF Candles
<1> QED BY <1>1, <1>4, CandlesFaithful

-----------------------------------------------------------------------------
(* Rows of minutes.                                                         *)

\* What a row of a table of candles says of the trades it stands for.
Tells(r, S) ==
    /\ ExtremesOf(r, S)
    /\ EndsOf(r, S)
    /\ r.volume = SumFunctionOnSet(Values, S)
    /\ r.count = Cardinality(S)

LEMMA TellsIsReports ==
    ASSUME NEW S \in SUBSET Trades, NEW r
    PROVE  Tells(r, S) <=> Reports(r, Own, S)
<1>1. Carried(Own, S) = S /\ Worth(Own) = Values
    BY OwnTrades
<1> QED BY <1>1 DEF Tells, Reports

Minutes(T) == {Minute(t.time) : t \in T}
InMinute(T, m) == Within(T, Minute, m)
RowOf(T, m) == Row(m * MinuteSize, 0, CandleOf(InMinute(T, m)))

\* The table has one row for each minute with a trade.
LEMMA RowsOfMinutes ==
    ASSUME NEW T PROVE MinuteRows(T) = {RowOf(T, m) : m \in Minutes(T)}
BY DEF MinuteRows, RowOf, InMinute, Minutes

\* The row of a minute tells of the trades of this minute.
LEMMA RowTells ==
    ASSUME NEW T \in SUBSET Trades, NEW m \in Minutes(T)
    PROVE  LET r == RowOf(T, m)
               W == InMinute(T, m)
           IN  /\ W # {} /\ W \in SUBSET T
               /\ Tells(r, W) /\ WellFormed(r)
               /\ r.at = 0 /\ r.start = m * MinuteSize /\ m \in Int
<1> DEFINE W == InMinute(T, m)
           a == CandleOf(W)
           r == RowOf(T, m)
<1>1. W # {} /\ W \in SUBSET T /\ W \in SUBSET Trades
    BY DEF InMinute, Within, Minutes
<1>2. r = Row(m * MinuteSize, 0, a)
    BY DEF RowOf
<1> HIDE DEF W, a, r
<1>3. IsFiniteSet(W) /\ IsCandle(a, Own, W)
    BY <1>1, FS_Subset, TradesAssumption, CandleOfFaithful, FaithfulIsCandle
       DEF a
<1>4. /\ Reports(r, Own, W) /\ r.start = m * MinuteSize /\ r.at = 0
      /\ WellFormed(r)
    BY <1>1, <1>2, <1>3, CandleReports, CandleWellFormed
<1>5. Tells(r, W)
    BY <1>1, <1>4, TellsIsReports
<1>6. m \in Int
    BY TradesAssumption, Units DEF Minutes
<1> QED BY <1>1, <1>4, <1>5, <1>6 DEF W, r

\* The view keeps every row this code computes: each pane is written once,
\* and no candle of real trades fails the structural filter.
LEMMA NothingDropped ==
    ASSUME NEW T \in SUBSET Trades
    PROVE  Validated(MinuteRows(T)) = MinuteRows(T)
<1>1. \A r \in MinuteRows(T) : r.at = 0 /\ WellFormed(r)
    BY RowTells, RowsOfMinutes
<1>2. LastPanes(MinuteRows(T)) = MinuteRows(T)
    BY <1>1 DEF LastPanes
<1> QED BY <1>1, <1>2 DEF Validated

-----------------------------------------------------------------------------
(* From minutes to a day.                                                   *)

\* The candle made of the minute candles of a set of trades tells of these
\* trades: rolled up twice, nothing is lost or counted twice, and the first
\* and the last minute give the open and the close.
LEMMA RolledUpTwice ==
    ASSUME NEW D \in SUBSET Trades, D # {}
    PROVE  LET day == DayCandle(MinuteRows(D))
           IN  /\ Tells(day, D)
               /\ day.candles = Cardinality(Minutes(D))
<1> DEFINE R == [m \in Minutes(D) |-> RowOf(D, m)]
           K == Spans(Own, MinuteSize, D)
<1>1. IsFiniteSet(D) /\ D \in SUBSET (DOMAIN Own) /\ Typed(Own)
    BY FS_Subset, TradesAssumption, OwnTrades
<1>2. MinuteSize \in Nat \ {0}
    BY MinuteAssumption
<1>3. K = Minutes(D) /\ \A m : InSpan(Own, MinuteSize, D, m) = InMinute(D, m)
    <2>1. \A t \in D : Own[t].time \div MinuteSize = Minute(t.time)
        BY DEF Own, Minute
    <2> QED BY <2>1 DEF Spans, InSpan, Minutes, InMinute, Within
<1>4. RowsOfSpans(R, Own, MinuteSize, D)
    <2> SUFFICES ASSUME NEW m \in Minutes(D)
                 PROVE  /\ R[m].start = m * MinuteSize
                        /\ Reports(R[m], Own, InMinute(D, m))
        BY <1>3 DEF RowsOfSpans
    <2>1. R[m] = RowOf(D, m)
        OBVIOUS
    <2>2. /\ Tells(R[m], InMinute(D, m)) /\ InMinute(D, m) \in SUBSET D
          /\ R[m].start = m * MinuteSize
        BY <2>1, RowTells
    <2> QED BY <2>2, TellsIsReports
<1>5. MinuteRows(D) = {R[m] : m \in K}
    BY <1>3, RowsOfMinutes
<1> HIDE DEF R, K
<1>6. /\ Reports(DayCandle({R[m] : m \in K}), Own, D)
      /\ DayCandle({R[m] : m \in K}).candles = Cardinality(K)
    BY <1>1, <1>2, <1>4, RolledUp DEF K
<1>7. /\ Reports(DayCandle(MinuteRows(D)), Own, D)
      /\ DayCandle(MinuteRows(D)).candles = Cardinality(Minutes(D))
    BY <1>3, <1>5, <1>6
<1> QED BY <1>7, TellsIsReports

-----------------------------------------------------------------------------
(* The table of days.                                                       *)

OfDay(T, d) == Within(T, Day, d)

\* The minutes of a day are those of its trades, and so are their rows.
LEMMA RowsOfDay ==
    ASSUME NEW T \in SUBSET Trades, NEW d
    PROVE  {r \in MinuteRows(T) : Day(r.start) = d} = MinuteRows(OfDay(T, d))
<1> DEFINE D == OfDay(T, d)
<1>1. D \in SUBSET T /\ D \in SUBSET Trades
    BY DEF OfDay, Within
<1>2. ASSUME NEW t \in T
      PROVE  /\ t.time \in Int
             /\ t \in D <=> Day(t.time) = d
             /\ Minute(t.time) \in Minutes(T)
             /\ RowOf(T, Minute(t.time)).start = Minute(t.time) * MinuteSize
             /\ Day(RowOf(T, Minute(t.time)).start) = Day(t.time)
    <2>1. t.time \in Int
        BY TradesAssumption
    <2>2. t \in D <=> Day(t.time) = d
        BY DEF OfDay, Within
    <2>3. Minute(t.time) \in Minutes(T)
        BY DEF Minutes
    <2>4. RowOf(T, Minute(t.time)).start = Minute(t.time) * MinuteSize
        BY <2>3, RowTells
    <2> QED BY <2>1, <2>2, <2>3, <2>4, Units
<1>3. ASSUME NEW t \in D
      PROVE  RowOf(T, Minute(t.time)) = RowOf(D, Minute(t.time))
    <2>1. ASSUME NEW u \in T, Minute(u.time) = Minute(t.time) PROVE u \in D
        <3>1. Day(u.time) = Day(t.time)
            BY <1>1, <1>2, <2>1
        <3> QED BY <3>1, <1>1, <1>2
    <2>2. InMinute(T, Minute(t.time)) = InMinute(D, Minute(t.time))
        BY <1>1, <2>1 DEF InMinute, Within
    <2> QED BY <2>2 DEF RowOf
<1> HIDE DEF D
<1>4. ASSUME NEW r \in MinuteRows(T), Day(r.start) = d
      PROVE  r \in MinuteRows(D)
    <2>1. PICK t \in T : r = RowOf(T, Minute(t.time))
        BY RowsOfMinutes DEF Minutes
    <2>2. t \in D
        BY <1>2, <1>4, <2>1
    <2> QED BY <1>3, <2>1, <2>2, RowsOfMinutes DEF Minutes
<1>5. ASSUME NEW r \in MinuteRows(D)
      PROVE  r \in MinuteRows(T) /\ Day(r.start) = d
    <2>1. PICK t \in D : r = RowOf(D, Minute(t.time))
        BY RowsOfMinutes DEF Minutes
    <2>2. r = RowOf(T, Minute(t.time)) /\ t \in T
        BY <1>1, <1>3, <2>1
    <2> QED BY <1>2, <2>1, <2>2, RowsOfMinutes DEF Minutes
<1>6. \A r : r \in {q \in MinuteRows(T) : Day(q.start) = d}
                <=> r \in MinuteRows(D)
    BY <1>4, <1>5
<1> QED BY <1>6 DEF D

\* gold_daily_ohlcv has a row for each day with a trade, and the row tells of
\* the trades of its day.
LEMMA DailyTells ==
    ASSUME NEW T \in SUBSET Trades
    PROVE  LET daily == DailyTable(T)
           IN  /\ DOMAIN daily = {Day(t.time) : t \in T}
               /\ \A d \in DOMAIN daily :
                    /\ OfDay(T, d) # {} /\ OfDay(T, d) \in SUBSET T
                    /\ Tells(daily[d], OfDay(T, d))
                    /\ daily[d].candles = Cardinality(Minutes(OfDay(T, d)))
<1> DEFINE daily == DailyTable(T)
           rows == MinuteRows(T)
<1>1. daily = [d \in {Day(r.start) : r \in rows} |->
                    DayCandle({r \in rows : Day(r.start) = d})]
    BY NothingDropped DEF DailyTable, DailyOHLCV
<1>2. ASSUME NEW t \in T
      PROVE  /\ Minute(t.time) \in Minutes(T)
             /\ Day(RowOf(T, Minute(t.time)).start) = Day(t.time)
    <2>1. t.time \in Int
        BY TradesAssumption
    <2>2. Minute(t.time) \in Minutes(T)
        BY DEF Minutes
    <2>3. RowOf(T, Minute(t.time)).start = Minute(t.time) * MinuteSize
        BY <2>2, RowTells
    <2> QED BY <2>1, <2>2, <2>3, Units
<1>3. {Day(r.start) : r \in rows} = {Day(t.time) : t \in T}
    <2>1. ASSUME NEW r \in rows PROVE \E t \in T : Day(r.start) = Day(t.time)
        <3>1. PICK t \in T : r = RowOf(T, Minute(t.time))
            BY RowsOfMinutes DEF Minutes
        <3> QED BY <1>2, <3>1
    <2>2. ASSUME NEW t \in T PROVE \E r \in rows : Day(r.start) = Day(t.time)
        BY <1>2, RowsOfMinutes
    <2> HIDE DEF rows
    <2> QED BY <2>1, <2>2
<1>4. DOMAIN daily = {Day(t.time) : t \in T}
    BY <1>1, <1>3
<1>5. ASSUME NEW d \in DOMAIN daily
      PROVE  /\ OfDay(T, d) # {} /\ OfDay(T, d) \in SUBSET T
             /\ daily[d] = DayCandle(MinuteRows(OfDay(T, d)))
    <2>1. daily[d] = DayCandle({r \in rows : Day(r.start) = d})
        BY <1>1
    <2>2. PICK t \in T : d = Day(t.time)
        BY <1>4
    <2> HIDE DEF daily
    <2>3. {r \in rows : Day(r.start) = d} = MinuteRows(OfDay(T, d))
        BY RowsOfDay
    <2>4. OfDay(T, d) # {} /\ OfDay(T, d) \in SUBSET T
        BY <2>2 DEF OfDay, Within
    <2> QED BY <2>1, <2>3, <2>4
<1>6. ASSUME NEW d \in DOMAIN daily
      PROVE  /\ Tells(daily[d], OfDay(T, d))
             /\ daily[d].candles = Cardinality(Minutes(OfDay(T, d)))
    <2> DEFINE D == OfDay(T, d)
    <2>1. D \in SUBSET Trades /\ D # {} /\ daily[d] = DayCandle(MinuteRows(D))
        BY <1>5
    <2> HIDE DEF D, daily
    <2>2. /\ Tells(DayCandle(MinuteRows(D)), D)
          /\ DayCandle(MinuteRows(D)).candles = Cardinality(Minutes(D))
        BY <2>1, RolledUpTwice
    <2> QED BY <2>1, <2>2 DEF D
<1> HIDE DEF daily
<1>7. \A d \in DOMAIN daily :
            /\ OfDay(T, d) # {} /\ OfDay(T, d) \in SUBSET T
            /\ Tells(daily[d], OfDay(T, d))
            /\ daily[d].candles = Cardinality(Minutes(OfDay(T, d)))
    BY <1>5, <1>6
<1> QED BY <1>4, <1>7 DEF daily

\* The reference candle names the times of the open and of the close.
LEMMA ReferenceEnds ==
    ASSUME NEW D \in SUBSET Trades, NEW r, EndsOf(r, D)
    PROVE  /\ \E t \in D : t.time = Reference(D).first /\ t.price = r.open
           /\ \E t \in D : t.time = Reference(D).last /\ t.price = r.close
<1> DEFINE early == CHOOSE t \in D : \A u \in D : t.time <= u.time
           late == CHOOSE t \in D : \A u \in D : t.time >= u.time
<1>1. \A t \in D : t.time \in Int
    BY TradesAssumption
<1>2. PICK o \in D : o.price = r.open /\ \A u \in D : o.time <= u.time
    BY DEF EndsOf
<1>3. PICK c \in D : c.price = r.close /\ \A u \in D : u.time <= c.time
    BY DEF EndsOf
<1>4. early \in D /\ \A u \in D : early.time <= u.time
    BY <1>2
<1>5. \A u \in D : c.time >= u.time
    BY <1>1, <1>3
<1>6. late \in D /\ \A u \in D : late.time >= u.time
    BY <1>5
<1>7. Reference(D).first = early.time /\ Reference(D).last = late.time
    BY DEF Reference
<1> HIDE DEF early, late
<1>8. o.time = early.time /\ c.time = late.time
    BY <1>1, <1>2, <1>3, <1>4, <1>6
<1> QED BY <1>2, <1>3, <1>7, <1>8

\* Every state has, for each accumulator, a set of trades in its place.
LEMMA GotTrades == Spec => [](got \in [Slots -> SUBSET Trades])
<1>1. TypeOK => got \in [Slots -> SUBSET Trades]
    BY DEF TypeOK
<1> QED BY TypeCorrect, <1>1, PTL

\* gold_daily_ohlcv says of each day what one candle over the whole day would
\* say, whatever trades there are and however they lie in minutes and days.
THEOREM DailyRollup == Spec => []DailyIsCandle
<1>1. got \in [Slots -> SUBSET Trades] => DailyIsCandle
    <2> SUFFICES ASSUME got \in [Slots -> SUBSET Trades], NEW s \in Slots
                 PROVE  LET daily == DailyTable(got[s])
                        IN  /\ DOMAIN daily = {Day(t.time) : t \in got[s]}
                            /\ \A d \in DOMAIN daily :
                                LET T == Within(got[s], Day, d)
                                    c == Reference(T)
                                IN  /\ ExtremesOf(daily[d], T)
                                    /\ \E t \in T : /\ t.time = c.first
                                                    /\ t.price = daily[d].open
                                    /\ \E t \in T : /\ t.time = c.last
                                                    /\ t.price = daily[d].close
                                    /\ daily[d].volume = c.volume
                                    /\ daily[d].count = c.count
                                    /\ daily[d].candles =
                                        Cardinality({Minute(t.time) : t \in T})
        BY DEF DailyIsCandle
    <2> DEFINE daily == DailyTable(got[s])
    <2>1. got[s] \in SUBSET Trades
        OBVIOUS
    <2>2. /\ DOMAIN daily = {Day(t.time) : t \in got[s]}
          /\ \A d \in DOMAIN daily :
                /\ OfDay(got[s], d) # {} /\ OfDay(got[s], d) \in SUBSET got[s]
                /\ Tells(daily[d], OfDay(got[s], d))
                /\ daily[d].candles = Cardinality(Minutes(OfDay(got[s], d)))
        BY <2>1, DailyTells
    <2> HIDE DEF daily
    <2>3. ASSUME NEW d \in DOMAIN daily
          PROVE  LET T == OfDay(got[s], d)
                     c == Reference(T)
                 IN  /\ ExtremesOf(daily[d], T)
                     /\ \E t \in T : t.time = c.first /\ t.price = daily[d].open
                     /\ \E t \in T : t.time = c.last /\ t.price = daily[d].close
                     /\ daily[d].volume = c.volume
                     /\ daily[d].count = c.count
        <3> DEFINE T == OfDay(got[s], d)
        <3>1. T \in SUBSET Trades
            BY <2>1, <2>2
        <3>2. /\ ExtremesOf(daily[d], T) /\ EndsOf(daily[d], T)
              /\ daily[d].volume = SumFunctionOnSet(Values, T)
              /\ daily[d].count = Cardinality(T)
            BY <2>2 DEF Tells
        <3> HIDE DEF T
        <3>3. /\ Reference(T).volume = MapThenSumSet(Value, T)
              /\ Reference(T).count = Cardinality(T)
            BY DEF Reference
        <3>4. daily[d].volume = Reference(T).volume
            BY <3>1, <3>2, <3>3, VolumeIsSum
        <3> QED BY <3>1, <3>2, <3>3, <3>4, ReferenceEnds DEF T
    <2> QED BY <2>2, <2>3 DEF OfDay, Minutes, daily
<1> QED BY GotTrades, <1>1, PTL

-----------------------------------------------------------------------------
(* The tables made from single trades.                                      *)

Quantities == [t \in Trades |-> t.qty]

\* What a group of trades aggregates to, in terms of sums over functions on
\* all trades.
LEMMA VolumesOf ==
    ASSUME NEW U \in SUBSET Trades, U # {}
    PROVE  LET v == Volumes(U)
           IN  /\ v.notional = SumFunctionOnSet(Values, U)
               /\ v.quantity = SumFunctionOnSet(Quantities, U)
               /\ v.count = Cardinality(U)
               /\ ExtremesOf(v, U)
               /\ v.high \in Int /\ v.low \in Int
<1> DEFINE v == Volumes(U)
           prices == {t.price : t \in U}
           f == [t \in U |-> t.price * t.qty]
           q == [t \in U |-> t.qty]
<1>1. /\ v.notional = SumFunctionOnSet(f, U) /\ v.quantity = SumFunctionOnSet(q, U)
      /\ v.high = Max(prices) /\ v.low = Min(prices)
      /\ v.count = Cardinality(U)
    BY DEF Volumes, SumFunction
<1>2. IsFiniteSet(U)
    BY FS_Subset, TradesAssumption
<1>3. \A t \in U : f[t] = Values[t] /\ Values[t] \in Int
    BY ValuesType
<1>4. \A t \in U : q[t] = Quantities[t] /\ Quantities[t] \in Int
    BY TradesAssumption DEF Quantities
<1>5. prices \in SUBSET Int /\ IsFiniteSet(prices) /\ prices # {}
    <2>1. [t \in U |-> t.price] \in Surjection(U, prices)
        BY DEF Surjection
    <2>2. IsFiniteSet(prices)
        BY <1>2, <2>1, FS_Surjection
    <2> QED BY <2>2, TradesAssumption
<1>6. /\ Max(prices) \in prices /\ \A y \in prices : y <= Max(prices)
      /\ Min(prices) \in prices /\ \A y \in prices : Min(prices) <= y
    <2> HIDE DEF prices
    <2> QED BY <1>5, MaxMin
<1>7. ExtremesOf(v, U) /\ v.high \in Int /\ v.low \in Int
    <2> HIDE DEF v
    <2> QED BY <1>1, <1>5, <1>6 DEF ExtremesOf
<1> HIDE DEF f, q, prices
<1>8. SumFunctionOnSet(f, U) = SumFunctionOnSet(Values, U)
    BY <1>2, <1>3, SumAgree
<1>9. SumFunctionOnSet(q, U) = SumFunctionOnSet(Quantities, U)
    BY <1>2, <1>4, SumAgree
<1> QED BY <1>1, <1>7, <1>8, <1>9

\* VWAP, notional over quantity, lies between the low and the high.
LEMMA VwapBetween ==
    ASSUME NEW U \in SUBSET Trades, U # {}
    PROVE  LET v == Volumes(U)
           IN  /\ v.low * v.quantity <= v.notional
               /\ v.notional <= v.high * v.quantity
<1> DEFINE v == Volumes(U)
<1>1. /\ v.notional = SumFunctionOnSet(Values, U)
      /\ v.quantity = SumFunctionOnSet(Quantities, U)
      /\ ExtremesOf(v, U) /\ v.high \in Int /\ v.low \in Int
    BY VolumesOf
<1> HIDE DEF v
<1>2. IsFiniteSet(U)
    BY FS_Subset, TradesAssumption
<1>3. ASSUME NEW t \in U
      PROVE  /\ Quantities[t] \in Int /\ Values[t] \in Int
             /\ v.low * Quantities[t] <= Values[t]
             /\ Values[t] <= v.high * Quantities[t]
    <2>1. /\ t.price \in Int /\ t.qty \in Int /\ t.qty > 0
          /\ v.low <= t.price /\ t.price <= v.high
        BY <1>1, TradesAssumption DEF ExtremesOf
    <2>2. Quantities[t] = t.qty /\ Values[t] = t.price * t.qty
        BY ValuesType DEF Quantities
    <2>3. \A x, y, z \in Int : x <= y /\ z > 0 => x * z <= y * z
        OBVIOUS
    <2>4. v.low * t.qty <= t.price * t.qty /\ t.price * t.qty <= v.high * t.qty
        BY <1>1, <2>1, <2>3
    <2> QED BY <2>1, <2>2, <2>4
<1>4. v.low * SumFunctionOnSet(Quantities, U) <= SumFunctionOnSet(Values, U)
    BY <1>1, <1>2, <1>3, SumAbove
<1>5. SumFunctionOnSet(Values, U) <= v.high * SumFunctionOnSet(Quantities, U)
    BY <1>1, <1>2, <1>3, SumBelow
<1> QED BY <1>1, <1>4, <1>5 DEF v

OfHour(T, h) == {t \in T : Hour(t.time) = h}

\* The hours whose start lies in a day are those of the trades of the day,
\* and hold no trade of another day.
LEMMA HoursOfDay ==
    ASSUME NEW T \in SUBSET Trades, NEW d
    PROVE  LET hourly == HourlyVolume(T)
               Hours == {h \in DOMAIN hourly : Day(h * HourSize) = d}
           IN  /\ Hours = {Hour(t.time) : t \in OfDay(T, d)}
               /\ \A h \in Hours :
                    /\ OfHour(T, h) \in SUBSET OfDay(T, d) /\ OfHour(T, h) # {}
                    /\ hourly[h] = Volumes(OfHour(T, h))
<1> DEFINE hourly == HourlyVolume(T)
           Hours == {h \in DOMAIN hourly : Day(h * HourSize) = d}
           D == OfDay(T, d)
<1>1. /\ DOMAIN hourly = {Hour(t.time) : t \in T}
      /\ \A h \in DOMAIN hourly : hourly[h] = Volumes(OfHour(T, h))
    BY DEF HourlyVolume, OfHour
<1> HIDE DEF hourly
<1>2. \A t \in T : Day(Hour(t.time) * HourSize) = Day(t.time)
    BY TradesAssumption, Units
<1>3. D = {t \in T : Day(t.time) = d}
    BY DEF OfDay, Within
<1>4. Hours = {Hour(t.time) : t \in D}
    BY <1>1, <1>2, <1>3
<1>5. ASSUME NEW h \in Hours
      PROVE  OfHour(T, h) \in SUBSET D /\ OfHour(T, h) # {}
    <2>1. Day(h * HourSize) = d /\ h \in DOMAIN hourly
        OBVIOUS
    <2>2. \A t \in OfHour(T, h) : t \in T /\ Hour(t.time) = h
        BY DEF OfHour
    <2>3. PICK t \in T : h = Hour(t.time)
        BY <1>1, <2>1
    <2>4. t \in OfHour(T, h)
        BY <2>3 DEF OfHour
    <2> QED BY <1>2, <1>3, <2>1, <2>2, <2>4
<1> QED BY <1>1, <1>4, <1>5 DEF hourly

\* The hours of a day add up to what tells of its trades.
LEMMA HoursAddUp ==
    ASSUME NEW T \in SUBSET Trades, NEW d, NEW r,
           OfDay(T, d) # {}, Tells(r, OfDay(T, d))
    PROVE  LET hourly == HourlyVolume(T)
               Hours == {h \in DOMAIN hourly : Day(h * HourSize) = d}
           IN  /\ r.volume = SumFunction([h \in Hours |-> hourly[h].notional])
               /\ r.count = SumFunction([h \in Hours |-> hourly[h].count])
               /\ r.high = Max({hourly[h].high : h \in Hours})
<1> DEFINE hourly == HourlyVolume(T)
           Hours == {h \in DOMAIN hourly : Day(h * HourSize) = d}
           D == OfDay(T, d)
           P == [h \in Hours |-> OfHour(T, h)]
           highs == {hourly[h].high : h \in Hours}
<1>1. /\ Hours = {Hour(t.time) : t \in D}
      /\ \A h \in Hours :
            /\ OfHour(T, h) \in SUBSET D /\ OfHour(T, h) # {}
            /\ hourly[h] = Volumes(OfHour(T, h))
    BY HoursOfDay
<1> HIDE DEF hourly
<1>2. D \in SUBSET T /\ D \in SUBSET Trades /\ D # {}
    BY DEF OfDay, Within
<1> HIDE DEF Hours, D
<1>3. IsFiniteSet(D)
    BY <1>2, FS_Subset, TradesAssumption
<1>4. IsFiniteSet(Hours)
    <2>1. [t \in D |-> Hour(t.time)] \in Surjection(D, Hours)
        BY <1>1 DEF Surjection
    <2> QED BY <1>3, <2>1, FS_Surjection
<1>5. /\ \A h \in Hours : P[h] \in SUBSET D
      /\ \A t \in D : Hour(t.time) \in Hours /\ t \in P[Hour(t.time)]
      /\ \A t \in D : \E h \in Hours : t \in P[h]
      /\ \A h, k \in Hours : h # k => P[h] \intersect P[k] = {}
    BY <1>1, <1>2 DEF OfHour
<1>6. ASSUME NEW h \in Hours
      PROVE  /\ hourly[h].notional = SumFunctionOnSet(Values, P[h])
             /\ hourly[h].count = Cardinality(P[h])
             /\ ExtremesOf(hourly[h], P[h]) /\ hourly[h].high \in Int
    BY <1>1, <1>2, VolumesOf
<1> HIDE DEF P
<1>7. r.volume = SumFunction([h \in Hours |-> hourly[h].notional])
    <2> DEFINE F == [h \in Hours |-> hourly[h].notional]
    <2>1. SumFunction(F) = SumFunctionOnSet(F, Hours)
        BY DEF SumFunction
    <2>2. \A h \in Hours : F[h] = SumFunctionOnSet(Values, P[h])
        BY <1>6
    <2>3. \A t \in D : Values[t] \in Int
        BY <1>2, ValuesType
    <2> HIDE DEF F
    <2>4. SumFunctionOnSet(Values, D) = SumFunctionOnSet(F, Hours)
        BY <1>3, <1>4, <1>5, <2>2, <2>3, SumPartition
    <2> QED BY <2>1, <2>4 DEF Tells, F, D
<1>8. r.count = SumFunction([h \in Hours |-> hourly[h].count])
    <2> DEFINE F == [h \in Hours |-> hourly[h].count]
               one == [t \in D |-> 1]
    <2>1. SumFunction(F) = SumFunctionOnSet(F, Hours)
        BY DEF SumFunction
    <2>2. \A t \in D : one[t] = 1 /\ one[t] \in Int
        OBVIOUS
    <2> HIDE DEF one
    <2>3. \A h \in Hours : F[h] = SumFunctionOnSet(one, P[h])
        <3> TAKE h \in Hours
        <3>1. IsFiniteSet(P[h]) /\ \A t \in P[h] : one[t] = 1
            BY <1>3, <1>5, <2>2, FS_Subset
        <3>2. SumFunctionOnSet(one, P[h]) = Cardinality(P[h])
            BY <3>1, SumOnes
        <3> QED BY <1>6, <3>2
    <2> HIDE DEF F
    <2>4. SumFunctionOnSet(one, D) = SumFunctionOnSet(F, Hours)
        BY <1>3, <1>4, <1>5, <2>2, <2>3, SumPartition
    <2>5. SumFunctionOnSet(one, D) = Cardinality(D)
        BY <1>3, <2>2, SumOnes
    <2> QED BY <2>1, <2>4, <2>5 DEF Tells, F, D
<1>9. r.high = Max(highs)
    <2>1. ExtremesOf(r, D)
        BY DEF Tells, D
    <2>2. highs \in SUBSET Int
        BY <1>6
    <2>3. PICK t \in D : t.price = r.high
        BY <2>1 DEF ExtremesOf
    <2>4. /\ Hour(t.time) \in Hours
          /\ r.high <= hourly[Hour(t.time)].high
        BY <1>5, <1>6, <2>3 DEF ExtremesOf
    <2>5. \A h \in Hours : hourly[h].high <= r.high
        BY <1>5, <1>6, <2>1 DEF ExtremesOf
    <2>6. r.high \in Int
        BY <1>2, <2>3, TradesAssumption
    <2>7. hourly[Hour(t.time)].high = r.high
        BY <1>6, <2>4, <2>5, <2>6
    <2>8. r.high \in highs /\ \A y \in highs : y <= r.high
        BY <2>4, <2>5, <2>7
    <2> HIDE DEF highs
    <2> QED BY <2>2, <2>8, MaxMinUnique
<1> QED BY <1>7, <1>8, <1>9 DEF hourly, Hours

\* The counts of some hours add up to the number of their trades.
LEMMA HoursCount ==
    ASSUME NEW T \in SUBSET Trades, NEW H \in SUBSET DOMAIN HourlyVolume(T)
    PROVE  SumFunction([h \in H |-> HourlyVolume(T)[h].count])
                = Cardinality({t \in T : Hour(t.time) \in H})
<1> DEFINE hourly == HourlyVolume(T)
           D == {t \in T : Hour(t.time) \in H}
           P == [h \in H |-> OfHour(T, h)]
           C == [h \in H |-> hourly[h].count]
           one == [t \in D |-> 1]
<1>1. /\ DOMAIN hourly = {Hour(t.time) : t \in T}
      /\ \A h \in DOMAIN hourly : hourly[h] = Volumes(OfHour(T, h))
      /\ H \subseteq DOMAIN hourly
    BY DEF HourlyVolume, OfHour
<1>2. D \in SUBSET Trades /\ IsFiniteSet(D)
    BY FS_Subset, TradesAssumption
<1> HIDE DEF hourly
<1>3. /\ \A h \in H : P[h] \in SUBSET D /\ P[h] # {}
      /\ \A t \in D : \E h \in H : t \in P[h]
      /\ \A h, k \in H : h # k => P[h] \intersect P[k] = {}
    BY <1>1 DEF OfHour
<1>4. IsFiniteSet(H)
    <2>1. [t \in D |-> Hour(t.time)] \in Surjection(D, H)
        BY <1>1 DEF Surjection
    <2> QED BY <1>2, <2>1, FS_Surjection
<1>5. \A t \in D : one[t] = 1 /\ one[t] \in Int
    OBVIOUS
<1>6. SumFunction(C) = SumFunctionOnSet(C, H)
    BY DEF SumFunction
<1>7. \A h \in H : C[h] = Cardinality(P[h])
    <2> TAKE h \in H
    <2>1. hourly[h] = Volumes(P[h]) /\ P[h] \in SUBSET Trades /\ P[h] # {}
        BY <1>1, <1>2, <1>3
    <2> QED BY <2>1, VolumesOf
<1> HIDE DEF D, P, C, one
<1>8. \A h \in H : C[h] = SumFunctionOnSet(one, P[h])
    <2> TAKE h \in H
    <2>1. IsFiniteSet(P[h]) /\ \A t \in P[h] : one[t] = 1
        BY <1>2, <1>3, <1>5, FS_Subset
    <2> QED BY <1>7, <2>1, SumOnes
<1>9. SumFunctionOnSet(one, D) = SumFunctionOnSet(C, H)
    BY <1>2, <1>3, <1>4, <1>5, <1>8, SumPartition
<1>10. SumFunctionOnSet(one, D) = Cardinality(D)
    BY <1>2, <1>5, SumOnes
<1> QED BY <1>6, <1>9, <1>10 DEF C, D, hourly

\* The trailing 24 hours lie between the hours inside and the hours touching.
LEMMA TrailingHours ==
    ASSUME NEW T \in SUBSET Trades, NEW r \in PriceStats(T)
    PROVE  LET hourly == HourlyVolume(T)
               Inside == {h \in DOMAIN hourly :
                            \A u \in T : h * HourSize >= u.time - DaySize}
               Touching == {h \in DOMAIN hourly :
                            \A u \in T : (h + 1) * HourSize > u.time - DaySize}
           IN  /\ SumFunction([h \in Inside |-> hourly[h].count]) <= r.of.count
               /\ r.of.count <= SumFunction([h \in Touching |-> hourly[h].count])
<1> DEFINE hourly == HourlyVolume(T)
           Inside == {h \in DOMAIN hourly :
                        \A u \in T : h * HourSize >= u.time - DaySize}
           Touching == {h \in DOMAIN hourly :
                        \A u \in T : (h + 1) * HourSize > u.time - DaySize}
           U == Trades24h(T)
           A == {t \in T : Hour(t.time) \in Inside}
           B == {t \in T : Hour(t.time) \in Touching}
<1>1. HourSize \in Nat \ {0} /\ DaySize \in Nat \ {0}
    BY GoldAssumption
<1>2. \A t \in T : /\ t.time \in Int /\ Hour(t.time) \in Int
                   /\ Hour(t.time) * HourSize <= t.time
                   /\ t.time < (Hour(t.time) + 1) * HourSize
                   /\ Hour(t.time) * HourSize \in Int
                   /\ (Hour(t.time) + 1) * HourSize \in Int
    <2> TAKE t \in T
    <2>1. t.time \in Int
        BY TradesAssumption
    <2>2. /\ Hour(t.time) \in Int /\ Hour(t.time) * HourSize <= t.time
          /\ t.time < Hour(t.time) * HourSize + HourSize
        BY <1>1, <2>1, DivFloor DEF Hour
    <2> DEFINE h == Hour(t.time)
    <2> HIDE DEF h
    <2>3. h \in Int => /\ (h + 1) * HourSize = h * HourSize + HourSize
                       /\ h * HourSize \in Int /\ (h + 1) * HourSize \in Int
        BY <1>1
    <2> QED BY <2>1, <2>2, <2>3 DEF h
<1>3. \A t \in T : Hour(t.time) \in DOMAIN hourly
    BY DEF HourlyVolume
<1>4. /\ U = {t \in T : \A u \in T : t.time >= u.time - DaySize}
      /\ r.of = Volumes(U) /\ U # {}
    BY DEF PriceStats, Trades24h
<1>5. A \subseteq U
    <2> SUFFICES ASSUME NEW t \in A, NEW u \in T
                 PROVE  t.time >= u.time - DaySize
        BY <1>4
    <2>1. t \in T /\ Hour(t.time) * HourSize >= u.time - DaySize
        OBVIOUS
    <2> QED BY <1>1, <1>2, <2>1
<1>6. U \subseteq B
    <2> SUFFICES ASSUME NEW t \in U, NEW u \in T
                 PROVE  (Hour(t.time) + 1) * HourSize > u.time - DaySize
        BY <1>3, <1>4
    <2>1. t \in T /\ t.time >= u.time - DaySize
        BY <1>4
    <2> QED BY <1>1, <1>2, <2>1
<1>7. /\ U \in SUBSET Trades /\ IsFiniteSet(U) /\ IsFiniteSet(B)
      /\ r.of.count = Cardinality(U)
    <2>1. U \in SUBSET Trades /\ B \in SUBSET Trades
        BY <1>4
    <2> HIDE DEF U, B
    <2>2. IsFiniteSet(U) /\ IsFiniteSet(B)
        BY <2>1, FS_Subset, TradesAssumption
    <2> QED BY <1>4, <2>1, <2>2, VolumesOf
<1>8. Inside \in SUBSET DOMAIN hourly /\ Touching \in SUBSET DOMAIN hourly
    OBVIOUS
<1>9. /\ SumFunction([h \in Inside |-> hourly[h].count]) = Cardinality(A)
      /\ SumFunction([h \in Touching |-> hourly[h].count]) = Cardinality(B)
    <2> HIDE DEF Inside, Touching
    <2> QED BY <1>8, HoursCount
<1> HIDE DEF A, B, U
<1>10. Cardinality(A) <= Cardinality(U) /\ Cardinality(U) <= Cardinality(B)
    BY <1>5, <1>6, <1>7, FS_Subset
<1> QED BY <1>7, <1>9, <1>10

\* When all trades are of one day, the trailing 24 hours are this day and the
\* row of gold_price_stats_24h can be that of the day.
LEMMA OneDay ==
    ASSUME NEW T \in SUBSET Trades, NEW d, \A t \in T : Day(t.time) = d,
           T # {}, NEW r, Tells(r, T)
    PROVE  \E p \in PriceStats(T) :
                /\ p.open = r.open /\ p.close = r.close
                /\ p.of.high = r.high /\ p.of.low = r.low
                /\ p.of.notional = r.volume
<1>1. \A t \in T : t.time \in Int /\ t.price \in Int
    BY TradesAssumption
<1>2. Trades24h(T) = T
    <2>1. ASSUME NEW t \in T, NEW u \in T PROVE t.time >= u.time - DaySize
        <3>1. DaySize \in Nat \ {0}
            BY GoldAssumption
        <3>2. /\ d \in Int /\ d * DaySize <= t.time
              /\ u.time < d * DaySize + DaySize
            BY <1>1, <3>1, DivFloor DEF Day
        <3>3. d * DaySize \in Int
            BY <3>1, <3>2
        <3> QED BY <1>1, <3>1, <3>2, <3>3
    <2> QED BY <2>1 DEF Trades24h
<1>3. /\ EndsOf(r, T) /\ ExtremesOf(r, T)
      /\ r.volume = SumFunctionOnSet(Values, T)
    BY DEF Tells
<1>4. PICK o \in T : o.price = r.open /\ \A u \in T : o.time <= u.time
    BY <1>3 DEF EndsOf
<1>5. PICK c \in T : c.price = r.close /\ \A u \in T : u.time <= c.time
    BY <1>3 DEF EndsOf
<1> DEFINE v == Volumes(T)
           p == [open |-> o.price, close |-> c.price, of |-> v]
<1>6. p \in PriceStats(T)
    <2> HIDE DEF v
    <2> QED BY <1>2, <1>4, <1>5 DEF PriceStats, v
<1>7. /\ v.notional = SumFunctionOnSet(Values, T) /\ ExtremesOf(v, T)
      /\ v.high \in Int /\ v.low \in Int
    BY VolumesOf
<1> HIDE DEF v
<1>8. v.high = r.high /\ v.low = r.low
    <2>1. PICK x \in T : x.price = v.high
        BY <1>7 DEF ExtremesOf
    <2>2. PICK y \in T : y.price = r.high
        BY <1>3 DEF ExtremesOf
    <2>3. v.high <= r.high /\ r.high <= v.high /\ r.high \in Int
        BY <1>1, <1>3, <1>7, <2>1, <2>2 DEF ExtremesOf
    <2>4. PICK z \in T : z.price = v.low
        BY <1>7 DEF ExtremesOf
    <2>5. PICK w \in T : w.price = r.low
        BY <1>3 DEF ExtremesOf
    <2>6. v.low <= r.low /\ r.low <= v.low /\ r.low \in Int
        BY <1>1, <1>3, <1>7, <2>4, <2>5 DEF ExtremesOf
    <2> QED BY <1>7, <2>3, <2>6
<1> QED BY <1>3, <1>4, <1>5, <1>6, <1>7, <1>8

\* Every group gold_trade_volume_hourly and gold_price_stats_24h aggregate is
\* a non-empty set of trades.
LEMMA GroupsOfTrades ==
    ASSUME NEW T \in SUBSET Trades,
           NEW v \in {HourlyVolume(T)[h] : h \in DOMAIN HourlyVolume(T)}
                        \union {r.of : r \in PriceStats(T)}
    PROVE  \E U \in SUBSET Trades : U # {} /\ v = Volumes(U)
<1>1. CASE v \in {HourlyVolume(T)[h] : h \in DOMAIN HourlyVolume(T)}
    <2>1. PICK h \in DOMAIN HourlyVolume(T) : v = HourlyVolume(T)[h]
        BY <1>1
    <2>2. PICK t \in T : h = Hour(t.time)
        BY DEF HourlyVolume
    <2>3. v = Volumes(OfHour(T, h))
        BY <2>1 DEF HourlyVolume, OfHour
    <2>4. OfHour(T, h) \in SUBSET Trades /\ OfHour(T, h) # {}
        BY <2>2 DEF OfHour
    <2> QED BY <2>3, <2>4
<1>2. CASE v \in {r.of : r \in PriceStats(T)}
    <2> DEFINE U == Trades24h(T)
    <2>1. /\ U \in SUBSET Trades
          /\ \A r \in PriceStats(T) : r.of = Volumes(U) /\ U # {}
        BY DEF PriceStats, Trades24h
    <2> HIDE DEF U
    <2> QED BY <1>2, <2>1
<1> QED BY <1>1, <1>2

\* The two ways of trades into Gold agree, for every set of trades: the hours
\* of a day add up to the day, a single day is its own trailing 24 hours, which
\* in general lie between the hours inside and those touching, and every VWAP
\* lies between the low and the high.
THEOREM TwoWaysAgree == Spec => []GoldAgrees
<1>1. got \in [Slots -> SUBSET Trades] => GoldAgrees
    <2> SUFFICES ASSUME got \in [Slots -> SUBSET Trades], NEW s \in Slots
                 PROVE  LET T == got[s]
                            daily == DailyTable(T)
                            hourly == HourlyVolume(T)
                            HoursOf(d) == {h \in DOMAIN hourly :
                                                Day(h * HourSize) = d}
                            Inside == {h \in DOMAIN hourly : \A u \in T :
                                        h * HourSize >= u.time - DaySize}
                            Touching == {h \in DOMAIN hourly : \A u \in T :
                                        (h + 1) * HourSize > u.time - DaySize}
                            CountOf(H) ==
                                SumFunction([h \in H |-> hourly[h].count])
                        IN  /\ \A d \in DOMAIN daily :
                                /\ daily[d].volume = SumFunction(
                                    [h \in HoursOf(d) |-> hourly[h].notional])
                                /\ daily[d].count = CountOf(HoursOf(d))
                                /\ daily[d].high =
                                    Max({hourly[h].high : h \in HoursOf(d)})
                            /\ \A v \in {hourly[h] : h \in DOMAIN hourly}
                                        \union {r.of : r \in PriceStats(T)} :
                                /\ v.low * v.quantity <= v.notional
                                /\ v.notional <= v.high * v.quantity
                            /\ \A d \in DOMAIN daily : DOMAIN daily = {d} =>
                                \E r \in PriceStats(T) :
                                    /\ r.open = daily[d].open
                                    /\ r.close = daily[d].close
                                    /\ r.of.high = daily[d].high
                                    /\ r.of.low = daily[d].low
                                    /\ r.of.notional = daily[d].volume
                            /\ \A r \in PriceStats(T) :
                                /\ CountOf(Inside) <= r.of.count
                                /\ r.of.count <= CountOf(Touching)
        BY DEF GoldAgrees
    <2> DEFINE T == got[s]
               daily == DailyTable(T)
               hourly == HourlyVolume(T)
               HoursOf(d) == {h \in DOMAIN hourly : Day(h * HourSize) = d}
    <2>1. T \in SUBSET Trades
        OBVIOUS
    <2> HIDE DEF T
    <2>2. /\ DOMAIN daily = {Day(t.time) : t \in T}
          /\ \A d \in DOMAIN daily :
                /\ OfDay(T, d) # {} /\ OfDay(T, d) \in SUBSET T
                /\ Tells(daily[d], OfDay(T, d))
        BY <2>1, DailyTells
    <2> HIDE DEF daily
    <2>3. ASSUME NEW d \in DOMAIN daily
          PROVE  /\ daily[d].volume =
                        SumFunction([h \in HoursOf(d) |-> hourly[h].notional])
                 /\ daily[d].count =
                        SumFunction([h \in HoursOf(d) |-> hourly[h].count])
                 /\ daily[d].high = Max({hourly[h].high : h \in HoursOf(d)})
        BY <2>1, <2>2, HoursAddUp
    <2>4. ASSUME NEW v \in {hourly[h] : h \in DOMAIN hourly}
                                \union {r.of : r \in PriceStats(T)}
          PROVE  v.low * v.quantity <= v.notional
                 /\ v.notional <= v.high * v.quantity
        <3>1. PICK U \in SUBSET Trades : U # {} /\ v = Volumes(U)
            BY <2>1, GroupsOfTrades
        <3> QED BY <3>1, VwapBetween
    <2>5. ASSUME NEW d \in DOMAIN daily, DOMAIN daily = {d}
          PROVE  \E r \in PriceStats(T) :
                    /\ r.open = daily[d].open /\ r.close = daily[d].close
                    /\ r.of.high = daily[d].high /\ r.of.low = daily[d].low
                    /\ r.of.notional = daily[d].volume
        <3>1. \A t \in T : Day(t.time) = d
            BY <2>2, <2>5
        <3>2. OfDay(T, d) = T
            BY <3>1 DEF OfDay, Within
        <3>3. T # {} /\ Tells(daily[d], T)
            BY <2>2, <3>2
        <3> QED BY <2>1, <3>1, <3>3, OneDay
    <2> DEFINE Inside == {h \in DOMAIN hourly :
                            \A u \in T : h * HourSize >= u.time - DaySize}
               Touching == {h \in DOMAIN hourly :
                            \A u \in T : (h + 1) * HourSize > u.time - DaySize}
    <2>6. ASSUME NEW r \in PriceStats(T)
          PROVE  /\ SumFunction([h \in Inside |-> hourly[h].count]) <= r.of.count
                 /\ r.of.count <= SumFunction([h \in Touching |-> hourly[h].count])
        BY <2>1, TrailingHours
    <2> QED BY <2>3, <2>4, <2>5, <2>6 DEF T, daily
<1> QED BY GotTrades, <1>1, PTL

-----------------------------------------------------------------------------
(* Days in order.                                                           *)

\* Folding + from the left over a sequence gives the sum of its elements.
LEMMA FoldLeftIsSum ==
    ASSUME NEW n \in Nat, NEW f \in [1..n -> Int]
    PROVE  FoldLeft(+, 0, f) = SumFunctionOnSet(f, 1..n)
<1> DEFINE S == 1..n
           I == CHOOSE i : i = [U \in SUBSET S |->
                    IF U = {} THEN 0 ELSE i[U \ {Max(U)}] + f[Max(U)]]
           g == [U \in SUBSET S |-> SumFunctionOnSet(f, U)]
<1>1. FoldLeft(+, 0, f) = I[S]
    <2>1. DOMAIN f = S
        OBVIOUS
    <2> QED BY <2>1 DEF FoldLeft, MapThenFoldSet
<1>2. IsFiniteSet(S) /\ S \in SUBSET Int /\ \A x \in S : f[x] \in Int
    BY FS_Interval
<1> HIDE DEF S
<1>3. ASSUME NEW U \in SUBSET S, U # {}
      PROVE  /\ Max(U) \in U /\ U \ {Max(U)} \in SUBSET S
             /\ g[U] = g[U \ {Max(U)}] + f[Max(U)]
    <2>1. IsFiniteSet(U) /\ U \in SUBSET Int
        BY <1>2, FS_Subset
    <2>2. Max(U) \in U
        BY <1>3, <2>1, MaxMin
    <2> DEFINE R == U \ {Max(U)}
    <2>3. IsFiniteSet(R) /\ R \in SUBSET S
        BY <1>2, FS_Subset
    <2>4. SumFunctionOnSet(f, U) = f[Max(U)] + SumFunctionOnSet(f, R)
        BY <1>2, <2>1, <2>2, SumRemove
    <2>5. SumFunctionOnSet(f, R) \in Int /\ f[Max(U)] \in Int
        BY <1>2, <2>2, <2>3, SumInt
    <2>6. g[U] = SumFunctionOnSet(f, U) /\ g[R] = SumFunctionOnSet(f, R)
        BY <2>3
    <2> HIDE DEF R, g
    <2>7. g[U] = g[R] + f[Max(U)]
        BY <2>4, <2>5, <2>6
    <2> QED BY <2>2, <2>3, <2>7 DEF R
<1>4. g[{}] = 0
    BY SumEmpty
<1>5. g = [U \in SUBSET S |-> g[U]] /\ g[S] = SumFunctionOnSet(f, S)
    OBVIOUS
<1> HIDE DEF g
<1>6. g = [U \in SUBSET S |->
                IF U = {} THEN 0 ELSE g[U \ {Max(U)}] + f[Max(U)]]
    BY <1>3, <1>4, <1>5
<1>7. I = [U \in SUBSET S |->
                IF U = {} THEN 0 ELSE I[U \ {Max(U)}] + f[Max(U)]]
    BY <1>6
<1> HIDE DEF I
<1> DEFINE G == {U \in SUBSET S : I[U] = g[U]}
<1>8. ASSUME NEW U \in SUBSET S, \A V \in SUBSET U : V # U => V \in G
      PROVE  U \in G
    <2>1. CASE U = {}
        BY <2>1, <1>4, <1>7
    <2>2. CASE U # {}
        <3>1. Max(U) \in U /\ g[U] = g[U \ {Max(U)}] + f[Max(U)]
            BY <1>3, <2>2
        <3>2. I[U] = I[U \ {Max(U)}] + f[Max(U)]
            BY <1>7, <2>2
        <3>3. U \ {Max(U)} \in G
            BY <1>8, <3>1
        <3> QED BY <3>1, <3>2, <3>3
    <2> QED BY <2>1, <2>2
<1>9. G = SUBSET S
    <2> G \in SUBSET (SUBSET S)
        OBVIOUS
    <2> HIDE DEF G
    <2> QED BY <1>2, <1>8, SubsetInduction
<1> QED BY <1>1, <1>5, <1>9 DEF S

\* The number of days up to a day is its place in the order of days.
LEMMA PlaceOfDay ==
    ASSUME NEW daily, IsFiniteSet(DOMAIN daily), DOMAIN daily \subseteq Int
    PROVE  LET N == Cardinality(DOMAIN daily)
               place == [d \in DOMAIN daily |-> Cardinality(UpTo(daily, d))]
           IN  /\ N \in Nat
               /\ place \in [DOMAIN daily -> 1..N]
               /\ \A d, e \in DOMAIN daily : d < e => place[d] < place[e]
               /\ \A k \in 1..N : \E d \in DOMAIN daily : place[d] = k
<1> DEFINE S == DOMAIN daily
           N == Cardinality(S)
           place == [d \in S |-> Cardinality(UpTo(daily, d))]
<1>1. N \in Nat
    BY FS_CardinalityType
<1>2. \A d \in S : UpTo(daily, d) \in SUBSET S /\ d \in UpTo(daily, d)
    BY DEF UpTo
<1>3. \A R \in SUBSET S : /\ IsFiniteSet(R) /\ Cardinality(R) \in Nat
                          /\ Cardinality(R) <= N
    BY FS_Subset, FS_CardinalityType
<1>4. ASSUME NEW d \in S PROVE Cardinality(UpTo(daily, d)) \in 1..N
    <2>1. Cardinality(UpTo(daily, d)) # 0
        BY <1>2, <1>3, FS_EmptySet
    <2> QED BY <1>1, <1>2, <1>3, <2>1
<1>5. ASSUME NEW d \in S, NEW e \in S, d < e
      PROVE  Cardinality(UpTo(daily, d)) < Cardinality(UpTo(daily, e))
    <2> DEFINE A == UpTo(daily, d)
               B == UpTo(daily, e)
    <2>1. A \in SUBSET B /\ A # B
        BY <1>5 DEF UpTo
    <2>2. /\ IsFiniteSet(A) /\ IsFiniteSet(B)
          /\ Cardinality(A) \in Nat /\ Cardinality(B) \in Nat
        BY <1>2, <1>3
    <2> HIDE DEF A, B
    <2>3. Cardinality(A) <= Cardinality(B) /\ Cardinality(A) # Cardinality(B)
        BY <2>1, <2>2, FS_Subset
    <2> QED BY <2>2, <2>3 DEF A, B
<1>6. place \in [S -> 1..N]
    BY <1>4
<1>7. \A d, e \in S : d < e => place[d] < place[e]
    BY <1>5
<1>8. \A d, e \in S : place[d] = place[e] => d = e
    <2> SUFFICES ASSUME NEW d \in S, NEW e \in S, place[d] = place[e]
                 PROVE  d = e
        OBVIOUS
    <2>1. place[d] \in Int /\ d \in Int /\ e \in Int
        BY <1>6
    <2>2. ~(d < e) /\ ~(e < d)
        BY <1>7, <2>1
    <2> QED BY <2>1, <2>2
<1> HIDE DEF place, N
<1>9. place \in Injection(S, 1..N)
    BY <1>6, <1>8 DEF Injection, IsInjective
<1>10. IsFiniteSet(1..N) /\ Cardinality(1..N) = N
    BY <1>1, FS_Interval
<1>11. place \in Surjection(S, 1..N)
    BY <1>9, <1>10, FS_Injection DEF N
<1> QED BY <1>1, <1>6, <1>7, <1>11 DEF Surjection, N, place

\* The days in order are a list of all of them.
LEMMA DaysInOrder ==
    ASSUME NEW daily, IsFiniteSet(DOMAIN daily), DOMAIN daily \subseteq Int
    PROVE  LET N == Cardinality(DOMAIN daily)
               days == InOrder(DOMAIN daily)
           IN  /\ N \in Nat
               /\ days \in [1..N -> DOMAIN daily]
               /\ \A i, j \in 1..N : i < j => days[i] < days[j]
               /\ \A i \in 1..N : Cardinality(UpTo(daily, days[i])) = i
               /\ \A d \in DOMAIN daily : \E i \in 1..N : days[i] = d
<1> DEFINE S == DOMAIN daily
           N == Cardinality(S)
           place == [d \in S |-> Cardinality(UpTo(daily, d))]
           days == InOrder(S)
           back == [k \in 1..N |-> CHOOSE d \in S : place[d] = k]
<1>1. /\ N \in Nat /\ place \in [S -> 1..N]
      /\ \A d, e \in S : d < e => place[d] < place[e]
      /\ \A k \in 1..N : \E d \in S : place[d] = k
    BY PlaceOfDay
<1>2. \A d \in S : place[d] = Cardinality(UpTo(daily, d))
    OBVIOUS
<1> HIDE DEF place, N
<1>3. /\ back \in [1..N -> S]
      /\ \A k \in 1..N : place[back[k]] = k
    BY <1>1
<1>4. \A i, j \in 1..N : i < j => back[i] < back[j]
    <2> SUFFICES ASSUME NEW i \in 1..N, NEW j \in 1..N, i < j,
                        ~(back[i] < back[j])
                 PROVE  FALSE
        OBVIOUS
    <2>1. /\ back[i] \in S /\ back[j] \in S
          /\ place[back[i]] = i /\ place[back[j]] = j
        BY <1>3
    <2>2. back[i] \in Int /\ back[j] \in Int
        BY <2>1
    <2>3. back[i] = back[j] \/ back[j] < back[i]
        BY <2>2
    <2>4. i = j \/ j < i
        BY <1>1, <2>1, <2>3
    <2> QED BY <2>4
<1> HIDE DEF back
<1>5. /\ days \in [1..N -> S]
      /\ \A i, j \in 1..N : i < j => days[i] < days[j]
    BY <1>3, <1>4 DEF InOrder, N
<1> HIDE DEF days
<1>6. \A i, j \in 1..N : days[i] = days[j] => i = j
    <2> SUFFICES ASSUME NEW i \in 1..N, NEW j \in 1..N, days[i] = days[j],
                        i # j
                 PROVE  FALSE
        OBVIOUS
    <2>1. days[i] \in Int /\ (i < j \/ j < i)
        BY <1>5
    <2> QED BY <1>5, <2>1
<1>7. \A d \in S : \E i \in 1..N : days[i] = d
    <2>1. days \in Injection(1..N, S)
        BY <1>5, <1>6 DEF Injection, IsInjective
    <2>2. Cardinality(1..N) = Cardinality(S)
        BY <1>1, FS_Interval DEF N
    <2>3. days \in Surjection(1..N, S)
        BY <2>1, <2>2, FS_Injection
    <2> QED BY <2>3 DEF Surjection
<1>8. ASSUME NEW i \in 1..N PROVE Cardinality(UpTo(daily, days[i])) = i
    <2> DEFINE U == UpTo(daily, days[i])
               b == [k \in 1..i |-> days[k]]
    <2>1. U = {d \in S : d <= days[i]} /\ \A k \in 1..i : k \in 1..N
        BY <1>1 DEF UpTo
    <2>2. ASSUME NEW k \in 1..N PROVE days[k] <= days[i] <=> k <= i
        <3>1. /\ days[k] \in Int /\ days[i] \in Int /\ k \in Int /\ i \in Int
              /\ k < i => days[k] < days[i]
              /\ i < k => days[i] < days[k]
            BY <1>5
        <3> QED BY <3>1
    <2>3. b \in [1..i -> U]
        BY <1>5, <2>1, <2>2
    <2>4. \A d \in U : \E k \in 1..i : b[k] = d
        <3> TAKE d \in U
        <3>1. PICK k \in 1..N : days[k] = d
            BY <1>7, <2>1
        <3>2. k \in 1..i
            BY <2>1, <2>2, <3>1
        <3> QED BY <3>1, <3>2
    <2>5. \A j, k \in 1..i : b[j] = b[k] => j = k
        BY <1>6, <2>1
    <2> HIDE DEF b, U
    <2>6. b \in Bijection(1..i, U)
        BY <2>3, <2>4, <2>5 DEF Bijection, Injection, IsInjective, Surjection
    <2>7. IsFiniteSet(1..i) /\ Cardinality(1..i) = i
        BY FS_Interval
    <2>8. Cardinality(U) = i
        BY <2>6, <2>7, FS_Bijection DEF ExistsBijection
    <2> QED BY <2>8 DEF U
<1> QED BY <1>1, <1>5, <1>7, <1>8 DEF N, days

\* A frame of n holds the last n days up to a day.
LEMMA FrameInOrder ==
    ASSUME NEW daily, IsFiniteSet(DOMAIN daily), DOMAIN daily \subseteq Int,
           NEW i \in 1..Cardinality(DOMAIN daily), NEW n \in Nat \ {0}
    PROVE  LET days == InOrder(DOMAIN daily)
               F == Frame(daily, days[i], n)
           IN  /\ \A d \in F : \E j \in 1..i : j > i - n /\ d = days[j]
               /\ \A j \in 1..Cardinality(DOMAIN daily) :
                    days[j] \in F <=> j <= i /\ j > i - n
<1> DEFINE S == DOMAIN daily
           N == Cardinality(S)
           days == InOrder(S)
           F == Frame(daily, days[i], n)
<1>1. /\ N \in Nat
      /\ days \in [1..N -> S]
      /\ \A j, k \in 1..N : j < k => days[j] < days[k]
      /\ \A j \in 1..N : Cardinality(UpTo(daily, days[j])) = j
      /\ \A d \in S : \E j \in 1..N : days[j] = d
    BY DaysInOrder
<1>2. \A d \in S : d \in Int
    OBVIOUS
<1> HIDE DEF days, N
<1>3. i \in 1..N
    BY DEF N
<1>4. ASSUME NEW j \in 1..N, NEW k \in 1..N
      PROVE  days[j] <= days[k] <=> j <= k
    <2>1. /\ days[j] \in Int /\ days[k] \in Int /\ j \in Int /\ k \in Int
          /\ j < k => days[j] < days[k]
          /\ k < j => days[k] < days[j]
        BY <1>1, <1>2
    <2> QED BY <2>1
<1>5. ASSUME NEW j \in 1..i
      PROVE  Cardinality(After(daily, days[j], days[i])) = i - j
    <2> DEFINE A == UpTo(daily, days[j])
               B == After(daily, days[j], days[i])
               C == UpTo(daily, days[i])
    <2>1. j \in 1..N /\ days[j] <= days[i]
        BY <1>1, <1>3, <1>4
    <2>2. /\ days[j] \in Int /\ days[i] \in Int
        BY <1>1, <1>2, <1>3, <2>1
    <2>3. A \union B = C /\ A \intersect B = {}
        <3>1. \A d \in S : /\ d <= days[j] => d <= days[i]
                           /\ d <= days[i] => d <= days[j] \/ days[j] < d
                           /\ ~(d <= days[j] /\ days[j] < d)
            BY <1>2, <2>1, <2>2
        <3> QED BY <3>1 DEF UpTo, After
    <2>4. IsFiniteSet(A) /\ IsFiniteSet(B)
        BY FS_Subset DEF UpTo, After
    <2>5. Cardinality(A) = j /\ Cardinality(C) = i
        BY <1>1, <1>3, <2>1
    <2> HIDE DEF A, B, C
    <2>6. /\ Cardinality(A \union B) =
                Cardinality(A) + Cardinality(B) - Cardinality(A \intersect B)
          /\ Cardinality(A \intersect B) = 0
        BY <2>3, <2>4, FS_Union, FS_EmptySet
    <2>7. Cardinality(B) \in Nat
        BY <2>4, FS_CardinalityType
    <2>8. i = j + Cardinality(B) - 0
        BY <2>3, <2>5, <2>6
    <2>9. Cardinality(B) = i - j
        BY <2>7, <2>8
    <2> QED BY <2>9 DEF B
<1>6. ASSUME NEW j \in 1..N
      PROVE  days[j] \in F <=> j <= i /\ j > i - n
    <2>1. days[j] \in F <=>
            /\ days[j] <= days[i]
            /\ Cardinality(After(daily, days[j], days[i])) < n
        BY <1>1 DEF Frame, After
    <2>2. days[j] <= days[i] <=> j <= i
        BY <1>3, <1>4
    <2>3. CASE j <= i
        <3>1. Cardinality(After(daily, days[j], days[i])) = i - j
            BY <1>5, <2>3
        <3>2. i - j < n <=> j > i - n
            OBVIOUS
        <3> QED BY <2>1, <2>2, <2>3, <3>1, <3>2
    <2>4. CASE ~(j <= i)
        BY <2>1, <2>2, <2>4
    <2> QED BY <2>3, <2>4
<1>7. F \in SUBSET S
    BY DEF Frame
<1> HIDE DEF F
<1>8. ASSUME NEW d \in F PROVE \E j \in 1..i : j > i - n /\ d = days[j]
    <2>1. PICK j \in 1..N : days[j] = d
        BY <1>1, <1>7
    <2>2. j <= i /\ j > i - n
        BY <1>6, <2>1
    <2> QED BY <2>1, <2>2
<1> QED BY <1>6, <1>8 DEF days, F, N

\* The sum of a full frame is that of the last n closes in order of date.
LEMMA SumOfFrame ==
    ASSUME NEW daily, IsFiniteSet(DOMAIN daily), DOMAIN daily \subseteq Int,
           NEW f, \A d \in DOMAIN daily : f[d] \in Int,
           NEW i \in 1..Cardinality(DOMAIN daily), NEW n \in Nat \ {0},
           i >= n, NEW last,
           \A k \in 1..n : last[k] = f[InOrder(DOMAIN daily)[i - n + k]]
    PROVE  LET F == Frame(daily, InOrder(DOMAIN daily)[i], n)
           IN  /\ \A k \in 1..n : last[k] \in Int
               /\ SumFunctionOnSet(f, F) = SumFunctionOnSet(last, 1..n)
<1> DEFINE S == DOMAIN daily
           N == Cardinality(S)
           days == InOrder(S)
           F == Frame(daily, days[i], n)
           K == 1..n
           b == [k \in K |-> days[i - n + k]]
<1>1. /\ N \in Nat
      /\ days \in [1..N -> S]
      /\ \A j, k \in 1..N : j < k => days[j] < days[k]
    BY DaysInOrder
<1>2. /\ \A d \in F : \E j \in 1..i : j > i - n /\ d = days[j]
      /\ \A j \in 1..N : days[j] \in F <=> j <= i /\ j > i - n
    BY FrameInOrder
<1>3. F \in SUBSET S /\ \A k \in K : last[k] = f[days[i - n + k]]
    BY DEF Frame
<1>4. \A d \in S : d \in Int
    OBVIOUS
<1> HIDE DEF days, N, F
<1>5. i \in 1..N
    BY DEF N
<1>6. \A k \in K : i - n + k \in 1..N /\ i - n + k <= i /\ i - n + k > i - n
    BY <1>1, <1>5
<1>7. \A k \in K : b[k] \in F /\ last[k] = f[b[k]]
    BY <1>2, <1>3, <1>6
<1>8. \A k, l \in K : b[k] = b[l] => k = l
    <2> SUFFICES ASSUME NEW k \in K, NEW l \in K,
                        days[i - n + k] = days[i - n + l]
                 PROVE  k = l
        OBVIOUS
    <2> DEFINE x == i - n + k
               y == i - n + l
    <2>1. x \in 1..N /\ y \in 1..N /\ days[x] = days[y]
        BY <1>6
    <2> HIDE DEF x, y
    <2>2. days[x] \in Int /\ days[y] \in Int
        BY <1>1, <1>4, <2>1
    <2>3. x \in Int /\ y \in Int /\ ~(x < y) /\ ~(y < x)
        BY <1>1, <2>1, <2>2
    <2>4. x = y
        BY <2>3
    <2> QED BY <2>4 DEF x, y
<1>9. \A d \in F : \E k \in K : b[k] = d
    <2> TAKE d \in F
    <2>1. PICK j \in 1..i : j > i - n /\ d = days[j]
        BY <1>2
    <2>2. j - (i - n) \in K /\ i - n + (j - (i - n)) = j
        BY <2>1
    <2> QED BY <2>1, <2>2
<1>10. \A d \in F : f[d] \in Int
    BY <1>3
<1>11. IsFiniteSet(K)
    BY FS_Interval
<1>12. /\ \A k \in K : b[k] \in F
       /\ \A k \in K : last[k] = f[b[k]]
    BY <1>7
<1>13. \A k \in K : last[k] \in Int
    BY <1>10, <1>12
<1> HIDE DEF b, K
<1>14. SumFunctionOnSet(last, K) = SumFunctionOnSet(f, F)
    BY <1>8, <1>9, <1>10, <1>11, <1>12, SumReindex
<1> QED BY <1>13, <1>14 DEF K, F, days

\* An average of integers over n rows that lies below c has a row below c.
LEMMA BelowAverage ==
    ASSUME NEW S, IsFiniteSet(S), NEW f, \A x \in S : f[x] \in Int,
           NEW c \in Int, c * Cardinality(S) > SumFunctionOnSet(f, S)
    PROVE  \E x \in S : f[x] < c
<1> SUFFICES ASSUME \A x \in S : c <= f[x] PROVE FALSE
    OBVIOUS
<1> DEFINE one == [x \in S |-> 1]
<1>1. \A x \in S : one[x] = 1 /\ one[x] \in Int /\ c * one[x] <= f[x]
    OBVIOUS
<1> HIDE DEF one
<1>2. SumFunctionOnSet(one, S) = Cardinality(S)
    BY <1>1, SumOnes
<1>3. c * SumFunctionOnSet(one, S) <= SumFunctionOnSet(f, S)
    BY <1>1, SumAbove
<1>4. SumFunctionOnSet(f, S) \in Int /\ Cardinality(S) \in Int
    BY SumInt, FS_CardinalityType
<1> QED BY <1>2, <1>3, <1>4

\* An average of integers over n rows that lies above c has a row above c.
LEMMA AboveAverage ==
    ASSUME NEW S, IsFiniteSet(S), NEW f, \A x \in S : f[x] \in Int,
           NEW c \in Int, c * Cardinality(S) < SumFunctionOnSet(f, S)
    PROVE  \E x \in S : f[x] > c
<1> SUFFICES ASSUME \A x \in S : f[x] <= c PROVE FALSE
    OBVIOUS
<1> DEFINE one == [x \in S |-> 1]
<1>1. \A x \in S : one[x] = 1 /\ one[x] \in Int /\ f[x] <= c * one[x]
    OBVIOUS
<1> HIDE DEF one
<1>2. SumFunctionOnSet(one, S) = Cardinality(S)
    BY <1>1, SumOnes
<1>3. SumFunctionOnSet(f, S) <= c * SumFunctionOnSet(one, S)
    BY <1>1, SumBelow
<1>4. SumFunctionOnSet(f, S) \in Int /\ Cardinality(S) \in Int
    BY SumInt, FS_CardinalityType
<1> QED BY <1>2, <1>3, <1>4

\* Of two averages of integers the higher has a row above some row of the
\* lower.
LEMMA HigherAverage ==
    ASSUME NEW S, IsFiniteSet(S), NEW R, IsFiniteSet(R), R # {},
           NEW f, \A x \in S \union R : f[x] \in Int,
           SumFunctionOnSet(f, S) * Cardinality(R)
                > SumFunctionOnSet(f, R) * Cardinality(S)
    PROVE  \E x \in S, y \in R : f[x] > f[y]
<1> SUFFICES ASSUME \A x \in S, y \in R : f[x] <= f[y] PROVE FALSE
    OBVIOUS
<1>1. PICK l \in R : \A y \in R : f[l] <= f[y]
    BY Least
<1> DEFINE c == f[l]
           one == [x \in S \union R |-> 1]
           A == SumFunctionOnSet(f, S)
           B == SumFunctionOnSet(f, R)
           m == Cardinality(S)
           n == Cardinality(R)
<1>2. c \in Int
    OBVIOUS
<1>3. /\ \A x \in S : one[x] = 1 /\ one[x] \in Int /\ f[x] <= c * one[x]
      /\ \A y \in R : one[y] = 1 /\ one[y] \in Int /\ c * one[y] <= f[y]
    BY <1>1
<1> HIDE DEF one, c
<1>4. SumFunctionOnSet(one, S) = m /\ SumFunctionOnSet(one, R) = n
    BY <1>3, SumOnes
<1>5. A <= c * m
    BY <1>2, <1>3, <1>4, SumBelow
<1>6. c * n <= B
    BY <1>2, <1>3, <1>4, SumAbove
<1>7. A \in Int /\ B \in Int /\ m \in Nat /\ n \in Nat
    BY SumInt, FS_CardinalityType
<1>8. A * n > B * m
    OBVIOUS
<1> HIDE DEF A, B, m, n
<1>9. \A x, y, z \in Int : x <= y /\ z >= 0 => x * z <= y * z
    OBVIOUS
<1>10. A * n <= (c * m) * n /\ (c * n) * m <= B * m
    BY <1>2, <1>5, <1>6, <1>7, <1>9
<1>11. (c * m) * n = (c * n) * m
    BY <1>2, <1>7
<1>12. (c * m) * n \in Int /\ A * n \in Int /\ B * m \in Int
    BY <1>2, <1>7
<1> QED BY <1>8, <1>10, <1>11, <1>12

\* What the runs check of one day of the table of averages, for any finite
\* history of days.
LEMMA AveragesOfDay ==
    ASSUME NEW daily, IsFiniteSet(DOMAIN daily), DOMAIN daily \subseteq Int,
           \A d \in DOMAIN daily : daily[d].close \in Int,
           NEW i \in 1..Cardinality(DOMAIN daily)
    PROVE  AverageOK(daily, i)
<1> DEFINE S == DOMAIN daily
           N == Cardinality(S)
           days == InOrder(S)
           d == days[i]
           avg(n) == MovingAverage(daily, d, n)
           row == MovingAverages(daily)[d]
           c == daily[d].close
           f == [e \in S |-> daily[e].close]
           F(n) == Frame(daily, d, n)
           LastCloses(n) == [k \in 1..n |-> daily[days[i - n + k]].close]
           InDateOrder(n) == FoldLeft(+, 0, LastCloses(n))
<1>1. /\ days \in [1..N -> S] /\ N \in Nat
      /\ Cardinality(UpTo(daily, d)) = i
    BY DaysInOrder
<1>2. d \in S /\ i \in Nat
    BY <1>1
<1>3. \A e \in S : f[e] \in Int
    OBVIOUS
<1>4. c \in Int
    BY <1>2
<1>5. /\ row.sma_short = avg(ShortDays) /\ row.sma_long = avg(LongDays)
      /\ row.trend = Trend(c, avg(ShortDays), avg(LongDays))
      /\ row.cross = Cross(avg(ShortDays), avg(LongDays))
      /\ row.days_of_history = i
    BY <1>1, <1>2 DEF MovingAverages, UpTo
<1>6. ASSUME NEW n \in Nat \ {0}
      PROVE  /\ avg(n).n = n
             /\ avg(n).valid <=> i >= n
             /\ avg(n).sum = SumFunctionOnSet(f, F(n))
             /\ F(n) \in SUBSET S /\ IsFiniteSet(F(n))
             /\ avg(n).valid <=> Cardinality(F(n)) = n
             /\ \A e \in F(n) : \E j \in 1..i : j > i - n /\ e = days[j]
             /\ avg(n).valid => avg(n).sum = InDateOrder(n)
    <2> DEFINE g == [e \in F(n) |-> daily[e].close]
    <2>1. /\ avg(n).n = n /\ avg(n).sum = SumFunction(g)
          /\ avg(n).valid <=> Cardinality(F(n)) = n
        BY DEF MovingAverage
    <2>2. F(n) \in SUBSET S /\ IsFiniteSet(F(n))
        BY FS_Subset DEF Frame
    <2>3. avg(n).valid <=> i >= n
        BY <1>1, <1>2, AverageNeedsItsDays DEF UpTo
    <2> DEFINE last == LastCloses(n)
    <2>4. SumFunction(g) = SumFunctionOnSet(f, F(n))
        <3>1. SumFunction(g) = SumFunctionOnSet(g, F(n))
            BY DEF SumFunction
        <3>2. \A e \in F(n) : g[e] = f[e] /\ f[e] \in Int /\ g[e] \in Int
            BY <2>2
        <3> HIDE DEF g, f, F
        <3>3. SumFunctionOnSet(g, F(n)) = SumFunctionOnSet(f, F(n))
            BY <2>2, <3>2, SumAgree
        <3> QED BY <3>1, <3>3
    <2>5. ASSUME i >= n
          PROVE  \A k \in 1..n : last[k] = f[days[i - n + k]]
        <3> TAKE k \in 1..n
        <3>1. i - n + k \in 1..N
            BY <1>1, <2>5
        <3>2. days[i - n + k] \in S
            BY <1>1, <3>1
        <3> QED BY <3>2
    <2>6. last = [k \in 1..n |-> last[k]] /\ DOMAIN last = 1..n
        OBVIOUS
    <2> HIDE DEF g, f, avg, last
    <2>7. ASSUME i >= n PROVE avg(n).sum = FoldLeft(+, 0, last)
        <3>1. /\ \A k \in 1..n : last[k] \in Int
              /\ SumFunctionOnSet(f, F(n)) = SumFunctionOnSet(last, 1..n)
            BY <1>3, <2>5, <2>7, SumOfFrame
        <3>2. last \in [1..n -> Int]
            BY <2>6, <3>1
        <3>3. FoldLeft(+, 0, last) = SumFunctionOnSet(last, 1..n)
            BY <3>2, FoldLeftIsSum
        <3> QED BY <2>1, <2>4, <3>1, <3>3
    <2>8. \A e \in F(n) : \E j \in 1..i : j > i - n /\ e = days[j]
        BY FrameInOrder
    <2>9. i >= n => avg(n).sum = InDateOrder(n)
        BY <2>7 DEF last
    <2> HIDE DEF F, InDateOrder, LastCloses
    <2> QED BY <2>1, <2>2, <2>3, <2>4, <2>8, <2>9
<1>7. f[d] = c /\ \A e \in S : f[e] = daily[e].close
    BY <1>2
<1>8. ShortDays \in Nat \ {0} /\ LongDays \in Nat \ {0}
    BY GoldAssumption
<1> HIDE DEF days, d, avg, row, c, f, F, LastCloses, InDateOrder, N
<1> DEFINE m == ShortDays
           n == LongDays
           enough == i >= m /\ i >= n
<1>9. /\ avg(m).valid <=> i >= m
      /\ avg(n).valid <=> i >= n
      /\ avg(m).n = m /\ avg(n).n = n
      /\ avg(m).valid => avg(m).sum = InDateOrder(m)
      /\ avg(n).valid => avg(n).sum = InDateOrder(n)
    BY <1>6, <1>8
<1>10. enough => InDateOrder(m) \in Int /\ InDateOrder(n) \in Int
    <2>1. ASSUME NEW w \in Nat \ {0}
          PROVE  avg(w).sum \in Int
        <3>1. IsFiniteSet(F(w)) /\ \A e \in F(w) : f[e] \in Int
            BY <1>3, <1>6
        <3>2. SumFunctionOnSet(f, F(w)) \in Int
            BY <3>1, SumInt
        <3> QED BY <1>6, <3>2
    <2> QED BY <1>8, <1>9, <2>1
<1> HIDE DEF m, n
<1>11. m \in Nat \ {0} /\ n \in Nat \ {0}
    BY <1>8 DEF m, n
<1>12. row.trend = Trend(c, avg(m), avg(n)) /\ row.cross = Cross(avg(m), avg(n))
    BY <1>5 DEF m, n
\* The signals in terms of the means.
<1>13. /\ row.trend = "above_both" <=>
            /\ enough
            /\ c * m > InDateOrder(m) /\ c * n > InDateOrder(n)
       /\ row.trend = "below_both" <=>
            /\ enough
            /\ c * m < InDateOrder(m) /\ c * n < InDateOrder(n)
       /\ row.trend = "insufficient_history" <=> ~enough
       /\ row.trend \in {"above_both", "below_both", "mixed",
                         "insufficient_history"}
    <2>1. CASE ~enough
        <3>1. ~avg(m).valid \/ ~avg(n).valid
            BY <1>9, <2>1
        <3>2. row.trend = "insufficient_history"
            BY <1>12, <3>1 DEF Trend
        <3> QED BY <2>1, <3>2
    <2>2. CASE enough
        <3> DEFINE above == c * m > InDateOrder(m) /\ c * n > InDateOrder(n)
                   below == c * m < InDateOrder(m) /\ c * n < InDateOrder(n)
        <3>1. avg(m).valid /\ avg(n).valid
            BY <1>9, <2>2
        <3>2. /\ Over(c, avg(m)) <=> c * m > InDateOrder(m)
              /\ Over(c, avg(n)) <=> c * n > InDateOrder(n)
              /\ Under(c, avg(m)) <=> c * m < InDateOrder(m)
              /\ Under(c, avg(n)) <=> c * n < InDateOrder(n)
            BY <1>9, <3>1 DEF Over, Under
        <3>3. row.trend = IF above THEN "above_both"
                          ELSE IF below THEN "below_both" ELSE "mixed"
            BY <1>12, <3>1, <3>2 DEF Trend
        <3>4. ~(above /\ below)
            <4>1. c * m \in Int
                BY <1>4, <1>11
            <4> QED BY <1>10, <2>2, <4>1
        <3> HIDE DEF above, below
        <3>5. /\ row.trend = "above_both" <=> above
              /\ row.trend = "below_both" <=> below
              /\ row.trend \in {"above_both", "below_both", "mixed"}
            BY <3>3, <3>4
        <3> QED BY <2>2, <3>5 DEF above, below
    <2> QED BY <2>1, <2>2
<1>14. /\ row.cross = "golden_cross_zone" <=>
            enough /\ InDateOrder(m) * n > InDateOrder(n) * m
       /\ row.cross = "death_cross_zone" <=>
            enough /\ InDateOrder(m) * n < InDateOrder(n) * m
       /\ row.cross = "at_crossover" <=>
            enough /\ InDateOrder(m) * n = InDateOrder(n) * m
    <2>1. CASE ~enough
        <3>1. ~avg(m).valid \/ ~avg(n).valid
            BY <1>9, <2>1
        <3>2. row.cross = "null"
            BY <1>12, <3>1 DEF Cross
        <3> QED BY <2>1, <3>2
    <2>2. CASE enough
        <3> DEFINE x == InDateOrder(m) * n
                   y == InDateOrder(n) * m
        <3>1. avg(m).valid /\ avg(n).valid
            BY <1>9, <2>2
        <3>2. row.cross = IF x > y THEN "golden_cross_zone"
                          ELSE IF x < y THEN "death_cross_zone"
                          ELSE "at_crossover"
            BY <1>9, <1>12, <3>1 DEF Cross
        <3>3. x \in Int /\ y \in Int
            BY <1>10, <1>11, <2>2
        <3> HIDE DEF x, y
        <3>4. /\ row.cross = "golden_cross_zone" <=> x > y
              /\ row.cross = "death_cross_zone" <=> x < y
              /\ row.cross = "at_crossover" <=> x = y
            BY <3>2, <3>3
        <3> QED BY <2>2, <3>4 DEF x, y
    <2> QED BY <2>1, <2>2
\* The signals in terms of single closes.
<1>15. ASSUME enough
       PROVE  /\ Cardinality(F(m)) = m /\ Cardinality(F(n)) = n
              /\ InDateOrder(m) = SumFunctionOnSet(f, F(m))
              /\ InDateOrder(n) = SumFunctionOnSet(f, F(n))
              /\ F(m) \in SUBSET S /\ F(n) \in SUBSET S
              /\ IsFiniteSet(F(m)) /\ IsFiniteSet(F(n))
              /\ F(m) # {} /\ F(n) # {}
    <2>1. avg(m).valid /\ avg(n).valid
        BY <1>9, <1>15
    <2>2. ASSUME NEW w \in Nat \ {0}, avg(w).valid
          PROVE  /\ Cardinality(F(w)) = w /\ InDateOrder(w) = avg(w).sum
                 /\ avg(w).sum = SumFunctionOnSet(f, F(w))
                 /\ F(w) \in SUBSET S /\ IsFiniteSet(F(w)) /\ F(w) # {}
        BY <1>6, <2>2, FS_EmptySet
    <2> QED BY <1>11, <2>1, <2>2
<1>16. ASSUME NEW e, e \in F(m)
       PROVE  \E k \in 1..i : k > i - m /\ f[e] = daily[days[k]].close
    <2>1. e \in S /\ \E k \in 1..i : k > i - m /\ e = days[k]
        BY <1>6, <1>11, <1>16
    <2> QED BY <1>7, <2>1
<1>17. ASSUME NEW e, e \in F(n)
       PROVE  \E k \in 1..i : k > i - n /\ f[e] = daily[days[k]].close
    <2>1. e \in S /\ \E k \in 1..i : k > i - n /\ e = days[k]
        BY <1>6, <1>11, <1>17
    <2> QED BY <1>7, <2>1
<1>18. enough => \A e \in F(m) \union F(n) : f[e] \in Int
    BY <1>3, <1>15
<1>19. ASSUME row.trend = "above_both"
       PROVE  \E k \in 1..i : k > i - m /\ daily[days[k]].close < c
    <2>1. enough /\ c * Cardinality(F(m)) > SumFunctionOnSet(f, F(m))
        BY <1>13, <1>15, <1>19
    <2>2. PICK e \in F(m) : f[e] < c
        BY <1>4, <1>15, <1>18, <2>1, BelowAverage
    <2> QED BY <1>16, <2>2
<1>20. ASSUME row.trend = "below_both"
       PROVE  \E k \in 1..i : k > i - m /\ daily[days[k]].close > c
    <2>1. enough /\ c * Cardinality(F(m)) < SumFunctionOnSet(f, F(m))
        BY <1>13, <1>15, <1>20
    <2>2. PICK e \in F(m) : f[e] > c
        BY <1>4, <1>15, <1>18, <2>1, AboveAverage
    <2> QED BY <1>16, <2>2
<1>21. ASSUME row.cross = "golden_cross_zone"
       PROVE  \E j, k \in 1..i :
                /\ j > i - m /\ k > i - n
                /\ daily[days[j]].close > daily[days[k]].close
    <2>1. /\ enough
          /\ SumFunctionOnSet(f, F(m)) * Cardinality(F(n))
                > SumFunctionOnSet(f, F(n)) * Cardinality(F(m))
        BY <1>14, <1>15, <1>21
    <2>2. PICK x \in F(m), y \in F(n) : f[x] > f[y]
        BY <1>15, <1>18, <2>1, HigherAverage
    <2> QED BY <1>16, <1>17, <2>2
<1>22. ASSUME row.cross = "death_cross_zone"
       PROVE  \E j, k \in 1..i :
                /\ j > i - m /\ k > i - n
                /\ daily[days[j]].close < daily[days[k]].close
    <2>1. /\ enough
          /\ SumFunctionOnSet(f, F(n)) * Cardinality(F(m))
                > SumFunctionOnSet(f, F(m)) * Cardinality(F(n))
        BY <1>14, <1>15, <1>22
    <2>2. PICK y \in F(n), x \in F(m) : f[y] > f[x]
        BY <1>15, <1>18, <2>1, HigherAverage
    <2>3. f[x] < f[y]
        BY <2>2
    <2> QED BY <1>16, <1>17, <2>2, <2>3
<1>23. \A v \in {row.sma_short, row.sma_long} :
            /\ v.valid <=> i >= v.n
            /\ v.valid => v.sum = InDateOrder(v.n)
    BY <1>5, <1>9 DEF m, n
<1> QED
    BY <1>5, <1>13, <1>14, <1>19, <1>20, <1>21, <1>22, <1>23
    DEF AverageOK, days, d, row, c, LastCloses, InDateOrder, m, n, S

\* The table of days of a set of trades is a finite history with closes.
LEMMA HistoryOfTrades ==
    ASSUME NEW T \in SUBSET Trades
    PROVE  LET daily == DailyTable(T)
           IN  /\ IsFiniteSet(DOMAIN daily) /\ DOMAIN daily \subseteq Int
               /\ \A d \in DOMAIN daily : daily[d].close \in Int
<1> DEFINE daily == DailyTable(T)
           D == [t \in T |-> Day(t.time)]
<1>1. /\ DOMAIN daily = {Day(t.time) : t \in T}
      /\ \A d \in DOMAIN daily : /\ OfDay(T, d) \in SUBSET T
                                 /\ Tells(daily[d], OfDay(T, d))
    BY DailyTells
<1>2. \A t \in T : Day(t.time) \in Int /\ t.price \in Int
    BY TradesAssumption, DivFloor, GoldAssumption DEF Day
<1>3. IsFiniteSet(DOMAIN daily)
    <2>1. D \in Surjection(T, DOMAIN daily)
        BY <1>1 DEF Surjection
    <2>2. IsFiniteSet(T)
        BY TradesAssumption, FS_Subset
    <2> HIDE DEF D
    <2> QED BY <2>1, <2>2, FS_Surjection
<1>4. \A d \in DOMAIN daily : daily[d].close \in Int
    BY <1>1, <1>2 DEF Tells, EndsOf
<1> QED BY <1>1, <1>2, <1>3, <1>4

\* The moving averages are what their names say, for every set of trades and
\* both frame lengths, whatever days are missing in between: shown exactly when
\* the history is long enough, the mean of the last closes in order of date,
\* and trend and cross follow from actual closes.
THEOREM AveragesHold == Spec => []AveragesOK
<1>1. got \in [Slots -> SUBSET Trades] => AveragesOK
    <2> SUFFICES ASSUME got \in [Slots -> SUBSET Trades], NEW s \in Slots
                 PROVE  LET daily == DailyTable(got[s])
                        IN  \A i \in 1..Cardinality(DOMAIN daily) :
                                AverageOK(daily, i)
        BY DEF AveragesOK
    <2> DEFINE daily == DailyTable(got[s])
    <2>1. /\ IsFiniteSet(DOMAIN daily) /\ DOMAIN daily \subseteq Int
          /\ \A d \in DOMAIN daily : daily[d].close \in Int
        BY HistoryOfTrades
    <2> HIDE DEF daily
    <2> QED BY <2>1, AveragesOfDay DEF daily
<1> QED BY GotTrades, <1>1, PTL
=============================================================================
