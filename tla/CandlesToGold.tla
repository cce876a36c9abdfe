---------------------------- MODULE CandlesToGold ----------------------------
(***************************************************************************)
(* The way of trades into Gold: through minute candles to gold_daily_ohlcv *)
(* and gold_moving_averages, and as single trades to the hourly and the    *)
(* 24-hour tables.  The sets of trades are those of the accumulators of    *)
(* OHLCVCombine, which here may span many minutes.                         *)
(***************************************************************************)
EXTENDS OHLCVCombine, GoldModels, Sequences, SequencesExt

CONSTANT MinuteSize   \* WINDOW_SIZE_SECONDS, in units of trade_time_ms

ASSUME MinuteAssumption ==
    /\ MinuteSize \in Nat \ {0}
    /\ HourSize % MinuteSize = 0 /\ DaySize % HourSize = 0

Within(T, unit(_), u) == {t \in T : unit(t.time) = u}
Minute(t) == t \div MinuteSize

\* What OHLCVCombineFn makes of trades, added one by one.
CandleOf(T) == FoldSet(LAMBDA t, a : AddInput(a, t), Empty, T)

\* silver_curated.ohlcv_1min when all trades of T are in their candles.
MinuteRows(T) ==
    {Row(m * MinuteSize, 0, CandleOf(Within(T, Minute, m))) :
        m \in {Minute(t.time) : t \in T}}

DailyTable(T) == DailyOHLCV(Validated(MinuteRows(T)))

\* gold_daily_ohlcv of minute candles says of each day what one candle over
\* the whole day would say: rolled up twice, through the filter of the view,
\* nothing is lost, and the first and last minute give open and close.
DailyIsCandle == \A s \in Slots :
    LET daily == DailyTable(got[s])
    IN  /\ DOMAIN daily = {Day(t.time) : t \in got[s]}
        /\ \A d \in DOMAIN daily :
            LET T == Within(got[s], Day, d)
                c == Reference(T)
            IN  /\ ExtremesOf(daily[d], T)
                /\ \E t \in T : t.time = c.first /\ t.price = daily[d].open
                /\ \E t \in T : t.time = c.last /\ t.price = daily[d].close
                /\ daily[d].volume = c.volume /\ daily[d].count = c.count
                /\ daily[d].candles = Cardinality({Minute(t.time) : t \in T})

\* The tables made from candles and those made from single trades agree: the
\* hours of a day add up to its candle, and the 24-hour row of a single day
\* has its extremes, its volume and, ties apart, its open and close.  In
\* general this row counts every trade of an hour that begins no earlier than
\* 24 hours before the newest trade, and none of one that has ended by then.
\* VWAP is between the low and the high.
GoldAgrees == \A s \in Slots :
    LET T == got[s]
        daily == DailyTable(T)
        hourly == HourlyVolume(T)
        HoursOf(d) == {h \in DOMAIN hourly : Day(h * HourSize) = d}
        Inside == {h \in DOMAIN hourly :
                    \A u \in T : h * HourSize >= u.time - DaySize}
        Touching == {h \in DOMAIN hourly :
                    \A u \in T : (h + 1) * HourSize > u.time - DaySize}
        CountOf(H) == SumFunction([h \in H |-> hourly[h].count])
    IN  /\ \A d \in DOMAIN daily :
            /\ daily[d].volume =
                    SumFunction([h \in HoursOf(d) |-> hourly[h].notional])
            /\ daily[d].count = CountOf(HoursOf(d))
            /\ daily[d].high = Max({hourly[h].high : h \in HoursOf(d)})
        /\ \A v \in {hourly[h] : h \in DOMAIN hourly}
                    \union {r.of : r \in PriceStats(T)} :
            /\ v.low * v.quantity <= v.notional
            /\ v.notional <= v.high * v.quantity
        /\ \A d \in DOMAIN daily : DOMAIN daily = {d} =>
            \E r \in PriceStats(T) :
                /\ r.open = daily[d].open /\ r.close = daily[d].close
                /\ r.of.high = daily[d].high /\ r.of.low = daily[d].low
                /\ r.of.notional = daily[d].volume
        /\ \A r \in PriceStats(T) :
            CountOf(Inside) <= r.of.count /\ r.of.count <= CountOf(Touching)

\* A set of numbers as an increasing sequence.
InOrder(S) == CHOOSE seq \in [1..Cardinality(S) -> S] :
                \A i, j \in 1..Cardinality(S) : i < j => seq[i] < seq[j]

\* Row i of gold_moving_averages, in order of date, says what it seems to say.
\* A moving average is shown exactly when there are that many days of history
\* (assert_sma_7d_lte_enough_days.sql) and is then the mean of the last closes,
\* whatever days are missing in between.  Each value of the trend and of the
\* cross signal stands for one relation of the close and of these means, ties
\* included, and is borne out by actual closes.
AverageOK(daily, i) ==
    LET days == InOrder(DOMAIN daily)
        row == MovingAverages(daily)[days[i]]
        Close(k) == daily[days[k]].close
        LastSum(w) == FoldLeft(+, 0, [k \in 1..w |-> Close(i - w + k)])
        m == ShortDays
        n == LongDays
        enough == i >= m /\ i >= n
    IN  /\ row.days_of_history = i
        /\ \A avg \in {row.sma_short, row.sma_long} :
            /\ avg.valid <=> i >= avg.n
            /\ avg.valid => avg.sum = LastSum(avg.n)
        /\ row.trend = "above_both" <=>
            /\ enough
            /\ Close(i) * m > LastSum(m) /\ Close(i) * n > LastSum(n)
        /\ row.trend = "below_both" <=>
            /\ enough
            /\ Close(i) * m < LastSum(m) /\ Close(i) * n < LastSum(n)
        /\ row.trend = "insufficient_history" <=> ~enough
        /\ row.trend \in {"above_both", "below_both", "mixed",
                          "insufficient_history"}
        /\ row.cross = "golden_cross_zone" <=>
            enough /\ LastSum(m) * n > LastSum(n) * m
        /\ row.cross = "death_cross_zone" <=>
            enough /\ LastSum(m) * n < LastSum(n) * m
        /\ row.cross = "at_crossover" <=>
            enough /\ LastSum(m) * n = LastSum(n) * m
        /\ row.trend = "above_both" =>
            \E k \in 1..i : k > i - m /\ Close(k) < Close(i)
        /\ row.trend = "below_both" =>
            \E k \in 1..i : k > i - m /\ Close(k) > Close(i)
        /\ row.cross = "golden_cross_zone" => \E j, k \in 1..i :
            j > i - m /\ k > i - n /\ Close(j) > Close(k)
        /\ row.cross = "death_cross_zone" => \E j, k \in 1..i :
            j > i - m /\ k > i - n /\ Close(j) < Close(k)

\* Every row of gold_moving_averages made of the trades says what it seems to
\* say: averages, trend and cross signal (gold_moving_averages.sql:107-215).
AveragesOK == \A s \in Slots :
    LET daily == DailyTable(got[s])
    IN  \A i \in 1..Cardinality(DOMAIN daily) : AverageOK(daily, i)
=============================================================================
