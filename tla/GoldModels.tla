----------------------------- MODULE GoldModels -----------------------------
(***************************************************************************)
(* What the dbt models between Silver and the dashboards compute: the view *)
(* silver_ohlcv_validated and the four Gold tables.  Every run builds them *)
(* from nothing, so each is an operator on the tables it reads.            *)
(*                                                                         *)
(* There is one symbol.  A quotient is kept as its two parts: the code     *)
(* only compares it, and divides by sums of positive numbers.  Columns     *)
(* derived from others of the same row by arithmetic are left out, and the *)
(* counts of makers and takers: is_market_maker is FALSE in every row.     *)
(***************************************************************************)
EXTENDS OHLCV, FiniteSets, FiniteSetsExt, Functions

CONSTANTS
    HourSize,    \* an hour, in units of trade_time_ms
    DaySize,     \* a day
    ShortDays,   \* 7
    LongDays     \* 30

ASSUME GoldAssumption ==
    /\ HourSize \in Nat \ {0} /\ DaySize \in Nat \ {0}
    /\ ShortDays \in Nat \ {0} /\ LongDays \in Nat \ {0}

Hour(t) == t \div HourSize
Day(t) == t \div DaySize

-----------------------------------------------------------------------------
(* Candles.  A row of ohlcv_1min is a candle with window_start and          *)
(* ingested_at.                                                             *)

Row(start, at, a) ==
    [start |-> start, at |-> at, open |-> a.open, high |-> a.high,
     low |-> a.low, close |-> a.close, volume |-> a.volume,
     count |-> a.count]

\* _pane_rank = 1: the pane written last.
LastPanes(rows) ==
    {r \in rows : \A q \in rows : q.start = r.start => q.at <= r.at}

\* The view silver_ohlcv_validated.
Validated(rows) == {r \in LastPanes(rows) : WellFormed(r)}

Earliest(rows) == CHOOSE r \in rows : \A q \in rows : r.start <= q.start
Latest(rows) == CHOOSE r \in rows : \A q \in rows : q.start <= r.start

\* Mutant of DayCandle: the close of the earliest candle.
DayCandleOfFirst(rows) ==
    [open |-> Earliest(rows).open, close |-> Earliest(rows).close,
     high |-> Max({r.high : r \in rows}), low |-> Min({r.low : r \in rows}),
     volume |-> SumFunction([r \in rows |-> r.volume]),
     count |-> SumFunction([r \in rows |-> r.count]),
     candles |-> Cardinality(rows)]

\* The final select of gold_daily_ohlcv, for the rows of one day.
DayCandle(rows) ==
    [open |-> Earliest(rows).open, close |-> Latest(rows).close,
     high |-> Max({r.high : r \in rows}), low |-> Min({r.low : r \in rows}),
     volume |-> SumFunction([r \in rows |-> r.volume]),
     count |-> SumFunction([r \in rows |-> r.count]),
     candles |-> Cardinality(rows)]

\* gold_daily_ohlcv: a function from the days that have a candle.
DailyOHLCV(view) ==
    [d \in {Day(r.start) : r \in view} |->
        DayCandle({r \in view : Day(r.start) = d})]

-----------------------------------------------------------------------------
(* gold_moving_averages.                                                    *)

\* Mutant of Frame: one row too many.
FrameWide(daily, d, n) ==
    {e \in DOMAIN daily :
        /\ e <= d
        /\ Cardinality({f \in DOMAIN daily : e < f /\ f <= d}) <= n}

\* ORDER BY trade_date ROWS BETWEEN n-1 PRECEDING AND CURRENT ROW: rows, not
\* calendar days; a day without a candle does not count.
Frame(daily, d, n) ==
    {e \in DOMAIN daily :
        /\ e <= d
        /\ Cardinality({f \in DOMAIN daily : e < f /\ f <= d}) < n}

\* AVG(close) over the frame; the row shows NULL while it is not valid.
MovingAverage(daily, d, n) ==
    [valid |-> Cardinality(Frame(daily, d, n)) = n,
     sum |-> SumFunction([e \in Frame(daily, d, n) |-> daily[e].close]),
     n |-> n]

Over(close, avg) == close * avg.n > avg.sum
Under(close, avg) == close * avg.n < avg.sum

Trend(close, short, long) ==
    CASE ~short.valid \/ ~long.valid -> "insufficient_history"
      [] OTHER -> IF Over(close, short) /\ Over(close, long)
                  THEN "above_both"
                  ELSE IF Under(close, short) /\ Under(close, long)
                  THEN "below_both" ELSE "mixed"

\* Two averages are compared without dividing.
Cross(short, long) ==
    CASE ~short.valid \/ ~long.valid -> "null"
      [] OTHER -> IF short.sum * long.n > long.sum * short.n
                  THEN "golden_cross_zone"
                  ELSE IF short.sum * long.n < long.sum * short.n
                  THEN "death_cross_zone" ELSE "at_crossover"

MovingAverages(daily) ==
    [d \in DOMAIN daily |->
        LET short == MovingAverage(daily, d, ShortDays)
            long == MovingAverage(daily, d, LongDays)
        IN  [sma_short |-> short, sma_long |-> long,
             trend |-> Trend(daily[d].close, short, long),
             cross |-> Cross(short, long),
              days_of_history |->
                Cardinality({e \in DOMAIN daily : e <= d})]]

-----------------------------------------------------------------------------
(* The tables made from single trades, rows of silver_deduped_trades.       *)

\* What both tables aggregate over a group; VWAP is notional / quantity.
Volumes(T) ==
    [notional |-> SumFunction([t \in T |-> t.price * t.qty]),
     quantity |-> SumFunction([t \in T |-> t.qty]),
     high |-> Max({t.price : t \in T}), low |-> Min({t.price : t \in T}),
     count |-> Cardinality(T)]

\* Mutant of HourlyVolume: hours that are closed at both ends.
HourlyVolumeClosed(trades) ==
    [h \in {Hour(t.time) : t \in trades} |->
        Volumes({t \in trades : /\ h * HourSize <= t.time
                                /\ t.time <= (h + 1) * HourSize})]

\* gold_trade_volume_hourly.
HourlyVolume(trades) ==
    [h \in {Hour(t.time) : t \in trades} |->
        Volumes({t \in trades : Hour(t.time) = h})]

\* The trailing 24 hours, both ends included, back from the newest trade.
Trades24h(trades) ==
    {t \in trades : \A u \in trades : t.time >= u.time - DaySize}

\* gold_price_stats_24h.  Among trades of the same millisecond row_number()
\* picks any as the open and the close: the set of the rows it may give.
PriceStats(trades) ==
    LET T == Trades24h(trades)
    IN  {[open |-> o.price, close |-> c.price, of |-> Volumes(T)] :
            o \in {t \in T : \A u \in T : t.time <= u.time},
            c \in {t \in T : \A u \in T : u.time <= t.time}}
=============================================================================
