------------------------------ MODULE Medallion ------------------------------
(***************************************************************************)
(* The Beam pipeline and the candle path of the dbt models behind it: what *)
(* a dbt run makes, at any moment, of the Silver table the job writes.     *)
(***************************************************************************)
EXTENDS BeamPipeline, GoldModels

\* Windows of WINDOW_SIZE_SECONDS, aligned to the epoch, divide the days: 5 in
\* config.py, 60 in the comments and documents.
ASSUME DaysAssumption == DaySize % WindowSize = 0

\* Mutant of SilverRows: window_end in the place of window_start.
SilverRowsByEnd ==
    {Row(End(w), 0, silver[w]) : w \in {v \in Windows : ~silver[v].empty}}

\* silver_curated.ohlcv_1min: the primary key leaves one pane a window.
SilverRows ==
    {Row(w * WindowSize, 0, silver[w]) :
        w \in {v \in Windows : ~silver[v].empty}}

\* gold_daily_ohlcv, built now.
DailyTable == DailyOHLCV(Validated(SilverRows))

\* The row of gold_daily_ohlcv for a day, if there is one.
GoldRow(d) ==
    {DailyTable[e] : e \in DOMAIN DailyTable \intersect {d}}

WindowsOf(d) == {w \in Windows : Day(w * WindowSize) = d}

\* At any moment, also in the middle of a day, after redeliveries and restarts,
\* gold_daily_ohlcv has a row for each day of which an event is shown, and the
\* row is the candle of exactly the events that the windows of its day show:
\* it counts each once, and opens and closes with the first and the last.
DailyIsShown ==
    LET seen == UNION {shown[w] : w \in Windows}
        DayOf(e) == Day(Trade(e).time)
    IN  /\ DOMAIN DailyTable = {DayOf(e) : e \in seen}
        /\ \A d \in DOMAIN DailyTable :
            LET S == {e \in seen : DayOf(e) = d}
                T == TradesAt(S)
                row == DailyTable[d]
            IN  /\ ExtremesOf(row, T)
                /\ \E t \in T : /\ t.price = row.open
                               /\ \A u \in T : t.time <= u.time
                /\ \E t \in T : /\ t.price = row.close
                               /\ \A u \in T : u.time <= t.time
                /\ row.volume = Notional(S) /\ row.count = Cardinality(S)

\* Nothing of the day is accepted any more, and nothing waits to be written.
DayOver(d) == \A w \in WindowsOf(d) : Expired(w) /\ acc[w].empty

\* Whatever arrives, is delivered again or is started again, a day that is
\* over stays over and its daily candle never changes: the moving averages of
\* the days up to it do not either, if these are over as well.
DayIsFinal == [][\A d \in {Day(w * WindowSize) : w \in Windows} :
    DayOver(d) => DayOver(d)' /\ GoldRow(d)' = GoldRow(d)]_vars
=============================================================================
