---------------------------- MODULE BeamPipeline ----------------------------
(***************************************************************************)
(* The streaming job of beam/src: Kafka -> ParseAndValidate -> Bronze and  *)
(* dead-letter sinks, and event-time windows -> OHLCV -> Silver, as wired  *)
(* by build_pipeline (pipeline.py).                                        *)
(*                                                                         *)
(* The topic is a sequence; an event is a position in it, so that a        *)
(* message the producer sent twice is two events with one trade.  One      *)
(* element goes through the fused ParDos and into the window state before  *)
(* the next: the pipeline has one key, and the runner keeps its order.     *)
(* The watermark follows the clock of the job (KafkaIO's default policy),  *)
(* not the trade times, so a trade may be late.                            *)
(*                                                                         *)
(* The tables are made by init_schemas.sql, with their primary keys, or by *)
(* what ran before it: the job makes Silver without a key and no Bronze.   *)
(***************************************************************************)
EXTENDS OHLCV, TradeSchema, Sequences, FiniteSets, Functions

CONSTANTS
    Messages,      \* what the topic may hold, from the ingestor or others
    Windows,       \* indices of the fixed windows, 0..n
    WindowSize,    \* WINDOW_SIZE_SECONDS
    Lateness,      \* ALLOWED_LATENESS_SECONDS
    SinkMayFail,   \* BOOLEAN: an insert into Bronze or dead letters may fail
    MaxLog,        \* bound: messages in the topic
    MaxTime,       \* bound: the watermark
    MaxCrashes     \* bound: failures of the job

ASSUME PipelineAssumption ==
    /\ WindowSize \in Nat \ {0}
    /\ Lateness \in Nat
    /\ SinkMayFail \in BOOLEAN
    /\ MaxLog \in Nat /\ MaxTime \in Nat /\ MaxCrashes \in Nat
    /\ Windows \subseteq Nat
    /\ \A m \in Messages : ParseAndValidate(m) =>
            /\ \A f \in {"event_time_ms", "trade_id", "price", "quantity",
                          "trade_time_ms"} : m[f] \in Int
            /\ m["trade_time_ms"] \div WindowSize \in Windows

VARIABLES
    log,      \* topic btc-raw-trades
    pos,      \* how many events the job has read
    wm,       \* watermark
    acc,      \* window state of CombinePerKey(OHLCVCombineFn)
    fresh,    \* windows with an element since their last pane
    onTime,   \* windows whose on-time pane has fired
    bronze,   \* events whose row is in bronze_raw.raw_trades
    dead,     \* events in bronze_raw.pipeline_dead_letter
    keys,     \* tables with a primary key: Bronze has one or is missing
    silver,   \* silver_curated.ohlcv_1min, Empty where there is no row
    held,     \* history: events aggregated into each window since the start
    shown,    \* history: events that the row of each window stands for
    lost,     \* history: events not inserted, or skipped by a restart
    crashes

jobVars == <<pos, acc, fresh, onTime, held>>
sinkVars == <<bronze, dead, silver, shown, lost>>
vars == <<log, jobVars, wm, sinkVars, keys, crashes>>

Events == 1..MaxLog

TypeOK ==
    /\ log \in Seq(Messages) /\ Len(log) <= MaxLog
    /\ pos \in 0..Len(log)
    /\ wm \in 0..MaxTime
    /\ acc \in [Windows -> Accumulators]
    /\ fresh \subseteq Windows /\ onTime \subseteq Windows
    /\ bronze \subseteq Events /\ dead \subseteq Events
    /\ lost \subseteq Events
    /\ silver \in [Windows -> Accumulators]
    /\ held \in [Windows -> SUBSET Events]
    /\ shown \in [Windows -> SUBSET Events]
    /\ keys \in {{}, {"bronze"}, {"bronze", "silver"}}
    /\ crashes \in 0..MaxCrashes

\* init_schemas.sql was run before the first start of the job, or not.
Init ==
    /\ keys \in {{}, {"bronze", "silver"}}
    /\ log = << >> /\ pos = 0 /\ wm = 0 /\ crashes = 0
    /\ acc = [w \in Windows |-> Empty]
    /\ silver = [w \in Windows |-> Empty]
    /\ held = [w \in Windows |-> {}]
    /\ shown = [w \in Windows |-> {}]
    /\ fresh = {} /\ onTime = {} /\ bronze = {} /\ dead = {} /\ lost = {}

-----------------------------------------------------------------------------
(* FixedWindows and allowed lateness.                                       *)

IsTrade(e) == ParseAndValidate(log[e])
Trade(e) == TradeRecord(log[e])
WindowOf(t) == t.time \div WindowSize
End(w) == (w + 1) * WindowSize
Closed(w) == wm >= End(w)
Expired(w) == wm >= End(w) + Lateness

-----------------------------------------------------------------------------
(* The environment: the ingestor's producer and the clock.                  *)

Publish(m) ==
    /\ Len(log) < MaxLog
    /\ log' = Append(log, m)
    /\ UNCHANGED <<jobVars, wm, sinkVars, keys, crashes>>

Tick ==
    /\ wm < MaxTime
    /\ wm' = wm + 1
    /\ UNCHANGED <<log, jobVars, sinkVars, keys, crashes>>

\* init_schemas.sql after the job: CREATE TABLE IF NOT EXISTS leaves Silver as
\* it is.
InitSchemas ==
    /\ "bronze" \notin keys
    /\ keys' = keys \union {"bronze"}
    /\ UNCHANGED <<log, jobVars, wm, sinkVars, crashes>>

-----------------------------------------------------------------------------
(* One element.                                                             *)

\* The next record with a value: the source drops one without before anything
\* is parsed ("Filter None", kafka_source.py:55), so the log has none.
Reading == pos < Len(log) /\ pos' = pos + 1

\* A sink that logs and swallows its exceptions.
Insert(table, e) == table' = table \union {e} /\ UNCHANGED lost
Fails(table, e) == lost' = lost \union {e} /\ UNCHANGED table
InsertOrNot(table, e) ==
    \/ Insert(table, e)
    \/ SinkMayFail /\ Fails(table, e)

\* Mutant of ReadBad: off by one in the topic.
ReadBadNext ==
    /\ Reading
    /\ ~IsTrade(pos + 1)
    /\ InsertOrNot(dead, pos + 2)
    /\ UNCHANGED <<log, acc, fresh, onTime, held, wm, bronze, silver, shown,
                   keys, crashes>>

ReadBad ==
    /\ Reading
    /\ ~IsTrade(pos + 1)
    /\ InsertOrNot(dead, pos + 1)
    /\ UNCHANGED <<log, acc, fresh, onTime, held, wm, bronze, silver, shown,
                   keys, crashes>>

\* Mutant of WriteBronze: wired behind the windowing.
WriteBronzeInTime(e) ==
    CASE "bronze" \notin keys -> Fails(bronze, e)
      [] \/ \E b \in bronze : Trade(b).id = Trade(e).id
         \/ Expired(WindowOf(Trade(e))) -> UNCHANGED <<bronze, lost>>
      [] OTHER -> InsertOrNot(bronze, e)

\* INSERT OR IGNORE on the primary key trade_id.
WriteBronze(e) ==
    CASE "bronze" \notin keys -> Fails(bronze, e)
      [] \E b \in bronze : Trade(b).id = Trade(e).id ->
            UNCHANGED <<bronze, lost>>
      [] OTHER -> InsertOrNot(bronze, e)

\* Mutant of Aggregate: a late element sets no pane timer.
AggregateNoLate(e) ==
    LET t == Trade(e)
        w == WindowOf(t)
    IN  IF Expired(w)
        THEN UNCHANGED <<acc, fresh, held>>
        ELSE /\ acc' = [acc EXCEPT ![w] = AddInput(@, t)]
             /\ fresh' = IF Closed(w) THEN fresh ELSE fresh \union {w}
             /\ held' = [held EXCEPT ![w] = @ \union {e}]

\* Mutant of Aggregate: no limit to the lateness.
AggregateAnyLate(e) ==
    LET w == WindowOf(Trade(e))
    IN  /\ acc' = [acc EXCEPT ![w] = AddInput(@, Trade(e))]
        /\ fresh' = fresh \union {w}
        /\ held' = [held EXCEPT ![w] = @ \union {e}]

\* An element behind the allowed lateness is dropped by the GroupByKey.
Aggregate(e) ==
    LET t == Trade(e)
        w == WindowOf(t)
    IN  IF Expired(w)
        THEN UNCHANGED <<acc, fresh, held>>
        ELSE /\ acc' = [acc EXCEPT ![w] = AddInput(@, t)]
             /\ fresh' = fresh \union {w}
             /\ held' = [held EXCEPT ![w] = @ \union {e}]

ReadTrade ==
    /\ Reading
    /\ IsTrade(pos + 1)
    /\ WriteBronze(pos + 1)
    /\ Aggregate(pos + 1)
    /\ UNCHANGED <<log, onTime, wm, dead, silver, shown, keys, crashes>>

-----------------------------------------------------------------------------
(* Panes: AfterWatermark(early, late), ACCUMULATING.                        *)

\* FormatOHLCV and the upsert on (symbol, window_start), which needs that key.
WritePane(w) ==
    /\ "silver" \in keys
    /\ silver' = [silver EXCEPT ![w] = acc[w]]
    /\ shown' = [shown EXCEPT ![w] = held[w]]
    /\ UNCHANGED <<bronze, dead, lost>>

\* Mutant of EarlyPane: accumulation mode DISCARDING.
EarlyPaneDiscards(w) ==
    /\ w \in fresh /\ ~Closed(w)
    /\ WritePane(w)
    /\ fresh' = fresh \ {w}
    /\ acc' = [acc EXCEPT ![w] = Empty]
    /\ UNCHANGED <<log, pos, onTime, held, wm, keys, crashes>>

EarlyPane(w) ==
    /\ w \in fresh /\ ~Closed(w)
    /\ WritePane(w)
    /\ fresh' = fresh \ {w}
    /\ UNCHANGED <<log, pos, acc, onTime, held, wm, keys, crashes>>

OnTimePane(w) ==
    /\ Closed(w) /\ w \notin onTime /\ ~acc[w].empty
    /\ WritePane(w)
    /\ fresh' = fresh \ {w}
    /\ onTime' = onTime \union {w}
    /\ UNCHANGED <<log, pos, acc, held, wm, keys, crashes>>

LatePane(w) ==
    /\ w \in fresh /\ w \in onTime
    /\ WritePane(w)
    /\ fresh' = fresh \ {w}
    /\ UNCHANGED <<log, pos, acc, onTime, held, wm, keys, crashes>>

\* Mutant of Collect: the state is dropped without a last pane.
CollectSilently(w) ==
    /\ Expired(w) /\ w \in onTime /\ ~acc[w].empty
    /\ acc' = [acc EXCEPT ![w] = Empty]
    /\ fresh' = fresh \ {w}
    /\ UNCHANGED <<log, pos, onTime, held, wm, sinkVars, keys, crashes>>

\* The end of the allowed lateness: a last pane if it has something to add,
\* and the state is dropped.
Collect(w) ==
    /\ Expired(w) /\ w \in onTime /\ ~acc[w].empty
    /\ \/ w \in fresh /\ WritePane(w)
       \/ w \notin fresh /\ UNCHANGED sinkVars
    /\ acc' = [acc EXCEPT ![w] = Empty]
    /\ fresh' = fresh \ {w}
    /\ UNCHANGED <<log, pos, onTime, held, wm, keys, crashes>>

Pane(w) == EarlyPane(w) \/ OnTimePane(w) \/ LatePane(w) \/ Collect(w)

-----------------------------------------------------------------------------
\* The job fails (a failed upsert raises out of DuckDBWriter) and is started
\* again.  No checkpoint is configured: the window state is gone and the
\* consumer starts at the end of the topic (auto.offset.reset = latest).
Crash ==
    /\ crashes < MaxCrashes
    /\ crashes' = crashes + 1
    /\ pos' = Len(log)
    /\ acc' = [w \in Windows |-> Empty]
    /\ held' = [w \in Windows |-> {}]
    /\ fresh' = {} /\ onTime' = {}
    /\ lost' = lost \union (pos + 1)..Len(log)
    /\ UNCHANGED <<log, wm, bronze, dead, silver, shown, keys>>

Next ==
    \/ \E m \in Messages : Publish(m)
    \/ Tick
    \/ InitSchemas
    \/ ReadBad
    \/ ReadTrade
    \/ \E w \in Windows : Pane(w)
    \/ Crash

\* Timers fire and the clock goes on; nothing is assumed of the producer.
Fairness ==
    /\ WF_vars(Tick)
    /\ \A w \in Windows : WF_vars(Pane(w))

Spec == Init /\ [][Next]_vars /\ Fairness

-----------------------------------------------------------------------------
(* Properties.                                                              *)

TradesAt(S) == {Trade(e) : e \in S}

\* The sum of price * quantity over events.
Notional(S) == SumFunction([e \in S |-> Trade(e).price * Trade(e).qty])

\* A Silver row is the candle of the events it stands for, all of its own
\* window, and passes the filter of the dbt view, whatever panes, redeliveries
\* and restarts came before it.
RowsAreCandles == \A w \in Windows :
    LET S == shown[w]
    IN  /\ silver[w].empty <=> S = {}
        /\ silver[w].count = Cardinality(S)
        /\ silver[w].volume = Notional(S)
        /\ \A e \in S : WindowOf(Trade(e)) = w
        /\ S # {} => /\ ExtremesOf(silver[w], TradesAt(S))
                     /\ EndpointsOf(silver[w], TradesAt(S))
                     /\ WellFormed(silver[w])

\* What the ingestor publishes the job never rejects: the two validators say
\* the same of it (transforms.py:52), and its dead letters come from others.
IngestedIsParsed == \A e \in dead : ~BinanceTradeEvent(log[e])

\* Every event read is stored, unless a sink failed or a restart skipped it: a
\* reject in the dead-letter table, a trade, late or not, in exactly one row
\* of Bronze, however often Kafka delivers it (duckdb_sink.py:183-185).
ReadIsStored == \A e \in (1..pos) \ lost :
    \/ e \in dead
    \/ /\ IsTrade(e)
       /\ \E b \in bronze : Trade(b).id = Trade(e).id
       /\ \A b, c \in bronze : Trade(b).id = Trade(c).id => b = c

\* When a window's state is dropped nothing of it is left unwritten: only
\* what was read after the allowed lateness is missing from the row.
NothingLeftBehind == \A w \in Windows : acc[w].empty =>
    /\ held[w] \subseteq shown[w]
    /\ crashes = 0 => shown[w] = held[w]

\* With a keyed Silver table the pipeline is the candle feed, liveness and
\* restarts included: every accepted event is shown unless a restart comes in
\* between, and a row shows accepted events only.
Feed == INSTANCE CandleFeed WITH
    Candles <- Windows,
    accepted <- IF "silver" \in keys THEN held ELSE [w \in Windows |-> {}]
FeedSpec == Feed!Spec

\* Documented and not so: the constructor of the writer "ensures" that the
\* schema exists (duckdb_sink.py:77).  If init_schemas.sql has not run before
\* it, the table it makes refuses every upsert of that writer.
PaneIsAccepted == \A w \in fresh : "silver" \in keys

\* Documented and not so: the row kept is "the final, most complete
\* aggregation for that window" (silver_ohlcv_validated.sql:49).  After a
\* restart inside a window the upsert replaces the row by a smaller candle.
RowsGrow == [][\A w \in Windows : silver'[w].count >= silver[w].count]_vars
=============================================================================
