# Crypto market data platform: TLA+ models and proofs

A verification development for the platform in `src/`: a service that reads
trades from a Binance websocket into Kafka, a Beam job that turns the topic into
Bronze rows and candles of fixed windows, dbt models that refine these tables, and
Airflow DAGs that run and watch it all. The modules here are translated from the
code; TLC checks small instances of them and TLAPS proves the theorems listed
below for every value of the constants.

    tlc -workers 2 -config MCIngestorService.cfg MCIngestorService
    tlapm IngestorProofs.tla

`PROJECT.json` maps every definition to the lines it stands for, and lists the
runs, the theorems, the hazards and, for every property of a passing run, a
*mutant*: the form a definition would have after a plausible bug, under which the
property must fail. A definition `XSomething` in front of `X`, commented "Mutant
of X", is one; it is used nowhere else.


## 1. The system

    Binance --ws--> BinanceWebSocketClient --> KafkaPublisher --> btc-raw-trades
                          |   (one asyncio task)        \-------> btc-dead-letter
                    lifespan, /health                          (nobody reads it)
                                                                    |
       raw topic --> ParseAndValidate --> Bronze raw_trades  <------+
                          |    \--------> Bronze pipeline_dead_letter
                          v
             windows + OHLCVCombineFn --> Silver ohlcv_1min (upsert per window)
                                                       |
       Bronze --dbt--> silver_deduped_trades   silver_ohlcv_validated (view)
                              |      |                 |        \
                       price_stats  volume_hourly   daily_ohlcv  moving_averages
                              (Gold)
       Airflow: dbt_transformation_pipeline (*/15)   pipeline_health_monitor (*/5)

### Components: state, operations, what makes them correct

| component | state | operations | correct if |
|---|---|---|---|
| `KafkaPublisher` (`services/ingestor/src/publisher.py`) | the librdkafka buffer, its delivery reports | `publish_trade`, `publish_dead_letter`, `_delivery_callback`, `flush` | a positive report means the message is in the topic; every message ends in one of the topics; what `flush` returns is what is lost |
| `BinanceWebSocketClient` (`websocket_client.py`) | `_running`, `_reconnect_attempt`, two counters, where the task waits | `run`, `_connect_and_consume`, `_process_message`, `_backoff_sleep`, `stop`, `stats` | reconnects for ever, stops when told to, counters add up |
| Application (`main.py`) | how far `lifespan` has got | start, SIGTERM, `wait_for`, `flush`, `/health`, `/ping` | nothing is produced behind the flush, the shutdown ends, `/health` tells a dead task |
| Message schema (`services/ingestor/src/schema.py`) | none | field validators of `BinanceTradeEvent` | the same messages are valid here and in Beam |
| Beam job (`beam/src/pipeline.py`, `kafka_source.py`, `transforms.py`) | offset, watermark, window state, pane timers | read, parse, window, combine, fire panes, restart | a row is a candle of its window; what is read is stored; nothing accepted is lost while the job is up; a window that is over stays as it is |
| `OHLCVCombineFn` (`transforms.py`) | accumulators | `create_accumulator`, `add_input`, `merge_accumulators`, `extract_output` | the result is the candle of the trades, whatever the order and the bracketing |
| DuckDB sinks (`duckdb_sink.py`, `beam/src/schema.py`, `dbt/init_schemas.sql`) | the three tables, which of them have a primary key | creation of the tables, `INSERT OR IGNORE`, dead-letter insert, upsert | Bronze has one row for a trade; a pane that fires can be written |
| dbt Silver (`silver_deduped_trades.sql`, `silver_ohlcv_validated.sql`) | one table, one view | first run, incremental run | one row for a trade, equal to Bronze, none skipped |
| dbt Gold (four models), tests | four tables | full refresh, `dbt test` | each table says of a period what its trades say; the tables agree with each other |
| `dbt_transformation_pipeline` | task instances, versions of the tables | ten tasks, trigger rules, retries, notifier | Gold is built from tested Silver; success means success |
| `pipeline_health_monitor` | task instances, readings in XCom | freshness, dead letters, ingestor, row count, summary, notifier | an outage is told, a summary is true, nothing it has no data of passes for healthy |
| loggers, callbacks, infrastructure, CI | none | | |

### How they interact

The client calls the publisher synchronously, inside one step of the event loop;
librdkafka's own thread talks to the broker and hands delivery reports back only
inside `poll()` and `flush()`. `lifespan` touches the client only through the
task it created: `cancel()` and `wait_for`. `/health` reads the client's fields
and `ws_task.done()`. Ingestor and Beam share the topic; Beam and dbt, which the
transformation DAG runs, share the tables of one DuckDB or MotherDuck database and
take no lock anywhere; only `max_active_runs=1` orders the runs of one DAG. The
health monitor reads `/health` over HTTP and otherwise queries BigQuery, tables of
the same names that nothing in the repository loads (section 5).

### What is hard here

* **Cancellation at every await.** `CancelledError` can reach `run()` before its
  first step, in the opening handshake, in `recv()`, in the closing handshake of
  `async with` or in the backoff; only some of these are inside the `try`.
  `wait_for` may cancel a second time while the close is under way.
* **A buffer that only `poll` empties**, and `poll` is skipped by the exception
  that a full buffer raises.
* **At-least-once without idempotence**: a lost acknowledgement puts a second
  copy into the topic, an abandoned record may be in it all the same.
* **Accumulators merged in any order**, with strict comparisons on equal times.
* **Panes**: early, on time and late ones of one window, each overwriting the row.
* **Two validators** of the same message in two processes, and a topic that others
  than the ingestor could write to.
* **Two creators of one table**: the job and `init_schemas.sql` both say
  `CREATE TABLE IF NOT EXISTS`, with different keys, and whoever is first wins.
* **Roll-ups of roll-ups**: trades to minutes to days to averages over days, next
  to tables made from the same trades directly.
* **Restarts without a checkpoint**, from the end of the topic.
* **Swallowed sink errors**: a Bronze insert fails and the same trade goes on into
  its candle.
* **A watermark in SQL**: `ingested_at > max(ingested_at)` over a table that
  writers are committing to, with stamps that are older than the commits.
* **A monitor beside the pipeline**: its checks read, one after the other, what
  changes under them, in retried attempts, and from another database than the one
  the pipeline writes.
* **A DAG of retries**: a task killed after its dbt command has committed, Gold
  models of which one fails, a notifier that is itself a leaf of the DAG.

`PROJECT.json` lists these hazards line by line with the properties that cover
them.


## 2. The modules

| module | models | used by |
|---|---|---|
| `KafkaPublisher` | the producer buffer, `produce`/`poll`/`flush`, the broker thread | `BinanceWebSocketClient` extends it |
| `BinanceWebSocketClient` | `run()` and everything it awaits, `stop()`, cancellation | `IngestorService` extends it |
| `IngestorService` | `lifespan`, `/health`, the monitor's check of it: the composition of the three | `MCIngestorService`, `IngestorProofs` |
| `TradeSchema` | what a valid message is, to the ingestor and to the Beam job: pure operators | `BeamPipeline` |
| `OHLCV` | accumulators, `add_input`, `merge_accumulators`, the filter of the view, what a candle promises: pure operators | `OHLCVCombine`, `BeamPipeline`, `GoldModels` |
| `OHLCVCombine` | partial accumulators under the runner | `CandlesToGold`, `OHLCVCombineProofs` |
| `GoldModels` | `silver_ohlcv_validated` and the four Gold tables as operators on the tables they read | `CandlesToGold`, `Medallion`, `CandleProofs` |
| `CandlesToGold` | the candles of `OHLCVCombine` taken on into Gold, beside the tables made from the trades themselves: the composition of the two | `MCCandlesToGold`, `GoldProofs` |
| `CandleFeed` | abstract: what the job promises its readers | instantiated in `BeamPipeline` |
| `BeamPipeline` | topic, source, parsing, sinks and their tables, windows, triggers, restart | `Medallion` extends it |
| `Medallion` | the daily candle made, at any moment, of what `BeamPipeline` has written | `MCBeamPipeline`, `BeamProofs` |
| `SilverDedup` | the incremental dbt model against the Bronze writers | `MCSilverDedup`, `SilverDedupProofs` |
| `AirflowRun` | Airflow's task instances and run state (external), for any DAG | instantiated in `TransformationDag` and `HealthMonitor` |
| `TransformationDag` | the transformation DAG over versions of the tables | `MCTransformationDag`, `TransformationProofs` |
| `HealthMonitor` | the health monitor DAG over what it reads: tables loaded from outside or not, an ingestor that fails and recovers | `MCHealthMonitor`, `HealthMonitorProofs` |

### State and actions against the code

**Ingestor.** `pc` is the await at which the task stands: `created` (the task
exists, `run` has not been entered), `connect` (opening handshake), `consume`
(`recv()`), `close` (closing handshake of `async with`), `sleep`
(`_backoff_sleep`), `done` with its `outcome`. An action is what the task does
from one await to the next, so `_process_message`, which never awaits, is one
step: validation, `publish_trade`, the counters and, on either exception,
`publish_dead_letter`. `cancelReq` is a `cancel()` not delivered yet; the
`Cancel...` actions deliver it, differently at each `pc`. `EndOfCycle` is the
tail of the loop: the test of `_running`, the increment of `_reconnect_attempt`
and the multiplication `1.0 * 2 ** (attempt - 1)`, which raises from exponent
1024 on, outside the `try` (`OverflowExp` stands for 1024). `life` is how far
`lifespan` has got; while it is `flushing` the event loop is blocked, so the task
does not move but the producer's thread does. `outbox` and `reports` together
fill the buffer: a record keeps its place until its report has been polled for.
`received`, `served` and `stopAsked` are history.

**Messages.** A message is a function from the fields that can be read from it to
values, so a missing field, an unreadable payload and a value out of range are all
expressible. `BinanceTradeEvent` and `ParseAndValidate` are the two validators as
they are written: the first also asks for `is_market_maker`, a positive event time
and a trade time that is at most `MaxDrift` ahead of it. `TradeRecord` is what
the job goes on with; it drops `is_market_maker`.

**Beam.** The topic is a sequence and an event a position in it, so that a
message that the producer sent twice is two events with one trade. `ReadTrade`
takes one element through `ParseAndValidate`, the Bronze sink and the window
state, in the order in which `build_pipeline` wires them. A sink may swallow a
failed insert (`SinkMayFail`); a failed upsert raises and fails the job
(`Crash`), which loses the window state and starts at the end of the topic.
`keys` says which tables have a primary key: both if `init_schemas.sql` ran first,
otherwise the job makes Silver without one and Bronze is missing until
`InitSchemas`; without its key a table refuses the statement that names it
(`WritePane` is not enabled, `WriteBronze` fails). `wm` follows the clock, not the
trade times, so trades can be late. The panes are those of
`AfterWatermark(early=..., late=...)` with `ACCUMULATING`; `Collect` ends the
allowed lateness. `held`, `shown` and `lost` are history: the events a window has
taken, those its row stands for, and those that a sink or a restart lost. A candle
has one symbol, so windows are the only key.

**Gold.** A dbt model that is built from nothing is an operator on the tables it
reads: a day's candle (`DayCandle`), the frame of a window function as the set of
rows it covers (`Frame`), an aggregate over a group of trades (`Volumes`). Averages
and VWAP stay quotients of two sums, which is all the models' comparisons need.
`row_number()` over equal times may pick any of the rows, so `PriceStats` is the
set of the rows the model may give.

**Silver.** A writer stamps `ingested_at` (`Stamp`) before it commits (`Commit`);
dbt reads what is committed. The first run builds the table from all of Bronze,
later ones select, rank and delete+insert. `Selected` contains the comparison with
NULL: over an empty table nothing passes.

**Transformation DAG.** A table's content is a version, the number of writes it
reflects. A task instance is `none`, `running`, `executed` (the body has had its
effect, Airflow does not know it), `up_for_retry` or final; `Fail` may come
before or after the effect. The bodies are one action each (`RunSilver`,
`TestSilver`, `RunGold`, `TestGold`, `Notify`; the other tasks change no table).
`gold_daily_ohlcv` reads a view, so it takes the version of the moment, the other
two take what Silver has.

**Health monitor.** The platform is what the checks read: the hours since the last
row of each BigQuery table, if it has one, the rows and the dead letters of the
last hour there, and what `GET /health` amounts to. The tables are external: the
sinks write DuckDB or MotherDuck, and nothing in the repository loads BigQuery. So
they start empty, and in every hour (`Tick`) somebody outside may load them or
not. One behaviour of the model is the repository by itself, in which nobody ever
does; `NoDataNoHealth` says what the monitor makes of it. `Change` moves the dead
letters and the ingestor; all of this may happen in the middle of a run. `Check` is one attempt of one check: it
reads, pushes to XCom and passes or raises; a sensor pushes before it raises, a
TaskFlow function only returns a value when it passes, and `Attempt` clears what
the attempt before has left. `Fault` fails an attempt for no reason of the
platform. The run itself is a second instance of `AirflowRun`.


## 3. The runs

Passing runs:

| run | checks | bounds and why they are enough |
|---|---|---|
| `ingestor_safety` | `TypeOK`, `AckedIsStored`, `CountersExact`, `FlushAfterTask`, `OnlyOverflowKills`, `CleanStopIsClean`, `FullIsForever`, `ShutdownCompletes`, `Reconnects` | Two trades and one invalid message, one of the trades refused by the raw topic; a buffer of two, so that it is empty, half full and full; one retry, so that a topic has no, one or two copies; overflow after two failures, so that the counter is reset, grows and overflows. `stop()` at any time. |
| `candles` | `TypeOK`, `ExtremesOK`, `EndpointsOK`, `UniqueWhenNoTies`, `DailyIsCandle`, `GoldAgrees`, `AveragesOK` | Seven trades on three accumulators: all orders and bracketings, empty accumulators included, so that every set of the trades is the input of the Gold models. The trades are on four days with one day missing between them, two minutes an hour and two hours a day; two share a millisecond with different prices; the extremes are neither the first nor the last; frames of two and three days, so that averages are missing, short of a frame and full; closes that make every value of the trend and of the cross signal occur; one trade exactly 24 hours before the newest. |
| `beam` | `TypeOK`, `RowsAreCandles`, `IngestedIsParsed`, `ReadIsStored`, `NothingLeftBehind`, `DailyIsShown`, `FeedSpec`, `DayIsFinal` | Three windows of two time units, the first two in one day and the third in the next, lateness one, time up to the expiry of the first day and the end of the second; a topic of three messages over four trades and one unreadable message: early, on-time, late and last panes, an element dropped as too late, a redelivery in the same and in another run of the job, one trade that only the tolerance for drift lets through and one message that only the job accepts; days of no, one and two windows; quantities that tell volumes apart; failing inserts; two restarts, one inside a window and one after it; tables with and without keys. |
| `dedup_one_writer` | `TypeOK`, `NoneSkipped`, `SilverKeeps`, `ArrivesInSilver` | Three trades, one writer, five ticks of the clock: a first run, incremental runs with nothing, with one and with several new rows, redelivery before and after a run. |
| `transformation` | `TypeOK`, `GoldFromTested`, `SuccessIsFresh`, `SuccessIsTrue`, `NotifierTells` | Two runs, so that one starts from the mixture the other left; one retry; two writes of Beam, so that tables can be of three versions. |
| `health` | `TypeOK`, `SummaryIsTrue`, `NeverBoth`, `SuccessIsHealthy`, `NoDataNoHealth`, `OutagesAreTold`, `RecoveryIsTold` | Readings on both sides of every threshold: tables without a row and ages at the limit of hours (0) and beyond it; no rows in the last hour, one, which is too few for a table that is fresh, and two; dead letters below the limit and at it. One retry and one fault, so that a check can pass at once, pass after a breach or after a fault, and fail for good; any number of runs. |

Runs in which the code departs from what the repository says of it:

| run | violated property | quoted from | what happens |
|---|---|---|---|
| `ingestor_loop` | `LoopRunsIndefinitely` | `websocket_client.py:64` | 1024 failed connections in a row overflow the backoff arithmetic; the task ends, nothing restarts it, and the shutdown raises before it flushes. |
| `ingestor_dead_letter` | `RejectedIsDeadLettered` | `websocket_client.py:140` | With the buffer full both `produce()` calls raise, the second is swallowed, and the message is nowhere. |
| `beam_shrink` | `RowsGrow` | `silver_ohlcv_validated.sql:49` | After a restart inside a window the upsert replaces the row by a candle of fewer trades. |
| `beam_keyless` | `PaneIsAccepted` | `duckdb_sink.py:77` | If the job starts before `init_schemas.sql` was run, the table that its writer makes has no key, and every upsert on (symbol, window_start) raises. Running the script afterwards changes nothing. |
| `dedup_skips` | `NoneSkipped` | `silver_deduped_trades.sql:68` | With two writers, a row stamped before a dbt run and committed after it lies behind the watermark for ever. |
| `dedup_frozen` | `ArrivesInSilver` | `silver_deduped_trades.sql:20` | If the first run finds Bronze empty, every later incremental run compares with NULL and selects nothing. |

`CHECK_DEADLOCK FALSE` is set where the system may stop: the process exits, the
bounds on the topic, the clock, the writes or the runs are used up. In
`CandlesToGold` an accumulator can always be merged with another, and deadlock is
checked.

### Fairness

* *Ingestor.* Weak fairness of what the event loop runs when it is ready (the
  first step of the task, the end of the backoff sleep, the delivery of a
  cancellation, `lifespan` once the task is done) and of what a timeout ends:
  the handshake (`open_timeout`), the close (`close_timeout`), `flush(10.0)`.
  Nothing is assumed of the exchange, which may never send or drop anything, nor
  of the broker.
* *Beam.* The clock goes on and timers fire (`Tick`, `Pane`). Nothing is assumed
  of the producer, and not that the job reads: the feed promises that what has
  been accepted is shown, unless a restart comes in between, which the job does
  not survive with its state.
* *Silver.* Airflow runs the model again and again (`WF_vars(DbtRun)`).
* *Transformation.* None; its properties are safety properties.
* *Health monitor.* Airflow does something whenever there is something to do
  (`WF_vars(Airflow)`: a run has finitely many steps, so each ends). Nothing is
  assumed of the platform, nor that anybody loads the tables, nor even that hours
  go by: the liveness properties say what follows *if* what the monitor reads
  stays bad, or well.


## 4. The proofs

All of these are for any values of the constants, under the named `ASSUME`s of
the modules: disjoint sets of valid and invalid messages, a non-empty buffer,
natural numbers for bounds and retries; for candles, finitely many trades with
positive prices and quantities (what both schemas enforce); for the Beam job, that
the fields of a message it parses are numbers and that its trade lies in one of
the windows; for Gold, that minutes, or windows, divide the hours and days.

Every invariant and every action property of the passing runs is a theorem.

**`CandleProofs`** has the lemmas the next three modules share, about any finite
set of items that carry trades: trades themselves, or events of a topic, where two
items may carry one trade. Three parts.

* *Sums.* `SumFunctionOnSet` of the community modules is a recursive function on
  sets. The prover cannot instantiate the library's induction theorems, whose
  parameter is a predicate; but a predicate is not needed if one speaks of the set
  of the subsets for which something holds. `SubsetInduction` gets from the
  well-foundedness of the subset order, by a minimal counterexample, that this set
  is all of them. So a solution of the recursion exists (`FoldExists`) and is
  unique (`FoldUnique`), and sums add up (`SumAdd`), over disjoint unions
  (`SumUnion`) and over the parts of a partition (`SumPartition`).
* *Candles.* `IsCandle(a, tr, S)` says everything an accumulator knows of the items
  `S` it stands for: flag, extremes, first and last with their prices, volume,
  count. It holds of `Empty` and `{}`, is kept by `Merge` of disjoint sets
  (`CandleMerge`) and by `AddInput` (`CandleAdd`), ties included.
* *Rows.* `RolledUp`: if each span of time has a row that reports the items in it,
  the row that `gold_daily_ohlcv` makes of these reports the items of all. Extremes
  are extremes of extremes; volume and count are sums over a partition; the
  earliest row has the earliest item, because what lies in an earlier span is
  earlier.

**`IngestorProofs`.** Three invariants, one for each kind of state.
`CtlInv` ties `pc`, `outcome`, `cancelReq`, `running`, `attempt` and `life`
together; `FlushAfterTask` and `OnlyOverflowKills` are conjuncts of it, but not
inductive alone: one needs that no cancellation is pending and no close under way
while the service is up, and that `attempt` stays within the exponent while the
task lives. From it: `NoProduceBehindFlush`, `TaskDeath`. `PubInv` says there is
at most one record for a topic and message (`OneRecord`), that the copies in a
topic are bounded by the tries of that record (`TriesBound`) and that a message
never received has left no trace (`Untouched`); without them a retry could exceed
its bound. From it: `ReportsAreTrue`, and with the small `NumInv` `TypeCorrect`
and `CleanStop`, where the step is that a buffer of cardinality 0 is empty.
`Counters`: what the broker thread does never changes which messages the producer
knows of (`BrokerKeepsSent`), and one received message adds one element to exactly
one of the two counted sets. `FullStaysFull`: a record and a report of the same
message never stand beside each other (`Distinct`), so a record that is reported
on keeps its one place in the buffer and nothing but a flush frees it.

**`OHLCVCombineProofs`.** `MergeAssociative` is algebra and holds with ties. The
invariant: each accumulator is a candle of the set of its trades, and these sets
are disjoint, which is what lets a merge add volumes and counts. From it:
`TypeCorrect`, `HighAndLow` (with the count), `OpenAndClose`, `PassesFilter`.
`OrderDoesNotMatter`: if no two trades share a time, the first and the last are
single trades, so a candle has no choice left and is the reference candle, record
for record.

**`BeamProofs`.** Three invariants. `TopicInv`: positions and bounds. `SinkInv`:
each event read and not lost is in the table it belongs to, and Bronze has one
event for a trade. `WindowInv` says of each window that its row stands for `shown`
and its state for `held` (`StandsFor`, which is `IsCandle` for events), all of
them trades of that window that were read. The state is empty without standing for
`held` in one case only, when the window is expired and collected;
`NothingLeftBehind` needs this, because an element that could still be added to a
dropped state would make a row that forgets. And a window that is not `fresh` has
all of `held` in its row, which is what makes it harmless to drop the state. From
these: `TypeCorrect`, `ValidatorsAgree` (by `IngestedIsValid`: one validator
implies the other), `NothingDropped`, `LastPaneWrites`, `SilverIsTrue`, which
gives extremes, ends, volume and count of every row. `ImplementsFeed` is the
safety part of the refinement of `CandleFeed`: the initial states map to its
initial states and each step to a step or a stutter; a crash maps to `Restart`, a
read of a trade in time to `Accept`, where one needs that an event is in one
window and is read once. `FinishedDays`: an expired window without state stays so
and its row is not written (`ExpiredIsFinal`), and the row of a day in
`gold_daily_ohlcv` depends on the windows of that day only (`DailyIsLocal`).
`DailyShows`: the rows of the windows are rows of spans in the sense of
`RolledUp`, none is hidden by the filter of the view (`ViewOfSilver`), and, as
windows divide the days, the events shown of a day are those of its windows; so at
any moment, after restarts and late panes too, the daily row is the candle of
exactly the events shown.

**`GoldProofs`.** `DailyRollup`: the row of a minute is the candle of its trades
(`CandlesFaithful`, whatever order the fold takes them in), it passes the filter,
and `RolledUp` does the rest. `TwoWaysAgree`: the hours of a day partition its
trades, so the sums of the hourly table add up to the sums of the day
(`HoursAddUp`), and the trailing 24 hours lie between the hours inside them and the
hours they touch (`HoursCount`, `TrailingHours`); the rows of `PriceStats` when all
trades are of one day are compared with its candle (`OneDay`); a VWAP lies between low and high because every
`price * qty` does (`VwapBetween`). For the averages: the number of days after `e`
up to `d` is an injection of the `k` days up to `d` into `0..k-1`, hence onto it
(`Ranks`), so a frame of `n` rows holds `n` of them or all there are (`FrameSize`).
From it `AverageNeedsItsDays` and `TrendNeedsBoth`, for any finite history with any
gaps. `AveragesHold` is the rest: the frame is the tail of the days in the order of
dates (`FrameInOrder`), the sum of a frame is the sum along that order
(`SumOfFrame`), each value of the trend and of the cross stands for one comparison
of such quotients and no other, and a close above or below a mean is above or below
one of the closes it is the mean of (`AboveAverage`, `BelowAverage`,
`HigherAverage`).

**`SilverDedupProofs`.** The invariant: Bronze and Silver have one row for a trade
and Silver is a part of Bronze. So what the filter selects is new in Silver
(`SelectedIsNew`), the delete of delete+insert deletes nothing, and a run adds
exactly the selected rows. From it: `TypeCorrect`, `FromBronze`, `Unique`,
`Rerun`, `Keeps`. `OneWriterSkipsNothing` assumes a single writer and
`~EmptyFirstRun`, the two conditions that the runs `dedup_skips` and
`dedup_frozen` show to be necessary: then a stamp under way is later than all
that is committed.

**`TransformationProofs`.** The argument is that a task that has started can rely
on its upstream tasks being `success` until the run is over (`GatesOK`). So while
a task works the tables built upstream stay what they are (`DataOK`), through
failures after a commit and retries. From it: `CircuitBreaker`,
`SuccessMeansAll` (the marker is a leaf, so its state decides, and the chain
behind it follows), `SuccessMeansFresh`; and, with the relation of `tries` to
`state`, `TypeCorrect`. `NotificationsAreTrue` needs two facts more: every
`upstream_failed` has a failed task behind it (`HasCause`), and the notifier, whose
upstream tasks are all watched ones, is skipped only when they are all final and
none broke (`NotifyOK`). What it reports are watched tasks, for the success marker
can fail only in a run in which none of them did (`ReportsWatched`).

**`HealthMonitorProofs`.** The invariant: a task of the chain that has started
has only successful tasks before it (`GatesOK`), the notifier has started only if
a check is broken for good (`AlarmOK`), and a check that has passed has pushed an
admissible reading in that attempt (`ReadingsOK`). The last one needs that a
failed attempt of a sensor, which leaves a bad reading in XCom, is not `Ran`.
From it: `OneVerdict`, `SummaryTells`, `SuccessTells`; and, as above,
`TypeCorrect`. `NoDataTold` needs `DataOK`: a freshness check that has passed read a
table with a row, and a table that has a row never loses its last (`OneKeepsData`).

**Model-checked only.** Liveness (`ShutdownCompletes`, `Reconnects`,
`ArrivesInSilver`, `OutagesAreTold`, `RecoveryIsTold`) and the liveness part of the
refinement `FeedSpec`: fairness and `ENABLED` are out of the prover's reach.


## 5. What the models leave out, and observations without a run

Abstractions: prices and quantities are integers (the code compares, multiplies
and adds `Decimal`s exactly); a message is valid or not; the topic of the Beam job
has only records with a value, as the source drops the others before anything is
parsed (`kafka_source.py:55`); messages of the
exchange are distinct (a redelivery is the producer's or Kafka's); a Beam element is
processed atomically, which the single key and the fusion of the DoFns justify;
the rounding of `DECIMAL(18,8)` columns is not modelled; derived columns that a
Gold model computes by arithmetic from others of the same row are left out; the
clock of a database round trip advances; a dbt run is one transaction; SLA
misses and callbacks only log.

Not modelled, and why nothing more of it can be: loggers and `callbacks.py` format
one record per call, keep no state and swallow their own exceptions, so there is no
behaviour to get wrong that a property could name; Terraform, Dockerfiles, compose
files, `render.yaml`, CI and scripts are declarative or I/O; `/ping` and `/` are
constants. Of the dbt tests, the gates they form are in `TransformationDag` and
what they assert of candles and averages follows from `ExtremesOK`, `EndpointsOK`
and `AveragesOK`; not-null, accepted-values and clock tests are about values that
the models do not carry. The operators under
`airflow/plugins` are not in the repository; what they do is taken from
`airflow/tests` and marked external.

Seen while modelling, true of the models, and not given a run of its own:

* `/health` answers 200 with `running` while the client is disconnected, and with
  the buffer full for good; `pipeline_health_monitor.py:117` says it verifies that
  the connection is active.
* A `stop()` before the first step of the task is undone by `run()`
  (`websocket_client.py:67`, `:97`); nothing calls it then.
* `RawTradesDuckDBWriter` swallows a failed insert, so that a candle can count a
  trade Bronze lacks (`pipeline.py:55` says every valid tick is persisted); a
  resent trade is counted twice in its candle while Bronze has it once.
* `notify_pipeline_failure` is not downstream of `mark_pipeline_success`, so a
  failure of the marker is not notified; it fires at the first failure, so its
  list lacks what fails beside it later.
* `dbt test --select gold` includes the tests of `gold_moving_averages`, which the
  DAG never builds.
* The health monitor queries BigQuery (`pipeline_health_monitor.py:165-171`,
  `:232-239`, `:277`, `:294`, `:388`), while the sinks write DuckDB or MotherDuck
  (`beam/src/config.py:46-55`, `duckdb_sink.py:190-228`), and nothing in the
  repository loads BigQuery. So however well the platform is, both freshness checks
  find "NO data" and raise in every run, which the runs notify, and none is healthy
  (`NoDataNoHealth`, `NoDataTold`; the notifying is an instance of
  `OutagesAreTold`). The message "The Beam pipeline has never written to this
  table" (`:177`) is then true of the table and says nothing about the pipeline.
  `RecoveryIsTold` is about a deployment in which somebody does load the tables.
* The window is 5 seconds (`beam/src/config.py:18`), where the table is called
  `ohlcv_1min`, `sources.yml:108` says "Always window_start + 60s" and
  `pipeline.py:71` "(60s)". The models have the window as a parameter and the proofs
  hold for any that divides the day.
* The ingestor sensor of the health monitor counts the category
  `schema_validation_failure` (`pipeline_health_monitor.py:296`), which no code
  writes: the only writer uses another one and calls it "consistent with the error
  category used by the health monitor" (`duckdb_sink.py:102`). The ingestor's own
  dead letters go to a topic nobody reads. Even if the dead letters were loaded into
  BigQuery the sensor would always pass.
* The checks of the health monitor are a chain, so the first failing one hides the
  rest from the notification, and a failure of `log_health_summary` is not
  notified. Nor is the notifier retried: one lost notification is lost, but the
  next run makes another.
* `RawTradesDuckDBWriter` writes `is_market_maker` as `FALSE` for every trade
  (`duckdb_sink.py:226`), while `gold_trade_volume_hourly` counts makers and takers
  by it: every hour is all takers.
* `ParseAndValidate` is documented as a mirror of the ingestor's schema
  (`transforms.py:52`) and accepts more: no `is_market_maker`, any event time,
  any drift. The other direction, which is what the ingestor's messages need,
  holds and is proved (`ValidatorsAgree`).
* The averages of `gold_moving_averages` are over rows, not calendar days: a 7-day
  average after an outage reaches further back than seven days.
* The ranking of panes in `silver_ohlcv_validated` never has a choice to make while
  the table has its key, and the key is what the upsert needs.
* `make motherduck-init` reads `init_schemas.sql` from a path at which there is none
  (`Makefile:188`); `pipeline.py:110` logs that it runs on the DirectRunner, where
  `config.py:76` sets FlinkRunner.


## 6. Plan

Done, in this order, because it is the way a trade goes and what is lost early is
lost for good: ingestor, candles, Beam job, Silver, the two DAGs; then the
validators, the creation of the tables, restarts in the abstract feed, the Gold
models and their composition with the candles and with the job; then the proofs of
every safety property, those about sums and averages last.

Left:

1. One model of the whole way of a trade, from the socket to Gold, with an abstract
   specification that says how often it may arrive at each stage. The parts that
   lose or duplicate it are in `IngestorService`, `BeamPipeline` and `SilverDedup`
   and each is checked on its own; their product is beyond the bounds at which the
   interesting cases of all three happen.
2. A second symbol, when the platform gets one: the schemas, the key of the windows
   and the partitions of the Gold models have one today.
