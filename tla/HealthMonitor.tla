----------------------------- MODULE HealthMonitor -----------------------------
(***************************************************************************)
(* The DAG pipeline_health_monitor over what it reads: two tables of       *)
(* BigQuery, the dead letters of the last hour there, and the ingestor.    *)
(* All of it moves while a run is under way.                               *)
(*                                                                         *)
(* The tables are not those of the pipeline: the Beam sinks write DuckDB   *)
(* or MotherDuck, dbt reads those, and nothing in the repository loads     *)
(* BigQuery.  The model starts with empty tables and leaves it open        *)
(* whether somebody outside ever loads them.                               *)
(*                                                                         *)
(* What a check reads is a set: of one value, or empty when the query      *)
(* finds none.  Time is in hours, the unit of all thresholds.              *)
(***************************************************************************)
EXTENDS Naturals

CONSTANTS
    TaskRetries,    \* "retries" of DEFAULT_ARGS
    AgeError,       \* hours after which a table is stale, 6 in the code
    DeadLetterMax,  \* Airflow Variable dead_letter_max_per_hour
    SilverMinRows,  \* Airflow Variable silver_min_rows_per_hour
    MaxFaults       \* bound: attempts that fail for no reason of the platform

ASSUME MonitorAssumption ==
    /\ {TaskRetries, AgeError, MaxFaults} \subseteq Nat
    /\ {DeadLetterMax, SilverMinRows} \subseteq Nat \ {0}

Tables == {"raw_trades", "ohlcv_1min"}

FreshnessOf ==
    [raw_trades |-> "check_bronze_source_freshness",
     ohlcv_1min |-> "check_silver_source_freshness"]

Freshness == {FreshnessOf[tb] : tb \in Tables}

DeadLetterChecks ==
    {"check_dead_letter_volume_pipeline", "check_dead_letter_volume_ingestor"}

Sensors == DeadLetterChecks \union {"check_silver_row_count_anomaly"}

Checks == Freshness \union Sensors \union {"check_ingestor_health_endpoint"}

MonitorTasks == Checks \union {"log_health_summary", "notify_health_failure"}

Chain ==
    (Freshness \X DeadLetterChecks)
    \union (DeadLetterChecks \X {"check_ingestor_health_endpoint"})
    \union {<<"check_ingestor_health_endpoint", "check_silver_row_count_anomaly">>,
            <<"check_silver_row_count_anomaly", "log_health_summary">>}

\* Mutant of Wiring: a dead-letter check nothing but the notifier waits for.
WiringSideCheck ==
    (Checks \X {"notify_health_failure"})
    \union (Chain \ ({"check_dead_letter_volume_pipeline"} \X Checks))

\* Mutant of Wiring: the summary comes after the ingestor check.
WiringEarlySummary ==
    (Chain \ {<<"check_silver_row_count_anomaly", "log_health_summary">>})
    \union {<<"check_ingestor_health_endpoint", "log_health_summary">>}
    \union (Checks \X {"notify_health_failure"})

Wiring == Chain \union (Checks \X {"notify_health_failure"})

TriggerRules ==
    [t \in MonitorTasks |->
        IF t = "notify_health_failure" THEN "one_failed" ELSE "all_success"]

\* Mutant of RetriesOf: the notifier retries like the others.
RetriesOfAll == [t \in MonitorTasks |-> TaskRetries]

RetriesOf ==
    [t \in MonitorTasks |->
        IF t = "notify_health_failure" THEN 0 ELSE TaskRetries]

VARIABLES
    state, tries,   \* the task instances of the active run, see AirflowRun
    xcom,           \* what each check has pushed in its latest attempt
    faults,         \* attempts that have failed for no reason of the platform
    age,            \* hours since the last row of each table
    rows,           \* rows of ohlcv_1min in the last hour
    letters,        \* rows of pipeline_dead_letter in the last hour
    ingestor        \* what GET /health amounts to

INSTANCE AirflowRun WITH
    Tasks <- MonitorTasks, Edges <- Wiring, Rule <- TriggerRules,
    Retries <- RetriesOf

runVars == <<state, tries, xcom, faults>>
platform == <<age, rows, letters, ingestor>>
vars == <<runVars, platform>>

\* "failing": not running, an answer other than 200, or none.
Responses == {"running", "failing"}

Rates == {0, SilverMinRows - 1, SilverMinRows}
Volumes == {DeadLetterMax - 1, DeadLetterMax}
Ages == {{}} \union {{h} : h \in 0..AgeError + 1}
Counts == {{}} \union {{n} : n \in {0} \union Rates \union Volumes}

TypeOK ==
    /\ state \in [MonitorTasks -> States]
    /\ tries \in [MonitorTasks -> 0..TaskRetries + 1]
    /\ tries["notify_health_failure"] <= 1
    /\ xcom = [c \in Checks |-> xcom[c]]
    /\ \A c \in Freshness : xcom[c] \in Ages
    /\ \A c \in Sensors : xcom[c] \in Counts
    /\ xcom["check_ingestor_health_endpoint"] \in {{}, {"running"}}
    /\ faults \in 0..MaxFaults
    /\ age \in [Tables -> Ages]
    /\ rows \in Rates
    /\ letters \in Volumes
    /\ ingestor \in Responses

\* No run yet, tables without a row, and an ingestor that is up.
Init ==
    /\ state = [t \in MonitorTasks |-> "skipped"]
    /\ tries = [t \in MonitorTasks |-> 0]
    /\ xcom = [c \in Checks |-> {}]
    /\ faults = 0
    /\ age = [tb \in Tables |-> {}]
    /\ rows = 0
    /\ letters = DeadLetterMax - 1
    /\ ingestor = "running"

-----------------------------------------------------------------------------
(* What the monitor reads.                                                  *)

\* Dead letters show in BigQuery or cease to (loaded from outside, like the
\* tables), the ingestor fails or recovers.
Change ==
    /\ \/ letters' \in Volumes \ {letters} /\ UNCHANGED ingestor
       \/ ingestor' \in Responses \ {ingestor} /\ UNCHANGED letters
    /\ UNCHANGED <<runVars, age, rows>>

\* Beyond AgeError ages are all the same.
Older(h) == IF h <= AgeError THEN h + 1 ELSE h

\* An hour goes by in which somebody outside has loaded rows into a table, or
\* nobody has: nothing in the repository does, and nothing makes it happen.
Tick ==
    /\ UNCHANGED <<runVars, letters, ingestor>>
    /\ \E loaded \in SUBSET Tables :
        /\ age' = [tb \in Tables |->
                     IF tb \in loaded THEN {0} ELSE {Older(h) : h \in age[tb]}]
        /\ rows' \in Rates
        /\ rows' > 0 <=> "ohlcv_1min" \in loaded

-----------------------------------------------------------------------------
(* The bodies of the tasks.                                                 *)

\* Mutant of FreshEnough: no last row is taken for a recent one.
FreshEnoughEmpty(tb) == \A h \in age[tb] : h <= AgeError

\* An empty table raises, a table not loaded for AgeError hours raises (the
\* warning at two hours only logs).
FreshEnough(tb) == \E h \in age[tb] : h <= AgeError

\* Mutant of EnoughRows: GREATER_THAN.
EnoughRowsStrictly == rows > SilverMinRows

\* Mutant of EnoughRows: any row will do.
EnoughRowsAny == rows > 0

EnoughRows == rows >= SilverMinRows

\* Mutant of FewLetters: LESS_THAN_OR_EQUAL.
FewLettersOrEqual == letters <= DeadLetterMax

FewLetters == letters < DeadLetterMax

\* The rows of the category the second sensor counts: none, as long as the
\* rows are those of the only writer of dead letters, which are all of
\* another category (duckdb_sink.py:106).
SchemaFailures == 0

Passes(c) ==
    \/ \E tb \in Tables : c = FreshnessOf[tb] /\ FreshEnough(tb)
    \/ c = "check_dead_letter_volume_pipeline" /\ FewLetters
    \/ c = "check_dead_letter_volume_ingestor" /\ SchemaFailures < DeadLetterMax
    \/ c = "check_ingestor_health_endpoint" /\ ingestor = "running"
    \/ c = "check_silver_row_count_anomaly" /\ EnoughRows

Reading(c) ==
    CASE c = "check_dead_letter_volume_pipeline" -> {letters}
      [] c = "check_dead_letter_volume_ingestor" -> {SchemaFailures}
      [] c = "check_silver_row_count_anomaly" -> {rows}
      [] c = "check_ingestor_health_endpoint" -> {ingestor}
      [] OTHER -> UNION {age[tb] : tb \in {x \in Tables : FreshnessOf[x] = c}}

\* A sensor pushes its reading before it raises on a breach, a check written
\* as a function returns one only if it passes.
Check(c) ==
    /\ state[c] = "running"
    /\ \/ Passes(c) /\ Execute(c)
       \/ ~Passes(c) /\ Fail(c)
    /\ xcom' = IF Passes(c) \/ c \in Sensors
               THEN [xcom EXCEPT ![c] = Reading(c)] ELSE xcom

\* log_health_summary pulls the readings and logs "healthy".
Summarise ==
    /\ Execute("log_health_summary")
    /\ UNCHANGED xcom

\* notify_health_failure logs "platform_health_check_failed" and the failed.
Notify ==
    /\ Execute("notify_health_failure")
    /\ UNCHANGED xcom

Body(t) ==
    \/ t \in Checks /\ Check(t)
    \/ t = "log_health_summary" /\ Summarise
    \/ t = "notify_health_failure" /\ Notify

-----------------------------------------------------------------------------
(* Airflow.                                                                 *)

\* Each attempt starts without the values of the one before it.
Attempt(t) ==
    /\ Begin(t)
    /\ xcom' = IF t \in Checks THEN [xcom EXCEPT ![t] = {}] ELSE xcom

Conclude(t) ==
    /\ Succeed(t) \/ Settle(t)
    /\ UNCHANGED xcom

\* A worker is killed, BigQuery is out of reach, a timeout expires.
Fault(t) ==
    /\ faults < MaxFaults
    /\ Fail(t)
    /\ faults' = faults + 1
    /\ UNCHANGED <<xcom, platform>>

\* Every five minutes, but never two at a time.
NextRun ==
    /\ RunOver
    /\ state' = [t \in MonitorTasks |-> "none"]
    /\ tries' = [t \in MonitorTasks |-> 0]
    /\ xcom' = [c \in Checks |-> {}]

Advance(t) == Attempt(t) \/ Conclude(t) \/ Body(t)

Airflow ==
    /\ UNCHANGED <<faults, platform>>
    /\ NextRun \/ \E t \in MonitorTasks : Advance(t)

Next == Change \/ Tick \/ Airflow \/ \E t \in MonitorTasks : Fault(t)

\* Airflow does something whenever there is something to do; the platform may
\* do what it likes, stay as it is for good included.
Fairness == WF_vars(Airflow)

Spec == Init /\ [][Next]_vars /\ Fairness

-----------------------------------------------------------------------------
(* Properties.                                                              *)

Summarised == state["log_health_summary"] \in {"executed", "success"}
Notified == state["notify_health_failure"] \in {"executed", "success"}

\* What a summary says: every reading it pulls is there, from an attempt that
\* passed and within its threshold, whatever the retries before it and the
\* changes since ("overall_status": "healthy", line 431; a pull that finds
\* nothing defaults to an empty result, lines 415-425).
SummaryIsTrue ==
    Summarised =>
        /\ \A c \in Freshness : \E h \in 0..AgeError : xcom[c] = {h}
        /\ xcom["check_ingestor_health_endpoint"] = {"running"}
        /\ \E n \in 0..DeadLetterMax - 1 :
                xcom["check_dead_letter_volume_pipeline"] = {n}
        /\ \E n \in Volumes \union Rates :
                n >= SilverMinRows /\ xcom["check_silver_row_count_anomaly"] = {n}

\* The monitor as the repository runs it: until somebody loads both tables no
\* run is healthy, however well the ingestor and the pipeline are ("has NO
\* data", lines 175-178 and 241-245, raised since the sinks moved to DuckDB).
NoDataNoHealth == (\E tb \in Tables : age[tb] = {}) => ~Summarised

\* A run never logs both that the platform is healthy and that a check
\* failed, though the notifier may fire while other branches still work.
NeverBoth == ~(Summarised /\ Notified)

\* The run Airflow shows as a success is one in which every check passed,
\* although the notifier, a leaf that succeeds when others fail, is part of
\* what decides it.
SuccessIsHealthy ==
    RunOver /\ ~RunFailed /\ (\E t \in MonitorTasks : state[t] = "success")
        => \A c \in Checks : state[c] = "success"

\* A lasting outage of any of the four kinds is told again and again, by the
\* check meant for it or by one before it in the chain, at whatever point of
\* a run it begins and whatever the rest does: a table with no row or none of
\* the last AgeError hours, too many dead letters, an ingestor that is down,
\* and a table that gets rows but not enough ("Verifies", "Alerts if",
\* "Detects", lines 112-119).
OutagesAreTold ==
    /\ \A tb \in Tables :
            <>[](\A h \in 0..AgeError : h \notin age[tb]) => []<>Notified
    /\ <>[](letters >= DeadLetterMax) => []<>Notified
    /\ <>[](ingestor # "running") => []<>Notified
    /\ <>[](rows < SilverMinRows) => []<>Notified

\* When all the monitor reads is well for good, the alarms end and summaries
\* come: no reading, retry or run of the past keeps the monitor failing.
\* Well means that somebody loads both BigQuery tables, which nothing in the
\* repository does: see NoDataNoHealth.
RecoveryIsTold ==
    <>[](/\ \E h \in 0..AgeError : age["raw_trades"] = {h}
         /\ rows >= SilverMinRows
         /\ letters < DeadLetterMax
         /\ ingestor = "running")
        => /\ []<>Summarised
           /\ <>[]~Notified
=============================================================================
