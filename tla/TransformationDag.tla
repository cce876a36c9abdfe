--------------------------- MODULE TransformationDag ---------------------------
(***************************************************************************)
(* The DAG dbt_transformation_pipeline over the tables it moves.           *)
(*                                                                         *)
(* What a table holds is abstracted to a version: the number of writes of  *)
(* the Beam pipeline it reflects.  A dbt command is one transaction, so a  *)
(* task that fails has rebuilt its table or left it alone.                 *)
(***************************************************************************)
EXTENDS Naturals, FiniteSets

CONSTANTS
    TaskRetries,   \* TASK_RETRIES of dag_utils/constants.py
    MaxWrites,     \* bound: writes of the Beam pipeline
    MaxRuns        \* bound: runs of the DAG

ASSUME DagAssumption == {TaskRetries, MaxWrites, MaxRuns} \subseteq Nat

\* The tables that are built from silver_deduped_trades, a table; the other
\* one, gold_daily_ohlcv, reads the view silver_ohlcv_validated.
FromTrades == {"gold_price_stats", "gold_volume_hourly"}
GoldModels == FromTrades \union {"gold_daily_ohlcv"}

Watched == {"check_environment", "silver_deduped", "silver_ohlcv",
            "test_silver", "test_gold"} \union GoldModels

DagTasks == Watched \union {"mark_success", "notify_failure"}

\* The pipeline itself.
Chain ==
    {<<"check_environment", "silver_deduped">>,
     <<"silver_deduped", "silver_ohlcv">>,
     <<"silver_ohlcv", "test_silver">>,
     <<"test_gold", "mark_success">>}
    \union ({"test_silver"} \X GoldModels)
    \union (GoldModels \X {"test_gold"})

ToNotifier == Watched \X {"notify_failure"}

\* Mutant of Wiring: a Gold model does not wait for the Silver tests.
WiringNoGate ==
    ToNotifier \union {<<"silver_ohlcv", "gold_price_stats">>}
    \union (Chain \ {<<"test_silver", "gold_price_stats">>})

\* Mutant of Wiring: an independent success marker.
WiringLooseMarker ==
    ToNotifier \union {<<"check_environment", "mark_success">>}
    \union (Chain \ {<<"test_gold", "mark_success">>})

\* Mutant of Wiring: the Gold tests run beside a model they test.
WiringEarlyTests ==
    ToNotifier \union {<<"test_silver", "test_gold">>}
    \union {<<"gold_daily_ohlcv", "mark_success">>}
    \union (Chain \ {<<"gold_daily_ohlcv", "test_gold">>})

\* The failure notifier hangs on every task but the success marker.
Wiring == Chain \union ToNotifier

\* Mutant of TriggerRules: the notifier waits for the default rule.
TriggerRulesDefault == [t \in DagTasks |-> "all_success"]

TriggerRules ==
    [t \in DagTasks |->
        IF t = "notify_failure" THEN "one_failed" ELSE "all_success"]

\* Mutant of RetriesOf: the notifier retries like the others.
RetriesOfAll == [t \in DagTasks |-> TaskRetries]

RetriesOf ==
    [t \in DagTasks |-> IF t = "notify_failure" THEN 0 ELSE TaskRetries]

VARIABLES
    state, tries,   \* the task instances of the active run, see AirflowRun
    runs,           \* runs started
    written,        \* version of Bronze and of ohlcv_1min
    base,           \* the version when the run started
    silver,         \* version of silver_deduped_trades
    gold,           \* version of each Gold table
    passed,         \* history: versions of silver that passed the Silver tests
    checked,        \* history: what the Gold tests of this run passed on
    report          \* failed_tasks of the notification of this run

INSTANCE AirflowRun WITH
    Tasks <- DagTasks, Edges <- Wiring, Rule <- TriggerRules,
    Retries <- RetriesOf

runVars == <<state, tries>>
tables == <<silver, gold>>
history == <<passed, checked, report>>
vars == <<runVars, runs, written, base, tables, history>>

Versions == 0..MaxWrites

TypeOK ==
    /\ state \in [DagTasks -> States]
    /\ tries \in [DagTasks -> 0..TaskRetries + 1]
    /\ tries["notify_failure"] <= 1
    /\ runs \in 0..MaxRuns
    /\ {written, base, silver} \subseteq Versions
    /\ gold \in [GoldModels -> Versions]
    /\ passed \subseteq Versions
    /\ checked \in [GoldModels -> Versions]
    /\ report \subseteq DagTasks

Init ==
    /\ state = [t \in DagTasks |-> "skipped"]   \* no run yet
    /\ tries = [t \in DagTasks |-> 0]
    /\ runs = 0 /\ written = 0 /\ base = 0 /\ silver = 0
    /\ gold = [g \in GoldModels |-> 0]
    /\ passed = {0}
    /\ checked = gold
    /\ report = {}

\* The Beam pipeline writes whenever it likes.
Write ==
    /\ written < MaxWrites
    /\ written' = written + 1
    /\ UNCHANGED <<runVars, runs, base, tables, history>>

\* The next scheduled run, or one an operator triggers: never two at a time.
NextRun ==
    /\ RunOver
    /\ runs < MaxRuns
    /\ runs' = runs + 1
    /\ state' = [t \in DagTasks |-> "none"]
    /\ tries' = [t \in DagTasks |-> 0]
    /\ base' = written
    /\ checked' = [g \in GoldModels |-> 0]
    /\ report' = {}
    /\ UNCHANGED <<written, tables, passed>>

-----------------------------------------------------------------------------
(* The bodies of the tasks.                                                 *)

\* check_environment, the CREATE VIEW of silver_ohlcv_validated and the
\* summary of mark_pipeline_success change none of the tables.
Bodiless == {"check_environment", "silver_ohlcv", "mark_success"}

RunPlain(t) ==
    /\ t \in Bodiless
    /\ UNCHANGED <<tables, history>>

\* The incremental model takes what has been written since (SilverDedup says
\* which rows precisely).
RunSilver ==
    /\ silver' = written
    /\ UNCHANGED <<gold, history>>

TestSilver ==
    /\ passed' = passed \union {silver}
    /\ UNCHANGED <<tables, checked, report>>

\* full_refresh: built anew from what the model reads.
RunGold(g) ==
    /\ gold' = [gold EXCEPT ![g] = IF g \in FromTrades THEN silver ELSE written]
    /\ UNCHANGED <<silver, history>>

TestGold ==
    /\ checked' = gold
    /\ UNCHANGED <<tables, passed, report>>

Notify ==
    /\ report' = {t \in DagTasks : state[t] = "failed"}
    /\ UNCHANGED <<tables, passed, checked>>

Body(t) ==
    /\ Execute(t)
    /\ \/ RunPlain(t)
       \/ t = "silver_deduped" /\ RunSilver
       \/ t = "test_silver" /\ TestSilver
       \/ t \in GoldModels /\ RunGold(t)
       \/ t = "test_gold" /\ TestGold
       \/ t = "notify_failure" /\ Notify
    /\ UNCHANGED <<runs, written, base>>

Schedule(t) ==
    /\ Scheduling(t)
    /\ UNCHANGED <<runs, written, base, tables, history>>

TaskMoves(t) == Schedule(t) \/ Body(t)

Next == Write \/ NextRun \/ \E t \in DagTasks : TaskMoves(t)

Spec == Init /\ [][Next]_vars

-----------------------------------------------------------------------------
(* Properties.                                                              *)

Succeeded == runs > 0 /\ RunOver /\ ~RunFailed

\* The circuit breaker: what Gold says of trades is always built from a
\* Silver table that passed all its tests, also after a run has rebuilt
\* Silver and stopped at the gate, through every retry and parallel failure
\* ("All dbt schema + custom tests must pass before Gold runs", line 114).
GoldFromTested == \A g \in FromTrades : gold[g] \in passed

\* A run that Airflow shows as successful left Gold at least as new as the
\* data of its start, the trade tables agreeing with Silver and with each
\* other, and all of it as the Gold tests saw it.
SuccessIsFresh ==
    Succeeded =>
        /\ checked = gold
        /\ \A g \in GoldModels : gold[g] >= base
        /\ \A g \in FromTrades : gold[g] = silver

\* The notifier is a leaf that succeeds when others fail: it must not make a
\* broken run look successful.  Every task but the notifier has succeeded.
SuccessIsTrue ==
    Succeeded => \A t \in DagTasks \ {"notify_failure"} : state[t] = "success"

\* The notifier runs in exactly the runs in which a watched task failed, and
\* a notification names a task that did fail, never only victims: ONE_FAILED
\* also triggers on upstream_failed, which the list leaves out (line 281).
NotifierTells ==
    RunOver =>
        LET failed == {t \in Watched : state[t] = "failed"} IN
        /\ state["notify_failure"] = "skipped" <=> failed = {}
        /\ state["notify_failure"] = "success" =>
                report # {} /\ report \subseteq failed
=============================================================================
