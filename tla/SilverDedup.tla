----------------------------- MODULE SilverDedup -----------------------------
(***************************************************************************)
(* The incremental dbt model silver_deduped_trades and the Bronze table it *)
(* reads while the Beam workers go on writing it.                          *)
(*                                                                         *)
(* A worker (RawTradesDuckDBWriter.process, beam/src/duckdb_sink.py) takes *)
(* the time of a row, ingested_at, before it executes and commits the      *)
(* insert; dbt reads what is committed.  A dbt run is one transaction: a   *)
(* failed one leaves the table as it was.                                  *)
(***************************************************************************)
EXTENDS Naturals, FiniteSets

CONSTANTS
    TradeIds,
    Writers,          \* parallel instances of RawTradesDuckDBWriter
    MaxClock,         \* bound: the wall clock
    EmptyFirstRun     \* BOOLEAN: dbt may build the table on an empty Bronze

ASSUME DedupAssumption == MaxClock \in Nat /\ EmptyFirstRun \in BOOLEAN

Rows == [id : TradeIds, at : 0..MaxClock]

VARIABLES
    clock,     \* datetime.now()
    writing,   \* the row each writer has stamped and not committed, as a set
    bronze,    \* committed rows of bronze_raw.raw_trades
    built,     \* silver_deduped_trades exists
    silver     \* its rows, {} before it exists

vars == <<clock, writing, bronze, built, silver>>

TypeOK ==
    /\ clock \in 0..MaxClock
    /\ writing \in [Writers -> SUBSET Rows]
    /\ bronze \subseteq Rows
    /\ built \in BOOLEAN
    /\ silver \subseteq Rows

Init ==
    /\ clock = 0
    /\ writing = [w \in Writers |-> {}]
    /\ bronze = {}
    /\ built = FALSE
    /\ silver = {}

-----------------------------------------------------------------------------
(* The Bronze writers.  A trade can be delivered again at any time.         *)

\* Mutant of Stamp: a stamp ahead of the clock.
StampAhead(w, t) ==
    /\ writing[w] = {}
    /\ writing' = [writing EXCEPT ![w] = {[id |-> t, at |-> clock + 1]}]
    /\ UNCHANGED <<clock, bronze, built, silver>>

\* Mutant of Stamp: the time of the trade in place of the time of ingestion.
StampEventTime(w, t) ==
    /\ writing[w] = {}
    /\ writing' = [writing EXCEPT ![w] = {[id |-> t, at |-> 0]}]
    /\ UNCHANGED <<clock, bronze, built, silver>>

Stamp(w, t) ==
    /\ writing[w] = {}
    /\ writing' = [writing EXCEPT ![w] = {[id |-> t, at |-> clock]}]
    /\ UNCHANGED <<clock, bronze, built, silver>>

\* execute() and commit(): INSERT OR IGNORE on the primary key.  The round
\* trip to the database takes at least a tick of the clock.
Commit(w) ==
    /\ writing[w] # {}
    /\ clock < MaxClock
    /\ clock' = clock + 1
    /\ bronze' = bronze \union
            {r \in writing[w] : \A b \in bronze : b.id # r.id}
    /\ writing' = [writing EXCEPT ![w] = {}]
    /\ UNCHANGED <<built, silver>>

\* The exception of a failed insert is swallowed, the row forgotten.
CommitFails(w) ==
    /\ writing[w] # {}
    /\ writing' = [writing EXCEPT ![w] = {}]
    /\ UNCHANGED <<clock, bronze, built, silver>>

-----------------------------------------------------------------------------
(* dbt.                                                                     *)

\* ingested_at > (select max(ingested_at) from this): no row passes the
\* comparison with the NULL of an empty table.
Selected ==
    {b \in bronze : silver # {} /\ \A s \in silver : b.at > s.at}

\* _dedup_rank = 1: the first-ingested row of each trade.
FirstOfEach(S) ==
    {r \in S : \A q \in S : q.id = r.id => r.at <= q.at}

\* The table does not exist: the model without the incremental filter.
FirstRun ==
    /\ ~built
    /\ EmptyFirstRun \/ bronze # {}
    /\ built' = TRUE
    /\ silver' = FirstOfEach(bronze)
    /\ UNCHANGED <<clock, writing, bronze>>

\* Mutant of Upsert: the table is replaced by the new rows.
UpsertReplaces(new) == silver' = new

\* Mutant of Upsert: the delete without the insert.
UpsertDeletes(new) ==
    silver' = {s \in silver : \A n \in new : n.id # s.id}

\* delete+insert with unique_key trade_id.
Upsert(new) ==
    silver' = {s \in silver : \A n \in new : n.id # s.id} \union new

IncrementalRun ==
    /\ built
    /\ Upsert(FirstOfEach(Selected))
    /\ UNCHANGED <<clock, writing, bronze, built>>

DbtRun == FirstRun \/ IncrementalRun

Next ==
    \/ \E w \in Writers :
        \/ \E t \in TradeIds : Stamp(w, t)
        \/ Commit(w)
        \/ CommitFails(w)
    \/ DbtRun

\* Airflow runs the DAG again and again.
Spec == Init /\ [][Next]_vars /\ WF_vars(DbtRun)

-----------------------------------------------------------------------------
(* Properties.                                                              *)

\* One row for each trade: the not-null unique test on trade_id cannot fail.
SilverUnique == \A r, q \in silver : r.id = q.id => r = q

\* What Silver says of a trade is what Bronze says: the first-ingested row,
\* not a later delivery of it (silver_deduped_trades.sql:15).
SilverFromBronze == silver \subseteq bronze

\* "Deterministic and idempotent on re-runs" (line 16): after a run there is
\* nothing left to select until a writer commits.
RerunIsNoop == [][DbtRun => Selected' = {}]_vars

\* A row once in Silver stays there, unchanged by every later run.
SilverKeeps == [][silver \subseteq silver']_vars

\* Bronze rows that no later run will ever select.
Skipped == {b \in bronze \ silver : built /\ b \notin Selected}

\* Nothing is skipped: each committed row is in Silver or will be selected by
\* the next run ("only process new rows since last successful run", line 68).
NoneSkipped == Skipped = {}

\* Every committed trade gets into Silver.
ArrivesInSilver ==
    \A t \in TradeIds :
        (\E b \in bronze : b.id = t) ~> (\E s \in silver : s.id = t)
=============================================================================
