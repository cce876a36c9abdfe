------------------------------ MODULE AirflowRun ------------------------------
(***************************************************************************)
(* One run of an Airflow DAG: the states of its task instances, moved by   *)
(* the scheduler and the executor.  Airflow is a library, modelled from    *)
(* how the two DAGs of airflow/dags use it: the trigger rules ALL_SUCCESS  *)
(* and ONE_FAILED, "retries", and max_active_runs = 1.  A module of a DAG  *)
(* instantiates this one with its tasks and says what their bodies do.     *)
(***************************************************************************)
EXTENDS Naturals

CONSTANTS
    Tasks,
    Edges,      \* <<u, t>>: u >> t, t waits for u
    Rule,       \* Rule[t]: its trigger rule, "all_success" or "one_failed"
    Retries     \* Retries[t]: its "retries"

VARIABLES
    state,      \* state of each task instance
    tries       \* attempts started of each task instance; back to 0 when it
                \* is final, for nothing in the DAGs reads it then

Broken == {"failed", "upstream_failed"}
Final == Broken \union {"success", "skipped"}

\* "executed": the body has returned and the scheduler does not know it yet.
States == Final \union {"none", "running", "executed", "up_for_retry"}

Enter(t, s) == state' = [state EXCEPT ![t] = s]

Upstream(t) == {u \in Tasks : <<u, t>> \in Edges}

SomeBroken(t) == \E u \in Upstream(t) : state[u] \in Broken

Triggered(t) ==
    \/ Rule[t] = "all_success" /\ \A u \in Upstream(t) : state[u] = "success"
    \/ Rule[t] = "one_failed" /\ SomeBroken(t)

Begin(t) ==
    /\ \/ state[t] = "none" /\ Triggered(t)
       \/ state[t] = "up_for_retry"
    /\ Enter(t, "running")
    /\ tries' = [tries EXCEPT ![t] = @ + 1]

Execute(t) ==
    /\ state[t] = "running"
    /\ Enter(t, "executed")
    /\ UNCHANGED tries

Succeed(t) ==
    /\ state[t] = "executed"
    /\ Enter(t, "success")
    /\ tries' = [tries EXCEPT ![t] = 0]

\* An exception, the execution timeout or a killed worker, before or after
\* the body has had its effect.
Fail(t) ==
    /\ state[t] \in {"running", "executed"}
    /\ \/ /\ tries[t] <= Retries[t]
          /\ Enter(t, "up_for_retry")
          /\ UNCHANGED tries
       \/ /\ tries[t] > Retries[t]
          /\ Enter(t, "failed")
          /\ tries' = [tries EXCEPT ![t] = 0]

\* A task that can never be triggered.
Settle(t) ==
    /\ state[t] = "none"
    /\ \/ /\ Rule[t] = "all_success"
          /\ SomeBroken(t)
          /\ Enter(t, "upstream_failed")
       \/ /\ Rule[t] = "one_failed"
          /\ ~SomeBroken(t)
          /\ \A u \in Upstream(t) : state[u] \in Final
          /\ Enter(t, "skipped")
    /\ UNCHANGED tries

Scheduling(t) == Begin(t) \/ Succeed(t) \/ Fail(t) \/ Settle(t)

RunOver == \A t \in Tasks : state[t] \in Final

Leaves == {t \in Tasks : \A u \in Tasks : <<t, u>> \notin Edges}

\* The state of the run follows from its leaves alone.
RunFailed == \E t \in Leaves : state[t] \in Broken
=============================================================================
