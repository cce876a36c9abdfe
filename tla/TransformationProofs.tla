------------------------- MODULE TransformationProofs -------------------------
(***************************************************************************)
(* Proofs about TransformationDag, for every number of retries, of writes  *)
(* and of runs.                                                            *)
(*                                                                         *)
(* The argument: a task that has started, and every task that waits for    *)
(* it, can rely on its upstream tasks being "success" until the run is     *)
(* over (GatesOK).  So while a task works, the tables its upstream tasks   *)
(* have built stay what they are (DataOK), through any failure and retry.  *)
(***************************************************************************)
EXTENDS TransformationDag, TLAPS

\* The states of a task whose trigger rule has been satisfied.
Started == {"running", "executed", "up_for_retry", "success", "failed"}

\* The body of the last attempt has had its effect.
Ran == {"executed", "success"}

StateOK == state \in [DagTasks -> States]

GatesOK ==
    \A t \in DagTasks \ {"notify_failure"} :
        state[t] \in Started => \A u \in Upstream(t) : state[u] = "success"

NeverSkipped ==
    runs > 0 => \A t \in DagTasks \ {"notify_failure"} : state[t] # "skipped"

NumOK ==
    /\ runs \in Nat /\ written \in Nat /\ base \in Nat /\ silver \in Nat
    /\ base <= written
    /\ gold \in [GoldModels -> Nat]

DataOK ==
    /\ state["silver_deduped"] \in Ran => base <= silver
    /\ state["test_silver"] \in Ran => silver \in passed
    /\ \A g \in FromTrades : state[g] \in Ran => gold[g] = silver
    /\ state["gold_daily_ohlcv"] \in Ran => base <= gold["gold_daily_ohlcv"]
    /\ state["test_gold"] \in Ran => checked = gold

IInv == StateOK /\ GatesOK /\ NeverSkipped /\ NumOK /\ DataOK /\ GoldFromTested

-----------------------------------------------------------------------------
(* The wiring, written out.                                                 *)

LEMMA WiringIs ==
    /\ Upstream("silver_deduped") = {"check_environment"}
    /\ Upstream("silver_ohlcv") = {"silver_deduped"}
    /\ Upstream("test_silver") = {"silver_ohlcv"}
    /\ \A g \in GoldModels : Upstream(g) = {"test_silver"}
    /\ Upstream("test_gold") = GoldModels
    /\ Upstream("mark_success") = {"test_gold"}
BY DEF Upstream, Wiring, Chain, ToNotifier, DagTasks, Watched, GoldModels,
       FromTrades

\* What GatesOK says of each task of the chain.
LEMMA Relies ==
    ASSUME GatesOK
    PROVE  /\ state["silver_deduped"] \in Started =>
                state["check_environment"] = "success"
           /\ state["silver_ohlcv"] \in Started =>
                state["silver_deduped"] = "success"
           /\ state["test_silver"] \in Started =>
                state["silver_ohlcv"] = "success"
           /\ \A g \in GoldModels :
                state[g] \in Started => state["test_silver"] = "success"
           /\ state["test_gold"] \in Started =>
                \A g \in GoldModels : state[g] = "success"
           /\ state["mark_success"] \in Started =>
                state["test_gold"] = "success"
<1>1. \A t \in DagTasks \ {"notify_failure"} :
        state[t] \in Started => \A u \in Upstream(t) : state[u] = "success"
  BY DEF GatesOK
<1>2. {"silver_deduped", "silver_ohlcv", "test_silver", "test_gold",
       "mark_success"} \union GoldModels \subseteq DagTasks \ {"notify_failure"}
  BY DEF DagTasks, Watched, GoldModels, FromTrades
<1>3. QED
  BY <1>1, <1>2, WiringIs

-----------------------------------------------------------------------------
(* A step of one task instance.                                             *)

\* A task moves alone, never out of a final state; it starts only with its
\* trigger rule satisfied, and without its body it does not become Ran.
LEMMA OneMoves ==
    ASSUME StateOK, NEW t \in DagTasks, Scheduling(t) \/ Execute(t)
    PROVE  /\ state[t] \notin Final
           /\ \E s \in States : state' = [state EXCEPT ![t] = s]
           /\ state'[t] \in Started =>
                state[t] \in Started \/ (state[t] = "none" /\ Triggered(t))
           /\ Scheduling(t) => (state'[t] \in Ran => state[t] \in Ran)
           /\ Execute(t) => state[t] = "running"
           /\ t # "notify_failure" => state'[t] # "skipped"
<1>1. CASE Begin(t)
  BY <1>1 DEF Begin, Enter, StateOK, States, Final, Broken, Started, Ran,
              Execute
<1>2. CASE Execute(t)
  BY <1>2 DEF Execute, Enter, StateOK, States, Final, Broken, Started, Ran,
              Scheduling, Begin, Succeed, Fail, Settle
<1>3. CASE Succeed(t)
  BY <1>3 DEF Succeed, Enter, StateOK, States, Final, Broken, Started, Ran,
              Execute
<1>4. CASE Fail(t)
  BY <1>4 DEF Fail, Enter, StateOK, States, Final, Broken, Started, Ran,
              Execute
<1>5. CASE Settle(t)
  <2>1. t # "notify_failure" => TriggerRules[t] = "all_success"
    BY DEF TriggerRules
  <2>2. QED
    BY <1>5, <2>1 DEF Settle, Enter, StateOK, States, Final, Broken, Started,
                      Ran, Execute
<1>6. QED
  BY <1>1, <1>2, <1>3, <1>4, <1>5 DEF Scheduling

\* Such a step keeps the gates.
LEMMA OneKeepsGates ==
    ASSUME StateOK, GatesOK, NEW t \in DagTasks, Scheduling(t) \/ Execute(t)
    PROVE  StateOK' /\ GatesOK'
<1>1. /\ state[t] \notin Final
      /\ state'[t] \in Started =>
            state[t] \in Started \/ (state[t] = "none" /\ Triggered(t))
  BY OneMoves
<1>2. PICK s \in States : state' = [state EXCEPT ![t] = s]
  BY OneMoves
<1>3. StateOK'
  BY <1>2 DEF StateOK
<1>4. ASSUME NEW d \in DagTasks \ {"notify_failure"}, state'[d] \in Started
      PROVE  \A u \in Upstream(d) : state'[u] = "success"
  <2>1. \A u \in Upstream(d) : state[u] = "success"
    <3>1. CASE d # t
      BY <1>2, <1>4, <3>1 DEF StateOK, GatesOK
    <3>2. CASE d = t /\ state[t] \in Started
      BY <1>4, <3>2 DEF GatesOK
    <3>3. CASE d = t /\ Triggered(t)
      <4>1. TriggerRules[t] = "all_success"
        BY <1>4, <3>3 DEF TriggerRules
      <4>2. QED
        BY <3>3, <4>1 DEF Triggered
    <3>4. QED
      BY <1>1, <1>4, <3>1, <3>2, <3>3
  <2>2. \A u \in Upstream(d) : u \in DagTasks
    BY DEF Upstream
  <2>3. QED
    BY <1>1, <1>2, <2>1, <2>2 DEF StateOK, Final
<1>5. QED
  BY <1>3, <1>4 DEF GatesOK

-----------------------------------------------------------------------------
(* The inductive invariant.                                                 *)

LEMMA InitIInv == Init => IInv
<1> SUFFICES ASSUME Init PROVE IInv
  OBVIOUS
<1>1. StateOK /\ GatesOK /\ NeverSkipped
  BY DEF Init, StateOK, GatesOK, NeverSkipped, States, Final, Started
<1>2. NumOK
  BY DEF Init, NumOK
<1>3. DataOK /\ GoldFromTested
  <2>1. GoldFromTested
    BY DEF Init, GoldFromTested, GoldModels
  <2>2. \A t \in DagTasks : state[t] \notin Ran
    BY DEF Init, Ran
  <2>3. QED
    BY <2>1, <2>2 DEF DataOK, DagTasks, Watched, GoldModels, FromTrades
<1>4. QED
  BY <1>1, <1>2, <1>3 DEF IInv

\* Beam may write at any time: base <= written is all that is said of it.
LEMMA WriteKeeps == IInv /\ Write => IInv'
<1> SUFFICES ASSUME IInv, Write PROVE IInv'
  OBVIOUS
<1>1. NumOK'
  BY DEF IInv, NumOK, Write, tables
<1>2. QED
  BY <1>1 DEF IInv, Write, StateOK, GatesOK, NeverSkipped, DataOK,
              GoldFromTested, runVars, tables, history, Upstream

\* A new run forgets the states and nothing else.
LEMMA NextRunKeeps == IInv /\ NextRun => IInv'
<1> SUFFICES ASSUME IInv, NextRun PROVE IInv'
  OBVIOUS
<1>1. \A t \in DagTasks : state'[t] = "none"
  BY DEF NextRun
<1>2. StateOK' /\ GatesOK' /\ NeverSkipped'
  BY <1>1 DEF NextRun, StateOK, GatesOK, NeverSkipped, States, Final, Started
<1>3. NumOK'
  BY DEF IInv, NumOK, NextRun, tables
<1>4. DataOK'
  BY <1>1 DEF DataOK, Ran, DagTasks, Watched, GoldModels, FromTrades
<1>5. GoldFromTested'
  BY DEF IInv, GoldFromTested, NextRun, tables
<1>6. QED
  BY <1>2, <1>3, <1>4, <1>5 DEF IInv

\* The scheduler moves a task and touches no table.
LEMMA ScheduleKeeps ==
    ASSUME IInv, NEW t \in DagTasks, Schedule(t)
    PROVE  IInv'
<1>1. StateOK' /\ GatesOK'
  BY OneKeepsGates DEF IInv, Schedule
<1>2. PICK s \in States : state' = [state EXCEPT ![t] = s]
  BY OneMoves DEF IInv, Schedule
<1>3. NeverSkipped'
  BY <1>2, OneMoves DEF IInv, Schedule, NeverSkipped, StateOK
<1>4. NumOK' /\ GoldFromTested'
  BY DEF IInv, Schedule, NumOK, GoldFromTested, tables, history
<1>5. \A d \in DagTasks : state'[d] \in Ran => state[d] \in Ran
  BY <1>2, OneMoves DEF IInv, Schedule, StateOK
<1>6. DataOK'
  BY <1>5 DEF IInv, Schedule, DataOK, tables, history, DagTasks, Watched,
              GoldModels, FromTrades
<1>7. QED
  BY <1>1, <1>3, <1>4, <1>6 DEF IInv

\* The body of a task: nothing downstream of it has started, so what is
\* claimed of the tables of the others is not disturbed.
LEMMA BodyKeeps ==
    ASSUME IInv, NEW t \in DagTasks, Body(t)
    PROVE  IInv'
<1>0. StateOK /\ GatesOK /\ NumOK /\ DataOK /\ GoldFromTested /\ Execute(t)
  BY DEF IInv, Body
<1>1. StateOK' /\ GatesOK'
  BY <1>0, OneKeepsGates
<1>2. state[t] = "running" /\ state' = [state EXCEPT ![t] = "executed"]
  BY <1>0 DEF Execute, Enter
<1>3. NeverSkipped'
  BY <1>0, <1>2 DEF IInv, Body, NeverSkipped, StateOK
<1>4. \A d \in DagTasks : d # t => state'[d] = state[d]
  BY <1>0, <1>2 DEF StateOK
<1>5. UNCHANGED <<runs, written, base>>
  BY DEF Body
<1>6. {"silver_deduped", "silver_ohlcv", "test_silver", "test_gold",
       "gold_daily_ohlcv"} \union FromTrades \subseteq DagTasks
  BY DEF DagTasks, Watched, GoldModels, FromTrades
<1>7. Ran \subseteq Started /\ "running" \in Started
  BY DEF Ran, Started
<1>8. "running" # "success"
  OBVIOUS
<1>9. CASE RunPlain(t) \/ (t = "notify_failure" /\ Notify)
  <2>1. \A d \in {"silver_deduped", "test_silver", "test_gold"}
                    \union GoldModels : state'[d] = state[d]
    BY <1>4, <1>6, <1>9 DEF RunPlain, Bodiless, DagTasks, Watched, GoldModels,
                            FromTrades
  <2>2. UNCHANGED <<silver, gold, passed, checked>>
    BY <1>9 DEF RunPlain, Notify, tables, history
  <2>3. NumOK' /\ DataOK' /\ GoldFromTested'
    BY <1>0, <1>5, <2>1, <2>2 DEF NumOK, DataOK, GoldFromTested, GoldModels
  <2>4. QED
    BY <1>1, <1>3, <2>3 DEF IInv
<1>10. CASE t = "silver_deduped" /\ RunSilver
  <2>1. UNCHANGED <<gold, passed, checked>> /\ silver' = written
    BY <1>10 DEF RunSilver, history
  <2>2. state["silver_ohlcv"] \notin Started
    BY <1>0, <1>2, <1>10, Relies
  <2>3. state["test_silver"] \notin Started
    BY <1>0, <2>2, <1>7, Relies DEF Started
  <2>4. \A g \in GoldModels : state[g] \notin Started
    BY <1>0, <2>3, Relies DEF Started
  <2>5. state["test_gold"] \notin Started
    BY <1>0, <2>4, Relies DEF Started, GoldModels, FromTrades
  <2>6. \A d \in {"test_silver", "test_gold"} \union GoldModels :
            state'[d] \notin Ran
    BY <1>4, <1>6, <1>7, <1>10, <2>3, <2>4, <2>5 DEF GoldModels, FromTrades
  <2>7. NumOK'
    BY <1>0, <1>5, <2>1 DEF NumOK
  <2>8. DataOK'
    BY <1>0, <1>5, <2>1, <2>6 DEF DataOK, NumOK, GoldModels
  <2>9. GoldFromTested'
    BY <1>0, <2>1 DEF GoldFromTested
  <2>10. QED
    BY <1>1, <1>3, <2>7, <2>8, <2>9 DEF IInv
<1>11. CASE t = "test_silver" /\ TestSilver
  <2>1. UNCHANGED <<silver, gold, checked>> /\ passed' = passed \union {silver}
    BY <1>11 DEF TestSilver, tables
  <2>2. \A d \in {"silver_deduped", "test_gold"} \union GoldModels :
            state'[d] = state[d]
    BY <1>4, <1>6, <1>11 DEF GoldModels, FromTrades
  <2>3. NumOK'
    BY <1>0, <1>5, <2>1 DEF NumOK
  <2>4. DataOK'
    BY <1>0, <1>5, <2>1, <2>2 DEF DataOK, GoldModels
  <2>5. GoldFromTested'
    BY <1>0, <2>1 DEF GoldFromTested
  <2>6. QED
    BY <1>1, <1>3, <2>3, <2>4, <2>5 DEF IInv
<1>12. CASE t \in GoldModels /\ RunGold(t)
  <2>1. /\ UNCHANGED <<silver, passed, checked>>
        /\ gold' = [gold EXCEPT ![t] = IF t \in FromTrades THEN silver
                                                           ELSE written]
    BY <1>12 DEF RunGold, history
  <2>2. state["test_silver"] = "success"
    BY <1>0, <1>2, <1>7, <1>12, Relies
  <2>3. silver \in passed
    BY <1>0, <2>2 DEF DataOK, Ran
  <2>4. state'["test_gold"] \notin Ran
    <3>1. state["test_gold"] \notin Started
      BY <1>0, <1>2, <1>12, Relies
    <3>2. t # "test_gold"
      BY <1>12 DEF GoldModels, FromTrades
    <3>3. QED
      BY <1>4, <1>6, <1>7, <3>1, <3>2
  <2>5. NumOK'
    BY <1>0, <1>5, <2>1 DEF NumOK
  <2>6. \A g \in GoldModels :
            gold'[g] = IF g = t THEN IF t \in FromTrades THEN silver
                                                         ELSE written
                                ELSE gold[g]
    BY <1>0, <2>1 DEF NumOK
  <2>7. GoldFromTested'
    BY <1>0, <2>1, <2>3, <2>6 DEF GoldFromTested, GoldModels
  <2>8. DataOK'
    <3>1. \A d \in {"silver_deduped", "test_silver"} : state'[d] = state[d]
      BY <1>4, <1>6, <1>12 DEF GoldModels, FromTrades
    <3>2. \A g \in FromTrades : state'[g] \in Ran => gold'[g] = silver'
      BY <1>0, <1>4, <1>6, <2>1, <2>6 DEF DataOK, GoldModels
    <3>3. state'["gold_daily_ohlcv"] \in Ran =>
            base' <= gold'["gold_daily_ohlcv"]
      BY <1>0, <1>4, <1>5, <1>6, <2>6
         DEF DataOK, NumOK, GoldModels, FromTrades
    <3>4. QED
      BY <1>0, <1>5, <2>1, <2>4, <3>1, <3>2, <3>3 DEF DataOK
  <2>9. QED
    BY <1>1, <1>3, <2>5, <2>7, <2>8 DEF IInv
<1>13. CASE t = "test_gold" /\ TestGold
  <2>1. UNCHANGED <<silver, gold, passed>> /\ checked' = gold
    BY <1>13 DEF TestGold, tables
  <2>2. \A d \in {"silver_deduped", "test_silver"} \union GoldModels :
            state'[d] = state[d]
    BY <1>4, <1>6, <1>13 DEF GoldModels, FromTrades
  <2>3. NumOK' /\ GoldFromTested'
    BY <1>0, <1>5, <2>1 DEF NumOK, GoldFromTested
  <2>4. DataOK'
    BY <1>0, <1>5, <2>1, <2>2 DEF DataOK, GoldModels
  <2>5. QED
    BY <1>1, <1>3, <2>3, <2>4 DEF IInv
<1>14. QED
  BY <1>9, <1>10, <1>11, <1>12, <1>13 DEF Body

LEMMA StepIInv == IInv /\ [Next]_vars => IInv'
<1> SUFFICES ASSUME IInv, [Next]_vars PROVE IInv'
  OBVIOUS
<1>1. CASE UNCHANGED vars
  BY <1>1 DEF vars, runVars, tables, history, IInv, StateOK, GatesOK,
              NeverSkipped, NumOK, DataOK, GoldFromTested, Upstream
<1>2. CASE Write \/ NextRun
  BY <1>2, WriteKeeps, NextRunKeeps
<1>3. ASSUME NEW t \in DagTasks, TaskMoves(t) PROVE IInv'
  BY <1>3, ScheduleKeeps, BodyKeeps DEF TaskMoves
<1>4. QED
  BY <1>1, <1>2, <1>3 DEF Next

THEOREM Inductive == Spec => []IInv
BY InitIInv, StepIInv, PTL DEF Spec

-----------------------------------------------------------------------------
(* Types.  That tries stays within the retries needs its relation to state. *)

TriesOK ==
    /\ tries \in [DagTasks -> Nat]
    /\ \A t \in DagTasks :
        /\ state[t] \in {"none"} \union Final => tries[t] = 0
        /\ state[t] = "up_for_retry" => tries[t] <= RetriesOf[t]
        /\ state[t] \in {"running", "executed"} => tries[t] <= RetriesOf[t] + 1

LEMMA OneKeepsTries ==
    ASSUME StateOK, TriesOK, NEW t \in DagTasks, Scheduling(t) \/ Execute(t)
    PROVE  TriesOK'
<1>0. RetriesOf \in [DagTasks -> Nat]
  BY DagAssumption DEF RetriesOf
<1>1. CASE Begin(t)
  BY <1>0, <1>1 DEF Begin, Enter, StateOK, TriesOK, States, Final, Broken
<1>2. CASE Execute(t)
  BY <1>0, <1>2 DEF Execute, Enter, StateOK, TriesOK, States, Final, Broken
<1>3. CASE Succeed(t)
  BY <1>0, <1>3 DEF Succeed, Enter, StateOK, TriesOK, States, Final, Broken
<1>4. CASE Fail(t)
  BY <1>0, <1>4 DEF Fail, Enter, StateOK, TriesOK, States, Final, Broken
<1>5. CASE Settle(t)
  BY <1>0, <1>5 DEF Settle, Enter, StateOK, TriesOK, States, Final, Broken
<1>6. QED
  BY <1>1, <1>2, <1>3, <1>4, <1>5 DEF Scheduling

RestOK ==
    /\ runs \in 0..MaxRuns
    /\ {written, base, silver} \subseteq Versions
    /\ gold \in [GoldModels -> Versions]
    /\ passed \subseteq Versions
    /\ checked \in [GoldModels -> Versions]
    /\ report \subseteq DagTasks

LEMMA StepRest == RestOK /\ [Next]_vars => RestOK'
<1> SUFFICES ASSUME RestOK, [Next]_vars PROVE RestOK'
  OBVIOUS
<1>0. MaxRuns \in Nat /\ MaxWrites \in Nat /\ 0 \in Versions
  BY DagAssumption DEF Versions
<1>1. CASE UNCHANGED vars
  BY <1>1 DEF vars, tables, history, RestOK
<1>2. CASE Write
  BY <1>0, <1>2 DEF Write, RestOK, tables, history, Versions
<1>3. CASE NextRun
  <2>1. runs' \in 0..MaxRuns
    BY <1>0, <1>3 DEF NextRun, RestOK
  <2>2. QED
    BY <1>0, <1>3, <2>1 DEF NextRun, RestOK, tables
<1>4. ASSUME NEW t \in DagTasks, Schedule(t) PROVE RestOK'
  BY <1>4 DEF Schedule, RestOK, tables, history
<1>5. ASSUME NEW t \in DagTasks, Body(t) PROVE RestOK'
  BY <1>5 DEF Body, RestOK, RunPlain, RunSilver, TestSilver, RunGold, TestGold,
              Notify, tables, history
<1>6. QED
  BY <1>1, <1>2, <1>3, <1>4, <1>5 DEF Next, TaskMoves

LEMMA StepTries == IInv /\ TriesOK /\ [Next]_vars => TriesOK'
<1> SUFFICES ASSUME IInv, TriesOK, [Next]_vars PROVE TriesOK'
  OBVIOUS
<1>1. CASE UNCHANGED vars \/ Write
  BY <1>1 DEF vars, runVars, Write, TriesOK
<1>2. CASE NextRun
  <2>1. \A t \in DagTasks : RetriesOf[t] \in Nat
    BY DagAssumption DEF RetriesOf
  <2>2. QED
    BY <1>2, <2>1 DEF NextRun, TriesOK, Final
<1>3. ASSUME NEW t \in DagTasks, TaskMoves(t) PROVE TriesOK'
  BY <1>3, OneKeepsTries DEF TaskMoves, Schedule, Body, IInv
<1>4. QED
  BY <1>1, <1>2, <1>3 DEF Next

LEMMA InitTypes == Init => TriesOK /\ RestOK
<1> SUFFICES ASSUME Init PROVE TriesOK /\ RestOK
  OBVIOUS
<1>1. MaxRuns \in Nat /\ MaxWrites \in Nat /\ 0 \in Versions
  BY DagAssumption DEF Versions
<1>2. TriesOK
  BY DEF Init, TriesOK, Final, Broken
<1>3. RestOK
  BY <1>1 DEF Init, RestOK
<1>4. QED
  BY <1>2, <1>3

\* Type correctness: a task is tried at most TaskRetries + 1 times, the
\* notifier once.
THEOREM TypeCorrect == Spec => []TypeOK
<1>1. ASSUME StateOK, TriesOK, RestOK PROVE TypeOK
  <2>1. RetriesOf \in [DagTasks -> Nat] /\ TaskRetries \in Nat
    BY DagAssumption DEF RetriesOf
  <2>2. ASSUME NEW t \in DagTasks PROVE tries[t] \in 0..RetriesOf[t] + 1
    BY <1>1, <2>1 DEF StateOK, TriesOK, States, Final, Broken
  <2>3. \A t \in DagTasks : RetriesOf[t] <= TaskRetries
    BY <2>1 DEF RetriesOf
  <2>4. tries \in [DagTasks -> 0..TaskRetries + 1]
    BY <1>1, <2>1, <2>2, <2>3 DEF TriesOK
  <2>5. tries["notify_failure"] <= 1
    <3>1. "notify_failure" \in DagTasks
      BY DEF DagTasks
    <3>2. RetriesOf["notify_failure"] = 0
      BY <3>1 DEF RetriesOf
    <3>3. tries["notify_failure"] \in 0..0 + 1
      BY <2>2, <3>1, <3>2
    <3>4. QED
      BY <3>3
  <2>6. QED
    BY <1>1, <2>4, <2>5 DEF TypeOK, StateOK, RestOK
<1>2. IInv /\ TriesOK /\ RestOK => TypeOK
  BY <1>1 DEF IInv
<1>3. QED
  BY <1>2, Inductive, InitTypes, StepTries, StepRest, PTL DEF Spec

-----------------------------------------------------------------------------
(* What follows.                                                            *)

\* The circuit breaker: whatever fails, is retried or runs in parallel, Gold
\* tables of trades are built from a Silver table that passed its tests.
THEOREM CircuitBreaker == Spec => []GoldFromTested
<1>1. IInv => GoldFromTested
  BY DEF IInv
<1>2. QED
  BY <1>1, Inductive, PTL

\* In a successful run the marker has succeeded, and the chain before it.
LEMMA ChainSucceeded ==
    ASSUME IInv, Succeeded
    PROVE  /\ \A t \in DagTasks \ {"notify_failure"} : state[t] = "success"
<1>1. "mark_success" \in Leaves
  BY DEF Leaves, Wiring, Chain, ToNotifier, DagTasks, Watched, GoldModels,
         FromTrades
<1>2. state["mark_success"] = "success"
  BY <1>1 DEF Succeeded, RunFailed, RunOver, IInv, NeverSkipped, Final,
              DagTasks
<1>3. GatesOK
  BY DEF IInv
<1>4. state["test_gold"] = "success"
  BY <1>2, <1>3, Relies DEF Started
<1>5. \A g \in GoldModels : state[g] = "success"
  BY <1>3, <1>4, Relies DEF Started
<1>6. state["test_silver"] = "success"
  BY <1>3, <1>5, Relies DEF Started, GoldModels, FromTrades
<1>7. state["silver_ohlcv"] = "success"
  BY <1>3, <1>6, Relies DEF Started
<1>8. state["silver_deduped"] = "success"
  BY <1>3, <1>7, Relies DEF Started
<1>9. state["check_environment"] = "success"
  BY <1>3, <1>8, Relies DEF Started
<1>10. QED
  BY <1>2, <1>4, <1>5, <1>6, <1>7, <1>8, <1>9 DEF DagTasks, Watched

\* A run that looks successful is one in which every task of the pipeline
\* succeeded: the success of the notifier cannot hide a failure.
THEOREM SuccessMeansAll == Spec => []SuccessIsTrue
<1>1. IInv => SuccessIsTrue
  BY ChainSucceeded DEF SuccessIsTrue
<1>2. QED
  BY <1>1, Inductive, PTL

\* A successful run leaves Gold as new as its start, consistent with Silver,
\* and as the Gold tests saw it.
THEOREM SuccessMeansFresh == Spec => []SuccessIsFresh
<1>1. ASSUME IInv, Succeeded
      PROVE  /\ checked = gold
             /\ \A g \in GoldModels : gold[g] >= base
             /\ \A g \in FromTrades : gold[g] = silver
  <2>1. \A t \in DagTasks \ {"notify_failure"} : state[t] = "success"
    BY <1>1, ChainSucceeded
  <2>2. \A t \in {"silver_deduped", "test_gold"} \union GoldModels :
            state[t] \in Ran
    BY <2>1 DEF Ran, DagTasks, Watched, GoldModels, FromTrades
  <2>3. DataOK /\ NumOK
    BY <1>1 DEF IInv
  <2>4. checked = gold /\ \A g \in FromTrades : gold[g] = silver
    BY <2>2, <2>3 DEF DataOK, GoldModels
  <2>5. base <= silver /\ base <= gold["gold_daily_ohlcv"]
    BY <2>2, <2>3 DEF DataOK, GoldModels
  <2>6. \A g \in GoldModels : gold[g] >= base
    BY <2>3, <2>4, <2>5 DEF NumOK, GoldModels
  <2>7. QED
    BY <2>4, <2>6
<1>2. IInv => SuccessIsFresh
  BY <1>1 DEF SuccessIsFresh
<1>3. QED
  BY <1>2, Inductive, PTL

-----------------------------------------------------------------------------
(* The notifier.  A watched task that broke has a watched task that failed  *)
(* at the end of its upstream edges; the notifier cannot settle before      *)
(* every watched task is final; and final states stay.  So what it was      *)
(* skipped or triggered on is still so when the run is over.                *)

FailedNow == {t \in Watched : state[t] = "failed"}

\* upstream_failed has a cause.
HasCause ==
    \A t \in DagTasks : state[t] = "upstream_failed" => FailedNow # {}

NotifyOK ==
    /\ state["notify_failure"] # "upstream_failed"
    /\ state["notify_failure"] \in Started => FailedNow # {}
    /\ state["notify_failure"] = "skipped" =>
            \A t \in Watched : state[t] \in {"success", "skipped"}
    /\ state["notify_failure"] \in Ran =>
            report # {} /\ report \subseteq FailedNow

LEMMA NotifierWiring ==
    /\ Upstream("notify_failure") = Watched
    /\ \A t \in DagTasks : Upstream(t) \subseteq Watched
    /\ Watched \subseteq DagTasks \ {"notify_failure"}
    /\ DagTasks = Watched \union {"mark_success", "notify_failure"}
    /\ TriggerRules["notify_failure"] = "one_failed"
BY DEF Upstream, Wiring, Chain, ToNotifier, DagTasks, Watched, GoldModels,
       FromTrades, TriggerRules

LEMMA BrokenHasCause ==
    ASSUME HasCause, NEW t \in DagTasks, SomeBroken(t)
    PROVE  FailedNow # {}
<1>1. PICK u \in Upstream(t) : state[u] \in Broken
  BY DEF SomeBroken
<1>2. u \in Watched /\ u \in DagTasks
  BY <1>1, NotifierWiring
<1>3. QED
  BY <1>1, <1>2 DEF HasCause, Broken, FailedNow

\* Final states stay, and a task breaks below another only below a broken one.
LEMMA OneKeepsFinal ==
    ASSUME StateOK, NEW t \in DagTasks, Scheduling(t) \/ Execute(t)
    PROVE  /\ \A d \in DagTasks : d # t => state'[d] = state[d]
           /\ \A d \in DagTasks : state[d] \in Final => state'[d] = state[d]
           /\ FailedNow \subseteq FailedNow'
           /\ state'[t] = "upstream_failed" => SomeBroken(t)
<1>1. PICK s \in States : state' = [state EXCEPT ![t] = s]
  BY OneMoves
<1>2. state[t] \notin Final
  BY OneMoves
<1>3. \A d \in DagTasks : d # t => state'[d] = state[d]
  BY <1>1 DEF StateOK
<1>4. \A d \in DagTasks : state[d] \in Final => state'[d] = state[d]
  BY <1>2, <1>3
<1>5. FailedNow \subseteq FailedNow'
  BY <1>4, NotifierWiring DEF FailedNow, Final, Broken
<1>6. state'[t] = "upstream_failed" => SomeBroken(t)
  BY DEF Scheduling, Begin, Succeed, Fail, Settle, Execute, Enter, StateOK
<1>7. QED
  BY <1>3, <1>4, <1>5, <1>6

\* What the notifier reports when its body runs: only watched tasks, for the
\* success marker starts only when none of them failed.
LEMMA ReportsWatched ==
    ASSUME IInv, NotifyOK, state["notify_failure"] = "running"
    PROVE  {t \in DagTasks : state[t] = "failed"} = FailedNow
<1>1. FailedNow # {}
  BY DEF NotifyOK, Started
<1>2. state["mark_success"] # "failed"
  <2> SUFFICES ASSUME state["mark_success"] = "failed" PROVE FALSE
    OBVIOUS
  <2>1. GatesOK
    BY DEF IInv
  <2>2. state["test_gold"] = "success"
    BY <2>1, Relies DEF Started
  <2>3. \A g \in GoldModels : state[g] = "success"
    BY <2>1, <2>2, Relies DEF Started
  <2>4. state["test_silver"] = "success"
    BY <2>1, <2>3, Relies DEF Started, GoldModels, FromTrades
  <2>5. state["silver_ohlcv"] = "success"
    BY <2>1, <2>4, Relies DEF Started
  <2>6. state["silver_deduped"] = "success"
    BY <2>1, <2>5, Relies DEF Started
  <2>7. state["check_environment"] = "success"
    BY <2>1, <2>6, Relies DEF Started
  <2>8. FailedNow = {}
    BY <2>2, <2>3, <2>4, <2>5, <2>6, <2>7 DEF FailedNow, Watched
  <2>9. QED
    BY <1>1, <2>8
<1>3. QED
  BY <1>2, NotifierWiring DEF FailedNow

LEMMA OneKeepsNotify ==
    ASSUME IInv, HasCause, NotifyOK, NEW t \in DagTasks,
           Schedule(t) \/ Body(t)
    PROVE  HasCause' /\ NotifyOK'
<1> DEFINE n == "notify_failure"
<1>1. StateOK /\ (Scheduling(t) \/ Execute(t)) /\ n \in DagTasks
  BY DEF IInv, Schedule, Body, DagTasks
<1>2. /\ \A d \in DagTasks : d # t => state'[d] = state[d]
      /\ \A d \in DagTasks : state[d] \in Final => state'[d] = state[d]
      /\ FailedNow \subseteq FailedNow'
      /\ state'[t] = "upstream_failed" => SomeBroken(t)
  BY <1>1, OneKeepsFinal
<1>3. HasCause'
  BY <1>2, BrokenHasCause DEF HasCause
<1>4. ASSUME state[n] = "skipped"
      PROVE  /\ state'[n] = "skipped"
             /\ \A d \in Watched : state'[d] \in {"success", "skipped"}
  BY <1>1, <1>2, <1>4, NotifierWiring DEF NotifyOK, Final, Broken
<1>5. CASE t # n
  <2>1. state'[n] = state[n]
    BY <1>1, <1>2, <1>5
  <2>2. report' = report
    BY <1>5 DEF Schedule, Body, RunPlain, RunSilver, TestSilver, RunGold,
                TestGold, history
  <2>3. NotifyOK'
    BY <1>2, <1>4, <2>1, <2>2 DEF NotifyOK
  <2>4. QED
    BY <1>3, <2>3
<1>6. CASE t = n /\ Schedule(t)
  <2>1. report' = report
    BY <1>6 DEF Schedule, history
  <2>2. CASE Begin(t)
    <3>1. state'[n] = "running" /\ (state[n] = "up_for_retry" \/ SomeBroken(n))
      BY <1>1, <1>6, <2>2, NotifierWiring
         DEF Begin, Enter, Triggered, StateOK
    <3>2. FailedNow # {}
      BY <1>1, <3>1, BrokenHasCause DEF NotifyOK, Started
    <3>3. QED
      BY <1>2, <1>3, <3>1, <3>2 DEF NotifyOK, Ran
  <2>3. CASE Succeed(t) \/ Fail(t)
    <3>1. /\ state[n] \in {"running", "executed"}
          /\ state'[n] \in {"success", "failed", "up_for_retry"}
          /\ state'[n] = "success" => state[n] = "executed"
      BY <1>1, <1>6, <2>3 DEF Succeed, Fail, Enter, StateOK
    <3>2. FailedNow # {}
      BY <3>1 DEF NotifyOK, Started
    <3>3. state'[n] \in Ran => report # {} /\ report \subseteq FailedNow
      BY <3>1 DEF NotifyOK, Ran
    <3>4. QED
      BY <1>2, <1>3, <2>1, <3>1, <3>2, <3>3 DEF NotifyOK
  <2>4. CASE Settle(t)
    <3>1. /\ state'[n] = "skipped" /\ ~SomeBroken(n)
          /\ \A u \in Watched : state[u] \in Final
      BY <1>1, <1>6, <2>4, NotifierWiring DEF Settle, Enter, StateOK
    <3>2. \A u \in Watched : state[u] \in {"success", "skipped"}
      BY <3>1, NotifierWiring DEF SomeBroken, Final
    <3>3. \A u \in Watched : state'[u] \in {"success", "skipped"}
      BY <1>2, <3>2, NotifierWiring DEF Final
    <3>4. QED
      BY <1>3, <3>1, <3>3 DEF NotifyOK, Started, Ran
  <2>5. QED
    BY <1>6, <2>2, <2>3, <2>4 DEF Schedule, Scheduling
<1>7. CASE t = n /\ Body(t)
  <2>1. state[n] = "running" /\ state'[n] = "executed"
    BY <1>1, <1>7 DEF Body, Execute, Enter, StateOK
  <2>2. report' = {d \in DagTasks : state[d] = "failed"}
    BY <1>7 DEF Body, RunPlain, Bodiless, GoldModels, FromTrades, Notify
  <2>3. report' = FailedNow /\ FailedNow # {}
    BY <2>1, <2>2, ReportsWatched DEF NotifyOK, Started
  <2>4. QED
    BY <1>2, <1>3, <2>1, <2>3 DEF NotifyOK
<1>8. QED
  BY <1>5, <1>6, <1>7

LEMMA StepNotify ==
    IInv /\ HasCause /\ NotifyOK /\ [Next]_vars => HasCause' /\ NotifyOK'
<1> SUFFICES ASSUME IInv, HasCause, NotifyOK, [Next]_vars
             PROVE  HasCause' /\ NotifyOK'
  OBVIOUS
<1>1. CASE UNCHANGED vars \/ Write
  BY <1>1 DEF vars, Write, runVars, history, HasCause, NotifyOK, FailedNow
<1>2. CASE NextRun
  <2>1. \A t \in DagTasks : state'[t] = "none"
    BY <1>2 DEF NextRun
  <2>2. QED
    BY <2>1, NotifierWiring DEF HasCause, NotifyOK, Started, Ran
<1>3. ASSUME NEW t \in DagTasks, TaskMoves(t) PROVE HasCause' /\ NotifyOK'
  BY <1>3, OneKeepsNotify DEF TaskMoves
<1>4. QED
  BY <1>1, <1>2, <1>3 DEF Next

\* When a run is over the notifier was skipped exactly if no watched task
\* failed, and a notification that went out names tasks that did fail: also
\* when it was triggered by a task that only fell with another one.
THEOREM NotificationsAreTrue == Spec => []NotifierTells
<1>1. Init => HasCause /\ NotifyOK
  BY NotifierWiring DEF Init, HasCause, NotifyOK, Started, Ran
<1>2. IInv /\ HasCause /\ NotifyOK => NotifierTells
  <2> SUFFICES ASSUME HasCause, NotifyOK, RunOver
               PROVE  /\ state["notify_failure"] = "skipped" <=> FailedNow = {}
                      /\ state["notify_failure"] = "success" =>
                            report # {} /\ report \subseteq FailedNow
    BY DEF NotifierTells, FailedNow
  <2>1. state["notify_failure"] \in {"failed", "success", "skipped"}
    BY NotifierWiring DEF RunOver, Final, Broken, NotifyOK
  <2>2. QED
    BY <2>1 DEF NotifyOK, Started, Ran, FailedNow
<1>3. QED
  BY <1>1, <1>2, Inductive, StepNotify, PTL DEF Spec
=============================================================================
