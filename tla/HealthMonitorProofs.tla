-------------------------- MODULE HealthMonitorProofs --------------------------
(***************************************************************************)
(* Proofs about HealthMonitor, for all thresholds, retries and faults.     *)
(*                                                                         *)
(* The argument: a task of the chain that has started has only successful  *)
(* tasks before it (GatesOK), and success is never taken back in a run; a  *)
(* check that has succeeded has pushed a reading within its threshold in   *)
(* that very attempt (ReadingsOK); and the notifier has only started if    *)
(* some check is broken for good (AlarmOK).                                *)
(***************************************************************************)
EXTENDS HealthMonitor, TLAPS

\* The states of a task whose trigger rule has been satisfied.
Started == {"running", "executed", "up_for_retry", "success", "failed"}

\* The body of the last attempt has passed.
Ran == {"executed", "success"}

StateOK == state \in [MonitorTasks -> States]

GatesOK ==
    \A t \in MonitorTasks \ {"notify_health_failure"} :
        state[t] \in Started => \A u \in Upstream(t) : state[u] = "success"

AlarmOK ==
    state["notify_health_failure"] \in Started =>
        \E c \in Checks : state[c] \in Broken

\* Only before the first run is a task of the chain "skipped".
NeverSkipped ==
    \/ \A t \in MonitorTasks : state[t] = "skipped"
    \/ \A t \in MonitorTasks \ {"notify_health_failure"} : state[t] # "skipped"

PlatformOK ==
    /\ age \in [Tables -> Ages]
    /\ rows \in Rates
    /\ letters \in Volumes
    /\ ingestor \in Responses

\* A reading a summary may show for check c.
Fine(c, x) ==
    \/ c \in Freshness /\ \E h \in 0..AgeError : x = {h}
    \/ c = "check_ingestor_health_endpoint" /\ x = {"running"}
    \/ /\ c = "check_dead_letter_volume_pipeline"
       /\ \E n \in 0..DeadLetterMax - 1 : x = {n}
    \/ /\ c = "check_silver_row_count_anomaly"
       /\ \E n \in Volumes \union Rates : n >= SilverMinRows /\ x = {n}
    \/ c = "check_dead_letter_volume_ingestor"

ReadingsOK ==
    /\ xcom = [c \in Checks |-> xcom[c]]
    /\ \A c \in Checks : state[c] \in Ran => Fine(c, xcom[c])

IInv == StateOK /\ GatesOK /\ AlarmOK /\ NeverSkipped /\ PlatformOK /\ ReadingsOK

-----------------------------------------------------------------------------
(* Names and wiring, written out.                                           *)

LEMMA NamesAre ==
    /\ FreshnessOf["raw_trades"] = "check_bronze_source_freshness"
    /\ FreshnessOf["ohlcv_1min"] = "check_silver_source_freshness"
    /\ Freshness = {"check_bronze_source_freshness",
                    "check_silver_source_freshness"}
<1>1. /\ FreshnessOf["raw_trades"] = "check_bronze_source_freshness"
      /\ FreshnessOf["ohlcv_1min"] = "check_silver_source_freshness"
  BY DEF FreshnessOf
<1>2. QED
  BY <1>1 DEF Freshness, Tables

LEMMA TasksAre ==
    /\ Checks \subseteq MonitorTasks
    /\ Checks = {"check_bronze_source_freshness",
                 "check_silver_source_freshness",
                 "check_dead_letter_volume_pipeline",
                 "check_dead_letter_volume_ingestor",
                 "check_ingestor_health_endpoint",
                 "check_silver_row_count_anomaly"}
BY NamesAre DEF MonitorTasks, Checks, Sensors, DeadLetterChecks

LEMMA WiringIs ==
    /\ \A t \in DeadLetterChecks : Freshness \subseteq Upstream(t)
    /\ DeadLetterChecks \subseteq Upstream("check_ingestor_health_endpoint")
    /\ "check_ingestor_health_endpoint"
            \in Upstream("check_silver_row_count_anomaly")
    /\ "check_silver_row_count_anomaly" \in Upstream("log_health_summary")
    /\ Upstream("notify_health_failure") = Checks
    /\ Leaves = {"log_health_summary", "notify_health_failure"}
<1>1. \A c \in Checks : <<c, "notify_health_failure">> \in Wiring
  BY DEF Wiring
<1>2. \A t \in DeadLetterChecks : Freshness \subseteq Upstream(t)
  BY TasksAre DEF Upstream, Wiring, Chain, Checks
<1>3. DeadLetterChecks \subseteq Upstream("check_ingestor_health_endpoint")
  BY TasksAre DEF Upstream, Wiring, Chain, Checks, Sensors
<1>4. "check_ingestor_health_endpoint"
            \in Upstream("check_silver_row_count_anomaly")
  BY TasksAre DEF Upstream, Wiring, Chain
<1>5. "check_silver_row_count_anomaly" \in Upstream("log_health_summary")
  BY TasksAre DEF Upstream, Wiring, Chain
<1>6. Upstream("notify_health_failure") = Checks
  BY TasksAre DEF Upstream, Wiring, Chain, DeadLetterChecks
<1>7. Leaves = {"log_health_summary", "notify_health_failure"}
  <2>1. \A c \in Checks : c \notin Leaves
    BY <1>1, TasksAre DEF Leaves, MonitorTasks
  <2>2. \A u \in MonitorTasks :
          /\ <<"log_health_summary", u>> \notin Wiring
          /\ <<"notify_health_failure", u>> \notin Wiring
    BY TasksAre, NamesAre DEF Wiring, Chain, DeadLetterChecks
  <2>3. QED
    BY <2>1, <2>2 DEF Leaves, MonitorTasks
<1>8. QED
  BY <1>2, <1>3, <1>4, <1>5, <1>6, <1>7

\* A started summary has the whole chain behind it.
LEMMA ChainSucceeded ==
    ASSUME GatesOK, state["log_health_summary"] \in Started
    PROVE  \A c \in Checks : state[c] = "success"
<1>1. \A t \in MonitorTasks \ {"notify_health_failure"} :
        state[t] \in Started => \A u \in Upstream(t) : state[u] = "success"
  BY DEF GatesOK
<1>2. "success" \in Started
  BY DEF Started
<1>3. state["check_silver_row_count_anomaly"] = "success"
  BY <1>1, WiringIs DEF MonitorTasks
<1>4. state["check_ingestor_health_endpoint"] = "success"
  BY <1>1, <1>2, <1>3, WiringIs, TasksAre
<1>5. \A t \in DeadLetterChecks : state[t] = "success"
  BY <1>1, <1>2, <1>4, WiringIs, TasksAre
<1>6. \A t \in Freshness : state[t] = "success"
  BY <1>1, <1>2, <1>5, WiringIs, TasksAre DEF DeadLetterChecks
<1>7. QED
  BY <1>3, <1>4, <1>5, <1>6 DEF Checks, Sensors

-----------------------------------------------------------------------------
(* A step of one task instance.                                             *)

\* What a task of the monitor does is a step of its task instance.
LEMMA MovesAre ==
    ASSUME NEW t \in MonitorTasks, Advance(t) \/ Fault(t)
    PROVE  Scheduling(t) \/ Execute(t)
BY DEF Advance, Attempt, Conclude, Body, Check, Summarise, Notify, Fault,
       Scheduling

\* A task moves alone, never out of a final state, and starts only with its
\* trigger rule satisfied.
LEMMA OneMoves ==
    ASSUME StateOK, NEW t \in MonitorTasks, Scheduling(t) \/ Execute(t)
    PROVE  /\ state[t] \notin Final
           /\ \E s \in States : state' = [state EXCEPT ![t] = s]
           /\ state'[t] \in Started =>
                state[t] \in Started \/ (state[t] = "none" /\ Triggered(t))
           /\ t # "notify_health_failure" => state'[t] # "skipped"
<1>1. CASE Begin(t)
  BY <1>1 DEF Begin, Enter, StateOK, States, Final, Broken, Started
<1>2. CASE Execute(t)
  BY <1>2 DEF Execute, Enter, StateOK, States, Final, Broken, Started
<1>3. CASE Succeed(t)
  BY <1>3 DEF Succeed, Enter, StateOK, States, Final, Broken, Started
<1>4. CASE Fail(t)
  BY <1>4 DEF Fail, Enter, StateOK, States, Final, Broken, Started
<1>5. CASE Settle(t)
  <2>1. t # "notify_health_failure" => TriggerRules[t] = "all_success"
    BY DEF TriggerRules
  <2>2. QED
    BY <1>5, <2>1 DEF Settle, Enter, StateOK, States, Final, Broken, Started
<1>6. QED
  BY <1>1, <1>2, <1>3, <1>4, <1>5 DEF Scheduling

\* Such a step keeps what is said of the states.
LEMMA OneKeepsStates ==
    ASSUME StateOK, GatesOK, AlarmOK, NeverSkipped,
           NEW t \in MonitorTasks, Scheduling(t) \/ Execute(t)
    PROVE  StateOK' /\ GatesOK' /\ AlarmOK' /\ NeverSkipped'
<1>1. /\ state[t] \notin Final
      /\ state'[t] \in Started =>
            state[t] \in Started \/ (state[t] = "none" /\ Triggered(t))
      /\ t # "notify_health_failure" => state'[t] # "skipped"
  BY OneMoves
<1>2. PICK s \in States : state' = [state EXCEPT ![t] = s]
  BY OneMoves
<1>3. StateOK'
  BY <1>2 DEF StateOK
<1>4. ASSUME NEW d \in MonitorTasks \ {"notify_health_failure"},
             state'[d] \in Started
      PROVE  \A u \in Upstream(d) : state'[u] = "success"
  <2>1. \A u \in Upstream(d) : state[u] = "success"
    <3>1. CASE d # t
      BY <1>2, <1>4, <3>1 DEF StateOK, GatesOK
    <3>2. CASE d = t /\ state[t] \in Started
      BY <1>4, <3>2 DEF GatesOK
    <3>3. CASE d = t /\ Triggered(t)
      <4>1. TriggerRules[t] = "all_success"
        BY <1>4, <3>3 DEF TriggerRules
      <4>2. QED
        BY <3>3, <4>1 DEF Triggered
    <3>4. QED
      BY <1>1, <1>4, <3>1, <3>2, <3>3
  <2>2. \A u \in Upstream(d) : u \in MonitorTasks
    BY DEF Upstream
  <2>3. QED
    BY <1>1, <1>2, <2>1, <2>2 DEF StateOK, Final
<1>5. AlarmOK'
  <2>1. \A c \in Checks : state[c] \in Broken => state'[c] = state[c]
    BY <1>1, <1>2, TasksAre DEF StateOK, Final
  <2>2. SUFFICES ASSUME state'["notify_health_failure"] \in Started
                 PROVE  \E c \in Checks : state[c] \in Broken
    BY <2>1 DEF AlarmOK
  <2>3. CASE state["notify_health_failure"] \in Started
    BY <2>3 DEF AlarmOK
  <2>4. CASE state["notify_health_failure"] \notin Started
    <3>1. t = "notify_health_failure"
      BY <1>2, <2>2, <2>4 DEF StateOK
    <3>2. TriggerRules[t] = "one_failed" /\ Triggered(t)
      BY <1>1, <2>2, <2>4, <3>1 DEF TriggerRules
    <3>3. QED
      BY <3>1, <3>2, WiringIs DEF Triggered, SomeBroken
  <2>5. QED
    BY <2>3, <2>4
<1>6. NeverSkipped'
  BY <1>1, <1>2 DEF StateOK, NeverSkipped, Final
<1>7. QED
  BY <1>3, <1>4, <1>5, <1>6 DEF GatesOK

-----------------------------------------------------------------------------
(* The platform and the readings.                                           *)

LEMMA ConstantsAre ==
    /\ TaskRetries \in Nat /\ AgeError \in Nat /\ MaxFaults \in Nat
    /\ DeadLetterMax \in Nat \ {0} /\ SilverMinRows \in Nat \ {0}
BY MonitorAssumption

\* The platform moves within its types, whatever it does.
LEMMA PlatformMoves ==
    ASSUME PlatformOK, Change \/ Tick
    PROVE  PlatformOK'
<1>1. CASE Change
  BY <1>1 DEF Change, PlatformOK
<1>2. CASE Tick
  <2>1. ASSUME NEW tb \in Tables PROVE age'[tb] \in Ages
    <3>1. age[tb] \in Ages
      BY DEF PlatformOK
    <3>2. age'[tb] \in {{0}, {Older(h) : h \in age[tb]}}
      BY <1>2 DEF Tick
    <3>3. {0} \in Ages
      BY ConstantsAre DEF Ages
    <3>4. CASE age[tb] = {}
      <4>1. {Older(h) : h \in age[tb]} = {}
        BY <3>4
      <4>2. QED
        BY <3>2, <3>3, <4>1 DEF Ages
    <3>5. ASSUME NEW n \in 0..AgeError + 1, age[tb] = {n}
          PROVE  age'[tb] \in Ages
      <4>1. {Older(h) : h \in age[tb]} = {Older(n)}
        BY <3>5
      <4>2. Older(n) \in 0..AgeError + 1
        BY ConstantsAre DEF Older
      <4>3. {Older(n)} \in Ages
        BY <4>2 DEF Ages
      <4>4. QED
        BY <3>2, <3>3, <4>1, <4>3
    <3>6. QED
      BY <3>1, <3>4, <3>5 DEF Ages
  <2>2. age' \in [Tables -> Ages]
    BY <1>2, <2>1 DEF Tick
  <2>3. rows' \in Rates
    BY <1>2 DEF Tick
  <2>4. QED
    BY <1>2, <2>2, <2>3 DEF Tick, PlatformOK
<1>3. QED
  BY <1>1, <1>2

\* The table a freshness check looks at, and no other check looks at one.
LEMMA AgeOfCheck ==
    ASSUME NEW tb \in Tables
    PROVE  UNION {age[x] : x \in {y \in Tables : FreshnessOf[y] = FreshnessOf[tb]}}
             = age[tb]
<1>1. {y \in Tables : FreshnessOf[y] = FreshnessOf[tb]} = {tb}
  BY NamesAre DEF Tables
<1>2. {age[x] : x \in {tb}} = {age[tb]}
  OBVIOUS
<1>3. QED
  BY <1>1, <1>2

\* What a check that passes pushes may be shown.
LEMMA PassingIsFine ==
    ASSUME PlatformOK, NEW c \in Checks, Passes(c)
    PROVE  Fine(c, Reading(c))
<1>1. ASSUME NEW tb \in Tables, c = FreshnessOf[tb], FreshEnough(tb)
      PROVE  Fine(c, Reading(c))
  <2>1. c \in Freshness
    BY <1>1 DEF Freshness
  <2>2. Reading(c) = age[tb]
    BY <1>1, <2>1, AgeOfCheck, NamesAre DEF Reading
  <2>3. PICK h \in age[tb] : h <= AgeError
    BY <1>1 DEF FreshEnough
  <2>4. age[tb] = {h} /\ h \in 0..AgeError
    BY <2>3, ConstantsAre DEF PlatformOK, Ages
  <2>5. QED
    BY <2>1, <2>2, <2>4 DEF Fine
<1>2. CASE c = "check_dead_letter_volume_pipeline" /\ FewLetters
  <2>1. letters \in 0..DeadLetterMax - 1
    BY <1>2, ConstantsAre DEF PlatformOK, Volumes, FewLetters
  <2>2. Reading(c) = {letters}
    BY <1>2 DEF Reading
  <2>3. QED
    BY <1>2, <2>1, <2>2 DEF Fine
<1>3. CASE c = "check_dead_letter_volume_ingestor"
  BY <1>3 DEF Fine
<1>4. CASE c = "check_ingestor_health_endpoint" /\ ingestor = "running"
  <2>1. Reading(c) = {"running"}
    BY <1>4 DEF Reading
  <2>2. QED
    BY <1>4, <2>1 DEF Fine
<1>5. CASE c = "check_silver_row_count_anomaly" /\ EnoughRows
  <2>1. Reading(c) = {rows}
    BY <1>5 DEF Reading
  <2>2. QED
    BY <1>5, <2>1 DEF Fine, PlatformOK, EnoughRows
<1>6. QED
  BY <1>1, <1>2, <1>3, <1>4, <1>5 DEF Passes

\* A task that works keeps the readings: the only one it touches is its own,
\* and it leaves a bad one there only if it does not pass.
LEMMA OneKeepsReadings ==
    ASSUME StateOK, PlatformOK, ReadingsOK,
           NEW t \in MonitorTasks, Advance(t) \/ Fault(t)
    PROVE  ReadingsOK'
<1>1. ASSUME NEW c \in Checks, c # t
      PROVE  state'[c] = state[c] /\ xcom'[c] = xcom[c]
  <2>1. c \in MonitorTasks
    BY TasksAre
  <2>2. PICK s \in States : state' = [state EXCEPT ![t] = s]
    BY MovesAre, OneMoves
  <2>3. state'[c] = state[c]
    BY <1>1, <2>1, <2>2 DEF StateOK
  <2>4. xcom'[c] = xcom[c]
    BY <1>1 DEF ReadingsOK, Advance, Attempt, Conclude, Body, Check,
                Summarise, Notify, Fault
  <2>5. QED
    BY <2>3, <2>4
<1>2. xcom' = [c \in Checks |-> xcom'[c]]
  BY DEF ReadingsOK, Advance, Attempt, Conclude, Body, Check, Summarise,
         Notify, Fault
<1>3. ASSUME t \in Checks, state'[t] \in Ran
      PROVE  Fine(t, xcom'[t])
  <2>1. CASE Attempt(t)
    BY <1>3, <2>1 DEF Attempt, Begin, Enter, StateOK, Ran
  <2>2. CASE Conclude(t)
    BY <1>3, <2>2 DEF Conclude, Succeed, Settle, Enter, StateOK, Ran,
                      ReadingsOK
  <2>3. CASE Fault(t)
    BY <1>3, <2>3 DEF Fault, Fail, Enter, StateOK, Ran
  <2>4. CASE Body(t)
    <3>1. Check(t)
      BY <1>3, <2>4, TasksAre DEF Body
    <3>2. CASE Passes(t)
      <4>1. xcom' = [xcom EXCEPT ![t] = Reading(t)]
        BY <3>1, <3>2 DEF Check
      <4>2. xcom'[t] = Reading(t)
        BY <1>3, <4>1 DEF ReadingsOK
      <4>3. QED
        BY <1>3, <3>2, <4>2, PassingIsFine
    <3>3. CASE ~Passes(t)
      <4>1. Fail(t)
        BY <3>1, <3>3 DEF Check
      <4>2. QED
        BY <1>3, <4>1 DEF Fail, Enter, StateOK, Ran
    <3>4. QED
      BY <3>2, <3>3
  <2>5. QED
    BY <2>1, <2>2, <2>3, <2>4 DEF Advance
<1>4. ASSUME NEW c \in Checks, state'[c] \in Ran
      PROVE  Fine(c, xcom'[c])
  BY <1>1, <1>3, <1>4 DEF ReadingsOK
<1>5. QED
  BY <1>2, <1>4 DEF ReadingsOK

-----------------------------------------------------------------------------
(* The inductive invariant.                                                 *)

LEMMA InitIInv == Init => IInv
<1> SUFFICES ASSUME Init PROVE IInv
  OBVIOUS
<1>1. \A t \in MonitorTasks : state[t] = "skipped"
  BY DEF Init
<1>2. StateOK
  BY DEF Init, StateOK, States, Final
<1>3. GatesOK /\ AlarmOK /\ NeverSkipped
  BY <1>1 DEF GatesOK, AlarmOK, NeverSkipped, Started, MonitorTasks
<1>4. PlatformOK
  <2>1. {} \in Ages
    BY DEF Ages
  <2>2. SilverMinRows \in Rates /\ DeadLetterMax - 1 \in Volumes /\ 0 \in Rates
    BY DEF Rates, Volumes
  <2>3. QED
    BY <2>1, <2>2 DEF Init, PlatformOK, Responses
<1>5. ReadingsOK
  BY <1>1, TasksAre DEF Init, ReadingsOK, Ran
<1>6. QED
  BY <1>2, <1>3, <1>4, <1>5 DEF IInv

LEMMA NextRunKeeps == IInv /\ NextRun /\ UNCHANGED platform => IInv'
<1> SUFFICES ASSUME IInv, NextRun, UNCHANGED platform PROVE IInv'
  OBVIOUS
<1>1. \A t \in MonitorTasks : state'[t] = "none"
  BY DEF NextRun
<1>2. StateOK'
  BY DEF NextRun, StateOK, States
<1>3. GatesOK' /\ AlarmOK' /\ NeverSkipped'
  BY <1>1 DEF GatesOK, AlarmOK, NeverSkipped, Started, MonitorTasks
<1>4. PlatformOK'
  BY DEF IInv, PlatformOK, platform
<1>5. ReadingsOK'
  BY <1>1, TasksAre DEF NextRun, ReadingsOK, Ran
<1>6. QED
  BY <1>2, <1>3, <1>4, <1>5 DEF IInv

LEMMA StepIInv == IInv /\ [Next]_vars => IInv'
<1> SUFFICES ASSUME IInv, [Next]_vars PROVE IInv'
  OBVIOUS
<1>1. CASE UNCHANGED vars
  BY <1>1 DEF vars, runVars, platform, IInv, StateOK, GatesOK, AlarmOK,
              NeverSkipped, PlatformOK, ReadingsOK, Upstream
<1>2. CASE Change \/ Tick
  <2>1. UNCHANGED <<state, xcom>>
    BY <1>2 DEF Change, Tick, runVars
  <2>2. PlatformOK'
    BY <1>2, PlatformMoves DEF IInv
  <2>3. QED
    BY <2>1, <2>2 DEF IInv, StateOK, GatesOK, AlarmOK, NeverSkipped,
                      ReadingsOK, Upstream
<1>3. CASE NextRun /\ UNCHANGED platform
  BY <1>3, NextRunKeeps
<1>4. ASSUME NEW t \in MonitorTasks, Advance(t) \/ Fault(t),
             UNCHANGED platform
      PROVE  IInv'
  <2>1. StateOK' /\ GatesOK' /\ AlarmOK' /\ NeverSkipped'
    BY <1>4, MovesAre, OneKeepsStates DEF IInv
  <2>2. PlatformOK'
    BY <1>4 DEF IInv, PlatformOK, platform
  <2>3. ReadingsOK'
    BY <1>4, OneKeepsReadings DEF IInv
  <2>4. QED
    BY <2>1, <2>2, <2>3 DEF IInv
<1>5. QED
  BY <1>1, <1>2, <1>3, <1>4 DEF Next, Airflow, Fault

THEOREM Inductive == Spec => []IInv
BY InitIInv, StepIInv, PTL DEF Spec

-----------------------------------------------------------------------------
(* What follows.                                                            *)

\* A run never tells that the platform is healthy and that a check failed.
THEOREM OneVerdict == Spec => []NeverBoth
<1>1. ASSUME IInv, Summarised, Notified PROVE FALSE
  <2>1. \A c \in Checks : state[c] = "success"
    BY <1>1, ChainSucceeded DEF IInv, Summarised, Started
  <2>2. \E c \in Checks : state[c] \in Broken
    BY <1>1 DEF IInv, AlarmOK, Notified, Started
  <2>3. QED
    BY <2>1, <2>2 DEF Broken
<1>2. IInv => NeverBoth
  BY <1>1 DEF NeverBoth
<1>3. QED
  BY <1>2, Inductive, PTL

\* What a summary shows comes from passing attempts, through any retries and
\* whatever the platform does meanwhile.
THEOREM SummaryTells == Spec => []SummaryIsTrue
<1>1. ASSUME IInv, Summarised
      PROVE  \A c \in Checks : Fine(c, xcom[c])
  <2>1. \A c \in Checks : state[c] = "success"
    BY <1>1, ChainSucceeded DEF IInv, Summarised, Started
  <2>2. QED
    BY <1>1, <2>1 DEF IInv, ReadingsOK, Ran
<1>2. ASSUME IInv, Summarised
      PROVE  /\ \A c \in Freshness : \E h \in 0..AgeError : xcom[c] = {h}
             /\ xcom["check_ingestor_health_endpoint"] = {"running"}
             /\ \E n \in 0..DeadLetterMax - 1 :
                    xcom["check_dead_letter_volume_pipeline"] = {n}
             /\ \E n \in Volumes \union Rates :
                    /\ n >= SilverMinRows
                    /\ xcom["check_silver_row_count_anomaly"] = {n}
  <2>1. \A c \in Freshness : \E h \in 0..AgeError : xcom[c] = {h}
    BY <1>1, <1>2, TasksAre, NamesAre DEF Fine
  <2>2. xcom["check_ingestor_health_endpoint"] = {"running"}
    BY <1>1, <1>2, TasksAre, NamesAre DEF Fine
  <2>3. \E n \in 0..DeadLetterMax - 1 :
            xcom["check_dead_letter_volume_pipeline"] = {n}
    BY <1>1, <1>2, TasksAre, NamesAre DEF Fine
  <2>4. \E n \in Volumes \union Rates :
            /\ n >= SilverMinRows
            /\ xcom["check_silver_row_count_anomaly"] = {n}
    BY <1>1, <1>2, TasksAre, NamesAre DEF Fine
  <2>5. QED
    BY <2>1, <2>2, <2>3, <2>4
<1>3. IInv => SummaryIsTrue
  BY <1>2 DEF SummaryIsTrue
<1>4. QED
  BY <1>3, Inductive, PTL

\* The success of the notifier cannot make a failed check look like a
\* successful run.
THEOREM SuccessTells == Spec => []SuccessIsHealthy
<1>1. ASSUME IInv, RunOver, ~RunFailed,
             \E t \in MonitorTasks : state[t] = "success"
      PROVE  \A c \in Checks : state[c] = "success"
  <2>1. "log_health_summary" \in Leaves
    BY WiringIs
  <2>2. "log_health_summary" \in MonitorTasks \ {"notify_health_failure"}
    BY DEF MonitorTasks
  <2>3. state["log_health_summary"] \in Final \ Broken
    BY <1>1, <2>1, <2>2 DEF RunOver, RunFailed
  <2>4. state["log_health_summary"] # "skipped"
    BY <1>1, <2>2 DEF IInv, NeverSkipped
  <2>5. state["log_health_summary"] = "success"
    BY <2>3, <2>4 DEF Final
  <2>6. QED
    BY <1>1, <2>5, ChainSucceeded DEF IInv, Started
<1>2. IInv => SuccessIsHealthy
  BY <1>1 DEF SuccessIsHealthy
<1>3. QED
  BY <1>2, Inductive, PTL

-----------------------------------------------------------------------------
(* Types.  That tries stays within the retries needs its relation to state. *)

TriesOK ==
    /\ tries \in [MonitorTasks -> Nat]
    /\ \A t \in MonitorTasks :
        /\ state[t] \in {"none"} \union Final => tries[t] = 0
        /\ state[t] = "up_for_retry" => tries[t] <= RetriesOf[t]
        /\ state[t] \in {"running", "executed"} => tries[t] <= RetriesOf[t] + 1

PushedOK ==
    /\ \A c \in Freshness : xcom[c] \in Ages
    /\ \A c \in Sensors : xcom[c] \in Counts
    /\ xcom["check_ingestor_health_endpoint"] \in {{}, {"running"}}

LEMMA RetriesAre ==
    /\ RetriesOf \in [MonitorTasks -> Nat]
    /\ \A t \in MonitorTasks : RetriesOf[t] <= TaskRetries
    /\ RetriesOf["notify_health_failure"] = 0
<1>1. \A t \in MonitorTasks :
        RetriesOf[t] = IF t = "notify_health_failure" THEN 0 ELSE TaskRetries
  BY DEF RetriesOf
<1>2. "notify_health_failure" \in MonitorTasks
  BY DEF MonitorTasks
<1>3. RetriesOf \in [MonitorTasks -> Nat]
  BY ConstantsAre DEF RetriesOf
<1>4. QED
  BY <1>1, <1>2, <1>3, ConstantsAre

LEMMA OneKeepsTries ==
    ASSUME StateOK, TriesOK, NEW t \in MonitorTasks, Scheduling(t) \/ Execute(t)
    PROVE  TriesOK'
<1>0. RetriesOf \in [MonitorTasks -> Nat]
  BY RetriesAre
<1>1. CASE Begin(t)
  BY <1>0, <1>1 DEF Begin, Enter, StateOK, TriesOK, States, Final, Broken
<1>2. CASE Execute(t)
  BY <1>0, <1>2 DEF Execute, Enter, StateOK, TriesOK, States, Final, Broken
<1>3. CASE Succeed(t)
  BY <1>0, <1>3 DEF Succeed, Enter, StateOK, TriesOK, States, Final, Broken
<1>4. CASE Fail(t)
  BY <1>0, <1>4 DEF Fail, Enter, StateOK, TriesOK, States, Final, Broken
<1>5. CASE Settle(t)
  BY <1>0, <1>5 DEF Settle, Enter, StateOK, TriesOK, States, Final, Broken
<1>6. QED
  BY <1>1, <1>2, <1>3, <1>4, <1>5 DEF Scheduling

LEMMA StepTries == IInv /\ TriesOK /\ [Next]_vars => TriesOK'
<1> SUFFICES ASSUME IInv, TriesOK, [Next]_vars PROVE TriesOK'
  OBVIOUS
<1>1. CASE UNCHANGED vars \/ Change \/ Tick
  BY <1>1 DEF vars, runVars, Change, Tick, TriesOK
<1>2. CASE NextRun
  BY <1>2, RetriesAre DEF NextRun, TriesOK, Final, Broken
<1>3. ASSUME NEW t \in MonitorTasks, Advance(t) \/ Fault(t) PROVE TriesOK'
  BY <1>3, MovesAre, OneKeepsTries DEF IInv
<1>4. QED
  BY <1>1, <1>2, <1>3 DEF Next, Airflow

\* What a check reads has the type of what it may push.
LEMMA ReadingsAre ==
    ASSUME PlatformOK, NEW c \in Checks
    PROVE  /\ c \in Freshness => Reading(c) \in Ages
           /\ c \in Sensors => Reading(c) \in Counts
           /\ c = "check_ingestor_health_endpoint" /\ Passes(c) =>
                Reading(c) = {"running"}
<1>1. ASSUME c \in Freshness PROVE Reading(c) \in Ages
  <2>1. PICK tb \in Tables : c = FreshnessOf[tb]
    BY <1>1 DEF Freshness
  <2>2. Reading(c) = age[tb]
    BY <1>1, <2>1, AgeOfCheck, NamesAre DEF Reading
  <2>3. QED
    BY <2>2 DEF PlatformOK
<1>2. ASSUME c \in Sensors PROVE Reading(c) \in Counts
  <2>1. Reading(c) \in {{letters}, {SchemaFailures}, {rows}}
    BY <1>2 DEF Reading, Sensors, DeadLetterChecks
  <2>2. QED
    BY <2>1 DEF PlatformOK, Counts, SchemaFailures
<1>3. ASSUME c = "check_ingestor_health_endpoint", Passes(c)
      PROVE  Reading(c) = {"running"}
  <2>1. ingestor = "running"
    BY <1>3, NamesAre DEF Passes, Tables
  <2>2. QED
    BY <1>3, <2>1 DEF Reading
<1>4. QED
  BY <1>1, <1>2, <1>3

LEMMA StepPushed == IInv /\ PushedOK /\ [Next]_vars => PushedOK'
<1> SUFFICES ASSUME IInv, PushedOK, [Next]_vars PROVE PushedOK'
  OBVIOUS
<1>1. CASE UNCHANGED xcom
  BY <1>1 DEF PushedOK
<1>2. {} \in Ages /\ {} \in Counts
  BY DEF Ages, Counts
<1>3. /\ Freshness \union Sensors \subseteq Checks
      /\ "check_ingestor_health_endpoint" \in Checks
  BY DEF Checks
<1>4. CASE NextRun
  BY <1>2, <1>3, <1>4 DEF NextRun, PushedOK
<1>5. ASSUME NEW t \in MonitorTasks, Attempt(t) PROVE PushedOK'
  BY <1>2, <1>3, <1>5 DEF Attempt, PushedOK, IInv, ReadingsOK
<1>6. ASSUME NEW t \in Checks, Check(t) PROVE PushedOK'
  <2>1. CASE xcom' = xcom
    BY <2>1 DEF PushedOK
  <2>2. CASE /\ xcom' = [xcom EXCEPT ![t] = Reading(t)]
             /\ Passes(t) \/ t \in Sensors
    <3>1. \A c \in Checks : xcom'[c] = IF c = t THEN Reading(t) ELSE xcom[c]
      BY <2>2 DEF IInv, ReadingsOK
    <3>2. "check_ingestor_health_endpoint" \notin Sensors
      BY DEF Sensors, DeadLetterChecks
    <3>3. QED
      BY <1>3, <2>2, <3>1, <3>2, ReadingsAre DEF PushedOK, IInv
  <2>3. QED
    BY <1>6, <2>1, <2>2 DEF Check
<1>7. ASSUME NEW t \in MonitorTasks, Advance(t) \/ Fault(t) PROVE PushedOK'
  BY <1>1, <1>5, <1>6, <1>7 DEF Advance, Conclude, Body, Summarise, Notify,
                                Fault
<1>8. CASE UNCHANGED vars \/ Change \/ Tick
  BY <1>1, <1>8 DEF vars, runVars, Change, Tick
<1>9. QED
  BY <1>4, <1>7, <1>8 DEF Next, Airflow

FaultsOK == faults \in 0..MaxFaults

LEMMA StepFaults == FaultsOK /\ [Next]_vars => FaultsOK'
<1> SUFFICES ASSUME FaultsOK, [Next]_vars PROVE FaultsOK'
  OBVIOUS
<1>1. CASE UNCHANGED faults
  BY <1>1 DEF FaultsOK
<1>2. ASSUME NEW t \in MonitorTasks, Fault(t) PROVE FaultsOK'
  BY <1>2, ConstantsAre DEF Fault, FaultsOK
<1>3. QED
  BY <1>1, <1>2 DEF Next, Change, Tick, Airflow, vars, runVars

LEMMA InitTypes == Init => TriesOK /\ PushedOK /\ FaultsOK
<1> SUFFICES ASSUME Init PROVE TriesOK /\ PushedOK /\ FaultsOK
  OBVIOUS
<1>1. TriesOK
  BY RetriesAre DEF Init, TriesOK, Final, Broken
<1>2. PushedOK
  BY DEF Init, PushedOK, Checks, Ages, Counts
<1>3. QED
  BY <1>1, <1>2, ConstantsAre DEF Init, FaultsOK

\* Type correctness: a check is tried at most TaskRetries + 1 times, the
\* notifier once, and what is pushed has the type of its check.
THEOREM TypeCorrect == Spec => []TypeOK
<1>1. ASSUME IInv, TriesOK, PushedOK, FaultsOK
      PROVE  TypeOK
  <2>1. ASSUME NEW t \in MonitorTasks PROVE tries[t] \in 0..RetriesOf[t] + 1
    BY <1>1, RetriesAre DEF IInv, StateOK, TriesOK, States, Final, Broken
  <2>2. tries \in [MonitorTasks -> 0..TaskRetries + 1]
    BY <1>1, <2>1, RetriesAre, ConstantsAre DEF TriesOK
  <2>3. tries["notify_health_failure"] <= 1
    <3>1. tries["notify_health_failure"] \in 0..0 + 1
      BY <2>1, RetriesAre DEF MonitorTasks
    <3>2. QED
      BY <3>1
  <2>4. xcom = [c \in Checks |-> xcom[c]]
    BY <1>1 DEF IInv, ReadingsOK
  <2>5. StateOK /\ PlatformOK
    BY <1>1 DEF IInv
  <2>6. QED
    BY <1>1, <2>2, <2>3, <2>4, <2>5, Zenon
       DEF TypeOK, StateOK, PlatformOK, PushedOK, FaultsOK
<1>2. IInv /\ TriesOK /\ PushedOK /\ FaultsOK => TypeOK
  BY <1>1
<1>3. QED
  BY <1>2, Inductive, InitTypes, StepTries, StepPushed, StepFaults, PTL DEF Spec

-----------------------------------------------------------------------------
(* Tables nobody loads.                                                     *)

DataOK ==
    \A tb \in Tables : age[tb] = {} => state[FreshnessOf[tb]] \notin Ran

\* The check of a table passes only if the table has a recent row.
LEMMA FreshnessPasses ==
    ASSUME NEW tb \in Tables, Passes(FreshnessOf[tb])
    PROVE  age[tb] # {}
BY NamesAre DEF Passes, Tables, FreshEnough

\* No task comes to have run without data where its check needs them.
LEMMA OneKeepsData ==
    ASSUME StateOK, DataOK, UNCHANGED age,
           NEW t \in MonitorTasks, Advance(t) \/ Fault(t)
    PROVE  DataOK'
<1> SUFFICES ASSUME NEW tb \in Tables, age[tb] = {},
                    state'[FreshnessOf[tb]] \in Ran
             PROVE  FALSE
  BY DEF DataOK
<1> DEFINE c == FreshnessOf[tb]
<1>1. c \in Freshness /\ c \in Checks /\ c \in MonitorTasks
  BY DEF Freshness, Checks, MonitorTasks
<1>2. state[c] \notin Ran
  BY DEF DataOK
<1>3. ~Passes(c)
  BY FreshnessPasses
<1>4. PICK s \in States : state' = [state EXCEPT ![t] = s]
  BY MovesAre, OneMoves
<1> HIDE DEF c
<1>5. t = c
  BY <1>1, <1>2, <1>4 DEF StateOK, c
<1>6. state'[c] \in Ran
  BY DEF c
<1>7. CASE Attempt(t) \/ Conclude(t) \/ Fault(t)
  BY <1>1, <1>2, <1>5, <1>6, <1>7
     DEF Attempt, Conclude, Fault, Begin, Succeed, Settle, Fail, Enter,
         StateOK, Ran
<1>8. CASE Body(t)
  <2>1. Check(c)
    BY <1>1, <1>5, <1>8, TasksAre DEF Body
  <2>2. Fail(c)
    BY <1>3, <2>1 DEF Check
  <2>3. QED
    BY <1>1, <1>6, <2>2 DEF Fail, Enter, StateOK, Ran
<1>9. QED
  BY <1>7, <1>8 DEF Advance

LEMMA StepData == IInv /\ DataOK /\ [Next]_vars => DataOK'
<1> SUFFICES ASSUME IInv, DataOK, [Next]_vars PROVE DataOK'
  OBVIOUS
<1>1. CASE UNCHANGED vars \/ Change
  BY <1>1 DEF vars, runVars, platform, Change, DataOK
<1>2. CASE Tick
  <2>1. \A tb \in Tables : age'[tb] = {} => age[tb] = {}
    BY <1>2 DEF Tick
  <2>2. QED
    BY <1>2, <2>1 DEF Tick, runVars, DataOK
<1>3. CASE NextRun
  <2>1. \A tb \in Tables : FreshnessOf[tb] \in MonitorTasks
    BY DEF MonitorTasks, Checks, Freshness
  <2>2. QED
    BY <1>3, <2>1 DEF NextRun, DataOK, Ran
<1>4. ASSUME NEW t \in MonitorTasks, Advance(t) \/ Fault(t), UNCHANGED age
      PROVE  DataOK'
  BY <1>4, OneKeepsData DEF IInv
<1>5. QED
  BY <1>1, <1>2, <1>3, <1>4 DEF Next, Airflow, Fault, platform

\* Until somebody loads both tables no run is healthy, whatever else the
\* monitor reads, however often the checks are tried, and whatever is killed.
THEOREM NoDataTold == Spec => []NoDataNoHealth
<1>1. Init => DataOK
  <2>1. \A tb \in Tables : FreshnessOf[tb] \in MonitorTasks
    BY DEF MonitorTasks, Checks, Freshness
  <2>2. QED
    BY <2>1 DEF Init, DataOK, Ran
<1>2. ASSUME IInv, DataOK, Summarised PROVE \A tb \in Tables : age[tb] # {}
  <2>1. \A c \in Checks : state[c] = "success"
    BY <1>2, ChainSucceeded DEF IInv, Summarised, Started
  <2>2. \A tb \in Tables : FreshnessOf[tb] \in Checks
    BY DEF Checks, Freshness
  <2>3. QED
    BY <1>2, <2>1, <2>2 DEF DataOK, Ran
<1>3. IInv /\ DataOK => NoDataNoHealth
  BY <1>2 DEF NoDataNoHealth
<1>4. QED
  BY <1>1, <1>3, Inductive, StepData, PTL DEF Spec
=============================================================================
