--------------------------- MODULE IngestorService ---------------------------
(***************************************************************************)
(* The ingestor process: the lifespan context manager and the /health      *)
(* handler of services/ingestor/src/main.py around one client and one      *)
(* publisher.  The lifespan creates the task, serves until SIGTERM, then   *)
(* cancels the task, waits for it and flushes the producer.                *)
(***************************************************************************)
EXTENDS BinanceWebSocketClient

\* Whether somebody who finds the client in app.state calls its stop().  The
\* service itself never does.
CONSTANT StopCalls

ASSUME StopAssumption == StopCalls \in BOOLEAN

VARIABLES
    life,      \* how far lifespan() has got
    dropped    \* what flush() returned

vars == <<clientVars, life, dropped>>

Lives == {"serving",    \* at the yield
          "waiting",    \* in wait_for(ws_task, 5.0), cancel() called
          "expired",    \* wait_for timed out and cancelled the task again
          "flushing",   \* in publisher.flush(10.0), the event loop blocked
          "stopped",    \* returned
          "crashed"}    \* left by the task's own exception

TypeOK ==
    /\ ClientTypeOK
    /\ life \in Lives
    /\ dropped \in Nat

Init ==
    /\ ClientInit
    /\ life = "serving"
    /\ dropped = 0

-----------------------------------------------------------------------------
(* lifespan() from the yield on.                                            *)

\* SIGTERM.  cancel() does nothing to a finished task.
Shutdown ==
    /\ life = "serving"
    /\ life' = "waiting"
    /\ \/ pc # "done" /\ RequestCancel
       \/ pc = "done" /\ UNCHANGED clientVars
    /\ UNCHANGED dropped

\* wait_for's timeout: it cancels the task once more and waits on.
WaitExpires ==
    /\ life = "waiting" /\ pc # "done"
    /\ life' = "expired"
    /\ RequestCancel
    /\ UNCHANGED dropped

\* Mutant of Waited: goes on at the timeout without the task's end.
WaitedAtTimeout ==
    /\ life \in {"waiting", "expired"}
    /\ pc = "done" \/ life = "expired"
    /\ life' = IF outcome = "raised" THEN "crashed" ELSE "flushing"
    /\ UNCHANGED <<clientVars, dropped>>

\* Mutant of Waited: a cancelled task is waited for for ever.
WaitedReturnOnly ==
    /\ life \in {"waiting", "expired"} /\ outcome \in {"returned", "raised"}
    /\ life' = IF outcome = "raised" THEN "crashed" ELSE "flushing"
    /\ UNCHANGED <<clientVars, dropped>>

\* The awaited task is finished.  CancelledError and TimeoutError are caught;
\* an exception of the task itself is not, and skips the flush.
Waited ==
    /\ life \in {"waiting", "expired"} /\ pc = "done"
    /\ life' = IF outcome = "raised" THEN "crashed" ELSE "flushing"
    /\ UNCHANGED <<clientVars, dropped>>

FlushStep ==
    /\ life = "flushing"
    /\ FlushServes
    /\ UNCHANGED <<ctlVars, cntVars, life, dropped>>

\* Mutant of FlushReturns: reports nobody polled for are not counted.
FlushReturnsUnsent ==
    /\ life = "flushing"
    /\ life' = "stopped"
    /\ dropped' = Cardinality(outbox)
    /\ UNCHANGED clientVars

\* flush() returns when nothing is left or its time is over; the interpreter
\* exits and what is still buffered is gone with it.
FlushReturns ==
    /\ life = "flushing"
    /\ life' = "stopped"
    /\ dropped' = Buffered
    /\ UNCHANGED clientVars

Exited == life \in {"stopped", "crashed"}

\* While flush() blocks the loop no task runs.
ServiceTask ==
    /\ life \in {"serving", "waiting", "expired"}
    /\ TaskStep
    /\ UNCHANGED <<life, dropped>>

ServiceStop ==
    /\ StopCalls
    /\ life \in {"serving", "waiting", "expired"}
    /\ Stop
    /\ UNCHANGED <<life, dropped>>

ServiceProducer ==
    /\ ~Exited
    /\ ProducerStep
    /\ UNCHANGED <<life, dropped>>

LifespanStep == Shutdown \/ WaitExpires \/ Waited \/ FlushStep \/ FlushReturns

Next == ServiceTask \/ ServiceStop \/ ServiceProducer \/ LifespanStep

\* The event loop runs whatever is ready, so a step of the task that waits for
\* nobody is not put off for ever; a handshake ends within open_timeout, the
\* close within close_timeout, wait_for and flush within their timeouts.
\* Nothing is said of the exchange: it may never send or drop anything.
Fairness ==
    /\ WF_vars(Start /\ ServiceTask)
    /\ WF_vars((ConnectOk \/ ConnectFail) /\ ServiceTask)
    /\ WF_vars(Wake /\ ServiceTask)
    /\ WF_vars(CancelStep /\ ServiceTask)
    /\ WF_vars(Waited)
    /\ WF_vars(FlushReturns)

Spec == Init /\ [][Next]_vars /\ Fairness

\* GET /health (lines 127-149).
HealthStatus == IF pc # "done" THEN 200 ELSE 503
HealthStats == [running |-> running, processed |-> processed,
                rejected |-> rejected, attempts |-> attempt]

\* What the health monitor asks of it (check_ingestor_health_endpoint).
MonitorPasses == HealthStatus = 200 /\ HealthStats.running

-----------------------------------------------------------------------------
(* Properties.                                                              *)

\* The producer is flushed only after the task that feeds it has ended, so
\* nothing is produced behind the flush: cancel, wait_for and the second
\* cancellation together guarantee it, however slow the close is.
FlushAfterTask == life \in {"flushing", "stopped"} => pc = "done"

\* While the service is up and nobody stops the client, the monitor's check
\* fails at two times only: before the task has first run, and after a row of
\* failed connections so long that the backoff arithmetic overflowed.  No
\* disconnect, close or timeout ends the task or leaves it not running.
OnlyOverflowKills ==
    life = "serving" /\ ~stopAsked /\ ~MonitorPasses =>
        \/ pc = "created"
        \/ pc = "done" /\ outcome = "raised" /\ attempt = OverflowExp + 1

\* "All messages flushed" (line 104) is true when it is logged: if flush()
\* returned 0, the callback has heard of every message that was counted as
\* processed, and it is in the topic or was reported as failed.
CleanStopIsClean ==
    life = "stopped" /\ dropped = 0 =>
        \A m \in received : Sent("raw", m) =>
            \E r \in served : /\ r.topic = "raw" /\ r.msg = m
                              /\ r.ok => copies["raw"][m] > 0

\* A full buffer is for ever: produce() raises, the raise skips the poll(0)
\* that would free the reports, and a report keeps its place in the buffer
\* until it is polled for.  So from the first BufferError to the shutdown
\* flush no message gets into either topic, although the broker is well, the
\* task is alive and /health says 200 (publisher.py:66-81 and 94-110).
FullIsForever ==
    [][Buffered = QueueMax /\ life # "flushing" =>
            /\ Buffered' = QueueMax
            /\ processed' = processed
            /\ served' = served]_vars

\* After SIGTERM the process flushes and stops, unless the task had died of
\* its own exception: no order of cancellation, close and timeout hangs it.
ShutdownCompletes ==
    life = "waiting" ~> (life = "stopped" \/ outcome = "raised")

\* A disconnected client keeps trying until it is connected: the only other
\* ends are a shutdown, a stop() and the overflow.
Reconnects ==
    pc = "sleep" ~>
        (pc = "consume" \/ life # "serving" \/ stopAsked \/ outcome = "raised")

\* Documented and not so: "Runs the connection loop indefinitely"
\* (websocket_client.py:64).
LoopRunsIndefinitely == life = "serving" /\ ~stopAsked => pc # "done"
=============================================================================
