----------------------- MODULE BinanceWebSocketClient -----------------------
(***************************************************************************)
(* The task that keeps the Binance stream open: class                      *)
(* BinanceWebSocketClient of services/ingestor/src/websocket_client.py.    *)
(*                                                                         *)
(* An asyncio task gives up control only where it awaits.  Each value of   *)
(* pc is one such point of run() and an action is everything the task does *)
(* from one of them to the next.  task.cancel() is a request: it raises    *)
(* CancelledError at the point where the task waits, the next time the     *)
(* task runs.                                                              *)
(***************************************************************************)
EXTENDS KafkaPublisher

\* _backoff_sleep computes 1.0 * 2 ** (attempt - 1) before it takes the
\* minimum; from this exponent on the product raises OverflowError.  1024 for
\* an IEEE double.
CONSTANT OverflowExp

ASSUME OverflowAssumption == OverflowExp \in Nat \ {0}

VARIABLES
    pc,         \* where the task waits
    outcome,    \* how the task ended
    cancelReq,  \* cancel() was called and has not been delivered
    running,    \* self._running
    attempt,    \* self._reconnect_attempt
    received,   \* history: messages taken from the socket
    processed,  \* self._messages_processed
    rejected,   \* self._messages_rejected
    stopAsked   \* history: stop() was called

ctlVars == <<pc, outcome, cancelReq, running, attempt, stopAsked>>
cntVars == <<received, processed, rejected>>
clientVars == <<pubVars, ctlVars, cntVars>>

PCs == {"created",   \* create_task() done, run() not entered
        "connect",   \* in the opening handshake
        "consume",   \* in recv()
        "close",     \* in the closing handshake of the async with block
        "sleep",     \* in _backoff_sleep
        "done"}
Outcomes == {"none", "returned", "cancelled", "raised"}

ClientTypeOK ==
    /\ PublisherTypeOK
    /\ pc \in PCs
    /\ outcome \in Outcomes
    /\ cancelReq \in BOOLEAN
    /\ running \in BOOLEAN
    /\ attempt \in 0..(OverflowExp + 1)
    /\ received \subseteq Msgs
    /\ processed \in Nat
    /\ rejected \in Nat
    /\ stopAsked \in BOOLEAN

ClientInit ==
    /\ PublisherInit
    /\ pc = "created"
    /\ outcome = "none"
    /\ cancelReq = FALSE
    /\ running = FALSE
    /\ attempt = 0
    /\ received = {}
    /\ processed = 0
    /\ rejected = 0
    /\ stopAsked = FALSE

-----------------------------------------------------------------------------
(* run(), one action per stretch between two awaits.                        *)

Finish(how) ==
    /\ pc' = "done"
    /\ outcome' = how

Start ==
    /\ pc = "created" /\ ~cancelReq
    /\ running' = TRUE
    /\ pc' = "connect"
    /\ UNCHANGED <<pubVars, cntVars, outcome, cancelReq, attempt, stopAsked>>

\* The handshake succeeds: the backoff counter starts afresh.
ConnectOk ==
    /\ pc = "connect" /\ ~cancelReq
    /\ pc' = "consume"
    /\ attempt' = 0
    /\ UNCHANGED <<pubVars, cntVars, outcome, cancelReq, running, stopAsked>>

\* Mutant of EndOfCycle: the loop is left on any error.
EndOfCycleLeaves ==
    /\ Finish("returned")
    /\ UNCHANGED attempt

\* Mutant of EndOfCycle: a number of attempts after which it gives up.
EndOfCycleGivesUp ==
    \/ /\ ~running \/ attempt >= OverflowExp
       /\ Finish("returned")
       /\ UNCHANGED attempt
    \/ /\ running /\ attempt < OverflowExp
       /\ attempt' = attempt + 1
       /\ pc' = "sleep"
       /\ UNCHANGED outcome

\* What follows a cycle that ended in an exception or a clean close: the loop
\* test, or the backoff, whose arithmetic is outside the try block.
EndOfCycle ==
    \/ /\ ~running
       /\ Finish("returned")
       /\ UNCHANGED attempt
    \/ /\ running
       /\ attempt' = attempt + 1
       /\ attempt < OverflowExp
       /\ pc' = "sleep"
       /\ UNCHANGED outcome
    \/ /\ running
       /\ attempt' = attempt + 1
       /\ attempt >= OverflowExp
       /\ Finish("raised")

ConnectFail ==
    /\ pc = "connect" /\ ~cancelReq
    /\ EndOfCycle
    /\ UNCHANGED <<pubVars, cntVars, cancelReq, running, stopAsked>>

\* Disconnected by the peer, or no pong within ping_timeout.
Drop ==
    /\ pc = "consume" /\ ~cancelReq
    /\ EndOfCycle
    /\ UNCHANGED <<pubVars, cntVars, cancelReq, running, stopAsked>>

Wake ==
    /\ pc = "sleep" /\ ~cancelReq
    /\ \/ running /\ pc' = "connect" /\ UNCHANGED outcome
       \/ ~running /\ Finish("returned")
    /\ UNCHANGED <<pubVars, cntVars, cancelReq, running, attempt, stopAsked>>

\* _process_message: no await inside, so one step.
ProcessTrade(m) ==
    /\ m \in Trades
    /\ PublishTrade(m)
    /\ processed' = processed + 1
    /\ UNCHANGED rejected

\* Mutant of RejectMessage: counts what the dead-letter topic took.
RejectCountsSent(m) ==
    /\ m \in Garbage \/ PublishTradeRaises(m)
    /\ rejected' = IF Accepts("dead", m) THEN rejected + 1 ELSE rejected
    /\ PublishDeadLetter(m)
    /\ UNCHANGED processed

\* Rejected by the schema, or publish_trade raised: both except clauses count
\* the message and route it to the dead-letter topic.
RejectMessage(m) ==
    /\ m \in Garbage \/ PublishTradeRaises(m)
    /\ rejected' = rejected + 1
    /\ PublishDeadLetter(m)
    /\ UNCHANGED processed

Receive(m) ==
    /\ pc = "consume" /\ ~cancelReq
    /\ m \notin received
    /\ received' = received \union {m}
    /\ ProcessTrade(m) \/ RejectMessage(m)
    /\ UNCHANGED ctlVars

-----------------------------------------------------------------------------
(* stop() and the delivery of a cancellation.                               *)

Stop ==
    /\ running' = FALSE
    /\ stopAsked' = TRUE
    /\ UNCHANGED <<pubVars, cntVars, pc, outcome, cancelReq, attempt>>

\* task.cancel() on a task that has not finished.
RequestCancel ==
    /\ cancelReq' = TRUE
    /\ UNCHANGED <<pubVars, cntVars, pc, outcome, running, attempt, stopAsked>>

\* Outside the try block, before it or in the backoff, CancelledError leaves
\* run() as it is, and _running keeps its value.
CancelOutsideTry ==
    /\ cancelReq /\ pc \in {"created", "sleep"}
    /\ cancelReq' = FALSE
    /\ Finish("cancelled")
    /\ UNCHANGED <<pubVars, cntVars, running, attempt, stopAsked>>

\* While consuming, the async with block first closes the connection.
CancelConsume ==
    /\ cancelReq /\ pc = "consume"
    /\ cancelReq' = FALSE
    /\ pc' = "close"
    /\ UNCHANGED <<pubVars, cntVars, outcome, running, attempt, stopAsked>>

\* CancelledError reaches the except clause: from the handshake, or when the
\* close is over or is itself cancelled.
CancelCaught ==
    /\ (cancelReq /\ pc = "connect") \/ pc = "close"
    /\ cancelReq' = FALSE
    /\ running' = FALSE
    /\ Finish("returned")
    /\ UNCHANGED <<pubVars, cntVars, attempt, stopAsked>>

CancelStep == CancelOutsideTry \/ CancelConsume \/ CancelCaught

TaskStep ==
    \/ Start \/ ConnectOk \/ ConnectFail \/ Drop \/ Wake
    \/ \E m \in Msgs : Receive(m)
    \/ CancelStep

\* What the producer's thread does leaves the task alone.
ProducerStep == BrokerStep /\ UNCHANGED <<ctlVars, cntVars>>

-----------------------------------------------------------------------------
(* Properties.                                                              *)

\* /health counts are exact, and what they count is buffering: processed is
\* the number of messages the producer took for the raw topic, delivered or
\* not, and every other received message is a rejection (lines 149, 161, 174).
CountersExact ==
    /\ processed = Cardinality({m \in received : Sent("raw", m)})
    /\ processed + rejected = Cardinality(received)

\* Documented and not so: "all errors are caught and dead-lettered" (line
\* 140).  When the buffer is full neither topic gets the message.
RejectedIsDeadLettered ==
    \A m \in received : ~Sent("raw", m) => Sent("dead", m)
=============================================================================
