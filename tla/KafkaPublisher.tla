--------------------------- MODULE KafkaPublisher ---------------------------
(***************************************************************************)
(* The Kafka side of the ingestor: class KafkaPublisher of                 *)
(* services/ingestor/src/publisher.py on top of the librdkafka producer it *)
(* configures.                                                             *)
(*                                                                         *)
(* The producer is external code, modelled from its configuration (lines   *)
(* 37-47) and from how the publisher calls it: produce() puts a record in  *)
(* a bounded local buffer or raises; a background thread talks to the      *)
(* broker; a record leaves the buffer only when its delivery report has    *)
(* been handed to the callback, which happens inside poll() and flush().   *)
(* Without idempotence a lost acknowledgement makes the producer send the  *)
(* record again, so a topic can hold several copies of it.                 *)
(***************************************************************************)
EXTENDS Naturals, FiniteSets

CONSTANTS
    Trades,     \* messages that BinanceTradeEvent accepts
    Garbage,    \* messages that it rejects
    Refuses,    \* <<t, m>>: produce() to topic t refuses m with a KafkaException
    QueueMax,   \* capacity of the local buffer (queue.buffering.max.messages)
    Retries     \* the "retries" setting

Msgs == Trades \union Garbage
Topics == {"raw", "dead"}      \* btc-raw-trades and btc-dead-letter

ASSUME PublisherAssumption ==
    /\ Trades \intersect Garbage = {}
    /\ Refuses \subseteq Topics \X Msgs
    /\ QueueMax \in Nat \ {0}
    /\ Retries \in Nat

VARIABLES
    outbox,    \* records produced and not yet reported on by the broker thread
    reports,   \* delivery reports waiting for poll() or flush()
    served,    \* delivery reports given to _delivery_callback
    copies     \* copies[t][m]: how often topic t holds message m

pubVars == <<outbox, reports, served, copies>>

OutRecord == [topic : Topics, msg : Msgs, tries : 0..Retries]
Report == [topic : Topics, msg : Msgs, ok : BOOLEAN]

PublisherTypeOK ==
    /\ outbox \subseteq OutRecord
    /\ reports \subseteq Report
    /\ served \subseteq Report
    /\ copies \in [Topics -> [Msgs -> 0..(Retries + 1)]]

PublisherInit ==
    /\ outbox = {}
    /\ reports = {}
    /\ served = {}
    /\ copies = [t \in Topics |-> [m \in Msgs |-> 0]]

\* Records that count against the buffer: a report that nobody polled for
\* still does.
Buffered == Cardinality(outbox) + Cardinality(reports)

\* The producer has taken charge of message m for topic t at some time.
Sent(t, m) == \E r \in outbox \union reports \union served :
                    r.topic = t /\ r.msg = m

-----------------------------------------------------------------------------
(* produce() followed by poll(0), and produce() raising.                    *)

Accepts(t, m) == Buffered < QueueMax /\ <<t, m>> \notin Refuses

ServeReports ==
    /\ served' = served \union reports
    /\ reports' = {}

Produce(t, m) ==
    /\ Accepts(t, m)
    /\ outbox' = outbox \union {[topic |-> t, msg |-> m, tries |-> 0]}
    /\ ServeReports
    /\ UNCHANGED copies

PublishTrade(m) == Produce("raw", m)

\* BufferError or KafkaException: the poll(0) behind produce() is skipped.
PublishTradeRaises(m) == ~Accepts("raw", m)

\* Mutant of PublishDeadLetter: polls when produce() raised.
PublishDeadLetterPolls(m) ==
    \/ Produce("dead", m)
    \/ ~Accepts("dead", m) /\ ServeReports /\ UNCHANGED <<outbox, copies>>

\* publish_dead_letter swallows whatever produce() raises.
PublishDeadLetter(m) ==
    \/ Produce("dead", m)
    \/ ~Accepts("dead", m) /\ UNCHANGED pubVars

-----------------------------------------------------------------------------
(* The producer's background thread and the broker.  In each of them n is   *)
(* 1 if the broker appended the record this time, 0 if it did not.          *)

AppendCopies(r, n) == copies' = [copies EXCEPT ![r.topic][r.msg] = @ + n]

ReportOn(r, ok) ==
    /\ outbox' = outbox \ {r}
    /\ reports' = reports \union {[topic |-> r.topic, msg |-> r.msg, ok |-> ok]}
    /\ UNCHANGED served

\* Mutant of Deliver: acks=0, reported before the broker has the record.
DeliverUnacked(r) == AppendCopies(r, 0) /\ ReportOn(r, TRUE)

\* acks=all: a positive report follows the append on all replicas.
Deliver(r) == AppendCopies(r, 1) /\ ReportOn(r, TRUE)

\* Mutant of Resend: no limit on the retries.
ResendForever(r, n) ==
    /\ outbox' = (outbox \ {r}) \union {[r EXCEPT !.tries = @ + 1]}
    /\ AppendCopies(r, n)
    /\ UNCHANGED <<reports, served>>

\* The request or its acknowledgement is lost and a retry is left.
Resend(r, n) ==
    /\ r.tries < Retries
    /\ outbox' = (outbox \ {r}) \union {[r EXCEPT !.tries = @ + 1]}
    /\ AppendCopies(r, n)
    /\ UNCHANGED <<reports, served>>

\* Retries exhausted, or message.timeout.ms over.
Abandon(r, n) == AppendCopies(r, n) /\ ReportOn(r, FALSE)

BrokerStep ==
    \E r \in outbox :
        \/ Deliver(r)
        \/ \E n \in 0..1 : Resend(r, n) \/ Abandon(r, n)

\* flush() serves the reports as they arrive.
FlushServes ==
    /\ reports # {}
    /\ ServeReports
    /\ UNCHANGED <<outbox, copies>>

-----------------------------------------------------------------------------
(* Properties.                                                              *)

\* A message the callback was told is delivered is in the topic: _delivery_
\* callback's debug line never lies, whatever was retried (publisher.py:116).
AckedIsStored ==
    \A r \in reports \union served : r.ok => copies[r.topic][r.msg] > 0
=============================================================================
