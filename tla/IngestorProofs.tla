--------------------------- MODULE IngestorProofs ---------------------------
(***************************************************************************)
(* Proofs about IngestorService for any messages, any buffer size, any     *)
(* number of retries and any overflow exponent.                            *)
(***************************************************************************)
EXTENDS IngestorService, FiniteSetTheorems, TLAPS

-----------------------------------------------------------------------------
(* The control of the task and of the lifespan.  While the service is up    *)
(* nobody has cancelled the task, so that it is running wherever it is      *)
(* inside run() unless it was stopped, and the attempt counter tells how it *)
(* died if it did.                                                          *)

CtlInv ==
    /\ pc \in PCs
    /\ outcome \in Outcomes
    /\ cancelReq \in BOOLEAN
    /\ running \in BOOLEAN
    /\ stopAsked \in BOOLEAN
    /\ life \in Lives
    /\ attempt \in 0..(OverflowExp + 1)
    /\ pc # "done" => attempt <= OverflowExp
    /\ FlushAfterTask
    /\ OnlyOverflowKills
    /\ life = "serving" => /\ ~cancelReq
                           /\ pc # "close"

LEMMA CtlInit == Init => CtlInv
<1> SUFFICES ASSUME Init PROVE CtlInv
    OBVIOUS
<1>1. /\ pc = "created" /\ outcome = "none" /\ cancelReq = FALSE
      /\ running = FALSE /\ attempt = 0 /\ stopAsked = FALSE
      /\ life = "serving"
    BY DEF Init, ClientInit
<1>2. /\ cancelReq \in BOOLEAN /\ running \in BOOLEAN
      /\ stopAsked \in BOOLEAN /\ ~cancelReq
    BY <1>1
<1>3. attempt \in 0..(OverflowExp + 1) /\ attempt <= OverflowExp
    BY <1>1, OverflowAssumption
<1> QED BY <1>1, <1>2, <1>3
        DEF CtlInv, PCs, Outcomes, Lives, FlushAfterTask, OnlyOverflowKills

\* A step of the task, while the lifespan is at the yield or waits for it.
LEMMA CtlTask == CtlInv /\ ServiceTask => CtlInv'
<1> SUFFICES ASSUME CtlInv, ServiceTask PROVE CtlInv'
    OBVIOUS
<1> USE OverflowAssumption
    DEF CtlInv, PCs, Outcomes, Lives, FlushAfterTask, OnlyOverflowKills,
        MonitorPasses, HealthStatus, HealthStats
<1>0. life' = life /\ life \notin {"flushing", "stopped"} /\ TaskStep
    BY DEF ServiceTask
<1>1. CASE Start
    BY <1>0, <1>1 DEF Start
<1>2. CASE ConnectOk
    BY <1>0, <1>2 DEF ConnectOk
<1>3. CASE ConnectFail \/ Drop
    BY <1>0, <1>3 DEF ConnectFail, Drop, EndOfCycle, Finish
<1>4. CASE Wake
    BY <1>0, <1>4 DEF Wake, Finish
<1>5. ASSUME NEW m \in Msgs, Receive(m) PROVE CtlInv'
    BY <1>0, <1>5 DEF Receive, ctlVars
<1>6. CASE CancelStep
    BY <1>0, <1>6
       DEF CancelStep, CancelOutsideTry, CancelConsume, CancelCaught, Finish
<1> QED BY <1>0, <1>1, <1>2, <1>3, <1>4, <1>5, <1>6 DEF TaskStep

LEMMA CtlLifespan == CtlInv /\ LifespanStep => CtlInv'
<1> SUFFICES ASSUME CtlInv, LifespanStep PROVE CtlInv'
    OBVIOUS
<1> USE DEF CtlInv, PCs, Outcomes, Lives, FlushAfterTask, OnlyOverflowKills,
            MonitorPasses, HealthStatus, HealthStats
<1>1. CASE Shutdown
    BY <1>1 DEF Shutdown, RequestCancel, clientVars, ctlVars
<1>2. CASE WaitExpires
    BY <1>2 DEF WaitExpires, RequestCancel
<1>3. CASE Waited
    BY <1>3 DEF Waited, clientVars, ctlVars
<1>4. CASE FlushStep
    BY <1>4 DEF FlushStep, ctlVars
<1>5. CASE FlushReturns
    BY <1>5 DEF FlushReturns, clientVars, ctlVars
<1> QED BY <1>1, <1>2, <1>3, <1>4, <1>5 DEF LifespanStep

THEOREM Control == Spec => []CtlInv
<1>1. CtlInv /\ [Next]_vars => CtlInv'
    <2> SUFFICES ASSUME CtlInv, [Next]_vars PROVE CtlInv'
        OBVIOUS
    <2> USE DEF CtlInv, FlushAfterTask, OnlyOverflowKills, MonitorPasses,
                HealthStatus, HealthStats
    <2>1. CASE ServiceProducer
        BY <2>1 DEF ServiceProducer, ProducerStep, ctlVars
    <2>2. CASE ServiceStop
        BY <2>2 DEF ServiceStop, Stop
    <2>3. CASE UNCHANGED vars
        BY <2>3 DEF vars, clientVars, ctlVars
    <2> QED BY <2>1, <2>2, <2>3, CtlTask, CtlLifespan DEF Next
<1> QED BY CtlInit, <1>1, PTL DEF Spec

\* flush() is never called while the task could still produce.
THEOREM NoProduceBehindFlush == Spec => []FlushAfterTask
<1>1. CtlInv => FlushAfterTask
    BY DEF CtlInv
<1> QED BY Control, <1>1, PTL

\* In service, and not stopped, the task dies of the backoff overflow and of
\* nothing else, and nothing else makes the monitor's check fail once it runs.
THEOREM TaskDeath == Spec => []OnlyOverflowKills
<1>1. CtlInv => OnlyOverflowKills
    BY DEF CtlInv
<1> QED BY Control, <1>1, PTL

-----------------------------------------------------------------------------
(* The producer's buffer and the topics.  A message is received once, so it *)
(* is produced at most once, and has one record in the buffer at a time;    *)
(* that record's tries bound the copies the topic can hold by then.         *)

OneRecord ==
    \A r, q \in outbox : r.topic = q.topic /\ r.msg = q.msg => r = q

TriesBound == \A r \in outbox : copies[r.topic][r.msg] <= r.tries

Untouched ==
    \A t \in Topics, m \in Msgs \ received : copies[t][m] = 0 /\ ~Sent(t, m)

PubInv ==
    /\ PublisherTypeOK
    /\ IsFiniteSet(outbox) /\ IsFiniteSet(reports)
    /\ received \subseteq Msgs
    /\ OneRecord
    /\ TriesBound
    /\ Untouched
    /\ AckedIsStored

LEMMA PubInit == Init => PubInv
<1> SUFFICES ASSUME Init PROVE PubInv
    OBVIOUS
<1>1. /\ outbox = {} /\ reports = {} /\ served = {} /\ received = {}
      /\ copies = [t \in Topics |-> [m \in Msgs |-> 0]]
    BY DEF Init, ClientInit, PublisherInit
<1>2. 0 \in 0..(Retries + 1)
    BY PublisherAssumption
<1>3. PublisherTypeOK
    BY <1>1, <1>2 DEF PublisherTypeOK
<1> QED BY <1>1, <1>3, FS_EmptySet
        DEF PubInv, OneRecord, TriesBound, Untouched, AckedIsStored, Sent

\* A message that was never produced is produced.
LEMMA PubProduce ==
    ASSUME PubInv, NEW t \in Topics, NEW m \in Msgs, m \notin received,
           Produce(t, m), received' = received \union {m}
    PROVE  PubInv'
<1> DEFINE new == [topic |-> t, msg |-> m, tries |-> 0]
<1>1. /\ outbox' = outbox \union {new} /\ reports' = {}
      /\ served' = served \union reports /\ copies' = copies
    BY DEF Produce, ServeReports
<1>2. /\ outbox \subseteq OutRecord /\ reports \subseteq Report
      /\ served \subseteq Report /\ received \subseteq Msgs
      /\ copies \in [Topics -> [Msgs -> 0..(Retries + 1)]]
    BY DEF PubInv, PublisherTypeOK
<1>3. new \in OutRecord
    BY PublisherAssumption DEF OutRecord
<1>4. PublisherTypeOK'
    BY <1>1, <1>2, <1>3 DEF PublisherTypeOK
<1>5. IsFiniteSet(outbox') /\ IsFiniteSet(reports')
    BY <1>1, FS_AddElement, FS_EmptySet DEF PubInv
<1>6. copies[t][m] = 0 /\ \A r \in outbox : ~(r.topic = t /\ r.msg = m)
    BY DEF PubInv, Untouched, Sent
<1>7. OneRecord' /\ TriesBound'
    BY <1>1, <1>6 DEF PubInv, OneRecord, TriesBound
<1>8. Untouched'
    BY <1>1 DEF PubInv, Untouched, Sent
<1>9. AckedIsStored'
    BY <1>1 DEF PubInv, AckedIsStored
<1> QED BY <1>2, <1>4, <1>5, <1>7, <1>8, <1>9 DEF PubInv

\* The broker appends n copies of record r, and r leaves the buffer with a
\* report, or goes back to it with one try more.
LEMMA PubAppend ==
    ASSUME PubInv, NEW r \in outbox, NEW n \in 0..1, AppendCopies(r, n)
    PROVE  /\ copies' \in [Topics -> [Msgs -> 0..(Retries + 1)]]
           /\ copies'[r.topic][r.msg] = copies[r.topic][r.msg] + n
           /\ \A t \in Topics, m \in Msgs :
                ~(t = r.topic /\ m = r.msg) => copies'[t][m] = copies[t][m]
           /\ \A t \in Topics, m \in Msgs : copies[t][m] <= copies'[t][m]
<1>1. /\ r.topic \in Topics /\ r.msg \in Msgs /\ r.tries \in 0..Retries
      /\ copies \in [Topics -> [Msgs -> 0..(Retries + 1)]]
      /\ copies[r.topic][r.msg] <= r.tries
    BY DEF PubInv, PublisherTypeOK, OutRecord, TriesBound
<1>2. copies' = [copies EXCEPT ![r.topic] =
                    [copies[r.topic] EXCEPT ![r.msg] =
                        copies[r.topic][r.msg] + n]]
    BY DEF AppendCopies
<1>3. copies[r.topic][r.msg] + n \in 0..(Retries + 1)
    BY <1>1, PublisherAssumption
<1>4. [copies[r.topic] EXCEPT ![r.msg] = copies[r.topic][r.msg] + n]
        \in [Msgs -> 0..(Retries + 1)]
    BY <1>1, <1>3
<1>5. copies' \in [Topics -> [Msgs -> 0..(Retries + 1)]]
    BY <1>1, <1>2, <1>4
<1>6. \A t \in Topics, m \in Msgs :
        copies'[t][m] = IF t = r.topic /\ m = r.msg
                        THEN copies[t][m] + n ELSE copies[t][m]
    BY <1>1, <1>2
<1>7. \A t \in Topics, m \in Msgs : copies[t][m] \in Nat
    BY <1>1
<1> QED BY <1>1, <1>5, <1>6, <1>7

LEMMA PubReport ==
    ASSUME PubInv, NEW r \in outbox, NEW n \in 0..1, NEW ok \in BOOLEAN,
           AppendCopies(r, n), ReportOn(r, ok), ok => n = 1,
           UNCHANGED received
    PROVE  PubInv'
<1> DEFINE rep == [topic |-> r.topic, msg |-> r.msg, ok |-> ok]
<1>1. /\ outbox' = outbox \ {r} /\ reports' = reports \union {rep}
      /\ served' = served
    BY DEF ReportOn
<1>2. /\ outbox \subseteq OutRecord /\ reports \subseteq Report
      /\ served \subseteq Report /\ received \subseteq Msgs
      /\ copies \in [Topics -> [Msgs -> 0..(Retries + 1)]]
    BY DEF PubInv, PublisherTypeOK
<1>3. /\ r.topic \in Topics /\ r.msg \in Msgs
      /\ rep \in Report
    BY <1>2 DEF OutRecord, Report
<1>4. PublisherTypeOK'
    BY <1>1, <1>2, <1>3, PubAppend DEF PublisherTypeOK
<1>5. IsFiniteSet(outbox') /\ IsFiniteSet(reports')
    <2>1. IsFiniteSet(outbox) /\ outbox' \subseteq outbox
        BY <1>1 DEF PubInv
    <2> QED BY <2>1, <1>1, FS_Subset, FS_AddElement DEF PubInv
<1>6. OneRecord'
    BY <1>1 DEF PubInv, OneRecord
<1>7. TriesBound'
    <2> SUFFICES ASSUME NEW q \in outbox' PROVE copies'[q.topic][q.msg] <= q.tries
        BY DEF TriesBound
    <2>1. q \in outbox /\ ~(q.topic = r.topic /\ q.msg = r.msg)
        BY <1>1 DEF PubInv, OneRecord
    <2>2. q.topic \in Topics /\ q.msg \in Msgs
        BY <2>1, <1>2 DEF OutRecord
    <2>3. copies'[q.topic][q.msg] = copies[q.topic][q.msg]
        BY <2>1, <2>2, PubAppend
    <2> QED BY <2>1, <2>3 DEF PubInv, TriesBound
<1>8. Untouched'
    <2> SUFFICES ASSUME NEW t \in Topics, NEW m \in Msgs \ received
                 PROVE  copies'[t][m] = 0 /\ ~Sent(t, m)'
        BY DEF Untouched
    <2>1. copies[t][m] = 0 /\ ~Sent(t, m)
        BY DEF PubInv, Untouched
    <2>2. ~(t = r.topic /\ m = r.msg)
        BY <2>1 DEF Sent
    <2>3. copies'[t][m] = 0
        BY <2>1, <2>2, PubAppend
    <2>4. ~Sent(t, m)'
        BY <1>1, <2>1, <2>2 DEF Sent
    <2> QED BY <2>3, <2>4
<1>9. AckedIsStored'
    <2> SUFFICES ASSUME NEW q \in reports' \union served', q.ok
                 PROVE  copies'[q.topic][q.msg] > 0
        BY DEF AckedIsStored
    <2>1. CASE q \in reports \union served
        <3>1. copies[q.topic][q.msg] > 0
            BY <2>1 DEF PubInv, AckedIsStored
        <3>2. q.topic \in Topics /\ q.msg \in Msgs
            BY <2>1, <1>2 DEF Report
        <3>3. /\ copies[q.topic][q.msg] <= copies'[q.topic][q.msg]
              /\ copies[q.topic][q.msg] \in Nat
              /\ copies'[q.topic][q.msg] \in Nat
            BY <3>2, <1>2, PubAppend
        <3> QED BY <3>1, <3>3
    <2>2. CASE q = rep
        <3>1. n = 1 /\ q.topic = r.topic /\ q.msg = r.msg
            BY <2>2
        <3>2. copies[r.topic][r.msg] \in Nat
            BY <1>2, <1>3
        <3>3. copies'[r.topic][r.msg] = copies[r.topic][r.msg] + 1
            BY <3>1, PubAppend
        <3> QED BY <3>1, <3>2, <3>3
    <2> QED BY <1>1, <2>1, <2>2
<1> QED BY <1>2, <1>4, <1>5, <1>6, <1>7, <1>8, <1>9 DEF PubInv

LEMMA PubResend ==
    ASSUME PubInv, NEW r \in outbox, NEW n \in 0..1, Resend(r, n),
           UNCHANGED received
    PROVE  PubInv'
<1> DEFINE again == [r EXCEPT !.tries = r.tries + 1]
<1>1. /\ outbox' = (outbox \ {r}) \union {again}
      /\ reports' = reports /\ served' = served
      /\ r.tries < Retries /\ AppendCopies(r, n)
    BY DEF Resend
<1>2. /\ outbox \subseteq OutRecord /\ reports \subseteq Report
      /\ served \subseteq Report /\ received \subseteq Msgs
      /\ copies \in [Topics -> [Msgs -> 0..(Retries + 1)]]
    BY DEF PubInv, PublisherTypeOK
<1>3. /\ r.topic \in Topics /\ r.msg \in Msgs /\ r.tries \in 0..Retries
      /\ again.topic = r.topic /\ again.msg = r.msg
      /\ again.tries = r.tries + 1
      /\ again \in OutRecord
    BY <1>1, <1>2, PublisherAssumption DEF OutRecord
<1> HIDE DEF again
<1>4. PublisherTypeOK'
    BY <1>1, <1>2, <1>3, PubAppend DEF PublisherTypeOK
<1>5. IsFiniteSet(outbox') /\ IsFiniteSet(reports')
    <2>1. IsFiniteSet(outbox \ {r})
        BY FS_Subset DEF PubInv
    <2> QED BY <2>1, <1>1, FS_AddElement DEF PubInv
<1>6. \A q \in outbox \ {r} : ~(q.topic = r.topic /\ q.msg = r.msg)
    BY DEF PubInv, OneRecord
<1>7. OneRecord'
    BY <1>1, <1>3, <1>6 DEF PubInv, OneRecord
<1>8. TriesBound'
    <2> SUFFICES ASSUME NEW q \in outbox' PROVE copies'[q.topic][q.msg] <= q.tries
        BY DEF TriesBound
    <2>1. CASE q \in outbox \ {r}
        <3>1. q.topic \in Topics /\ q.msg \in Msgs
            BY <2>1, <1>2 DEF OutRecord
        <3>2. copies'[q.topic][q.msg] = copies[q.topic][q.msg]
            BY <2>1, <3>1, <1>1, <1>6, PubAppend
        <3> QED BY <2>1, <3>2 DEF PubInv, TriesBound
    <2>2. CASE q = again
        <3>1. copies[r.topic][r.msg] <= r.tries /\ copies[r.topic][r.msg] \in Nat
            BY <1>2, <1>3 DEF PubInv, TriesBound
        <3>2. copies'[r.topic][r.msg] = copies[r.topic][r.msg] + n
            BY <1>1, PubAppend
        <3> QED BY <2>2, <3>1, <3>2, <1>3
    <2> QED BY <1>1, <2>1, <2>2
<1>9. Untouched'
    <2> SUFFICES ASSUME NEW t \in Topics, NEW m \in Msgs \ received
                 PROVE  copies'[t][m] = 0 /\ ~Sent(t, m)'
        BY DEF Untouched
    <2>1. copies[t][m] = 0 /\ ~Sent(t, m)
        BY DEF PubInv, Untouched
    <2>2. ~(t = r.topic /\ m = r.msg)
        BY <2>1 DEF Sent
    <2>3. copies'[t][m] = 0
        BY <1>1, <2>1, <2>2, PubAppend
    <2>4. ~Sent(t, m)'
        BY <1>1, <1>3, <2>1, <2>2 DEF Sent
    <2> QED BY <2>3, <2>4
<1>10. AckedIsStored'
    <2> SUFFICES ASSUME NEW q \in reports \union served, q.ok
                 PROVE  copies'[q.topic][q.msg] > 0
        BY <1>1 DEF AckedIsStored
    <2>1. q.topic \in Topics /\ q.msg \in Msgs
        BY <1>2 DEF Report
    <2>2. /\ copies[q.topic][q.msg] <= copies'[q.topic][q.msg]
          /\ copies[q.topic][q.msg] \in Nat
          /\ copies'[q.topic][q.msg] \in Nat
        BY <2>1, <1>1, <1>2, PubAppend
    <2>3. copies[q.topic][q.msg] > 0
        BY DEF PubInv, AckedIsStored
    <2> QED BY <2>2, <2>3
<1> QED BY <1>2, <1>4, <1>5, <1>7, <1>8, <1>9, <1>10 DEF PubInv

LEMMA PubServe == PubInv /\ FlushServes /\ UNCHANGED received => PubInv'
<1> SUFFICES ASSUME PubInv, FlushServes, UNCHANGED received PROVE PubInv'
    OBVIOUS
<1>1. /\ served' = served \union reports /\ reports' = {}
      /\ outbox' = outbox /\ copies' = copies
    BY DEF FlushServes, ServeReports
<1>2. PublisherTypeOK'
    BY <1>1 DEF PubInv, PublisherTypeOK
<1>3. OneRecord' /\ TriesBound' /\ AckedIsStored'
    BY <1>1 DEF PubInv, OneRecord, TriesBound, AckedIsStored
<1>4. Untouched'
    BY <1>1 DEF PubInv, Untouched, Sent
<1> QED BY <1>1, <1>2, <1>3, <1>4, FS_EmptySet DEF PubInv

\* Nothing of the producer changes, and messages may be received.
LEMMA PubIdle ==
    ASSUME PubInv, UNCHANGED pubVars,
           received' \subseteq Msgs, received \subseteq received'
    PROVE  PubInv'
<1>1. /\ outbox' = outbox /\ reports' = reports
      /\ served' = served /\ copies' = copies
    BY DEF pubVars
<1>2. PublisherTypeOK'
    BY <1>1 DEF PubInv, PublisherTypeOK
<1>3. OneRecord' /\ TriesBound' /\ AckedIsStored'
    BY <1>1 DEF PubInv, OneRecord, TriesBound, AckedIsStored
<1>4. Untouched'
    BY <1>1 DEF PubInv, Untouched, Sent
<1> QED BY <1>1, <1>2, <1>3, <1>4 DEF PubInv

LEMMA PubReceive ==
    ASSUME PubInv, NEW m \in Msgs, Receive(m)
    PROVE  PubInv'
<1>1. m \notin received /\ received' = received \union {m}
    BY DEF Receive
<1>2. received' \subseteq Msgs /\ received \subseteq received'
    BY <1>1 DEF PubInv
<1>3. CASE ProcessTrade(m)
    <2>1. Produce("raw", m) /\ "raw" \in Topics
        BY <1>3 DEF ProcessTrade, PublishTrade, Topics
    <2> QED BY <1>1, <2>1, PubProduce
<1>4. CASE RejectMessage(m)
    <2>1. CASE Produce("dead", m)
        <3>1. "dead" \in Topics
            BY DEF Topics
        <3> QED BY <1>1, <2>1, <3>1, PubProduce
    <2>2. CASE UNCHANGED pubVars
        BY <1>2, <2>2, PubIdle
    <2> QED BY <1>4, <2>1, <2>2 DEF RejectMessage, PublishDeadLetter
<1> QED BY <1>3, <1>4 DEF Receive

LEMMA PubBroker == PubInv /\ BrokerStep /\ UNCHANGED received => PubInv'
<1> SUFFICES ASSUME PubInv, NEW r \in outbox, UNCHANGED received,
                    \/ Deliver(r)
                    \/ \E n \in 0..1 : Resend(r, n) \/ Abandon(r, n)
             PROVE  PubInv'
    BY DEF BrokerStep
<1>1. CASE Deliver(r)
    <2>1. AppendCopies(r, 1) /\ ReportOn(r, TRUE)
        BY <1>1 DEF Deliver
    <2>2. 1 \in 0..1 /\ TRUE \in BOOLEAN
        OBVIOUS
    <2> QED BY <2>1, <2>2, PubReport
<1>2. ASSUME NEW n \in 0..1, Resend(r, n) PROVE PubInv'
    BY <1>2, PubResend
<1>3. ASSUME NEW n \in 0..1, Abandon(r, n) PROVE PubInv'
    BY <1>3, PubReport DEF Abandon
<1> QED BY <1>1, <1>2, <1>3

\* Every step that is not a receive, a broker step or a flush step leaves the
\* producer and the received messages alone.
LEMMA PubNext == PubInv /\ [Next]_vars => PubInv'
<1> SUFFICES ASSUME PubInv, [Next]_vars PROVE PubInv'
    OBVIOUS
<1>0. received \subseteq Msgs
    BY DEF PubInv
<1>1. CASE ServiceTask
    <2>1. ASSUME NEW m \in Msgs, Receive(m) PROVE PubInv'
        BY <2>1, PubReceive
    <2>2. CASE Start \/ ConnectOk \/ ConnectFail \/ Drop \/ Wake \/ CancelStep
        <3>1. UNCHANGED pubVars /\ UNCHANGED received
            BY <2>2 DEF Start, ConnectOk, ConnectFail, Drop, Wake, CancelStep,
                        CancelOutsideTry, CancelConsume, CancelCaught, cntVars
        <3> QED BY <1>0, <3>1, PubIdle
    <2> QED BY <1>1, <2>1, <2>2 DEF ServiceTask, TaskStep
<1>2. CASE ServiceProducer
    BY <1>2, PubBroker DEF ServiceProducer, ProducerStep, cntVars
<1>3. CASE FlushStep
    BY <1>3, PubServe DEF FlushStep, cntVars
<1>4. CASE Shutdown \/ WaitExpires \/ Waited \/ FlushReturns
    <2>1. UNCHANGED pubVars /\ UNCHANGED received
        BY <1>4 DEF Shutdown, WaitExpires, Waited, FlushReturns, RequestCancel,
                    clientVars, cntVars
    <2> QED BY <1>0, <2>1, PubIdle
<1>5. CASE ServiceStop \/ UNCHANGED vars
    <2>1. UNCHANGED pubVars /\ UNCHANGED received
        BY <1>5 DEF ServiceStop, Stop, vars, clientVars, cntVars
    <2> QED BY <1>0, <2>1, PubIdle
<1> QED BY <1>1, <1>2, <1>3, <1>4, <1>5 DEF Next, LifespanStep

THEOREM Producer == Spec => []PubInv
BY PubInit, PubNext, PTL DEF Spec

\* No lost acknowledgement, retry or timeout makes the callback report a
\* message as delivered that is not in its topic.
THEOREM ReportsAreTrue == Spec => []AckedIsStored
<1>1. PubInv => AckedIsStored
    BY DEF PubInv
<1> QED BY Producer, <1>1, PTL

-----------------------------------------------------------------------------
(* The counters, and the shutdown.                                          *)

\* The counters and flush()'s result are numbers, the rest of the types
\* follows from the two invariants above.
NumInv ==
    /\ processed \in Nat /\ rejected \in Nat /\ dropped \in Nat
    /\ life = "stopped" => dropped = Buffered

LEMMA BufferedNat == PubInv => Buffered \in Nat
BY FS_CardinalityType DEF PubInv, Buffered

LEMMA NumNext == PubInv /\ NumInv /\ [Next]_vars => NumInv'
<1> SUFFICES ASSUME PubInv, NumInv, [Next]_vars PROVE NumInv'
    OBVIOUS
<1> USE DEF NumInv
<1>0. Buffered \in Nat
    BY BufferedNat
<1>1. CASE ServiceTask
    <2>1. /\ life' = life /\ life # "stopped" /\ dropped' = dropped /\ TaskStep
        BY <1>1 DEF ServiceTask
    <2>2. processed' \in Nat /\ rejected' \in Nat
        BY <2>1 DEF TaskStep, Start, ConnectOk, ConnectFail, Drop, Wake,
                    Receive, ProcessTrade, RejectMessage, CancelStep,
                    CancelOutsideTry, CancelConsume, CancelCaught, cntVars
    <2> QED BY <2>1, <2>2
<1>2. CASE ServiceProducer
    BY <1>2 DEF ServiceProducer, ProducerStep, cntVars, Exited
<1>3. CASE FlushStep
    BY <1>3 DEF FlushStep, cntVars
<1>4. CASE Shutdown \/ WaitExpires \/ Waited
    BY <1>4 DEF Shutdown, WaitExpires, Waited, RequestCancel, clientVars,
                cntVars
<1>5. CASE FlushReturns
    BY <1>0, <1>5 DEF FlushReturns, clientVars, pubVars, cntVars, Buffered
<1>6. CASE ServiceStop
    BY <1>6 DEF ServiceStop, Stop, cntVars
<1>7. CASE UNCHANGED vars
    BY <1>7 DEF vars, clientVars, pubVars, cntVars, Buffered
<1> QED BY <1>1, <1>2, <1>3, <1>4, <1>5, <1>6, <1>7 DEF Next, LifespanStep

LEMMA Numbers == Spec => []NumInv
<1>1. Init => NumInv
    BY DEF Init, ClientInit, NumInv
<1> QED BY <1>1, Producer, NumNext, PTL DEF Spec

\* Type correctness of the whole service.
THEOREM TypeCorrect == Spec => []TypeOK
<1>1. CtlInv /\ PubInv /\ NumInv => TypeOK
    BY DEF CtlInv, PubInv, NumInv, TypeOK, ClientTypeOK
<1> QED BY <1>1, Control, Producer, Numbers, PTL

\* When the shutdown logs "All messages flushed" the callback has been told
\* the fate of every processed message, and those it was told are delivered
\* are in the topic.
THEOREM CleanStop == Spec => []CleanStopIsClean
<1>1. PubInv /\ NumInv => CleanStopIsClean
    <2> DEFINE Told(m) == \E r \in served :
                             /\ r.topic = "raw" /\ r.msg = m
                             /\ r.ok => copies["raw"][m] > 0
    <2> SUFFICES ASSUME PubInv, NumInv, life = "stopped", dropped = 0
                 PROVE  \A m \in received : Sent("raw", m) => Told(m)
        BY Zenon DEF CleanStopIsClean
    <2>1. /\ Cardinality(outbox) \in Nat /\ Cardinality(reports) \in Nat
          /\ IsFiniteSet(outbox) /\ IsFiniteSet(reports)
        BY FS_CardinalityType DEF PubInv
    <2>2. Cardinality(outbox) = 0 /\ Cardinality(reports) = 0
        BY <2>1 DEF NumInv, Buffered
    <2>3. outbox = {} /\ reports = {}
        BY <2>1, <2>2, FS_EmptySet
    <2> TAKE m \in received
    <2> HAVE Sent("raw", m)
    <2>4. PICK r \in served : r.topic = "raw" /\ r.msg = m
        BY <2>3 DEF Sent
    <2> QED BY <2>4 DEF PubInv, AckedIsStored
<1> QED BY <1>1, Producer, Numbers, PTL

-----------------------------------------------------------------------------
(* The counters of /health.  A record that is taken never loses its trace:  *)
(* it goes from the buffer to the reports and from there to the callback.   *)

Raws == {m \in received : Sent("raw", m)}

\* Whatever the producer does once it has a message, it still knows of it,
\* and it learns of no other one.
LEMMA BrokerKeepsSent ==
    ASSUME BrokerStep \/ FlushServes, NEW t, NEW m
    PROVE  Sent(t, m)' <=> Sent(t, m)
<1>1. CASE FlushServes
    BY <1>1 DEF FlushServes, ServeReports, Sent
<1>2. ASSUME NEW r \in outbox, NEW ok, ReportOn(r, ok)
      PROVE  Sent(t, m)' <=> Sent(t, m)
    <2> DEFINE rep == [topic |-> r.topic, msg |-> r.msg, ok |-> ok]
    <2>1. /\ outbox' = outbox \ {r} /\ served' = served
          /\ reports' = reports \union {rep}
        BY <1>2 DEF ReportOn
    <2>2. rep.topic = r.topic /\ rep.msg = r.msg
        OBVIOUS
    <2> HIDE DEF rep
    <2> QED BY <2>1, <2>2 DEF Sent
<1>3. ASSUME NEW r \in outbox, NEW n \in 0..1, Resend(r, n)
      PROVE  Sent(t, m)' <=> Sent(t, m)
    <2> DEFINE again == [r EXCEPT !.tries = r.tries + 1]
    <2>1. /\ outbox' = (outbox \ {r}) \union {again}
          /\ reports' = reports /\ served' = served
        BY <1>3 DEF Resend
    <2>2. again.topic = r.topic /\ again.msg = r.msg
        OBVIOUS
    <2> HIDE DEF again
    <2> QED BY <2>1, <2>2 DEF Sent
<1>4. CASE BrokerStep
    BY <1>2, <1>3, <1>4 DEF BrokerStep, Deliver, Abandon
<1> QED BY <1>1, <1>4

\* What one received message does to the two counted sets.
LEMMA ReceiveCounts ==
    ASSUME PubInv, NEW m \in Msgs, Receive(m)
    PROVE  /\ m \notin received /\ received' = received \union {m}
           /\ \/ /\ Raws' = Raws \union {m}
                 /\ processed' = processed + 1 /\ rejected' = rejected
              \/ /\ Raws' = Raws
                 /\ processed' = processed /\ rejected' = rejected + 1
<1>1. m \notin received /\ received' = received \union {m}
    BY DEF Receive
<1>2. ~Sent("raw", m)
    BY <1>1 DEF PubInv, Untouched, Topics
<1>3. ASSUME ProcessTrade(m)
      PROVE  /\ Raws' = Raws \union {m}
             /\ processed' = processed + 1 /\ rejected' = rejected
    <2> DEFINE new == [topic |-> "raw", msg |-> m, tries |-> 0]
    <2>1. /\ outbox' = outbox \union {new}
          /\ served' = served \union reports /\ reports' = {}
        BY <1>3 DEF ProcessTrade, PublishTrade, Produce, ServeReports
    <2>2. \A q : Sent("raw", q)' <=> Sent("raw", q) \/ q = m
        <3>1. new.topic = "raw" /\ new.msg = m
            OBVIOUS
        <3> HIDE DEF new
        <3> QED BY <2>1, <3>1 DEF Sent
    <2>3. Raws' = Raws \union {m}
        BY <1>1, <2>2 DEF Raws
    <2> QED BY <1>3, <2>3 DEF ProcessTrade
<1>4. ASSUME RejectMessage(m)
      PROVE  /\ Raws' = Raws
             /\ processed' = processed /\ rejected' = rejected + 1
    <2>1. \A q : Sent("raw", q)' <=> Sent("raw", q)
        <3>1. CASE Produce("dead", m)
            <4>1. /\ outbox' = outbox \union
                        {[topic |-> "dead", msg |-> m, tries |-> 0]}
                  /\ served' = served \union reports /\ reports' = {}
                BY <3>1 DEF Produce, ServeReports
            <4> QED BY <4>1 DEF Sent
        <3>2. CASE UNCHANGED pubVars
            BY <3>2 DEF pubVars, Sent
        <3> QED BY <1>4, <3>1, <3>2 DEF RejectMessage, PublishDeadLetter
    <2>2. Raws' = Raws
        BY <1>1, <1>2, <2>1 DEF Raws
    <2> QED BY <1>4, <2>2 DEF RejectMessage
<1> QED BY <1>1, <1>3, <1>4 DEF Receive

CountInv ==
    /\ IsFiniteSet(received) /\ IsFiniteSet(Raws)
    /\ processed = Cardinality(Raws)
    /\ processed + rejected = Cardinality(received)

\* Steps that receive nothing and after which the producer knows of the same
\* messages leave the counters and what they count alone.
LEMMA CountIdle ==
    ASSUME CountInv, UNCHANGED cntVars,
           \A m : Sent("raw", m)' <=> Sent("raw", m)
    PROVE  CountInv'
<1>1. Raws' = Raws /\ UNCHANGED <<received, processed, rejected>>
    BY DEF Raws, cntVars
<1> QED BY <1>1 DEF CountInv

LEMMA CountReceive ==
    ASSUME PubInv, NumInv, CountInv, NEW m \in Msgs, Receive(m)
    PROVE  CountInv'
<1>1. /\ m \notin received /\ received' = received \union {m}
      /\ m \notin Raws
    BY ReceiveCounts DEF Raws
<1>2. /\ Cardinality(received) \in Nat /\ Cardinality(Raws) \in Nat
      /\ processed \in Nat /\ rejected \in Nat
    BY FS_CardinalityType DEF CountInv, NumInv
<1>3. /\ IsFiniteSet(received')
      /\ Cardinality(received') = Cardinality(received) + 1
    BY <1>1, FS_AddElement DEF CountInv
<1>4. CASE /\ Raws' = Raws \union {m}
           /\ processed' = processed + 1 /\ rejected' = rejected
    <2>1. IsFiniteSet(Raws') /\ Cardinality(Raws') = Cardinality(Raws) + 1
        BY <1>1, <1>4, FS_AddElement DEF CountInv
    <2> QED BY <1>2, <1>3, <1>4, <2>1 DEF CountInv
<1>5. CASE /\ Raws' = Raws
           /\ processed' = processed /\ rejected' = rejected + 1
    BY <1>2, <1>3, <1>5 DEF CountInv
<1> QED BY <1>4, <1>5, ReceiveCounts

LEMMA CountNext == PubInv /\ NumInv /\ CountInv /\ [Next]_vars => CountInv'
<1> SUFFICES ASSUME PubInv, NumInv, CountInv, [Next]_vars PROVE CountInv'
    OBVIOUS
<1>0. UNCHANGED pubVars => \A m : Sent("raw", m)' <=> Sent("raw", m)
    BY DEF pubVars, Sent
<1>1. ASSUME NEW m \in Msgs, Receive(m) PROVE CountInv'
    BY <1>1, CountReceive
<1>2. CASE ServiceProducer \/ FlushStep
    <2>1. UNCHANGED cntVars /\ (BrokerStep \/ FlushServes)
        BY <1>2 DEF ServiceProducer, ProducerStep, FlushStep
    <2> QED BY <2>1, CountIdle, BrokerKeepsSent
<1>3. ASSUME UNCHANGED pubVars, UNCHANGED cntVars PROVE CountInv'
    BY <1>0, <1>3, CountIdle
<1>4. CASE ServiceTask
    <2>1. CASE Start \/ ConnectOk \/ ConnectFail \/ Drop \/ Wake \/ CancelStep
        BY <2>1, <1>3 DEF Start, ConnectOk, ConnectFail, Drop, Wake, CancelStep,
                          CancelOutsideTry, CancelConsume, CancelCaught
    <2> QED BY <1>1, <1>4, <2>1 DEF ServiceTask, TaskStep
<1>5. CASE Shutdown \/ WaitExpires \/ Waited \/ FlushReturns
    BY <1>3, <1>5 DEF Shutdown, WaitExpires, Waited, FlushReturns,
                      RequestCancel, clientVars
<1>6. CASE ServiceStop \/ UNCHANGED vars
    BY <1>3, <1>6 DEF ServiceStop, Stop, vars, clientVars
<1> QED BY <1>2, <1>4, <1>5, <1>6 DEF Next, LifespanStep

\* The counts of /health are exact through retries, lost acknowledgements,
\* full buffers, reconnects and the shutdown: processed counts the messages
\* the producer took for the raw topic, rejected all others.
THEOREM Counters == Spec => []CountersExact
<1>1. Init => CountInv
    <2> SUFFICES ASSUME Init PROVE CountInv
        OBVIOUS
    <2>1. received = {} /\ processed = 0 /\ rejected = 0
        BY DEF Init, ClientInit
    <2>2. Raws = {}
        BY <2>1 DEF Raws
    <2> QED BY <2>1, <2>2, FS_EmptySet DEF CountInv
<1>2. CountInv => CountersExact
    BY DEF CountInv, CountersExact, Raws
<1> QED BY <1>1, <1>2, Producer, Numbers, CountNext, PTL DEF Spec

-----------------------------------------------------------------------------
(* The full buffer.  A record and a report of the same message never stand  *)
(* beside each other, so a record that is reported on keeps its one place.  *)

Distinct ==
    \A r \in outbox, q \in reports : ~(r.topic = q.topic /\ r.msg = q.msg)

\* What the broker thread does frees no place in the buffer.
LEMMA BrokerKeepsPlaces ==
    ASSUME PubInv, Distinct, BrokerStep
    PROVE  Buffered' = Buffered /\ Distinct'
<1>0. /\ IsFiniteSet(outbox) /\ IsFiniteSet(reports)
      /\ Cardinality(outbox) \in Nat /\ Cardinality(reports) \in Nat
    BY FS_CardinalityType DEF PubInv
<1>1. ASSUME NEW r \in outbox
      PROVE  /\ \A q \in outbox \ {r} : ~(q.topic = r.topic /\ q.msg = r.msg)
             /\ \A q \in reports : ~(q.topic = r.topic /\ q.msg = r.msg)
             /\ IsFiniteSet(outbox \ {r})
             /\ Cardinality(outbox \ {r}) = Cardinality(outbox) - 1
    BY <1>0, FS_RemoveElement DEF PubInv, OneRecord, Distinct
<1>2. ASSUME NEW r \in outbox, NEW ok, ReportOn(r, ok)
      PROVE  Buffered' = Buffered /\ Distinct'
    <2> DEFINE rep == [topic |-> r.topic, msg |-> r.msg, ok |-> ok]
    <2>1. outbox' = outbox \ {r} /\ reports' = reports \union {rep}
        BY <1>2 DEF ReportOn
    <2>2. rep.topic = r.topic /\ rep.msg = r.msg
        OBVIOUS
    <2> HIDE DEF rep
    <2>3. rep \notin reports
        BY <1>1, <2>2
    <2>4. Cardinality(reports') = Cardinality(reports) + 1
        BY <1>0, <2>1, <2>3, FS_AddElement
    <2>5. Buffered' = Buffered
        <3>1. Cardinality(outbox') = Cardinality(outbox) - 1
            BY <1>1, <2>1
        <3> QED BY <1>0, <2>4, <3>1 DEF Buffered
    <2>6. Distinct'
        BY <1>1, <2>1, <2>2 DEF Distinct
    <2> QED BY <2>5, <2>6
<1>3. ASSUME NEW r \in outbox, NEW n \in 0..1, Resend(r, n)
      PROVE  Buffered' = Buffered /\ Distinct'
    <2> DEFINE again == [r EXCEPT !.tries = r.tries + 1]
    <2>1. outbox' = (outbox \ {r}) \union {again} /\ reports' = reports
        BY <1>3 DEF Resend
    <2>2. again.topic = r.topic /\ again.msg = r.msg
        BY DEF PubInv, PublisherTypeOK, OutRecord
    <2> HIDE DEF again
    <2>3. again \notin outbox \ {r}
        BY <1>1, <2>2
    <2>4. Cardinality(outbox') = Cardinality(outbox \ {r}) + 1
        BY <1>1, <2>1, <2>3, FS_AddElement
    <2>5. Buffered' = Buffered
        <3>1. /\ Cardinality(outbox \ {r}) = Cardinality(outbox) - 1
              /\ Cardinality(reports') = Cardinality(reports)
            BY <1>1, <2>1
        <3> QED BY <1>0, <2>4, <3>1 DEF Buffered
    <2>6. Distinct'
        BY <1>1, <2>1, <2>2 DEF Distinct
    <2> QED BY <2>5, <2>6
<1> QED BY <1>2, <1>3 DEF BrokerStep, Deliver, Abandon

LEMMA DistinctNext == PubInv /\ Distinct /\ [Next]_vars => Distinct'
<1> SUFFICES ASSUME PubInv, Distinct, [Next]_vars PROVE Distinct'
    OBVIOUS
<1>1. CASE UNCHANGED pubVars
    BY <1>1 DEF pubVars, Distinct
<1>2. CASE reports' = {}
    BY <1>2 DEF Distinct
<1>3. ASSUME NEW m \in Msgs, Receive(m) PROVE Distinct'
    BY <1>1, <1>2, <1>3
       DEF Receive, ProcessTrade, PublishTrade, RejectMessage,
           PublishDeadLetter, Produce, ServeReports
<1>4. CASE ServiceProducer
    BY <1>4, BrokerKeepsPlaces DEF ServiceProducer, ProducerStep
<1>5. CASE FlushStep
    BY <1>2, <1>5 DEF FlushStep, FlushServes, ServeReports
<1>6. CASE ServiceTask
    <2>1. CASE Start \/ ConnectOk \/ ConnectFail \/ Drop \/ Wake \/ CancelStep
        BY <2>1, <1>1 DEF Start, ConnectOk, ConnectFail, Drop, Wake, CancelStep,
                          CancelOutsideTry, CancelConsume, CancelCaught
    <2> QED BY <1>3, <1>6, <2>1 DEF ServiceTask, TaskStep
<1>7. CASE Shutdown \/ WaitExpires \/ Waited \/ FlushReturns
    BY <1>1, <1>7 DEF Shutdown, WaitExpires, Waited, FlushReturns,
                      RequestCancel, clientVars
<1>8. CASE ServiceStop \/ UNCHANGED vars
    BY <1>1, <1>8 DEF ServiceStop, Stop, vars, clientVars
<1> QED BY <1>4, <1>5, <1>6, <1>7, <1>8 DEF Next, LifespanStep

\* Once the buffer is full nothing gets through any more until the shutdown
\* flush, whatever the broker delivers meanwhile.
THEOREM FullStaysFull == Spec => FullIsForever
<1> DEFINE Stuck == /\ Buffered' = QueueMax
                    /\ processed' = processed
                    /\ served' = served
<1>1. Init => Distinct
    BY DEF Init, ClientInit, PublisherInit, Distinct
<1>2. ASSUME PubInv, Distinct, [Next]_vars,
             Buffered = QueueMax, life # "flushing"
      PROVE  Stuck
    <2>1. CASE UNCHANGED pubVars /\ processed' = processed
        BY <1>2, <2>1 DEF pubVars, Buffered
    <2>2. ASSUME NEW m \in Msgs, Receive(m) PROVE Stuck
        <3>1. \A t \in Topics : ~Accepts(t, m)
            BY <1>2, PublisherAssumption DEF Accepts
        <3>2. ~Produce("raw", m) /\ ~Produce("dead", m)
            BY <3>1 DEF Produce, Topics
        <3>3. UNCHANGED pubVars /\ processed' = processed
            BY <2>2, <3>2 DEF Receive, ProcessTrade, PublishTrade,
                              RejectMessage, PublishDeadLetter
        <3> QED BY <2>1, <3>3
    <2>3. CASE ServiceProducer
        <3>1. BrokerStep /\ processed' = processed
            BY <2>3 DEF ServiceProducer, ProducerStep, cntVars
        <3>2. served' = served
            BY <3>1 DEF BrokerStep, Deliver, Abandon, Resend, ReportOn
        <3> QED BY <1>2, <3>1, <3>2, BrokerKeepsPlaces
    <2>4. CASE ServiceTask
        <3>1. CASE Start \/ ConnectOk \/ ConnectFail \/ Drop \/ Wake
                    \/ CancelStep
            BY <3>1, <2>1 DEF Start, ConnectOk, ConnectFail, Drop, Wake,
                              CancelStep, CancelOutsideTry, CancelConsume,
                              CancelCaught, cntVars
        <3> QED BY <2>2, <2>4, <3>1 DEF ServiceTask, TaskStep
    <2>5. CASE LifespanStep
        BY <1>2, <2>1, <2>5 DEF LifespanStep, FlushStep, Shutdown, WaitExpires,
                                Waited, FlushReturns, RequestCancel,
                                clientVars, cntVars
    <2>6. CASE ServiceStop \/ UNCHANGED vars
        BY <2>1, <2>6 DEF ServiceStop, Stop, vars, clientVars, cntVars
    <2> QED BY <1>2, <2>3, <2>4, <2>5, <2>6 DEF Next
<1>3. PubInv /\ Distinct /\ [Next]_vars =>
        [Buffered = QueueMax /\ life # "flushing" => Stuck]_vars
    BY <1>2
<1> QED BY <1>1, <1>3, Producer, DistinctNext, PTL DEF Spec, FullIsForever
=============================================================================
