----------------------------- MODULE BeamProofs -----------------------------
(***************************************************************************)
(* Proofs about BeamPipeline and Medallion for any messages, any number of *)
(* windows, any window size, lateness and number of restarts.              *)
(***************************************************************************)
EXTENDS Medallion, CandleProofs, SequenceTheorems

-----------------------------------------------------------------------------
(* The two validators.                                                      *)

\* What BinanceTradeEvent lets through ParseAndValidate accepts.
LEMMA IngestedIsValid ==
    ASSUME NEW m, BinanceTradeEvent(m)
    PROVE  ParseAndValidate(m)
BY DEF BinanceTradeEvent, ParseAndValidate, Positive, Fields

\* The fields of a parsed trade are numbers, its price and quantity positive,
\* and it belongs to a window.
LEMMA ParsedTrade ==
    ASSUME NEW m \in Messages, ParseAndValidate(m)
    PROVE  LET t == TradeRecord(m)
           IN  /\ t.id \in Int /\ t.price \in Int /\ t.qty \in Int
               /\ t.time \in Int
               /\ t.price > 0 /\ t.qty > 0
               /\ WindowOf(t) \in Windows
BY PipelineAssumption
   DEF ParseAndValidate, Positive, TradeRecord, WindowOf

-----------------------------------------------------------------------------
(* What a candle says of the events it stands for, in a topic lg.           *)

At(lg, e) == TradeRecord(lg[e])

EventsOf(lg, w) ==
    {e \in 1..Len(lg) : ParseAndValidate(lg[e]) /\ WindowOf(At(lg, e)) = w}

\* The trades that the events of a topic carry.
Carry(lg) ==
    [e \in {f \in 1..Len(lg) : ParseAndValidate(lg[f])} |-> At(lg, e)]

StandsFor(lg, a, S) == IsCandle(a, Carry(lg), S)

LEMMA CarryTyped ==
    ASSUME NEW lg \in Seq(Messages)
    PROVE  /\ Typed(Carry(lg)) /\ IsFiniteSet(DOMAIN Carry(lg))
           /\ \A w : EventsOf(lg, w) \in SUBSET (DOMAIN Carry(lg))
<1>1. Typed(Carry(lg))
    BY ParsedTrade, ElementOfSeq DEF Typed, Carry, At
<1>2. IsFiniteSet(1..Len(lg))
    BY LenProperties, FS_Interval
<1>3. DOMAIN Carry(lg) \subseteq 1..Len(lg)
    BY DEF Carry
<1>4. IsFiniteSet(DOMAIN Carry(lg))
    BY <1>2, <1>3, FS_Subset
<1> QED BY <1>1, <1>4 DEF Carry, EventsOf

\* What the properties say of events, in terms of what these carry.
LEMMA EventsCarry ==
    ASSUME log \in Seq(Messages), NEW S \in SUBSET (DOMAIN Carry(log))
    PROVE  /\ \A e \in S : Trade(e) = Carry(log)[e]
           /\ TradesAt(S) = Carried(Carry(log), S)
           /\ Notional(S) = SumFunctionOnSet(Worth(Carry(log)), S)
<1> DEFINE tr == Carry(log)
           f == [e \in S |-> Trade(e).price * Trade(e).qty]
<1>1. \A e \in S : e \in DOMAIN tr /\ Trade(e) = tr[e]
    BY DEF Carry, Trade, At
<1>2. IsFiniteSet(S) /\ Typed(tr)
    BY CarryTyped, FS_Subset
<1> HIDE DEF tr
<1>3. \A e \in S : Worth(tr)[e] \in Int /\ f[e] = Worth(tr)[e]
    BY <1>1, <1>2, WorthType
<1>4. Notional(S) = SumFunctionOnSet(f, S)
    BY DEF Notional, SumFunction
<1> HIDE DEF f
<1>5. SumFunctionOnSet(f, S) = SumFunctionOnSet(Worth(tr), S)
    BY <1>2, <1>3, SumAgree
<1>6. TradesAt(S) = Carried(tr, S)
    BY <1>1 DEF TradesAt, Carried
<1> QED BY <1>1, <1>4, <1>5, <1>6 DEF tr

LEMMA StandsEmpty ==
    ASSUME NEW lg
    PROVE  StandsFor(lg, Empty, {}) /\ Empty \in Accumulators /\ Empty.empty
BY CandleEmpty DEF StandsFor, IsCandle

\* A message more in the topic changes nothing for the events before it.
LEMMA StandsAppend ==
    ASSUME NEW lg \in Seq(Messages), NEW m \in Messages, NEW w
    PROVE  /\ EventsOf(lg, w) \subseteq EventsOf(Append(lg, m), w)
           /\ \A a, S : /\ S \subseteq EventsOf(lg, w)
                        /\ StandsFor(lg, a, S)
                        => StandsFor(Append(lg, m), a, S)
<1>1. /\ Len(Append(lg, m)) = Len(lg) + 1 /\ Len(lg) \in Nat
      /\ \A e \in 1..Len(lg) : Append(lg, m)[e] = lg[e]
    BY AppendProperties, LenProperties
<1>2. EventsOf(lg, w) \subseteq EventsOf(Append(lg, m), w)
    BY <1>1 DEF EventsOf, At
<1>3. ASSUME NEW a, NEW S, S \subseteq EventsOf(lg, w), StandsFor(lg, a, S)
      PROVE  StandsFor(Append(lg, m), a, S)
    <2>1. /\ S \in SUBSET (DOMAIN Carry(lg)) /\ IsFiniteSet(S)
          /\ Typed(Carry(lg))
        BY <1>3, CarryTyped, FS_Subset
    <2>2. /\ S \subseteq DOMAIN Carry(Append(lg, m))
          /\ \A e \in S : Carry(Append(lg, m))[e] = Carry(lg)[e]
        BY <1>1, <1>3 DEF EventsOf, Carry, At
    <2> QED BY <1>3, <2>1, <2>2, CandleAgrees DEF StandsFor
<1> QED BY <1>2, <1>3

\* add_input with an event that is not in the candle.
LEMMA StandsAdd ==
    ASSUME NEW lg \in Seq(Messages), NEW a, NEW S, NEW e \in 1..Len(lg),
           ParseAndValidate(lg[e]), e \notin S,
           S \subseteq {f \in 1..Len(lg) : ParseAndValidate(lg[f])},
           StandsFor(lg, a, S)
    PROVE  StandsFor(lg, AddInput(a, At(lg, e)), S \union {e})
<1>1. /\ e \in DOMAIN Carry(lg) /\ Carry(lg)[e] = At(lg, e)
      /\ S \in SUBSET (DOMAIN Carry(lg))
    BY DEF Carry
<1>2. Typed(Carry(lg)) /\ IsFiniteSet(S)
    BY <1>1, CarryTyped, FS_Subset
<1> QED BY <1>1, <1>2, CandleAdd DEF StandsFor

-----------------------------------------------------------------------------
(* The inductive invariant, in three parts: the topic, the sinks that are   *)
(* written element by element, and the windows.                             *)

TopicInv ==
    /\ log \in Seq(Messages) /\ Len(log) <= MaxLog
    /\ pos \in 0..Len(log)
    /\ wm \in 0..MaxTime
    /\ crashes \in 0..MaxCrashes
    /\ keys \in {{}, {"bronze"}, {"bronze", "silver"}}

SinkInv ==
    /\ dead \subseteq {e \in 1..pos : ~IsTrade(e)}
    /\ bronze \subseteq {e \in 1..pos : IsTrade(e)}
    /\ lost \subseteq 1..pos
    /\ \A b, c \in bronze : Trade(b).id = Trade(c).id => b = c
    /\ \A e \in (1..pos) \ (lost \union dead) :
            IsTrade(e) /\ \E b \in bronze : Trade(b).id = Trade(e).id

\* A state that was dropped (acc is empty) does not stand for held[w] any
\* more; that happens behind the allowed lateness only, when nothing is added.
WindowOK(w) ==
    /\ held[w] \subseteq EventsOf(log, w)
    /\ shown[w] \subseteq EventsOf(log, w)
    /\ StandsFor(log, silver[w], shown[w])
    /\ StandsFor(log, acc[w], held[w]) \/ (acc[w].empty /\ Expired(w))
    /\ w \in fresh => ~acc[w].empty
    /\ w \notin fresh => /\ held[w] \subseteq shown[w]
                         /\ crashes = 0 => shown[w] = held[w]

WindowInv ==
    /\ acc \in [Windows -> Accumulators]
    /\ silver \in [Windows -> Accumulators]
    /\ held \in [Windows -> SUBSET (1..pos)]
    /\ shown \in [Windows -> SUBSET (1..pos)]
    /\ fresh \subseteq Windows /\ onTime \subseteq Windows
    /\ \A w \in Windows : WindowOK(w)

LEMMA InitInv == Init => TopicInv /\ SinkInv /\ WindowInv
<1> SUFFICES ASSUME Init PROVE TopicInv /\ SinkInv /\ WindowInv
    OBVIOUS
<1>1. /\ log = << >> /\ Len(log) = 0 /\ pos = 0 /\ wm = 0 /\ crashes = 0
      /\ keys \in {{}, {"bronze", "silver"}}
      /\ log \in Seq(Messages)
    BY EmptySeq DEF Init
<1>2. TopicInv
    BY <1>1, PipelineAssumption DEF TopicInv
<1>3. SinkInv
    BY <1>1 DEF Init, SinkInv
<1>4. WindowInv
    <2>1. Empty \in Accumulators
        BY StandsEmpty DEF StandsFor
    <2>2. \A w \in Windows : WindowOK(w)
        BY StandsEmpty DEF Init, WindowOK
    <2> QED BY <2>1, <2>2 DEF Init, WindowInv
<1> QED BY <1>2, <1>3, <1>4

\* The messages that are in the topic stay.
LEMMA TopicKeeps ==
    ASSUME log \in Seq(Messages), NEW m \in Messages, log' = Append(log, m)
    PROVE  /\ log' \in Seq(Messages) /\ Len(log') = Len(log) + 1
           /\ Len(log) \in Nat
           /\ \A e \in 1..Len(log) : log'[e] = log[e]
BY AppendProperties, LenProperties

LEMMA TopicNext == TopicInv /\ [Next]_vars => TopicInv'
<1> SUFFICES ASSUME TopicInv, [Next]_vars PROVE TopicInv'
    OBVIOUS
<1> USE PipelineAssumption DEF TopicInv
<1>0. Len(log) \in Nat
    BY LenProperties
<1>1. ASSUME NEW m \in Messages, Publish(m) PROVE TopicInv'
    BY <1>0, <1>1, TopicKeeps DEF Publish, jobVars
<1>2. CASE Tick
    BY <1>2 DEF Tick, jobVars
<1>3. CASE InitSchemas
    BY <1>3 DEF InitSchemas, jobVars
<1>4. CASE ReadBad \/ ReadTrade
    BY <1>0, <1>4 DEF ReadBad, ReadTrade, Reading
<1>5. ASSUME NEW w \in Windows, Pane(w) PROVE TopicInv'
    BY <1>5 DEF Pane, EarlyPane, OnTimePane, LatePane, Collect
<1>6. CASE Crash
    BY <1>0, <1>6 DEF Crash
<1>7. CASE UNCHANGED vars
    BY <1>7 DEF vars, jobVars
<1> QED BY <1>1, <1>2, <1>3, <1>4, <1>5, <1>6, <1>7 DEF Next

-----------------------------------------------------------------------------
(* The sinks.                                                               *)

\* A step that leaves the messages up to pos, the position and the tables as
\* they are.
LEMMA SinkStutter ==
    ASSUME TopicInv, SinkInv, UNCHANGED <<pos, bronze, dead, lost>>,
           \A e \in 1..Len(log) : log'[e] = log[e]
    PROVE  SinkInv'
<1>1. \A e \in 1..pos : log'[e] = log[e]
    BY LenProperties DEF TopicInv
<1>2. /\ dead' \subseteq {e \in 1..pos' : ~(IsTrade(e))'}
      /\ bronze' \subseteq {e \in 1..pos' : (IsTrade(e))'}
      /\ lost' \subseteq 1..pos'
    BY <1>1 DEF SinkInv, IsTrade
<1>3. \A b \in bronze : Trade(b)' = Trade(b)
    BY <1>1 DEF SinkInv, Trade
<1>4. \A b, c \in bronze' : Trade(b)'.id = Trade(c)'.id => b = c
    BY <1>3 DEF SinkInv
<1>5. ASSUME NEW e \in (1..pos') \ (lost' \union dead')
      PROVE  (IsTrade(e))' /\ \E b \in bronze' : Trade(b)'.id = Trade(e)'.id
    <2>1. e \in (1..pos) \ (lost \union dead) /\ log'[e] = log[e]
        BY <1>1
    <2>2. (IsTrade(e))' /\ Trade(e)' = Trade(e)
        BY <2>1 DEF SinkInv, IsTrade, Trade
    <2> QED BY <1>3, <2>1, <2>2 DEF SinkInv
<1> QED BY <1>2, <1>4, <1>5 DEF SinkInv

LEMMA SinkBad == TopicInv /\ SinkInv /\ ReadBad => SinkInv'
<1> SUFFICES ASSUME TopicInv, SinkInv, ReadBad PROVE SinkInv'
    OBVIOUS
<1>1. /\ pos' = pos + 1 /\ pos \in Nat /\ ~IsTrade(pos + 1)
      /\ log' = log /\ bronze' = bronze
    BY LenProperties DEF ReadBad, Reading, TopicInv
<1>2. \A e : ((IsTrade(e))' <=> IsTrade(e)) /\ Trade(e)' = Trade(e)
    BY <1>1 DEF IsTrade, Trade
<1>3. \/ dead' = dead \union {pos + 1} /\ lost' = lost
      \/ lost' = lost \union {pos + 1} /\ dead' = dead
    BY DEF ReadBad, InsertOrNot, Insert, Fails
<1>4. 1..pos' = (1..pos) \union {pos + 1}
    BY <1>1
<1> QED BY <1>1, <1>2, <1>3, <1>4 DEF SinkInv

LEMMA SinkTrade == TopicInv /\ SinkInv /\ ReadTrade => SinkInv'
<1> SUFFICES ASSUME TopicInv, SinkInv, ReadTrade PROVE SinkInv'
    OBVIOUS
<1> DEFINE n == pos + 1
<1>1. /\ pos' = n /\ pos \in Nat /\ IsTrade(n)
      /\ log' = log /\ dead' = dead
    BY LenProperties DEF ReadTrade, Reading, TopicInv
<1>2. \A e : ((IsTrade(e))' <=> IsTrade(e)) /\ Trade(e)' = Trade(e)
    BY <1>1 DEF IsTrade, Trade
<1>3. 1..pos' = (1..pos) \union {n} /\ n \notin 1..pos
    BY <1>1
<1>4. \/ bronze' = bronze /\ lost' = lost \union {n}
      \/ /\ \E b \in bronze : Trade(b).id = Trade(n).id
         /\ bronze' = bronze /\ lost' = lost
      \/ /\ \A b \in bronze : Trade(b).id # Trade(n).id
         /\ bronze' = bronze \union {n} /\ lost' = lost
    BY DEF ReadTrade, WriteBronze, InsertOrNot, Insert, Fails
<1> HIDE DEF n
<1>5. CASE bronze' = bronze /\ lost' = lost \union {n}
    BY <1>1, <1>2, <1>3, <1>5 DEF SinkInv
<1>6. CASE /\ \E b \in bronze : Trade(b).id = Trade(n).id
           /\ bronze' = bronze /\ lost' = lost
    BY <1>1, <1>2, <1>3, <1>6 DEF SinkInv
<1>7. CASE /\ \A b \in bronze : Trade(b).id # Trade(n).id
           /\ bronze' = bronze \union {n} /\ lost' = lost
    <2>1. \A b, c \in bronze' : Trade(b).id = Trade(c).id => b = c
        BY <1>7 DEF SinkInv
    <2>2. \A e \in (1..pos') \ (lost \union dead) :
            IsTrade(e) /\ \E b \in bronze' : Trade(b).id = Trade(e).id
        BY <1>1, <1>3, <1>7 DEF SinkInv
    <2>3. /\ bronze' \subseteq {e \in 1..pos' : IsTrade(e)}
          /\ dead \subseteq {e \in 1..pos' : ~IsTrade(e)}
          /\ lost \subseteq 1..pos'
        BY <1>1, <1>3, <1>7 DEF SinkInv
    <2> QED BY <1>1, <1>2, <1>7, <2>1, <2>2, <2>3 DEF SinkInv
<1> QED BY <1>4, <1>5, <1>6, <1>7

\* A restart skips what the job has not read: it is lost.
LEMMA SinkCrash == TopicInv /\ SinkInv /\ Crash => SinkInv'
<1> SUFFICES ASSUME TopicInv, SinkInv, Crash PROVE SinkInv'
    OBVIOUS
<1>1. /\ pos' = Len(log) /\ lost' = lost \union (pos + 1)..Len(log)
      /\ log' = log /\ bronze' = bronze /\ dead' = dead
      /\ Len(log) \in Nat /\ pos \in 0..Len(log)
    BY LenProperties DEF Crash, TopicInv
<1>2. \A e : ((IsTrade(e))' <=> IsTrade(e)) /\ Trade(e)' = Trade(e)
    BY <1>1 DEF IsTrade, Trade
<1>3. 1..pos' = (1..pos) \union ((pos + 1)..Len(log))
    BY <1>1
<1> QED BY <1>1, <1>2, <1>3 DEF SinkInv

LEMMA SinkNext == TopicInv /\ SinkInv /\ [Next]_vars => SinkInv'
<1> SUFFICES ASSUME TopicInv, SinkInv, [Next]_vars PROVE SinkInv'
    OBVIOUS
<1>1. ASSUME NEW m \in Messages, Publish(m) PROVE SinkInv'
    <2>1. log \in Seq(Messages) /\ log' = Append(log, m)
        BY <1>1 DEF Publish, TopicInv
    <2> QED BY <1>1, <2>1, TopicKeeps, SinkStutter
            DEF Publish, jobVars, sinkVars
<1>2. CASE Tick \/ InitSchemas
    BY <1>2, SinkStutter DEF Tick, InitSchemas, jobVars, sinkVars
<1>3. ASSUME NEW w \in Windows, Pane(w) PROVE SinkInv'
    BY <1>3, SinkStutter
       DEF Pane, EarlyPane, OnTimePane, LatePane, Collect, WritePane, sinkVars
<1>4. CASE UNCHANGED vars
    BY <1>4, SinkStutter DEF vars, jobVars, sinkVars
<1> QED BY <1>1, <1>2, <1>3, <1>4, SinkBad, SinkTrade, SinkCrash DEF Next

-----------------------------------------------------------------------------
(* The windows.                                                             *)

\* A window that a step does not touch; the topic and the clock may go on.
LEMMA WindowStutter ==
    ASSUME NEW w, WindowOK(w),
           acc'[w] = acc[w], held'[w] = held[w],
           silver'[w] = silver[w], shown'[w] = shown[w],
           w \in fresh' <=> w \in fresh,
           crashes' = crashes, wm \in Int, wm' \in Int, wm <= wm',
           End(w) \in Int, Lateness \in Int,
           EventsOf(log, w) \subseteq EventsOf(log', w),
           \A a, S : /\ S \subseteq EventsOf(log, w)
                     /\ StandsFor(log, a, S)
                     => StandsFor(log', a, S)
    PROVE  WindowOK(w)'
<1>1. Expired(w) => (Expired(w))'
    BY DEF Expired, End
<1>2. /\ held'[w] \subseteq EventsOf(log', w)
      /\ shown'[w] \subseteq EventsOf(log', w)
      /\ StandsFor(log', silver'[w], shown'[w])
      /\ StandsFor(log', acc'[w], held'[w]) \/ (acc'[w].empty /\ (Expired(w))')
    BY <1>1 DEF WindowOK
<1>3. /\ w \in fresh' => ~acc'[w].empty
      /\ w \notin fresh' => /\ held'[w] \subseteq shown'[w]
                            /\ crashes' = 0 => shown'[w] = held'[w]
    BY DEF WindowOK
<1> QED BY <1>2, <1>3 DEF WindowOK

LEMMA Numbers ==
    ASSUME NEW w \in Windows
    PROVE  End(w) \in Int /\ Lateness \in Int
BY PipelineAssumption DEF End

LEMMA WindowPublish ==
    ASSUME TopicInv, WindowInv, NEW m \in Messages, Publish(m)
    PROVE  WindowInv'
<1>1. /\ log \in Seq(Messages) /\ log' = Append(log, m) /\ wm \in Int
      /\ wm' = wm
      /\ UNCHANGED <<pos, acc, fresh, onTime, held, silver, shown, crashes>>
    BY DEF Publish, TopicInv, jobVars, sinkVars
<1>2. ASSUME NEW w \in Windows PROVE WindowOK(w)'
    <2>1. WindowOK(w)
        BY DEF WindowInv
    <2>2. /\ EventsOf(log, w) \subseteq EventsOf(log', w)
          /\ \A a, S : /\ S \subseteq EventsOf(log, w)
                       /\ StandsFor(log, a, S)
                       => StandsFor(log', a, S)
        BY <1>1, StandsAppend
    <2> QED BY <1>1, <2>1, <2>2, Numbers, WindowStutter
<1> QED BY <1>1, <1>2 DEF WindowInv

\* The clock, and the steps that have nothing to do with the windows.
LEMMA WindowQuiet ==
    ASSUME TopicInv, WindowInv, log' = log, wm' \in Int, wm <= wm',
           pos' \in Nat, pos <= pos',
           UNCHANGED <<acc, fresh, onTime, held, silver, shown, crashes>>
    PROVE  WindowInv'
<1>1. ASSUME NEW w \in Windows PROVE WindowOK(w)'
    <2>1. WindowOK(w) /\ wm \in Int
        BY DEF WindowInv, TopicInv
    <2> QED BY <2>1, Numbers, WindowStutter
<1>2. 1..pos \subseteq 1..pos'
    BY LenProperties DEF TopicInv
<1> QED BY <1>1, <1>2 DEF WindowInv

LEMMA WindowRead == TopicInv /\ WindowInv /\ ReadTrade => WindowInv'
<1> SUFFICES ASSUME TopicInv, WindowInv, ReadTrade PROVE WindowInv'
    OBVIOUS
<1> DEFINE e == pos + 1
           v == WindowOf(Trade(e))
<1>1. /\ pos < Len(log) /\ pos' = e /\ IsTrade(e)
      /\ log' = log /\ wm' = wm /\ wm \in Int
      /\ pos \in Nat /\ Len(log) \in Nat /\ log \in Seq(Messages)
      /\ UNCHANGED <<onTime, silver, shown, crashes>>
    BY LenProperties DEF ReadTrade, Reading, TopicInv
<1>2. e \in 1..Len(log) /\ e \notin 1..pos /\ 1..pos \subseteq 1..pos'
      /\ e \in 1..pos'
    BY <1>1
<1>3. v \in Windows /\ ParseAndValidate(log[e])
    <2>1. log[e] \in Messages
        BY <1>1, <1>2, ElementOfSeq
    <2> QED BY <1>1, <2>1, ParsedTrade DEF IsTrade, Trade
<1>4. Aggregate(e)
    BY DEF ReadTrade
<1> HIDE DEF e, v
<1>5. CASE Expired(v)
    <2>1. UNCHANGED <<acc, fresh, held>>
        BY <1>4, <1>5 DEF Aggregate, v
    <2> QED BY <1>1, <1>2, <2>1, WindowQuiet DEF e
<1>6. CASE ~Expired(v)
    <2>1. /\ acc' = [acc EXCEPT ![v] = AddInput(acc[v], At(log, e))]
          /\ fresh' = fresh \union {v}
          /\ held' = [held EXCEPT ![v] = held[v] \union {e}]
        BY <1>4, <1>6 DEF Aggregate, v, Trade, At
    <2>2. /\ StandsFor(log, acc[v], held[v])
          /\ held[v] \subseteq EventsOf(log, v) /\ held[v] \subseteq 1..pos
        BY <1>3, <1>6 DEF WindowInv, WindowOK
    <2>3. StandsFor(log, acc'[v], held'[v])
        <3>1. held[v] \subseteq {f \in 1..Len(log) : ParseAndValidate(log[f])}
            BY <2>2 DEF EventsOf
        <3>2. e \notin held[v]
            BY <1>2, <2>2
        <3>3. acc'[v] = AddInput(acc[v], At(log, e))
              /\ held'[v] = held[v] \union {e}
            BY <1>3, <2>1 DEF WindowInv
        <3> QED BY <1>1, <1>2, <1>3, <2>2, <3>1, <3>2, <3>3, StandsAdd
    <2>4. acc'[v] \in Accumulators /\ ~acc'[v].empty
        <3>1. held'[v] # {}
            BY <1>3, <2>1 DEF WindowInv
        <3> QED BY <2>3, <3>1 DEF StandsFor, IsCandle
    <2>5. held'[v] \subseteq EventsOf(log, v)
        <3>1. e \in EventsOf(log, v)
            BY <1>2, <1>3 DEF EventsOf, v, Trade, At
        <3> QED BY <1>3, <2>1, <2>2, <3>1 DEF WindowInv
    <2>6. ASSUME NEW w \in Windows PROVE WindowOK(w)'
        <3>1. WindowOK(w)
            BY DEF WindowInv
        <3>2. CASE w = v
            BY <1>1, <2>1, <2>3, <2>4, <2>5, <3>1, <3>2 DEF WindowOK
        <3>3. CASE w # v
            <4>1. /\ acc'[w] = acc[w] /\ held'[w] = held[w]
                  /\ w \in fresh' <=> w \in fresh
                BY <2>1, <3>3 DEF WindowInv
            <4> QED BY <1>1, <3>1, <4>1, Numbers, WindowStutter
        <3> QED BY <3>2, <3>3
    <2>7. /\ acc' \in [Windows -> Accumulators]
          /\ held' \in [Windows -> SUBSET (1..pos')]
          /\ shown' \in [Windows -> SUBSET (1..pos')]
          /\ fresh' \subseteq Windows
        <3>1. held[v] \union {e} \in SUBSET (1..pos')
            BY <1>2, <2>2
        <3>2. AddInput(acc[v], At(log, e)) \in Accumulators
            BY <1>3, <2>1, <2>4 DEF WindowInv
        <3> QED BY <1>1, <1>2, <1>3, <2>1, <3>1, <3>2 DEF WindowInv
    <2> QED BY <1>1, <2>6, <2>7 DEF WindowInv
<1> QED BY <1>5, <1>6

\* What every pane does, the last one included.
PaneEffect(v) ==
    /\ ~acc[v].empty
    /\ fresh' = fresh \ {v}
    /\ onTime' \subseteq Windows
    /\ UNCHANGED <<log, pos, held, wm, keys, crashes>>
    /\ acc' = acc \/ (Expired(v) /\ acc' = [acc EXCEPT ![v] = Empty])
    /\ \/ /\ silver' = [silver EXCEPT ![v] = acc[v]]
          /\ shown' = [shown EXCEPT ![v] = held[v]]
          /\ "silver" \in keys
       \/ v \notin fresh /\ UNCHANGED <<silver, shown>>

LEMMA PaneHas ==
    ASSUME WindowInv, NEW v \in Windows, Pane(v)
    PROVE  PaneEffect(v)
<1>1. v \in fresh => ~acc[v].empty
    BY DEF WindowInv, WindowOK
<1>2. onTime \subseteq Windows
    BY DEF WindowInv
<1>3. CASE EarlyPane(v)
    BY <1>1, <1>2, <1>3 DEF EarlyPane, WritePane, PaneEffect
<1>4. CASE OnTimePane(v)
    BY <1>1, <1>2, <1>4 DEF OnTimePane, WritePane, PaneEffect
<1>5. CASE LatePane(v)
    BY <1>1, <1>2, <1>5 DEF LatePane, WritePane, PaneEffect
<1>6. CASE Collect(v)
    BY <1>1, <1>2, <1>6 DEF Collect, WritePane, PaneEffect, sinkVars
<1> QED BY <1>3, <1>4, <1>5, <1>6 DEF Pane

LEMMA WindowPane ==
    ASSUME TopicInv, WindowInv, NEW v \in Windows, Pane(v)
    PROVE  WindowInv'
<1>1. PaneEffect(v)
    BY PaneHas
<1>2. /\ ~acc[v].empty
      /\ fresh' = fresh \ {v} /\ onTime' \subseteq Windows
      /\ log' = log /\ pos' = pos /\ held' = held /\ wm' = wm
      /\ crashes' = crashes /\ wm \in Int
    BY <1>1 DEF PaneEffect, TopicInv
<1>3. /\ WindowOK(v) /\ StandsFor(log, acc[v], held[v])
      /\ acc[v] \in Accumulators /\ Empty \in Accumulators /\ Empty.empty
    BY <1>2, StandsEmpty DEF WindowInv, WindowOK, StandsFor, Empty
<1>4. /\ StandsFor(log, silver'[v], shown'[v])
      /\ shown'[v] \subseteq EventsOf(log, v)
      /\ held[v] \subseteq shown'[v]
      /\ crashes = 0 => shown'[v] = held[v]
      /\ silver'[v] \in Accumulators /\ shown'[v] \subseteq 1..pos
    <2>1. CASE /\ silver' = [silver EXCEPT ![v] = acc[v]]
               /\ shown' = [shown EXCEPT ![v] = held[v]]
        BY <1>3, <2>1 DEF WindowInv, WindowOK
    <2>2. CASE v \notin fresh /\ UNCHANGED <<silver, shown>>
        BY <1>3, <2>2 DEF WindowInv, WindowOK
    <2> QED BY <1>1, <2>1, <2>2 DEF PaneEffect
<1>5. /\ acc'[v] \in Accumulators
      /\ StandsFor(log, acc'[v], held[v]) \/ (acc'[v].empty /\ Expired(v))
    BY <1>1, <1>3 DEF PaneEffect, WindowInv
<1>6. ASSUME NEW w \in Windows, w # v
      PROVE  /\ acc'[w] = acc[w] /\ silver'[w] = silver[w]
             /\ shown'[w] = shown[w]
    BY <1>1, <1>6 DEF PaneEffect, WindowInv
<1>7. ASSUME NEW w \in Windows PROVE WindowOK(w)'
    <2>1. WindowOK(w)
        BY DEF WindowInv
    <2>2. CASE w = v
        <3>1. (Expired(v))' <=> Expired(v)
            BY <1>2 DEF Expired, End
        <3> QED BY <1>2, <1>3, <1>4, <1>5, <2>2, <3>1 DEF WindowOK
    <2>3. CASE w # v
        BY <1>2, <1>6, <2>1, <2>3, Numbers, WindowStutter
    <2> QED BY <2>2, <2>3
<1>8. /\ acc' \in [Windows -> Accumulators]
      /\ silver' \in [Windows -> Accumulators]
      /\ shown' \in [Windows -> SUBSET (1..pos)]
    <2>1. held[v] \in SUBSET (1..pos)
        BY DEF WindowInv
    <2> QED BY <1>1, <1>3, <2>1 DEF PaneEffect, WindowInv
<1> QED BY <1>2, <1>7, <1>8 DEF WindowInv

LEMMA WindowCrash == TopicInv /\ WindowInv /\ Crash => WindowInv'
<1> SUFFICES ASSUME TopicInv, WindowInv, Crash PROVE WindowInv'
    OBVIOUS
<1>1. /\ acc' = [w \in Windows |-> Empty] /\ held' = [w \in Windows |-> {}]
      /\ fresh' = {} /\ onTime' = {} /\ crashes' # 0
      /\ UNCHANGED <<log, silver, shown>>
      /\ 1..pos \subseteq 1..pos'
    BY LenProperties DEF Crash, TopicInv
<1>2. Empty \in Accumulators
    BY StandsEmpty DEF StandsFor
<1>3. ASSUME NEW w \in Windows PROVE WindowOK(w)'
    BY <1>1, StandsEmpty DEF WindowOK, WindowInv
<1> QED BY <1>1, <1>2, <1>3 DEF WindowInv

LEMMA WindowNext == TopicInv /\ WindowInv /\ [Next]_vars => WindowInv'
<1> SUFFICES ASSUME TopicInv, WindowInv, [Next]_vars PROVE WindowInv'
    OBVIOUS
<1>0. pos \in Nat /\ wm \in Nat
    BY LenProperties DEF TopicInv
<1>1. CASE Tick
    BY <1>0, <1>1, WindowQuiet DEF Tick, jobVars, sinkVars
<1>2. CASE InitSchemas
    BY <1>0, <1>2, WindowQuiet DEF InitSchemas, jobVars, sinkVars
<1>3. CASE ReadBad
    BY <1>0, <1>3, WindowQuiet DEF ReadBad, Reading
<1>4. CASE UNCHANGED vars
    BY <1>0, <1>4, WindowQuiet DEF vars, jobVars, sinkVars
<1> QED BY <1>1, <1>2, <1>3, <1>4,
           WindowPublish, WindowRead, WindowPane, WindowCrash DEF Next

-----------------------------------------------------------------------------
(* The theorems.                                                            *)

\* Every reachable state satisfies the inductive invariant.
THEOREM Invariance == Spec => [](TopicInv /\ SinkInv /\ WindowInv)
BY InitInv, TopicNext, SinkNext, WindowNext, PTL DEF Spec

\* Type correctness of the job, for any messages, windows and bounds.
THEOREM TypeCorrect == Spec => []TypeOK
<1>1. TopicInv /\ SinkInv /\ WindowInv => TypeOK
    <2> SUFFICES ASSUME TopicInv, SinkInv, WindowInv PROVE TypeOK
        OBVIOUS
    <2>1. 1..pos \subseteq Events
        BY LenProperties, PipelineAssumption DEF TopicInv, Events
    <2> QED BY <2>1 DEF TopicInv, SinkInv, WindowInv, TypeOK
<1> QED BY Invariance, <1>1, PTL

\* No message that the ingestor's validator lets through is rejected by the
\* job's.
THEOREM ValidatorsAgree == Spec => []IngestedIsParsed
<1>1. SinkInv => IngestedIsParsed
    BY IngestedIsValid DEF SinkInv, IngestedIsParsed, IsTrade
<1> QED BY Invariance, <1>1, PTL

\* What is read is stored, trades exactly once, unless a sink failed or a
\* restart skipped it.
THEOREM NothingDropped == Spec => []ReadIsStored
<1>1. SinkInv => ReadIsStored
    BY DEF SinkInv, ReadIsStored
<1> QED BY Invariance, <1>1, PTL

\* The state of a window is dropped only after all of it was written.
THEOREM LastPaneWrites == Spec => []NothingLeftBehind
<1>1. WindowInv => NothingLeftBehind
    BY DEF WindowInv, WindowOK, NothingLeftBehind
<1> QED BY Invariance, <1>1, PTL

\* A Silver row is the candle of the events it stands for.
THEOREM SilverIsTrue == Spec => []RowsAreCandles
<1>1. TopicInv /\ WindowInv => RowsAreCandles
    <2> SUFFICES ASSUME TopicInv, WindowInv, NEW w \in Windows
                 PROVE  LET S == shown[w]
                        IN  /\ silver[w].empty <=> S = {}
                            /\ silver[w].count = Cardinality(S)
                            /\ silver[w].volume = Notional(S)
                            /\ \A e \in S : WindowOf(Trade(e)) = w
                            /\ S # {} => /\ ExtremesOf(silver[w], TradesAt(S))
                                         /\ EndpointsOf(silver[w], TradesAt(S))
                                         /\ WellFormed(silver[w])
        BY DEF RowsAreCandles
    <2>1. /\ IsCandle(silver[w], Carry(log), shown[w])
          /\ shown[w] \subseteq EventsOf(log, w)
        BY DEF WindowInv, WindowOK, StandsFor
    <2>2. shown[w] \in SUBSET (DOMAIN Carry(log)) /\ IsFiniteSet(shown[w])
        BY <2>1, CarryTyped, FS_Subset DEF TopicInv
    <2>3. /\ TradesAt(shown[w]) = Carried(Carry(log), shown[w])
          /\ Notional(shown[w])
                = SumFunctionOnSet(Worth(Carry(log)), shown[w])
        BY <2>2, EventsCarry DEF TopicInv
    <2>4. \A e \in shown[w] : WindowOf(Trade(e)) = w
        BY <2>1 DEF EventsOf, Trade, At
    <2>5. shown[w] # {} => WellFormed(silver[w])
        BY <2>1, <2>2, CandleWellFormed
    <2> QED BY <2>1, <2>3, <2>4, <2>5 DEF IsCandle
<1> QED BY Invariance, <1>1, PTL

-----------------------------------------------------------------------------
(* The safety part of the refinement: the pipeline is a candle feed.        *)

accepted == IF "silver" \in keys THEN held ELSE [w \in Windows |-> {}]

\* A step that changes neither what is accepted nor what is shown.
LEMMA FeedStutter ==
    ASSUME UNCHANGED <<held, shown>>, "silver" \in keys' <=> "silver" \in keys
    PROVE  UNCHANGED Feed!vars
BY DEF Feed!vars

LEMMA FeedInit == Init => Feed!Init
BY DEF Init, Feed!Init

LEMMA FeedRead ==
    ASSUME TopicInv, WindowInv, ReadTrade
    PROVE  [Feed!Next]_Feed!vars
<1> DEFINE e == pos + 1
           v == WindowOf(Trade(e))
<1>1. /\ UNCHANGED <<shown, keys>> /\ Aggregate(e) /\ IsTrade(e)
      /\ e \in 1..Len(log) /\ e \notin 1..pos /\ e \in Events
    BY LenProperties, PipelineAssumption
       DEF ReadTrade, Reading, TopicInv, Events
<1>2. v \in Windows
    <2>1. log[e] \in Messages
        BY <1>1, ElementOfSeq DEF TopicInv
    <2> QED BY <1>1, <2>1, ParsedTrade DEF IsTrade, Trade
<1>3. \A w \in Windows : e \notin held[w]
    BY <1>1 DEF WindowInv
<1> HIDE DEF e, v
<1>4. CASE Expired(v) \/ "silver" \notin keys
    <2>1. accepted' = accepted
        BY <1>1, <1>4 DEF Aggregate, accepted, v
    <2> QED BY <1>1, <2>1 DEF Feed!vars, accepted
<1>5. CASE ~Expired(v) /\ "silver" \in keys
    <2>1. accepted = held /\ accepted' = held'
        BY <1>1, <1>5 DEF accepted
    <2>2. held' = [held EXCEPT ![v] = held[v] \union {e}]
        BY <1>1, <1>5 DEF Aggregate, v
    <2>3. Feed!Accept(v, e)
        BY <1>1, <1>3, <2>1, <2>2 DEF Feed!Accept, accepted
    <2> QED BY <1>1, <1>2, <2>3 DEF Feed!Next
<1> QED BY <1>4, <1>5

LEMMA FeedPane ==
    ASSUME TopicInv, WindowInv, NEW v \in Windows, Pane(v)
    PROVE  [Feed!Next]_Feed!vars
<1>1. PaneEffect(v) /\ WindowOK(v)
    BY PaneHas DEF WindowInv
<1>2. CASE UNCHANGED <<silver, shown>>
    BY <1>1, <1>2, FeedStutter DEF PaneEffect
<1>3. CASE "silver" \in keys /\ shown' = [shown EXCEPT ![v] = held[v]]
    <2>1. held[v] # {}
        BY <1>1 DEF PaneEffect, WindowOK, StandsFor, IsCandle
    <2>2. accepted = held /\ accepted' = accepted
        BY <1>1, <1>3 DEF PaneEffect, accepted
    <2>3. Feed!Show(v)
        BY <1>3, <2>1, <2>2 DEF Feed!Show, accepted
    <2> QED BY <2>3 DEF Feed!Next
<1> QED BY <1>1, <1>2, <1>3 DEF PaneEffect

LEMMA FeedCrash == Crash => [Feed!Next]_Feed!vars
<1> SUFFICES ASSUME Crash PROVE [Feed!Next]_Feed!vars
    OBVIOUS
<1>1. accepted' = [w \in Windows |-> {}] /\ shown' = shown
    BY DEF Crash, accepted
<1>2. Feed!Restart
    BY <1>1 DEF Feed!Restart, accepted
<1> QED BY <1>2 DEF Feed!Next

\* Every step of the pipeline is a step of the candle feed or changes nothing
\* that its readers see.
THEOREM ImplementsFeed == Spec => Feed!Init /\ [][Feed!Next]_Feed!vars
<1>1. TopicInv /\ WindowInv /\ [Next]_vars => [Feed!Next]_Feed!vars
    <2> SUFFICES ASSUME TopicInv, WindowInv, [Next]_vars
                 PROVE  [Feed!Next]_Feed!vars
        OBVIOUS
    <2>1. ASSUME NEW m \in Messages, Publish(m) PROVE UNCHANGED Feed!vars
        BY <2>1, FeedStutter DEF Publish, jobVars, sinkVars
    <2>2. CASE Tick
        BY <2>2, FeedStutter DEF Tick, jobVars, sinkVars
    <2>3. CASE InitSchemas
        BY <2>3, FeedStutter DEF InitSchemas, jobVars, sinkVars
    <2>4. CASE ReadBad
        BY <2>4, FeedStutter DEF ReadBad
    <2>5. CASE UNCHANGED vars
        BY <2>5, FeedStutter DEF vars, jobVars, sinkVars
    <2> QED BY <2>1, <2>2, <2>3, <2>4, <2>5, FeedRead, FeedPane, FeedCrash
            DEF Next
<1> QED BY Invariance, FeedInit, <1>1, PTL DEF Spec

-----------------------------------------------------------------------------
(* A day that is over.                                                      *)

\* gold_daily_ohlcv looks at the rows of the day only.
RowsOfDay(view, d) == {r \in view : Day(r.start) = d}

LEMMA DailyIsLocal ==
    ASSUME NEW view, NEW d
    PROVE  LET daily == DailyOHLCV(view)
           IN  {daily[e] : e \in DOMAIN daily \intersect {d}} =
                    IF RowsOfDay(view, d) = {} THEN {}
                    ELSE {DayCandle(RowsOfDay(view, d))}
<1> DEFINE daily == DailyOHLCV(view)
<1>1. DOMAIN daily = {Day(r.start) : r \in view}
    BY DEF DailyOHLCV
<1>2. d \in DOMAIN daily <=> RowsOfDay(view, d) # {}
    BY <1>1 DEF RowsOfDay
<1>3. d \in DOMAIN daily => daily[d] = DayCandle(RowsOfDay(view, d))
    BY DEF DailyOHLCV, RowsOfDay
<1> HIDE DEF daily
<1>4. {daily[e] : e \in DOMAIN daily \intersect {d}} =
            IF RowsOfDay(view, d) = {} THEN {}
            ELSE {DayCandle(RowsOfDay(view, d))}
    BY <1>2, <1>3
<1> QED BY <1>4 DEF daily

\* The Silver table for given candles, and what the view leaves of a day.
RowsOf(s) ==
    {Row(w * WindowSize, 0, s[w]) : w \in {v \in Windows : ~s[v].empty}}

LEMMA DayOfView ==
    ASSUME NEW s, NEW d
    PROVE  RowsOfDay(Validated(RowsOf(s)), d) =
            {r \in {Row(w * WindowSize, 0, s[w]) :
                        w \in {v \in WindowsOf(d) : ~s[v].empty}} :
                WellFormed(r)}
<1>1. \A r \in RowsOf(s) : r.at = 0
    BY DEF RowsOf, Row
<1>2. LastPanes(RowsOf(s)) = RowsOf(s)
    BY <1>1 DEF LastPanes
<1>3. \A w : Row(w * WindowSize, 0, s[w]).start = w * WindowSize
    BY DEF Row
<1>4. {r \in RowsOf(s) : Day(r.start) = d} =
        {Row(w * WindowSize, 0, s[w]) :
            w \in {v \in WindowsOf(d) : ~s[v].empty}}
    BY <1>3 DEF RowsOf, WindowsOf
<1> QED BY <1>2, <1>4 DEF RowsOfDay, Validated

\* Candles that agree on the windows of a day give the same rows of it.
LEMMA DayOfViewSame ==
    ASSUME NEW s, NEW u, NEW d, \A w \in WindowsOf(d) : s[w] = u[w]
    PROVE  RowsOfDay(Validated(RowsOf(s)), d) =
                RowsOfDay(Validated(RowsOf(u)), d)
<1>1. {Row(w * WindowSize, 0, s[w]) :
            w \in {v \in WindowsOf(d) : ~s[v].empty}} =
      {Row(w * WindowSize, 0, u[w]) :
            w \in {v \in WindowsOf(d) : ~u[v].empty}}
    OBVIOUS
<1> QED BY <1>1, DayOfView

\* An expired window without state stays that way, and its row is not written.
LEMMA ExpiredIsFinal ==
    ASSUME TopicInv, WindowInv, [Next]_vars,
           NEW w \in Windows, Expired(w), acc[w].empty
    PROVE  (Expired(w))' /\ acc'[w].empty /\ silver'[w] = silver[w]
<1>0. wm \in Int /\ End(w) \in Int /\ Lateness \in Int
    BY Numbers DEF TopicInv
<1>1. ASSUME NEW m \in Messages, Publish(m)
      PROVE  UNCHANGED <<wm, acc, silver>>
    BY <1>1 DEF Publish, jobVars, sinkVars
<1>2. CASE Tick
    BY <1>0, <1>2 DEF Tick, jobVars, sinkVars, Expired, End
<1>3. CASE InitSchemas \/ ReadBad \/ UNCHANGED vars
    BY <1>3 DEF InitSchemas, ReadBad, vars, jobVars, sinkVars, Expired, End
<1>4. CASE ReadTrade
    <2>1. UNCHANGED <<wm, silver>> /\ Aggregate(pos + 1)
        BY <1>4 DEF ReadTrade
    <2>2. acc'[w] = acc[w]
        BY <2>1 DEF Aggregate, WindowInv
    <2> QED BY <2>1, <2>2 DEF Expired, End
<1>5. ASSUME NEW v \in Windows, Pane(v)
      PROVE  wm' = wm /\ acc'[w] = acc[w] /\ silver'[w] = silver[w]
    <2>1. PaneEffect(v)
        BY <1>5, PaneHas
    <2>2. v # w
        BY <2>1 DEF PaneEffect
    <2> QED BY <2>1, <2>2 DEF PaneEffect, WindowInv
<1>6. CASE Crash
    BY <1>6 DEF Crash, Expired, End, Empty
<1> QED BY <1>1, <1>2, <1>3, <1>4, <1>5, <1>6 DEF Next, Expired, End

\* The daily candle of a day that is over never changes.
THEOREM FinishedDays == Spec => DayIsFinal
<1> DEFINE Days == {Day(w * WindowSize) : w \in Windows}
           Final == \A d \in Days :
                        DayOver(d) => DayOver(d)' /\ GoldRow(d)' = GoldRow(d)
<1>1. TopicInv /\ WindowInv /\ [Next]_vars => Final
    <2> SUFFICES ASSUME TopicInv, WindowInv, [Next]_vars,
                        NEW d \in Days, DayOver(d)
                 PROVE  DayOver(d)' /\ GoldRow(d)' = GoldRow(d)
        OBVIOUS
    <2>1. ASSUME NEW w \in WindowsOf(d)
          PROVE  (Expired(w))' /\ acc'[w].empty /\ silver'[w] = silver[w]
        BY ExpiredIsFinal DEF DayOver, WindowsOf
    <2>2. DayOver(d)'
        BY <2>1 DEF DayOver, WindowsOf
    <2>3. /\ SilverRows = RowsOf(silver)
          /\ SilverRows' = RowsOf(silver')
        BY DEF SilverRows, RowsOf
    <2>4. RowsOfDay(Validated(RowsOf(silver')), d) =
                RowsOfDay(Validated(RowsOf(silver)), d)
        BY <2>1, DayOfViewSame
    <2>5. GoldRow(d) = IF RowsOfDay(Validated(RowsOf(silver)), d) = {} THEN {}
                       ELSE {DayCandle(RowsOfDay(Validated(RowsOf(silver)), d))}
        BY <2>3, DailyIsLocal DEF GoldRow, DailyTable
    <2>6. GoldRow(d)' =
            IF RowsOfDay(Validated(RowsOf(silver')), d) = {} THEN {}
            ELSE {DayCandle(RowsOfDay(Validated(RowsOf(silver')), d))}
        BY <2>3, DailyIsLocal DEF GoldRow, DailyTable
    <2> QED BY <2>2, <2>4, <2>5, <2>6
<1> QED BY Invariance, <1>1, PTL DEF DayIsFinal, Spec

-----------------------------------------------------------------------------
(* The daily table.                                                         *)

Seen == UNION {shown[w] : w \in Windows}
SeenOn(d) == {e \in Seen : Day(Trade(e).time) = d}
RowOf(w) == Row(w * WindowSize, 0, silver[w])
ShownOn(d) == {w \in Windows : shown[w] # {} /\ Day(w * WindowSize) = d}

\* What is shown of a window lies in its day.
LEMMA SeenEvents ==
    ASSUME TopicInv, WindowInv, NEW w \in Windows, NEW e \in shown[w]
    PROVE  /\ e \in DOMAIN Carry(log) /\ Trade(e) = Carry(log)[e]
           /\ Trade(e).time \in Int
           /\ Trade(e).time \div WindowSize = w
           /\ Day(w * WindowSize) = Day(Trade(e).time)
<1>1. e \in EventsOf(log, w)
    BY DEF WindowInv, WindowOK
<1>2. e \in DOMAIN Carry(log) /\ Typed(Carry(log))
    BY <1>1, CarryTyped DEF TopicInv
<1>3. Trade(e) = Carry(log)[e]
    BY <1>2 DEF Carry, Trade, At
<1>4. Trade(e).time \in Int
    BY <1>2, <1>3 DEF Typed
<1>5. Trade(e).time \div WindowSize = w
    BY <1>1 DEF EventsOf, WindowOf, Trade, At
<1>6. /\ WindowSize \in Nat \ {0} /\ DaySize \in Nat \ {0}
      /\ DaySize % WindowSize = 0
    BY PipelineAssumption, GoldAssumption, DaysAssumption
<1>7. ((Trade(e).time \div WindowSize) * WindowSize) \div DaySize
            = Trade(e).time \div DaySize
    BY <1>4, <1>6, StartOfUnit
<1> QED BY <1>2, <1>3, <1>4, <1>5, <1>7 DEF Day

\* The row of a window reports what is shown of it and passes the filter.
LEMMA SilverReports ==
    ASSUME TopicInv, WindowInv, NEW w \in Windows
    PROVE  /\ ~silver[w].empty <=> shown[w] # {}
           /\ shown[w] # {} => /\ Reports(RowOf(w), Carry(log), shown[w])
                               /\ RowOf(w).start = w * WindowSize
                               /\ RowOf(w).at = 0 /\ WellFormed(RowOf(w))
<1>1. /\ IsCandle(silver[w], Carry(log), shown[w])
      /\ shown[w] \subseteq EventsOf(log, w)
    BY DEF WindowInv, WindowOK, StandsFor
<1>2. IsFiniteSet(shown[w])
    BY <1>1, CarryTyped, FS_Subset DEF TopicInv
<1>3. ~silver[w].empty <=> shown[w] # {}
    BY <1>1 DEF IsCandle
<1> QED BY <1>1, <1>2, <1>3, CandleReports, CandleWellFormed DEF RowOf

\* The view passes every row that the job writes.
LEMMA ViewOfSilver ==
    ASSUME TopicInv, WindowInv
    PROVE  Validated(SilverRows)
                = {RowOf(w) : w \in {v \in Windows : shown[v] # {}}}
<1>1. SilverRows = {RowOf(w) : w \in {v \in Windows : shown[v] # {}}}
    BY SilverReports DEF SilverRows, RowOf
<1>2. \A r \in SilverRows : r.at = 0 /\ WellFormed(r)
    BY <1>1, SilverReports
<1>3. LastPanes(SilverRows) = SilverRows
    BY <1>2 DEF LastPanes
<1> QED BY <1>1, <1>2, <1>3 DEF Validated

\* The rows of a day are those of the windows that its events lie in.
LEMMA WindowsOfDay ==
    ASSUME TopicInv, WindowInv, NEW d
    PROVE  /\ Spans(Carry(log), WindowSize, SeenOn(d)) = ShownOn(d)
           /\ \A w \in ShownOn(d) :
                InSpan(Carry(log), WindowSize, SeenOn(d), w) = shown[w]
           /\ {r \in Validated(SilverRows) : Day(r.start) = d}
                = {RowOf(w) : w \in ShownOn(d)}
<1> DEFINE tr == Carry(log)
<1>1. ASSUME NEW e \in SeenOn(d)
      PROVE  /\ tr[e].time \div WindowSize \in ShownOn(d)
             /\ e \in shown[tr[e].time \div WindowSize]
    <2>1. PICK w \in Windows : e \in shown[w]
        BY DEF SeenOn, Seen
    <2>2. tr[e].time \div WindowSize = w /\ Day(w * WindowSize) = d
        BY <2>1, SeenEvents DEF SeenOn
    <2> QED BY <2>1, <2>2 DEF ShownOn
<1>2. ASSUME NEW w \in ShownOn(d), NEW e \in shown[w]
      PROVE  e \in SeenOn(d) /\ tr[e].time \div WindowSize = w
    BY SeenEvents DEF ShownOn, SeenOn, Seen
<1>3. \A w \in ShownOn(d) : shown[w] # {}
    BY DEF ShownOn
<1> HIDE DEF tr
<1>4. Spans(tr, WindowSize, SeenOn(d)) = ShownOn(d)
    BY <1>1, <1>2, <1>3 DEF Spans
<1>5. \A w \in ShownOn(d) : InSpan(tr, WindowSize, SeenOn(d), w) = shown[w]
    BY <1>1, <1>2 DEF InSpan
<1>6. {r \in Validated(SilverRows) : Day(r.start) = d}
            = {RowOf(w) : w \in ShownOn(d)}
    BY ViewOfSilver, SilverReports DEF ShownOn
<1> QED BY <1>4, <1>5, <1>6 DEF tr

\* The row of a day reports all that is shown of the day.
LEMMA DayReports ==
    ASSUME TopicInv, WindowInv
    PROVE  /\ DOMAIN DailyTable = {Day(Trade(e).time) : e \in Seen}
           /\ \A d \in DOMAIN DailyTable :
                /\ SeenOn(d) \in SUBSET (DOMAIN Carry(log))
                /\ Reports(DailyTable[d], Carry(log), SeenOn(d))
<1>1. DailyTable = [d \in {Day(r.start) : r \in Validated(SilverRows)} |->
            DayCandle({r \in Validated(SilverRows) : Day(r.start) = d})]
    BY DEF DailyTable, DailyOHLCV
<1>2. \A w \in Windows : shown[w] # {} => RowOf(w).start = w * WindowSize
    BY SilverReports
<1>3. {Day(r.start) : r \in Validated(SilverRows)}
            = {Day(w * WindowSize) : w \in {v \in Windows : shown[v] # {}}}
    BY <1>2, ViewOfSilver
<1>4. {Day(w * WindowSize) : w \in {v \in Windows : shown[v] # {}}}
            = {Day(Trade(e).time) : e \in Seen}
    BY SeenEvents DEF Seen
<1>5. DOMAIN DailyTable = {Day(Trade(e).time) : e \in Seen}
    BY <1>1, <1>3, <1>4
<1>6. ASSUME NEW d \in DOMAIN DailyTable
      PROVE  /\ SeenOn(d) \in SUBSET (DOMAIN Carry(log))
             /\ Reports(DailyTable[d], Carry(log), SeenOn(d))
    <2> DEFINE tr == Carry(log)
               D == SeenOn(d)
               R == [w \in Windows |-> RowOf(w)]
    <2>1. D # {} /\ D \in SUBSET (DOMAIN tr)
        BY <1>5, SeenEvents DEF SeenOn, Seen
    <2>2. Typed(tr) /\ IsFiniteSet(D) /\ WindowSize \in Nat \ {0}
        BY <2>1, CarryTyped, FS_Subset, PipelineAssumption DEF TopicInv
    <2>3. Spans(tr, WindowSize, D) = ShownOn(d)
        BY WindowsOfDay
    <2>4. RowsOfSpans(R, tr, WindowSize, D)
        <3> SUFFICES ASSUME NEW w \in ShownOn(d)
                     PROVE  /\ R[w].start = w * WindowSize
                            /\ Reports(R[w], tr, InSpan(tr, WindowSize, D, w))
            BY <2>3 DEF RowsOfSpans
        <3>1. w \in Windows /\ shown[w] # {} /\ R[w] = RowOf(w)
            BY DEF ShownOn
        <3>2. InSpan(tr, WindowSize, D, w) = shown[w]
            BY WindowsOfDay
        <3> QED BY <3>1, <3>2, SilverReports
    <2>5. {R[w] : w \in ShownOn(d)} = {RowOf(w) : w \in ShownOn(d)}
        BY DEF ShownOn
    <2>6. DailyTable[d] = DayCandle({R[w] : w \in Spans(tr, WindowSize, D)})
        BY <1>1, <2>3, <2>5, WindowsOfDay
    <2> HIDE DEF tr, D, R
    <2>7. Reports(DayCandle({R[w] : w \in Spans(tr, WindowSize, D)}), tr, D)
        BY <2>1, <2>2, <2>4, RolledUp
    <2> QED BY <2>1, <2>6, <2>7 DEF tr, D
<1> QED BY <1>5, <1>6

\* At any moment, through panes, redeliveries and restarts, the daily table is
\* the table of the candles of what Silver shows, day by day.
THEOREM DailyShows == Spec => []DailyIsShown
<1>1. TopicInv /\ WindowInv => DailyIsShown
    <2> SUFFICES ASSUME TopicInv, WindowInv PROVE DailyIsShown
        OBVIOUS
    <2>1. DOMAIN DailyTable = {Day(Trade(e).time) : e \in Seen}
        BY DayReports
    <2>2. ASSUME NEW d \in DOMAIN DailyTable
          PROVE  LET T == TradesAt(SeenOn(d))
                     row == DailyTable[d]
                 IN  /\ ExtremesOf(row, T) /\ EndsOf(row, T)
                     /\ row.volume = Notional(SeenOn(d))
                     /\ row.count = Cardinality(SeenOn(d))
        <3>1. /\ SeenOn(d) \in SUBSET (DOMAIN Carry(log))
              /\ Reports(DailyTable[d], Carry(log), SeenOn(d))
            BY DayReports
        <3>2. /\ TradesAt(SeenOn(d)) = Carried(Carry(log), SeenOn(d))
              /\ Notional(SeenOn(d))
                    = SumFunctionOnSet(Worth(Carry(log)), SeenOn(d))
            BY <3>1, EventsCarry DEF TopicInv
        <3> QED BY <3>1, <3>2 DEF Reports
    <2> QED BY <2>1, <2>2 DEF DailyIsShown, SeenOn, Seen, EndsOf
<1> QED BY Invariance, <1>1, PTL
=============================================================================
