------------------------- MODULE OHLCVCombineProofs -------------------------
(***************************************************************************)
(* Proofs about OHLCVCombine for every finite set of trades, any number of *)
(* accumulators and every order of add_input and merge_accumulators.       *)
(***************************************************************************)
EXTENDS OHLCVCombine, CandleProofs

-----------------------------------------------------------------------------
(* The operators.                                                           *)

\* Merging accumulators is associative, ties included, so partial merges on
\* different workers may be grouped in any way (transforms.py:13-18).
THEOREM MergeAssociative ==
    ASSUME NEW a \in Accumulators, NEW b \in Accumulators,
           NEW c \in Accumulators
    PROVE  Merge(Merge(a, b), c) = Merge(a, Merge(b, c))
<1>1. CASE a.empty \/ b.empty \/ c.empty
    BY <1>1 DEF Merge, Join, Accumulators
<1>2. CASE ~a.empty /\ ~b.empty /\ ~c.empty
    <2>1. /\ Merge(Merge(a, b), c) = Join(Join(a, b), c)
          /\ Merge(a, Merge(b, c)) = Join(a, Join(b, c))
        BY <1>2 DEF Merge, Join
    <2>2. Join(Join(a, b), c) = Join(a, Join(b, c))
        <3> DEFINE ab == Join(a, b)
                   bc == Join(b, c)
        <3>1. /\ \A x \in {a, b, c} :
                    /\ x.first \in Int /\ x.last \in Int
                    /\ x.high \in Int /\ x.low \in Int
                    /\ x.volume \in Int /\ x.count \in Int
            BY DEF Accumulators
        <3>2. /\ (IF c.first < ab.first THEN c.open ELSE ab.open)
                    = (IF bc.first < a.first THEN bc.open ELSE a.open)
              /\ (IF c.first < ab.first THEN c.first ELSE ab.first)
                    = (IF bc.first < a.first THEN bc.first ELSE a.first)
            BY <3>1 DEF Join
        <3>3. /\ (IF c.last > ab.last THEN c.close ELSE ab.close)
                    = (IF bc.last > a.last THEN bc.close ELSE a.close)
              /\ (IF c.last > ab.last THEN c.last ELSE ab.last)
                    = (IF bc.last > a.last THEN bc.last ELSE a.last)
            BY <3>1 DEF Join
        <3>4. /\ (IF c.high > ab.high THEN c.high ELSE ab.high)
                    = (IF bc.high > a.high THEN bc.high ELSE a.high)
              /\ (IF c.low < ab.low THEN c.low ELSE ab.low)
                    = (IF bc.low < a.low THEN bc.low ELSE a.low)
            BY <3>1 DEF Join
        <3>5. /\ ab.volume + c.volume = a.volume + bc.volume
              /\ ab.count + c.count = a.count + bc.count
            BY <3>1 DEF Join
        <3> HIDE DEF ab, bc
        <3>6. Join(ab, c) = Join(a, bc)
            BY <3>2, <3>3, <3>4, <3>5 DEF Join
        <3> QED BY <3>6 DEF ab, bc
    <2> QED BY <2>1, <2>2
<1> QED BY <1>1, <1>2

-----------------------------------------------------------------------------
(* The volume of the reference candle is a sum over a function on all       *)
(* trades, so that sums over different sets of trades can be compared.      *)

Values == [t \in Trades |-> Value(t)]

\* The value of a trade is a positive integer.
LEMMA ValuesType ==
    \A t \in Trades : /\ Values[t] = t.price * t.qty
                       /\ Values[t] \in Int /\ Values[t] > 0
<1>1. \A t \in Trades : t.price \in Int /\ t.qty \in Int
                         /\ t.price > 0 /\ t.qty > 0
    BY TradesAssumption
<1>2. \A t \in Trades : Values[t] = t.price * t.qty
    BY DEF Values, Value
<1>3. \A x, y \in Int : x > 0 /\ y > 0 => x * y \in Int /\ x * y > 0
    OBVIOUS
<1> QED BY <1>1, <1>2, <1>3

\* MapThenSumSet folds the same values in some order.
LEMMA VolumeIsSum ==
    ASSUME NEW S \in SUBSET Trades
    PROVE  MapThenSumSet(Value, S) = SumFunctionOnSet(Values, S)
<1> DEFINE I == CHOOSE i : i = [U \in SUBSET S |->
                    IF U = {} THEN 0
                    ELSE Value(CHOOSE x \in U : TRUE)
                            + i[U \ {CHOOSE x \in U : TRUE}]]
           p == [U \in SUBSET S |-> CHOOSE x \in U : TRUE]
           g == [U \in SUBSET S |-> SumFunctionOnSet(Values, U)]
<1>1. MapThenSumSet(Value, S) = I[S]
    BY DEF MapThenSumSet, MapThenFoldSet
<1>2. IsFiniteSet(S) /\ \A t \in S : Values[t] \in Int
    BY FS_Subset, TradesAssumption, ValuesType
<1>3. Picks(p, S) /\ Sums(g, S, p, Values)
    BY <1>2, SumIsSums
<1>4. \A U \in SUBSET S : U # {} =>
            /\ p[U] = CHOOSE x \in U : TRUE
            /\ Values[p[U]] = Value(CHOOSE x \in U : TRUE)
    BY DEF Values
<1>5. g[S] = SumFunctionOnSet(Values, S)
    OBVIOUS
<1> HIDE DEF g, p
<1>6. g = [U \in SUBSET S |->
                IF U = {} THEN 0
                ELSE Value(CHOOSE x \in U : TRUE)
                        + g[U \ {CHOOSE x \in U : TRUE}]]
    BY <1>3, <1>4 DEF Sums
<1>7. I = [U \in SUBSET S |->
                IF U = {} THEN 0
                ELSE Value(CHOOSE x \in U : TRUE)
                        + I[U \ {CHOOSE x \in U : TRUE}]]
    BY <1>6
<1>8. Sums(I, S, p, Values)
    <2> HIDE DEF I
    <2> QED BY <1>4, <1>7 DEF Sums
<1>9. I = g
    <2> HIDE DEF I
    <2> QED BY <1>2, <1>3, <1>8, SumsUnique
<1> QED BY <1>1, <1>5, <1>9

-----------------------------------------------------------------------------
(* What one accumulator says of the set of trades it stands for, and that   *)
(* merging disjoint sets keeps it: it is the candle of these trades.        *)

Faithful(a, S) ==
    /\ a \in Accumulators
    /\ a.empty <=> S = {}
    /\ a.count = Cardinality(S)
    /\ a.volume = SumFunctionOnSet(Values, S)
    /\ S # {} => /\ ExtremesOf(a, S)
                 /\ EndpointsOf(a, S)
                 /\ a.volume > 0

\* Here an accumulator is given the trades themselves.
Own == [t \in Trades |-> t]

LEMMA OwnTrades ==
    /\ Typed(Own) /\ DOMAIN Own = Trades /\ Worth(Own) = Values
    /\ \A S \in SUBSET Trades : Carried(Own, S) = S
<1>1. DOMAIN Own = Trades /\ \A t \in Trades : Own[t] = t
    BY DEF Own
<1>2. Typed(Own)
    BY <1>1, TradesAssumption DEF Typed
<1>3. Worth(Own) = Values
    BY <1>1 DEF Worth, Values, Value
<1>4. ASSUME NEW S \in SUBSET Trades PROVE Carried(Own, S) = S
    BY <1>1 DEF Carried
<1> QED BY <1>1, <1>2, <1>3, <1>4

LEMMA FaithfulIsCandle ==
    ASSUME NEW S \in SUBSET Trades, NEW a
    PROVE  Faithful(a, S) <=> IsCandle(a, Own, S)
<1>1. Carried(Own, S) = S /\ Worth(Own) = Values
    BY OwnTrades
<1> QED BY <1>1 DEF Faithful, IsCandle

LEMMA FaithfulEmpty == Faithful(Empty, {})
BY CandleEmpty, FaithfulIsCandle

LEMMA FaithfulSingle ==
    ASSUME NEW t \in Trades
    PROVE  Faithful(Single(t), {t})
<1>1. t \in DOMAIN Own /\ Own[t] = t /\ {t} \in SUBSET Trades
    BY OwnTrades DEF Own
<1>2. IsCandle(Single(t), Own, {t})
    BY <1>1, OwnTrades, CandleSingle
<1> QED BY <1>1, <1>2, FaithfulIsCandle

\* merge_accumulators keeps an accumulator faithful, empty ones included.
LEMMA FaithfulMerge ==
    ASSUME NEW S \in SUBSET Trades, NEW R \in SUBSET Trades,
           S \intersect R = {},
           NEW a, NEW b, Faithful(a, S), Faithful(b, R)
    PROVE  Faithful(Merge(a, b), S \union R)
<1>1. IsFiniteSet(S) /\ IsFiniteSet(R) /\ S \union R \in SUBSET Trades
    BY FS_Subset, TradesAssumption
<1>2. IsCandle(a, Own, S) /\ IsCandle(b, Own, R)
    BY FaithfulIsCandle
<1>3. IsCandle(Merge(a, b), Own, S \union R)
    BY <1>1, <1>2, OwnTrades, CandleMerge
<1> QED BY <1>1, <1>3, FaithfulIsCandle

-----------------------------------------------------------------------------
(* The inductive invariant: every accumulator is faithful to its trades and *)
(* no trade is in two of them.  Disjointness is what the count needs to be  *)
(* inductive; the other parts survive each other's steps only together,     *)
(* since a merge reads the empty flag to decide which fields to compare.    *)

IInv ==
    /\ acc \in [Slots -> Accumulators]
    /\ got \in [Slots -> SUBSET Trades]
    /\ \A s \in Slots : Faithful(acc[s], got[s])
    /\ Disjoint

LEMMA InitIInv == Init => IInv
<1> SUFFICES ASSUME Init PROVE IInv
    OBVIOUS
<1>1. Empty \in Accumulators
    BY FaithfulEmpty DEF Faithful
<1> QED BY <1>1, FaithfulEmpty DEF Init, IInv, Disjoint

LEMMA AddIInv ==
    ASSUME IInv, NEW s \in Slots, NEW t \in Trades, Add(s, t)
    PROVE  IInv'
<1> USE DEF IInv
<1>1. t \notin got[s] /\ {t} \in SUBSET Trades /\ got[s] \in SUBSET Trades
    BY DEF Add, Unread
<1>2. Faithful(AddInput(acc[s], t), got[s] \union {t})
    <2>1. got[s] \intersect {t} = {}
        BY <1>1
    <2>2. Faithful(acc[s], got[s])
        OBVIOUS
    <2> QED BY <1>1, <2>1, <2>2, FaithfulSingle, FaithfulMerge, AddIsMerge
<1>3. AddInput(acc[s], t) \in Accumulators
    BY <1>2 DEF Faithful
<1>4. /\ acc' = [acc EXCEPT ![s] = AddInput(acc[s], t)]
      /\ got' = [got EXCEPT ![s] = got[s] \union {t}]
    BY DEF Add
<1>5. acc' \in [Slots -> Accumulators] /\ got' \in [Slots -> SUBSET Trades]
    BY <1>1, <1>3, <1>4
<1>6. \A r \in Slots : Faithful(acc'[r], got'[r])
    BY <1>2, <1>4
<1>7. Disjoint'
    BY <1>4 DEF Disjoint, Add, Unread
<1> QED BY <1>5, <1>6, <1>7

LEMMA MergeIInv ==
    ASSUME IInv, NEW s \in Slots, NEW r \in Slots, MergeInto(s, r)
    PROVE  IInv'
<1> USE DEF IInv
<1>1. /\ s # r
      /\ acc' = [acc EXCEPT ![s] = Merge(acc[s], acc[r]), ![r] = Empty]
      /\ got' = [got EXCEPT ![s] = got[s] \union got[r], ![r] = {}]
    BY DEF MergeInto
<1>2. Faithful(Merge(acc[s], acc[r]), got[s] \union got[r])
    <2>1. got[s] \intersect got[r] = {}
        BY <1>1 DEF Disjoint
    <2>2. /\ Faithful(acc[s], got[s]) /\ Faithful(acc[r], got[r])
          /\ got[s] \in SUBSET Trades /\ got[r] \in SUBSET Trades
        OBVIOUS
    <2> QED BY <2>1, <2>2, FaithfulMerge
<1>3. Merge(acc[s], acc[r]) \in Accumulators /\ Empty \in Accumulators
    BY <1>2, FaithfulEmpty DEF Faithful
<1>4. acc' \in [Slots -> Accumulators] /\ got' \in [Slots -> SUBSET Trades]
    BY <1>1, <1>3
<1>5. \A q \in Slots : Faithful(acc'[q], got'[q])
    <2> TAKE q \in Slots
    <2>1. CASE q = r
        BY <2>1, <1>1, FaithfulEmpty
    <2>2. CASE q = s
        BY <2>2, <1>1, <1>2
    <2>3. CASE q # r /\ q # s
        BY <2>3, <1>1
    <2> QED BY <2>1, <2>2, <2>3
<1>6. Disjoint'
    BY <1>1 DEF Disjoint
<1> QED BY <1>4, <1>5, <1>6

\* Every reachable state satisfies the inductive invariant.
THEOREM Invariance == Spec => []IInv
<1>1. IInv /\ [Next]_vars => IInv'
    <2> SUFFICES ASSUME IInv, [Next]_vars PROVE IInv'
        OBVIOUS
    <2>1. ASSUME NEW s \in Slots, NEW t \in Trades, Add(s, t) PROVE IInv'
        BY <2>1, AddIInv
    <2>2. ASSUME NEW s \in Slots, NEW r \in Slots, MergeInto(s, r) PROVE IInv'
        BY <2>2, MergeIInv
    <2>3. CASE UNCHANGED vars
        BY <2>3 DEF vars, IInv, Disjoint
    <2> QED BY <2>1, <2>2, <2>3 DEF Next
<1> QED BY InitIInv, <1>1, PTL DEF Spec

-----------------------------------------------------------------------------
(* The theorems a reader looks for.                                         *)

\* Accumulators stay accumulators, and each stands for a set of trades.
THEOREM TypeCorrect == Spec => []TypeOK
<1>1. IInv => TypeOK
    BY DEF IInv, TypeOK
<1> QED BY Invariance, <1>1, PTL

\* High and low of every accumulator, whatever was added and merged in
\* whatever order, are the extreme prices of the trades it stands for.
THEOREM HighAndLow == Spec => []ExtremesOK
<1>1. IInv => ExtremesOK
    BY DEF IInv, Faithful, ExtremesOK
<1> QED BY Invariance, <1>1, PTL

\* Open and close are prices of a trade with the smallest and the largest
\* time of the candle, equal times included.
THEOREM OpenAndClose == Spec => []EndpointsOK
<1>1. IInv => EndpointsOK
    BY DEF IInv, Faithful, EndpointsOK
<1> QED BY Invariance, <1>1, PTL

\* With the trades of an accumulator all at different times, its open and
\* close are those of the one earliest and the one latest trade.
LEMMA EndsWithoutTies ==
    ASSUME NEW S \in SUBSET Trades, NoTies(S), NEW a, EndpointsOf(a, S)
    PROVE  LET early == CHOOSE t \in S : \A u \in S : t.time <= u.time
               late == CHOOSE t \in S : \A u \in S : t.time >= u.time
           IN  /\ early.price = a.open /\ early.time = a.first
               /\ late.price = a.close /\ late.time = a.last
<1> DEFINE early == CHOOSE t \in S : \A u \in S : t.time <= u.time
           late == CHOOSE t \in S : \A u \in S : t.time >= u.time
<1>1. PICK o \in S : o.time = a.first /\ o.price = a.open
    BY DEF EndpointsOf
<1>2. PICK c \in S : c.time = a.last /\ c.price = a.close
    BY DEF EndpointsOf
<1>3. \A t \in S : t.time \in Int
    BY TradesAssumption
<1>4. \A t \in S : o.time <= t.time /\ c.time >= t.time
    BY <1>1, <1>2, <1>3 DEF EndpointsOf
<1>5. early \in S /\ \A u \in S : early.time <= u.time
    BY <1>4
<1>6. late \in S /\ \A u \in S : late.time >= u.time
    BY <1>4
<1> HIDE DEF early, late
<1>7. early.time = o.time /\ late.time = c.time
    BY <1>3, <1>4, <1>5, <1>6
<1>8. early = o /\ late = c
    BY <1>5, <1>6, <1>7 DEF NoTies
<1> QED BY <1>1, <1>2, <1>8 DEF early, late

\* An accumulator that is faithful to trades without ties is their reference
\* candle.
LEMMA FaithfulIsReference ==
    ASSUME NEW S \in SUBSET Trades, S # {}, NoTies(S), NEW a, Faithful(a, S)
    PROVE  a = Reference(S)
<1> DEFINE prices == {t.price : t \in S}
           early == CHOOSE t \in S : \A u \in S : t.time <= u.time
           late == CHOOSE t \in S : \A u \in S : t.time >= u.time
<1>1. /\ a \in Accumulators /\ ~a.empty
      /\ ExtremesOf(a, S) /\ EndpointsOf(a, S)
      /\ a.count = Cardinality(S)
      /\ a.volume = MapThenSumSet(Value, S)
    BY VolumeIsSum DEF Faithful
<1>2. /\ early.price = a.open /\ early.time = a.first
      /\ late.price = a.close /\ late.time = a.last
    BY <1>1, EndsWithoutTies
<1>3. Max(prices) = a.high /\ Min(prices) = a.low
    <2>1. prices \in SUBSET Int
        BY TradesAssumption
    <2>2. /\ a.high \in prices /\ \A y \in prices : y <= a.high
          /\ a.low \in prices /\ \A y \in prices : a.low <= y
        BY <1>1 DEF ExtremesOf
    <2> HIDE DEF prices
    <2> QED BY <2>1, <2>2, MaxMinUnique
<1>4. Reference(S) = [empty |-> FALSE,
            open |-> early.price, high |-> Max(prices),
            low |-> Min(prices), close |-> late.price,
            volume |-> MapThenSumSet(Value, S), count |-> Cardinality(S),
            first |-> early.time, last |-> late.time]
    BY DEF Reference
<1> HIDE DEF early, late, prices
<1>5. Reference(S) = [empty |-> a.empty, open |-> a.open, high |-> a.high,
            low |-> a.low, close |-> a.close, volume |-> a.volume,
            count |-> a.count, first |-> a.first, last |-> a.last]
    <2>1. a.empty = FALSE
        BY <1>1 DEF Accumulators
    <2> QED BY <1>1, <1>2, <1>3, <1>4, <2>1
<1>6. a = [empty |-> a.empty, open |-> a.open, high |-> a.high,
            low |-> a.low, close |-> a.close, volume |-> a.volume,
            count |-> a.count, first |-> a.first, last |-> a.last]
    BY <1>1 DEF Accumulators
<1> QED BY <1>5, <1>6

\* When no two trades of a candle share a millisecond the candle is a
\* function of the set of its trades: neither the order of add_input nor the
\* tree of merge_accumulators can be seen in it, as Beam requires of a
\* CombineFn.
THEOREM OrderDoesNotMatter == Spec => []UniqueWhenNoTies
<1>1. IInv => UniqueWhenNoTies
    <2> SUFFICES ASSUME IInv, NEW s \in Slots, got[s] # {}, NoTies(got[s])
                 PROVE  acc[s] = Reference(got[s])
        BY DEF UniqueWhenNoTies
    <2>1. got[s] \in SUBSET Trades /\ Faithful(acc[s], got[s])
        BY DEF IInv
    <2> QED BY <2>1, FaithfulIsReference
<1> QED BY Invariance, <1>1, PTL

\* What this code computes always passes the structural filter of the dbt
\* view silver_ohlcv_validated.
THEOREM PassesFilter == Spec => []CandlesPassFilter
<1>1. IInv => CandlesPassFilter
    <2> SUFFICES ASSUME IInv, NEW s \in Slots, got[s] # {}
                 PROVE  WellFormed(acc[s])
        BY DEF CandlesPassFilter
    <2>1. got[s] \in SUBSET Trades /\ Faithful(acc[s], got[s])
        BY DEF IInv
    <2>2. IsFiniteSet(got[s]) /\ IsCandle(acc[s], Own, got[s])
        BY <2>1, FS_Subset, TradesAssumption, FaithfulIsCandle
    <2> QED BY <2>2, CandleWellFormed
<1> QED BY Invariance, <1>1, PTL
=============================================================================
