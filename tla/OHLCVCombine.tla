---------------------------- MODULE OHLCVCombine ----------------------------
(***************************************************************************)
(* The life of the accumulators of one (symbol, window) under the Beam     *)
(* runner: trades are added to the partial accumulators of several workers *)
(* in any order, and partial accumulators are merged in any order, until   *)
(* one of them is extracted.                                               *)
(*                                                                         *)
(* got is history: the trades an accumulator stands for.  The runner gives *)
(* every element to one accumulator; that is its promise to a CombineFn.   *)
(***************************************************************************)
EXTENDS OHLCV, FiniteSets, FiniteSetsExt

CONSTANTS Trades, Slots

ASSUME TradesAssumption ==
    /\ IsFiniteSet(Trades)
    /\ \A t \in Trades : t.price \in Int /\ t.qty \in Int /\ t.time \in Int
    \* the validators of both schemas
    /\ \A t \in Trades : t.price > 0 /\ t.qty > 0

VARIABLES acc, got

vars == <<acc, got>>

TypeOK ==
    /\ acc \in [Slots -> Accumulators]
    /\ got \in [Slots -> SUBSET Trades]

Init ==
    /\ acc = [s \in Slots |-> Empty]
    /\ got = [s \in Slots |-> {}]

Unread(t) == \A s \in Slots : t \notin got[s]

\* add_input on the accumulator of slot s.
Add(s, t) ==
    /\ Unread(t)
    /\ acc' = [acc EXCEPT ![s] = AddInput(acc[s], t)]
    /\ got' = [got EXCEPT ![s] = got[s] \union {t}]

\* merge_accumulators, one accumulator at a time; slot r is free afterwards.
MergeInto(s, r) ==
    /\ s # r
    /\ acc' = [acc EXCEPT ![s] = Merge(acc[s], acc[r]), ![r] = Empty]
    /\ got' = [got EXCEPT ![s] = got[s] \union got[r], ![r] = {}]

Next ==
    \/ \E s \in Slots, t \in Trades : Add(s, t)
    \/ \E s, r \in Slots : MergeInto(s, r)

Spec == Init /\ [][Next]_vars

-----------------------------------------------------------------------------
(* What an accumulator promises about the trades it stands for.             *)

\* An accumulator is flagged empty exactly when it stands for no trade, and
\* otherwise has the extremes of its trades, however they were spread and
\* merged, each of them counted once.
ExtremesOK == \A s \in Slots :
    /\ acc[s].empty <=> got[s] = {}
    /\ acc[s].count = Cardinality(got[s])
    /\ got[s] # {} => ExtremesOf(acc[s], got[s])

\* The open and the close of every accumulator are those of its trades.
EndpointsOK == \A s \in Slots :
    got[s] # {} => EndpointsOf(acc[s], got[s])

Disjoint == \A s, r \in Slots : s # r => got[s] \intersect got[r] = {}

\* No valid candle is hidden by the structural filter of the dbt view: what
\* silver_ohlcv_validated drops was not computed by this code (the header of
\* silver_ohlcv_validated.sql, lines 14-16).
CandlesPassFilter ==
    \A s \in Slots : got[s] # {} => WellFormed(acc[s])

\* The reference candle, defined from the set alone.
NoTies(S) == \A t, u \in S : t.time = u.time => t = u
Value(t) == t.price * t.qty
Reference(S) ==
    LET prices == {t.price : t \in S}
        early == CHOOSE t \in S : \A u \in S : t.time <= u.time
        late == CHOOSE t \in S : \A u \in S : t.time >= u.time
    IN  [empty |-> FALSE,
         open |-> early.price, high |-> Max(prices),
         low |-> Min(prices), close |-> late.price,
         volume |-> MapThenSumSet(Value, S),
         count |-> Cardinality(S),
         first |-> early.time, last |-> late.time]

\* When no two trades of a candle share a millisecond the result is the
\* reference candle, whatever the order of arrival and of merging: the
\* CombineFn is associative and commutative then, as Beam requires.
UniqueWhenNoTies == \A s \in Slots :
    got[s] # {} /\ NoTies(got[s]) => acc[s] = Reference(got[s])
=============================================================================
