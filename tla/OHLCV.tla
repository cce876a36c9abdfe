-------------------------------- MODULE OHLCV --------------------------------
(***************************************************************************)
(* OHLCVCombineFn of beam/src/transforms.py: the accumulator of one        *)
(* candle, how a trade is added to it and how two of them are merged.      *)
(*                                                                         *)
(* A trade is a record with at least the fields id, price, qty and time.   *)
(* Decimal prices and quantities are integers here: the code only compares *)
(* prices and multiplies and adds exactly.                                 *)
(***************************************************************************)
EXTENDS Integers

\* Mutant of Empty: a candle without its times.
EmptyTimeless == [empty |-> TRUE, open |-> 0, high |-> 0, low |-> 0,
                  close |-> 0, volume |-> 0, count |-> 0]

\* OHLCVAccumulator, with the defaults that create_accumulator() leaves.
Empty == [empty |-> TRUE, open |-> 0, high |-> 0, low |-> 0, close |-> 0,
          volume |-> 0, count |-> 0, first |-> 0, last |-> 0]

Accumulators ==
    [empty : BOOLEAN, open : Int, high : Int, low : Int, close : Int,
     volume : Int, count : Int, first : Int, last : Int]

\* The accumulator of a single trade.
Single(t) == [empty |-> FALSE,
              open |-> t.price, high |-> t.price,
              low |-> t.price, close |-> t.price,
              volume |-> t.price * t.qty, count |-> 1,
              first |-> t.time, last |-> t.time]

\* Mutant of Join: the close is the last one seen.
JoinLastSeen(a, b) ==
    [empty |-> FALSE,
     open |-> IF b.first < a.first THEN b.open ELSE a.open,
     high |-> IF b.high > a.high THEN b.high ELSE a.high,
     low |-> IF b.low < a.low THEN b.low ELSE a.low,
     close |-> b.close,
     volume |-> a.volume + b.volume,
     count |-> a.count + b.count,
     first |-> IF b.first < a.first THEN b.first ELSE a.first,
     last |-> IF b.last > a.last THEN b.last ELSE a.last]

\* Mutant of Join: = in place of +=.
JoinReplacesVolume(a, b) ==
    [JoinLastSeen(a, b) EXCEPT
        !.close = IF b.last > a.last THEN b.close ELSE a.close,
        !.volume = b.volume]

\* Both add_input and the loop of merge_accumulators update a non-empty
\* accumulator a with a non-empty one b in the same way: strict comparisons,
\* so on equal times a keeps its open and its close.
Join(a, b) ==
    [empty |-> FALSE,
     open |-> IF b.first < a.first THEN b.open ELSE a.open,
     high |-> IF b.high > a.high THEN b.high ELSE a.high,
     low |-> IF b.low < a.low THEN b.low ELSE a.low,
     close |-> IF b.last > a.last THEN b.close ELSE a.close,
     volume |-> a.volume + b.volume,
     count |-> a.count + b.count,
     first |-> IF b.first < a.first THEN b.first ELSE a.first,
     last |-> IF b.last > a.last THEN b.last ELSE a.last]

\* Mutant of AddInput: compares with the zeros of an empty accumulator.
AddInputNoFirst(a, t) == Join(a, Single(t))

AddInput(a, t) == IF a.empty THEN Single(t) ELSE Join(a, Single(t))

\* One round of the loop of merge_accumulators.
Merge(a, b) == IF b.empty THEN a ELSE IF a.empty THEN b ELSE Join(a, b)

\* The structural test of silver_ohlcv_validated.sql (lines 96-102).
WellFormed(a) ==
    /\ a.low <= a.open /\ a.open <= a.high
    /\ a.low <= a.close /\ a.close <= a.high
    /\ a.volume > 0
    /\ a.count > 0

-----------------------------------------------------------------------------
(* What a candle promises about the trades it stands for.                   *)

\* high and low are prices of trades of the candle and bound all of them (docstring
\* lines 169-170).
ExtremesOf(a, S) ==
    /\ \E t \in S : t.price = a.high
    /\ \E t \in S : t.price = a.low
    /\ \A t \in S : a.low <= t.price /\ t.price <= a.high

\* open and close are prices of a trade with the smallest, the largest time
\* (docstring lines 168 and 171).
EndpointsOf(a, S) ==
    /\ \E t \in S : t.time = a.first /\ t.price = a.open
    /\ \E t \in S : t.time = a.last /\ t.price = a.close
    /\ \A t \in S : a.first <= t.time /\ t.time <= a.last
=============================================================================
