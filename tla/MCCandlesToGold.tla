--------------------------- MODULE MCCandlesToGold ---------------------------
(* Seven trades over four days, one day without any; two minutes an hour,   *)
(* two hours a day.  Two trades share a millisecond with different prices,  *)
(* and the extremes of the first day are neither first nor last.            *)
EXTENDS CandlesToGold
T(i, p, q, ms) == [id |-> i, price |-> p, qty |-> q, time |-> ms]
MCTrades == {T(1, 3, 2, 0), T(2, 5, 1, 3), T(3, 2, 3, 3), T(4, 4, 1, 7),
             T(5, 4, 2, 8), T(6, 1, 1, 24), T(7, 2, 2, 33)}
CONSTANTS s1, s2, s3
MCSlots == {s1, s2, s3}
=============================================================================
