--------------------------- MODULE MCBeamPipeline ---------------------------
(* Three windows of two time units, the first two in one day.  One trade in *)
(* the first window; two in the second, one of them with an event time      *)
(* before its trade time, the other from a source that sends no             *)
(* is_market_maker; one in the third; a message that no field can be read   *)
(* from.                                                                    *)
EXTENDS Medallion
M(i, p, q, event, ms) ==
    [event_type |-> "trade", symbol |-> "BTCUSDT", trade_id |-> i,
     price |-> p, quantity |-> q, event_time_ms |-> event,
     trade_time_ms |-> ms, is_market_maker |-> TRUE]
Foreign(m) == [f \in BeamFields |-> m[f]]
Unreadable == [f \in {} |-> 0]
MCMessages == {M(1, 3, 2, 1, 1), M(2, 5, 1, 1, 2), Foreign(M(3, 2, 3, 3, 3)),
               M(4, 4, 1, 4, 4),
               Unreadable}
=============================================================================
