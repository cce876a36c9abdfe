----------------------------- MODULE TradeSchema -----------------------------
(***************************************************************************)
(* What a trade message must look like, said twice in the repository: by   *)
(* BinanceTradeEvent in the ingestor (services/ingestor/src/schema.py) and *)
(* by ParseAndValidate in the Beam job (beam/src/transforms.py).           *)
(*                                                                         *)
(* A message is a function from the names of the fields that can be read   *)
(* from it, by the names the ingestor publishes them under, to values; of  *)
(* bytes that are not JSON none can be read.  Decimals are integers, which *)
(* keep what is compared: model_dump_json and str() lose no digits.        *)
(***************************************************************************)
EXTENDS Integers

CONSTANT MaxDrift   \* 5000 ms: how far trade time may be ahead of event time

ASSUME DriftAssumption == MaxDrift \in Nat

BeamFields ==
    {"event_type", "event_time_ms", "symbol", "trade_id", "price",
     "quantity", "trade_time_ms"}

Fields == BeamFields \union {"is_market_maker"}

Positive(m, names) == \A f \in names : m[f] > 0

OneTrade(m) == m["event_type"] = "trade" /\ m["symbol"] = "BTCUSDT"

\* BinanceTradeEvent: the messages the ingestor publishes.
BinanceTradeEvent(m) ==
    /\ Fields \subseteq DOMAIN m
    /\ OneTrade(m)
    /\ Positive(m, {"event_time_ms", "trade_id", "price", "quantity",
                    "trade_time_ms"})
    /\ m["event_time_ms"] - m["trade_time_ms"] >= -MaxDrift

\* Mutant of ParseAndValidate: the drift check without its tolerance.
ParseAndValidateNoDrift(m) ==
    /\ BeamFields \subseteq DOMAIN m
    /\ OneTrade(m)
    /\ Positive(m, {"price", "quantity", "trade_id", "trade_time_ms"})
    /\ m["event_time_ms"] >= m["trade_time_ms"]

\* _ParseAndValidateDoFn: everything else goes to the dead-letter output.
ParseAndValidate(m) ==
    /\ BeamFields \subseteq DOMAIN m
    /\ OneTrade(m)
    /\ Positive(m, {"price", "quantity", "trade_id", "trade_time_ms"})

\* TradeRecord: what the job goes on with.  The symbol is always BTCUSDT;
\* is_market_maker is not a field, and Bronze gets FALSE for it.
TradeRecord(m) ==
    [id |-> m["trade_id"], price |-> m["price"], qty |-> m["quantity"],
     time |-> m["trade_time_ms"], event |-> m["event_time_ms"]]
=============================================================================
