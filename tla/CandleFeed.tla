----------------------------- MODULE CandleFeed -----------------------------
(***************************************************************************)
(* What the Beam pipeline promises its readers: each accepted trade event  *)
(* belongs to one candle; a candle shows what was accepted, all of it; and *)
(* each event is shown in the end, unless a restart comes in between.      *)
(***************************************************************************)
CONSTANTS Candles, Events

VARIABLES accepted, shown

vars == <<accepted, shown>>

Init ==
    /\ accepted = [c \in Candles |-> {}]
    /\ shown = [c \in Candles |-> {}]

Accept(c, e) ==
    /\ \A d \in Candles : e \notin accepted[d]
    /\ accepted' = [accepted EXCEPT ![c] = @ \union {e}]
    /\ UNCHANGED shown

\* A pane replaces the candle by one made of everything accepted so far.
Show(c) ==
    /\ accepted[c] # {}
    /\ shown' = [shown EXCEPT ![c] = accepted[c]]
    /\ UNCHANGED accepted

\* What was accepted is forgotten; what is shown stays.
Restart ==
    /\ accepted' = [c \in Candles |-> {}]
    /\ UNCHANGED shown

Next ==
    \/ \E c \in Candles : Show(c) \/ \E e \in Events : Accept(c, e)
    \/ Restart

Spec == Init /\ [][Next]_vars /\ \A c \in Candles : WF_vars(Show(c))
=============================================================================
