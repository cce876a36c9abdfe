------------------------- MODULE MCIngestorService -------------------------
(* A small instance of IngestorService for TLC. *)
EXTENDS IngestorService
CONSTANTS t1, t2, g1
MCTrades == {t1, t2}
MCGarbage == {g1}
\* t2 is a message the raw topic refuses.
MCRefuses == {<<"raw", t2>>}
=============================================================================
