---------------------------- MODULE MCSilverDedup ----------------------------
(* A small instance of SilverDedup for TLC. *)
EXTENDS SilverDedup
CONSTANTS t1, t2, t3, w1, w2
=============================================================================
