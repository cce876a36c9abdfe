------------------------- MODULE MCTransformationDag -------------------------
(* A small instance of TransformationDag for TLC. *)
EXTENDS TransformationDag
=============================================================================
