--------------------------- MODULE MCShapeASigning ---------------------------
(* Instances of the signing ceremony for TLC. *)
EXTENDS ShapeASigning, TLC

CONSTANTS c1, c2, v1, v2, v3, p1, p2, t1

Interchangeable == Permutations(Value)
=============================================================================
