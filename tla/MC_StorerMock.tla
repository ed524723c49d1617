--------------------------- MODULE MC_StorerMock ---------------------------
(* Two goroutines, two keys and two values, two calls each.                *)
EXTENDS StorerMock, TLC

CONSTANTS c1, c2, k1, k2, v1, v2

MC_Clients == {c1, c2}
MC_Keys == {k1, k2}
MC_Vals == {v1, v2}
=============================================================================
