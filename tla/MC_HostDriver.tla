--------------------------- MODULE MC_HostDriver ---------------------------
(* Two goroutines calling the driver, each making two calls, while Close   *)
(* runs once.                                                              *)
EXTENDS HostDriver, TLC

CONSTANTS c1, c2

MC_Callers == {c1, c2}
=============================================================================
