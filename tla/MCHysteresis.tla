---------------------------- MODULE MCHysteresis ----------------------------
(* A small instance of Hysteresis: one watt stands for about a hundred. *)
EXTENDS Hysteresis

\* Below, at and inside each threshold: import that starts a discharge, import
\* that only keeps one going, balance, export that keeps a charge going, export
\* that starts one.
MCSurpluses == {-3, -2, 0, 2, 5}

MCPauseDurations == {1, 2}
MCDischargeStartW == -3
MCDischargeStopW == -1
=============================================================================
