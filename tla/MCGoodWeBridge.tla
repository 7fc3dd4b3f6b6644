--------------------------- MODULE MCGoodWeBridge ---------------------------
(* Small instances of GoodWeBridge. *)
EXTENDS GoodWeBridge

MCSetpointWatts == [charge |-> {-100, 0, 1000}, discharge |-> {0, 100}]
=============================================================================
