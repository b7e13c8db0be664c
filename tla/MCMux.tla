-------------------------------- MODULE MCMux --------------------------------
(* Mux with three calls, for TLC: at most one of them is asynchronous.       *)
EXTENDS Mux, TLC
CONSTANTS ra, rb, rc
ThreeRpcs == {ra, rb, rc}
OneAsync == {ra}
NoAsync == {}
One == {rb}
AsyncSend == {TRUE}
AnySend == BOOLEAN
SyncSymmetry == Permutations({rb, rc})
=============================================================================
