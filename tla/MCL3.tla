-------------------------------- MODULE MCL3 --------------------------------
(* Two connections, two goroutines of the transport, timeouts in ticks of   *)
(* half the closing timeout.                                                *)
EXTENDS L3Exit, TLC

CONSTANTS f1, f2, c1, c2

MCFlows == {f1, f2}
MCCallers == {c1, c2}
MCSymmetry == Permutations(MCFlows) \cup Permutations(MCCallers)
=============================================================================
