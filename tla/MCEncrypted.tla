------------------------------ MODULE MCEncrypted ------------------------------
(* EncryptedTransport with a replay window shorter than the traffic, so    *)
(* that nonces are forgotten, and two goroutines that race on one packet.  *)
EXTENDS EncryptedTransport, TLC

WorkerSymmetry == Permutations(Workers)
================================================================================
