------------------------------- MODULE MCBatched -------------------------------
(* BatchedTransport on a small instance: two packet lengths chosen so that *)
(* both the byte and the count limit of a batch are reached, and a queue   *)
(* shorter than a burst.                                                   *)
EXTENDS BatchedTransport

MCLens == {1, 3}
================================================================================
