------------------------------- MODULE MCFraming -------------------------------
(* Framing with bytes of two bits, so that a length field counts to 15: an *)
(* empty packet, one that looks like a length prefix, the longest that     *)
(* fits, the first that does not (its length field says 0), and a longer   *)
(* one whose tail reads as records of its own.                             *)
EXTENDS Framing

Bytes(n) == [i \in 1..n |-> i % Base]
MCPackets == {<<>>, <<0, 1>>, Bytes(15), Bytes(16), Bytes(18)}
================================================================================
