------------------------------- MODULE LossyBag -------------------------------
(***************************************************************************)
(* What a layer may expect of a channel that posts through a pool of        *)
(* workers: a packet that arrives was accepted and arrives once; it may be  *)
(* lost and it may overtake others.  Compare LossyFifo.                     *)
(***************************************************************************)
EXTENDS Naturals, FiniteSets

VARIABLES
  accepted,  \* number of packets accepted so far: packets 1..accepted exist
  arrived,   \* the packets that have arrived
  count      \* number of arrivals

vars == <<accepted, arrived, count>>

Init == accepted = 0 /\ arrived = {} /\ count = 0

Accept == accepted' = accepted + 1 /\ UNCHANGED <<arrived, count>>

(* One message of the channel carries several packets. *)
Arrive(P) ==
  /\ P # {} /\ P \cap arrived = {}
  /\ arrived' = arrived \cup P
  /\ count' = count + Cardinality(P)
  /\ UNCHANGED accepted

Next == Accept \/ \E P \in SUBSET (1..accepted) : Arrive(P)

Spec == Init /\ [][Next]_vars
=============================================================================
