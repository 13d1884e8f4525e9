------------------------------ MODULE LossyFifo ------------------------------
(***************************************************************************)
(* The promise every ordered layer of the transport stack makes to the     *)
(* layer above it, whatever sits underneath: packets may be lost, but a    *)
(* packet that arrives was sent, arrives once, and never arrives after a   *)
(* packet that was sent later.                                             *)
(*                                                                         *)
(* Packets are numbered by the order of the Send calls.  The tunnel above  *)
(* retransmits what is lost (batched.go:77-79), so loss is part of the     *)
(* contract; reordering and duplication are not.                           *)
(***************************************************************************)
EXTENDS Naturals

VARIABLES
  sent,   \* number of Send calls so far: packets 1..sent exist
  last,   \* number of the packet delivered last, 0 when none was
  count   \* number of deliveries

vars == <<sent, last, count>>

TypeOK == sent \in Nat /\ last \in 0..sent /\ count \in 0..last

Init == sent = 0 /\ last = 0 /\ count = 0

Accept == sent' = sent + 1 /\ UNCHANGED <<last, count>>

Deliver ==
  /\ \E p \in (last + 1)..sent : last' = p
  /\ count' = count + 1
  /\ UNCHANGED sent

Next == Accept \/ Deliver

Spec == Init /\ [][Next]_vars
=============================================================================
