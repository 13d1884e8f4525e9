-------------------------- MODULE EncryptedTransport --------------------------
(***************************************************************************)
(* The encryption layer (server/transport/encrypted.go), at one host.  Its *)
(* peer and the host itself send packets into the inner transport, which   *)
(* is assumed to do anything with them but forge: it loses and reorders    *)
(* them, damages them, hands them over again, and echoes to the host what  *)
(* the host has sent, as a shared document does to its editors.  The inner *)
(* transport calls back from several goroutines at once.                   *)
(*                                                                         *)
(* A packet is identified with its random nonce: two packets never share   *)
(* one (12 random bytes).                                                  *)
(***************************************************************************)
EXTENDS Integers, Sequences

CONSTANTS
  MaxPackets,   \* bound: packets sent in each direction
  MaxCopies,    \* bound: copies the inner transport hands over
  Window,       \* maxSeenNonces
  Workers       \* goroutines in which the inner transport calls back

ASSUME EncryptedAssumption ==
  /\ MaxPackets \in Nat
  /\ MaxCopies \in Nat
  /\ Window \in Nat \ {0}

Directions == {"send", "recv"}      \* sendDirection, recvDirection
Nonce == Directions \X (1..MaxPackets)
Copy == [nonce : Nonce, intact : BOOLEAN]
Idle == <<>>

VARIABLES
  sent,       \* packets sealed so far, by direction
  copies,     \* copies the inner transport has handed over
  checking,   \* by goroutine: the packet that passed Open, or Idle
  seen,       \* e.seen
  seenOrder,  \* e.seenOrder
  delivered   \* nonces of the packets given to the callback, in this order

vars == <<sent, copies, checking, seen, seenOrder, delivered>>

TypeOK ==
  /\ sent \in [Directions -> 0..MaxPackets]
  /\ copies \in 0..MaxCopies
  /\ checking \in [Workers -> Nonce \cup {Idle}]
  /\ seen \in SUBSET Nonce
  /\ seenOrder \in Seq(Nonce) /\ Len(seenOrder) <= Window
  /\ delivered \in Seq(Nonce)

Init ==
  /\ sent = [d \in Directions |-> 0]
  /\ copies = 0
  /\ checking = [w \in Workers |-> Idle]
  /\ seen = {}
  /\ seenOrder = <<>>
  /\ delivered = <<>>

(* Send, of the host or of its peer, seals under a fresh nonce. *)
Send(d) ==
  /\ sent[d] < MaxPackets
  /\ sent' = [sent EXCEPT ![d] = @ + 1]
  /\ UNCHANGED <<copies, checking, seen, seenOrder, delivered>>

Opens_AnyDirection(c) == c.intact

(* The header names the peer's direction and the tag verifies under the    *)
(* key of that direction.                                                  *)
Opens(c) == c.intact /\ c.nonce[1] = "recv"

(* The inner transport calls back with a copy of something that was sent.  *)
Arrive(w, c) ==
  /\ checking[w] = Idle
  /\ copies < MaxCopies
  /\ c.nonce[2] <= sent[c.nonce[1]]
  /\ copies' = copies + 1
  /\ checking' = [checking EXCEPT ![w] = IF Opens(c) THEN c.nonce ELSE Idle]
  /\ UNCHANGED <<sent, seen, seenOrder, delivered>>

Evicts_OneEarly(order) == Len(order) >= Window

Evicts(order) == Len(order) > Window

(* The nonce is recorded and, beyond maxSeenNonces of them, the oldest one *)
(* is forgotten.                                                           *)
RememberNonce(n) ==
  LET order == Append(seenOrder, n)
  IN  /\ seenOrder' = IF Evicts(order) THEN Tail(order) ELSE order
      /\ seen' = IF Evicts(order) THEN (seen \cup {n}) \ {Head(order)} ELSE seen \cup {n}

(* rememberNonce, under seenMu, and the callback when it returns true.     *)
Remember(w) ==
  /\ checking[w] # Idle
  /\ checking' = [checking EXCEPT ![w] = Idle]
  /\ IF checking[w] \in seen
     THEN UNCHANGED <<seen, seenOrder, delivered>>
     ELSE /\ RememberNonce(checking[w])
          /\ delivered' = Append(delivered, checking[w])
  /\ UNCHANGED <<sent, copies>>

Next ==
  \/ \E d \in Directions : Send(d)
  \/ \E w \in Workers : Remember(w) \/ \E c \in Copy : Arrive(w, c)

Spec == Init /\ [][Next]_vars

-------------------------------------------------------------------------------
(* Properties *)

(* Every packet the tunnel gets was sealed by the peer: damaged copies and *)
(* echoes of the host's own packets go no further                          *)
(* (encrypted.go:123-138).                                                 *)
FromPeer ==
  \A i \in DOMAIN delivered : delivered[i][1] = "recv" /\ delivered[i][2] <= sent["recv"]

(* A packet handed over twice reaches the tunnel once, as long as no more  *)
(* than maxSeenNonces packets were let through since, whichever goroutines *)
(* the copies come in on (encrypted.go:32-34 and 143-158).                 *)
OncePerWindow ==
  \A i, j \in DOMAIN delivered : i < j /\ delivered[i] = delivered[j] => j - i > Window

(* The map and the list of nonces agree, so the map stays as bounded as    *)
(* the list (encrypted.go:150-156).                                        *)
SeenIsWindow == seen = {seenOrder[i] : i \in DOMAIN seenOrder}

(* The inductive strengthening: seenOrder is the end of delivered. *)
Remembers ==
  /\ Len(seenOrder) <= Len(delivered)
  /\ Len(seenOrder) < Len(delivered) => Len(seenOrder) = Window
  /\ \A i \in DOMAIN seenOrder :
       seenOrder[i] = delivered[Len(delivered) - Len(seenOrder) + i]

CheckedFromPeer ==
  \A w \in Workers : checking[w] # Idle =>
    checking[w][1] = "recv" /\ checking[w][2] <= sent["recv"]

IInv == TypeOK /\ FromPeer /\ OncePerWindow /\ SeenIsWindow /\ Remembers /\ CheckedFromPeer
=============================================================================
