---------------------------- MODULE TransportStack ----------------------------
(***************************************************************************)
(* How main.go puts the layers of a transport together, and what a packet  *)
(* meets on its way down the stack of one host and up the stack of the     *)
(* other (server/main.go, with the Send and Receive of batched.go,         *)
(* compressor.go and encrypted.go).  The two hosts are configured          *)
(* separately: nothing is negotiated.                                      *)
(*                                                                         *)
(* A message is the sequence of the envelopes put around a packet,         *)
(* outermost first, with the packet at the end.                            *)
(***************************************************************************)
EXTENDS Naturals, Sequences

CONSTANTS
  Hosts,        \* the two peers
  Keys,         \* encryption secrets
  NoKey,        \* no --encryption-key-file
  MaxPackets    \* bound: packets each host sends

(* A tunnel has two ends.                                                  *)
ASSUME StackAssumption ==
  /\ \A f, g, h \in Hosts : f # h /\ g # h => f = g
  /\ MaxPackets \in Nat

Codecs == {"batched", "legacy"}
Roles == {"exit", "client"}
Flags == [codec : Codecs, key : Keys \cup {NoKey}, role : Roles]

Stacks == {<<>>} \cup {<<c>> : c \in Codecs} \cup {<<c, "encrypted">> : c \in Codecs}

Packet(h, n) == <<"packet", h, n>>
Packets == {Packet(h, n) : h \in Hosts, n \in 1..MaxPackets}
Sealed == {<<"sealed", k, r>> : k \in Keys, r \in Roles}
Envelopes == {<<"batched">>, <<"legacy">>} \cup Sealed
Messages == Seq(Envelopes \cup Packets)

VARIABLES
  flags,       \* command line of each host
  stack,       \* layers of each host, the one next to the raw transport first
  phase,       \* how far main has come
  registered,  \* the tunnel has called Receive
  sent,        \* packets each host has sent
  wire,        \* messages on the way to each host
  rising,      \* the message each host is unwrapping, or <<>>
  level,       \* the layer it has reached
  delivered    \* what each host has handed to its tunnel

vars == <<flags, stack, phase, registered, sent, wire, rising, level, delivered>>
traffic == <<sent, wire, rising, level, delivered>>

Phases == {"raw", "codec", "built", "started"}

TypeOK ==
  /\ flags \in [Hosts -> Flags]
  /\ stack \in [Hosts -> Stacks]
  /\ phase \in [Hosts -> Phases]
  /\ registered \in [Hosts -> BOOLEAN]
  /\ sent \in [Hosts -> 0..MaxPackets]
  /\ wire \in [Hosts -> SUBSET Messages]
  /\ rising \in [Hosts -> Messages]
  /\ level \in [Hosts -> Nat \ {0}] /\ \A h \in Hosts : level[h] <= Len(stack[h]) + 1
  /\ delivered \in [Hosts -> SUBSET Messages]

Init ==
  /\ flags \in [Hosts -> Flags]
  /\ stack = [h \in Hosts |-> <<>>]
  /\ phase = [h \in Hosts |-> "raw"]
  /\ registered = [h \in Hosts |-> FALSE]
  /\ sent = [h \in Hosts |-> 0]
  /\ wire = [h \in Hosts |-> {}]
  /\ rising = [h \in Hosts |-> <<>>]
  /\ level = [h \in Hosts |-> 1]
  /\ delivered = [h \in Hosts |-> {}]

-------------------------------------------------------------------------------
(* main *)

(* NewBatchedTransport or NewCompressedTransport around the raw transport. *)
AddCodec(h) ==
  /\ phase[h] = "raw"
  /\ stack' = [stack EXCEPT ![h] = Append(@, flags[h].codec)]
  /\ phase' = [phase EXCEPT ![h] = "codec"]
  /\ UNCHANGED <<flags, registered, traffic>>

AddEncryption_ExitOnly(h) ==
  /\ phase[h] = "codec"
  /\ stack' = IF flags[h].key = NoKey \/ flags[h].role = "client" THEN stack
              ELSE [stack EXCEPT ![h] = Append(@, "encrypted")]
  /\ phase' = [phase EXCEPT ![h] = "built"]
  /\ UNCHANGED <<flags, registered, traffic>>

(* NewEncryptedTransport around what there is, given a key.                *)
AddEncryption(h) ==
  /\ phase[h] = "codec"
  /\ stack' = IF flags[h].key = NoKey THEN stack
              ELSE [stack EXCEPT ![h] = Append(@, "encrypted")]
  /\ phase' = [phase EXCEPT ![h] = "built"]
  /\ UNCHANGED <<flags, registered, traffic>>

StartTransport(h) ==
  /\ phase[h] = "built"
  /\ phase' = [phase EXCEPT ![h] = "started"]
  /\ UNCHANGED <<flags, stack, registered, traffic>>

(* runExit or runClient; packets that came in since StartTransport are     *)
(* gone.                                                                   *)
RunTunnel(h) ==
  /\ phase[h] = "started" /\ ~registered[h]
  /\ registered' = [registered EXCEPT ![h] = TRUE]
  /\ UNCHANGED <<flags, stack, phase, traffic>>

-------------------------------------------------------------------------------
(* Down one stack *)

Opposite(r) == IF r = "exit" THEN "client" ELSE "exit"

Envelope_PeerDirection(h, layer) ==
  IF layer = "encrypted" THEN <<"sealed", flags[h].key, Opposite(flags[h].role)>> ELSE <<layer>>

Envelope(h, layer) ==
  IF layer = "encrypted" THEN <<"sealed", flags[h].key, flags[h].role>> ELSE <<layer>>

(* The top layer wraps first, so the layer next to the wire is outermost.  *)
Send(h) ==
  /\ registered[h] /\ sent[h] < MaxPackets
  /\ sent' = [sent EXCEPT ![h] = @ + 1]
  /\ LET envelopes == [i \in DOMAIN stack[h] |-> Envelope(h, stack[h][i])]
         message == Append(envelopes, Packet(h, sent[h] + 1))
     IN  wire' = [g \in Hosts |-> IF g = h THEN wire[g] ELSE wire[g] \cup {message}]
  /\ UNCHANGED <<flags, stack, phase, registered, rising, level, delivered>>

-------------------------------------------------------------------------------
(* Up the other *)

Lose(h, m) ==
  /\ m \in wire[h]
  /\ wire' = [wire EXCEPT ![h] = @ \ {m}]
  /\ UNCHANGED <<flags, stack, phase, registered, sent, rising, level, delivered>>

Arrive(h, m) ==
  /\ m \in wire[h] /\ phase[h] = "started" /\ rising[h] = <<>>
  /\ wire' = [wire EXCEPT ![h] = @ \ {m}]
  /\ IF registered[h]
     THEN rising' = [rising EXCEPT ![h] = m] /\ level' = [level EXCEPT ![h] = 1]
     ELSE UNCHANGED <<rising, level>>
  /\ UNCHANGED <<flags, stack, phase, registered, sent, delivered>>

Layer(h) == stack[h][level[h]]

(* What the layer accepts: a batch, an LZ4 or stored packet, or a packet   *)
(* sealed under the same key by a host of the opposite role.               *)
Expected(h, e) ==
  IF Layer(h) = "encrypted" THEN e = <<"sealed", flags[h].key, Opposite(flags[h].role)>>
  ELSE e = <<Layer(h)>>

Rejects_Never(h) == FALSE

(* The batched layer drops what it cannot decode and the encrypted layer   *)
(* what it cannot open.  The legacy layer hands on what it cannot          *)
(* decompress.                                                             *)
Rejects(h) == Layer(h) # "legacy"

Unwrap(h) ==
  /\ rising[h] # <<>> /\ level[h] <= Len(stack[h])
  /\ \/ /\ Expected(h, Head(rising[h]))
        /\ rising' = [rising EXCEPT ![h] = Tail(@)]
        /\ level' = [level EXCEPT ![h] = @ + 1]
     \/ /\ ~Expected(h, Head(rising[h])) /\ Rejects(h)
        /\ rising' = [rising EXCEPT ![h] = <<>>]
        /\ level' = [level EXCEPT ![h] = 1]
     \/ /\ ~Expected(h, Head(rising[h])) /\ ~Rejects(h)
        /\ level' = [level EXCEPT ![h] = @ + 1]
        /\ UNCHANGED rising
  /\ UNCHANGED <<flags, stack, phase, registered, sent, wire, delivered>>

Deliver(h) ==
  /\ rising[h] # <<>> /\ level[h] > Len(stack[h])
  /\ delivered' = [delivered EXCEPT ![h] = @ \cup {rising[h]}]
  /\ rising' = [rising EXCEPT ![h] = <<>>]
  /\ level' = [level EXCEPT ![h] = 1]
  /\ UNCHANGED <<flags, stack, phase, registered, sent, wire>>

Next == \E h \in Hosts :
  \/ AddCodec(h) \/ AddEncryption(h) \/ StartTransport(h) \/ RunTunnel(h)
  \/ Send(h) \/ Unwrap(h) \/ Deliver(h)
  \/ \E m \in wire[h] : Lose(h, m) \/ Arrive(h, m)

Spec == Init /\ [][Next]_vars

-------------------------------------------------------------------------------
(* Properties *)

Compatible(g, h) ==
  /\ flags[g].codec = flags[h].codec
  /\ flags[g].key = flags[h].key
  /\ flags[g].role = Opposite(flags[h].role)

(* Between two hosts with the same codec and key and opposite roles every  *)
(* message comes out of the stack as the packet that went in, whatever     *)
(* layers there are and wherever the startup of the peer stands            *)
(* (main.go:308-368).                                                      *)
Transparent ==
  \A g, h \in Hosts : g # h /\ Compatible(g, h) =>
    \A m \in delivered[h] : \E n \in 1..sent[g] : m = <<Packet(g, n)>>

(* A host with a key hands its tunnel only packets, and only those of a    *)
(* peer with the same key and the opposite role, whatever codec or key the *)
(* other side was started with (encrypted.go:122-141).                     *)
KeyedHostIsStrict ==
  \A g, h \in Hosts : g # h /\ flags[h].key # NoKey /\ delivered[h] # {} =>
    /\ flags[g].key = flags[h].key /\ flags[g].role # flags[h].role
    /\ \A m \in delivered[h] : \E n \in 1..sent[g] : m = <<Packet(g, n)>>

(* No packet is lost inside a stack between compatible hosts: what arrives *)
(* after Receive was called is delivered.                                  *)
NothingRejected ==
  \A h \in Hosts :
    rising[h] # <<>> /\ (\A g \in Hosts \ {h} : Compatible(g, h)) /\ level[h] <= Len(stack[h])
      => Expected(h, Head(rising[h]))

(* "Optional AES-256-GCM encryption sits closest to the raw transport, so  *)
(* on send we batch/compress first and encrypt the result (ciphertext      *)
(* would not compress)" (main.go:320-322): no message on the wire has an   *)
(* envelope of a codec around a sealed packet.                             *)
CompressesBeforeEncrypting ==
  \A h \in Hosts : \A m \in wire[h] :
    \A i, j \in DOMAIN m : m[i] \in Sealed /\ j < i => m[j] \in Sealed
=============================================================================
