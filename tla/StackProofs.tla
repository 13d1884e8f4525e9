----------------------------- MODULE StackProofs -----------------------------
(***************************************************************************)
(* What main.go promises by the way it puts the layers together, for any   *)
(* keys, any number of packets and any two command lines.  The invariant   *)
(* describes every message by the packet it was made of: on the wire it    *)
(* has the envelopes of its sender's stack, and what is left of it in the  *)
(* receiver's stack depends on how far it has come and on whether the two  *)
(* ends agree.                                                             *)
(***************************************************************************)
EXTENDS TransportStack, SequenceTheorems, TLAPS

(* The stack main.go builds from the flags of h. *)
FullStack(h) ==
  IF flags[h].key = NoKey THEN <<flags[h].codec>> ELSE <<flags[h].codec, "encrypted">>

(* The n-th message of h, as it leaves its stack, and without the envelope *)
(* of the codec.                                                           *)
Inner(h, n) ==
  IF flags[h].key = NoKey THEN <<Packet(h, n)>>
  ELSE <<<<"sealed", flags[h].key, flags[h].role>>, Packet(h, n)>>

Message(h, n) ==
  IF flags[h].key = NoKey THEN <<<<flags[h].codec>>, Packet(h, n)>>
  ELSE <<<<flags[h].codec>>, <<"sealed", flags[h].key, flags[h].role>>, Packet(h, n)>>

SameCodec(g, h) == flags[g].codec = flags[h].codec
Paired(g, h) == flags[g].key = flags[h].key /\ flags[g].role = Opposite(flags[h].role)

(* How far main has come tells what the stack is. *)
Built ==
  \A h \in Hosts :
    /\ phase[h] = "raw" => stack[h] = <<>>
    /\ phase[h] = "codec" => stack[h] = <<flags[h].codec>>
    /\ phase[h] \in {"built", "started"} => stack[h] = FullStack(h)
    /\ registered[h] => phase[h] = "started"

OnWire ==
  \A h \in Hosts : \A m \in wire[h] :
    \E g \in Hosts \ {h} : \E n \in 1..sent[g] : m = Message(g, n)

(* What is left of the n-th message of g at the level it has reached at h. *)
Climbed(g, h, n) ==
  /\ level[h] = 1 => rising[h] = Message(g, n)
  /\ level[h] = 2 => rising[h] = IF SameCodec(g, h) THEN Inner(g, n) ELSE Message(g, n)
  /\ level[h] = 3 => Paired(g, h) /\ rising[h] = <<Packet(g, n)>>

Rising ==
  \A h \in Hosts : rising[h] # <<>> =>
    registered[h] /\ \E g \in Hosts \ {h} : \E n \in 1..sent[g] : Climbed(g, h, n)

Resting == \A h \in Hosts : rising[h] = <<>> => level[h] = 1

(* One message that was handed up, and the packet it was made of. *)
Genuine(h, m, g, n) ==
  /\ flags[h].key # NoKey => Paired(g, h)
  /\ flags[h].key # NoKey \/ Compatible(g, h) => m = <<Packet(g, n)>>

HandedUp ==
  \A h \in Hosts : \A m \in delivered[h] :
    \E g \in Hosts \ {h} : \E n \in 1..sent[g] : Genuine(h, m, g, n)

StackInv == TypeOK /\ Built /\ OnWire /\ Rising /\ Resting /\ HandedUp

-------------------------------------------------------------------------------
(* Short sequences *)

LEMMA AppendOne ==
  ASSUME NEW a, NEW b
  PROVE  Append(<<a>>, b) = <<a, b>>
<1> DEFINE s == Append(<<a>>, b)
<1>1. <<a>> \in Seq({a, b}) /\ <<a, b>> \in Seq({a, b}) /\ b \in {a, b}
  OBVIOUS
<1>2. s \in Seq({a, b}) /\ Len(s) = 2 /\ s[1] = a /\ s[2] = b
  BY <1>1, AppendProperties
<1>3. Len(s) = Len(<<a, b>>) /\ \A i \in 1..Len(s) : s[i] = <<a, b>>[i]
  BY <1>2
<1> QED
  BY <1>1, <1>2, <1>3, SeqEqual

LEMMA AppendTwo ==
  ASSUME NEW a, NEW b, NEW c
  PROVE  Append(<<a, b>>, c) = <<a, b, c>>
<1> DEFINE s == Append(<<a, b>>, c)
<1>1. <<a, b>> \in Seq({a, b, c}) /\ <<a, b, c>> \in Seq({a, b, c}) /\ c \in {a, b, c}
  OBVIOUS
<1>2. s \in Seq({a, b, c}) /\ Len(s) = 3 /\ s[1] = a /\ s[2] = b /\ s[3] = c
  BY <1>1, AppendProperties
<1>3. Len(s) = Len(<<a, b, c>>) /\ \A i \in 1..Len(s) : s[i] = <<a, b, c>>[i]
  BY <1>2
<1> QED
  BY <1>1, <1>2, <1>3, SeqEqual

LEMMA Short ==
  ASSUME NEW a, NEW b, NEW c
  PROVE  /\ Head(<<a>>) = a /\ Head(<<a, b>>) = a /\ Head(<<a, b, c>>) = a
         /\ Tail(<<a, b>>) = <<b>> /\ Tail(<<a, b, c>>) = <<b, c>>
         /\ Append(<<>>, a) = <<a>> /\ Append(<<a>>, b) = <<a, b>>
         /\ Append(<<a, b>>, c) = <<a, b, c>>
         /\ Len(<<>>) = 0 /\ Len(<<a>>) = 1 /\ Len(<<a, b>>) = 2
         /\ <<a>> # <<>> /\ <<a, b>> # <<>> /\ <<a, b, c>> # <<>>
<1>1. Head(<<a>>) = a /\ Head(<<a, b>>) = a /\ Head(<<a, b, c>>) = a
  OBVIOUS
<1>2. Len(<<>>) = 0 /\ Len(<<a>>) = 1 /\ Len(<<a, b>>) = 2
  OBVIOUS
<1>3. <<a>> # <<>> /\ <<a, b>> # <<>> /\ <<a, b, c>> # <<>>
  OBVIOUS
<1>4. Append(<<>>, a) = <<a>>
  OBVIOUS
<1>5. Append(<<a>>, b) = <<a, b>>
  BY AppendOne
<1>6. Append(<<a, b>>, c) = <<a, b, c>>
  BY AppendTwo
<1>7. Tail(<<a, b>>) = <<b>>
  OBVIOUS
<1>8. Tail(<<a, b, c>>) = <<b, c>>
  OBVIOUS
<1> QED
  BY <1>1, <1>2, <1>3, <1>4, <1>5, <1>6, <1>7, <1>8

LEMMA Texts ==
  ASSUME NEW a \in Envelopes \cup Packets, NEW b \in Envelopes \cup Packets,
         NEW c \in Envelopes \cup Packets
  PROVE  <<>> \in Messages /\ <<a>> \in Messages /\ <<a, b>> \in Messages /\ <<a, b, c>> \in Messages
BY DEF Messages

(* The n-th message of a host, envelope by envelope. *)
LEMMA MessageFacts ==
  ASSUME NEW g \in Hosts, NEW n
  PROVE  /\ Message(g, n) # <<>> /\ Inner(g, n) # <<>> /\ <<Packet(g, n)>> # <<>>
         /\ Head(Message(g, n)) = <<flags[g].codec>> /\ Tail(Message(g, n)) = Inner(g, n)
         /\ Head(Inner(g, n)) = IF flags[g].key = NoKey THEN Packet(g, n)
                                ELSE <<"sealed", flags[g].key, flags[g].role>>
         /\ flags[g].key # NoKey => Tail(Inner(g, n)) = <<Packet(g, n)>>
         /\ flags[g].key = NoKey => Inner(g, n) = <<Packet(g, n)>>
BY Short DEF Message, Inner

LEMMA FlagFacts ==
  ASSUME TypeOK, NEW h \in Hosts
  PROVE  /\ flags[h].codec \in Codecs /\ flags[h].key \in Keys \cup {NoKey} /\ flags[h].role \in Roles
         /\ flags[h].codec # "encrypted"
         /\ Opposite(flags[h].role) \in Roles /\ Opposite(Opposite(flags[h].role)) = flags[h].role
         /\ Opposite(flags[h].role) # flags[h].role
BY DEF TypeOK, Flags, Codecs, Roles, Opposite

LEMMA MessageTypes ==
  ASSUME TypeOK, NEW g \in Hosts, NEW n \in 1..MaxPackets
  PROVE  /\ Message(g, n) \in Messages /\ Inner(g, n) \in Messages
         /\ <<Packet(g, n)>> \in Messages /\ <<>> \in Messages
<1>1. Packet(g, n) \in Packets
  BY DEF Packets
<1>2. <<flags[g].codec>> \in Envelopes
  BY FlagFacts DEF Envelopes, Codecs
<1>3. flags[g].key # NoKey => <<"sealed", flags[g].key, flags[g].role>> \in Envelopes
  BY FlagFacts DEF Envelopes, Sealed
<1> QED
  BY <1>1, <1>2, <1>3, Texts DEF Message, Inner

LEMMA StackLength ==
  ASSUME TypeOK, NEW h \in Hosts
  PROVE  stack[h] \in Stacks /\ Len(stack[h]) \in 0..2
BY DEF TypeOK, Stacks

(* A stack that is ready has one layer, or two with a key. *)
LEMMA StackFacts ==
  ASSUME TypeOK, NEW h \in Hosts
  PROVE  /\ Len(FullStack(h)) = IF flags[h].key = NoKey THEN 1 ELSE 2
         /\ FullStack(h)[1] = flags[h].codec
         /\ flags[h].key # NoKey => FullStack(h)[2] = "encrypted"
         /\ FullStack(h) \in Stacks
         /\ DOMAIN FullStack(h) = IF flags[h].key = NoKey THEN {1} ELSE {1, 2}
BY FlagFacts DEF FullStack, Stacks

(* What Send puts on the wire. *)
LEMMA Wrapped ==
  ASSUME TypeOK, NEW h \in Hosts, stack[h] = FullStack(h), NEW n
  PROVE  Append([i \in DOMAIN stack[h] |-> Envelope(h, stack[h][i])], Packet(h, n)) = Message(h, n)
<1> DEFINE envelopes == [i \in DOMAIN stack[h] |-> Envelope(h, stack[h][i])]
<1>1. CASE flags[h].key = NoKey
  <2>1. stack[h] = <<flags[h].codec>> /\ DOMAIN stack[h] = {1} /\ stack[h][1] = flags[h].codec
    BY <1>1, StackFacts DEF FullStack
  <2>2. envelopes = <<<<flags[h].codec>>>>
    BY <2>1, FlagFacts DEF Envelope
  <2>3. \A a, b : Append(<<a>>, b) = <<a, b>>
    BY AppendOne, Zenon
  <2>4. Message(h, n) = <<<<flags[h].codec>>, Packet(h, n)>>
    BY <1>1 DEF Message
  <2>5. Append(envelopes, Packet(h, n)) = Message(h, n)
    BY <2>2, <2>3, <2>4, ZenonT(60)
  <2> QED
    BY <2>5
<1>2. CASE flags[h].key # NoKey
  <2>1. DOMAIN stack[h] = {1, 2} /\ stack[h][1] = flags[h].codec /\ stack[h][2] = "encrypted"
    BY <1>2, StackFacts
  <2>2. envelopes = <<<<flags[h].codec>>, <<"sealed", flags[h].key, flags[h].role>>>>
    BY <2>1, FlagFacts DEF Envelope
  <2>3. \A a, b, c : Append(<<a, b>>, c) = <<a, b, c>>
    BY AppendTwo, Zenon
  <2>4. Message(h, n)
          = <<<<flags[h].codec>>, <<"sealed", flags[h].key, flags[h].role>>, Packet(h, n)>>
    BY <1>2 DEF Message
  <2>5. Append(envelopes, Packet(h, n)) = Message(h, n)
    BY <2>2, <2>3, <2>4, ZenonT(60)
  <2> QED
    BY <2>5
<1> QED
  BY <1>1, <1>2

-------------------------------------------------------------------------------
(* What no step changes: the command lines, and so the messages made of    *)
(* them.  Packets that were sent stay sent.                                *)
LEMMA Steady ==
  ASSUME TypeOK, [Next]_vars
  PROVE  /\ flags' = flags
         /\ \A g \in Hosts : \A n \in 1..sent[g] : n \in (1..sent[g])'
         /\ \A h \in Hosts : FullStack(h)' = FullStack(h)
         /\ \A g, n : Message(g, n)' = Message(g, n) /\ Inner(g, n)' = Inner(g, n)
         /\ \A g, h : /\ SameCodec(g, h)' <=> SameCodec(g, h)
                      /\ Paired(g, h)' <=> Paired(g, h)
                      /\ Compatible(g, h)' <=> Compatible(g, h)
<1>1. flags' = flags
  BY DEF Next, vars, AddCodec, AddEncryption, StartTransport, RunTunnel, Send, Unwrap, Deliver, Lose,
         Arrive
<1>2. \A g \in Hosts : sent[g] \in Nat /\ (sent'[g] = sent[g] \/ sent'[g] = sent[g] + 1)
  <2>1. CASE UNCHANGED sent
    BY <2>1, StackAssumption DEF TypeOK
  <2>2. CASE \E h \in Hosts : Send(h)
    BY <2>2, StackAssumption DEF TypeOK, Send
  <2> QED
    BY <2>1, <2>2 DEF Next, vars, traffic, AddCodec, AddEncryption, StartTransport, RunTunnel, Unwrap,
                      Deliver, Lose, Arrive
<1>3. \A g \in Hosts : \A n \in 1..sent[g] : n \in (1..sent[g])'
  BY <1>2
<1>4. \A h \in Hosts : FullStack(h)' = FullStack(h)
  BY <1>1 DEF FullStack
<1>5. \A g, n : Message(g, n)' = Message(g, n) /\ Inner(g, n)' = Inner(g, n)
  BY <1>1 DEF Message, Inner
<1>6. \A g, h : /\ SameCodec(g, h)' <=> SameCodec(g, h)
                /\ Paired(g, h)' <=> Paired(g, h)
                /\ Compatible(g, h)' <=> Compatible(g, h)
  BY <1>1 DEF SameCodec, Paired, Compatible
<1> QED
  BY <1>1, <1>3, <1>4, <1>5, <1>6

(* A message on its way up a stack is that of a packet of the other end,   *)
(* and stands before a layer or above them all.                            *)
LEMMA Reading ==
  ASSUME StackInv, NEW h \in Hosts, rising[h] # <<>>
  PROVE  /\ registered[h] /\ stack[h] = FullStack(h)
         /\ level[h] \in 1..3 /\ level[h] <= Len(stack[h]) + 1
         /\ Len(stack[h]) = IF flags[h].key = NoKey THEN 1 ELSE 2
         /\ \E g \in Hosts \ {h} : \E n \in 1..sent[g] : n \in 1..MaxPackets /\ Climbed(g, h, n)
<1>1. /\ registered[h]
      /\ \E g \in Hosts \ {h} : \E n \in 1..sent[g] : Climbed(g, h, n)
  BY DEF StackInv, Rising
<1>2. stack[h] = FullStack(h)
  BY <1>1 DEF StackInv, Built
<1>3. Len(stack[h]) = IF flags[h].key = NoKey THEN 1 ELSE 2
  BY <1>2, StackFacts DEF StackInv
<1>4. level[h] \in Nat \ {0} /\ level[h] <= Len(stack[h]) + 1
  BY DEF StackInv, TypeOK
<1>5. \A g \in Hosts : \A n \in 1..sent[g] : n \in 1..MaxPackets
  BY StackAssumption DEF StackInv, TypeOK
<1> QED
  BY <1>1, <1>2, <1>3, <1>4, <1>5

(* The layer at each level. *)
LEMMA Layers ==
  ASSUME StackInv, NEW h \in Hosts, rising[h] # <<>>, level[h] <= Len(stack[h])
  PROVE  \/ level[h] = 1 /\ Layer(h) = flags[h].codec
         \/ level[h] = 2 /\ Layer(h) = "encrypted" /\ flags[h].key # NoKey
BY Reading, StackFacts DEF Layer, StackInv

-------------------------------------------------------------------------------
(* The invariant holds at first and is kept by every step. *)

LEMMA InitInv == Init => StackInv
<1> SUFFICES ASSUME Init  PROVE StackInv
  OBVIOUS
<1>1. TypeOK
  <2>1. <<>> \in Messages /\ <<>> \in Stacks /\ Len(<<>>) = 0
    BY DEF Messages, Stacks
  <2> QED
    BY <2>1, StackAssumption DEF Init, TypeOK, Phases
<1>2. Built
  BY DEF Init, Built
<1>3. OnWire /\ Rising /\ Resting /\ HandedUp
  BY DEF Init, OnWire, Rising, Resting, HandedUp
<1> QED
  BY <1>1, <1>2, <1>3 DEF StackInv

LEMMA BuiltNext == StackInv /\ [Next]_vars => Built'
<1> SUFFICES ASSUME StackInv, [Next]_vars, NEW h \in Hosts
             PROVE  /\ phase'[h] = "raw" => stack'[h] = <<>>
                    /\ phase'[h] = "codec" => stack'[h] = <<flags[h].codec>>
                    /\ phase'[h] \in {"built", "started"} => stack'[h] = FullStack(h)
                    /\ registered'[h] => phase'[h] = "started"
  BY Steady DEF Built, StackInv
<1> USE DEF StackInv, TypeOK, Built
<1>1. CASE \E g \in Hosts : AddCodec(g)
  <2> PICK g \in Hosts : AddCodec(g)
    BY <1>1
  <2>1. g = h => stack'[h] = <<flags[h].codec>>
    BY Short DEF AddCodec
  <2> QED
    BY <2>1 DEF AddCodec
<1>2. CASE \E g \in Hosts : AddEncryption(g)
  <2> PICK g \in Hosts : AddEncryption(g)
    BY <1>2
  <2>1. CASE g = h
    <3>1. stack[h] = <<flags[h].codec>>
      BY <2>1 DEF AddEncryption
    <3>2. Append(stack[h], "encrypted") = <<flags[h].codec, "encrypted">>
      BY <3>1, AppendOne
    <3>3. stack'[h] = FullStack(h) /\ phase'[h] = "built"
      BY <2>1, <3>1, <3>2 DEF AddEncryption, FullStack
    <3> QED
      BY <2>1, <3>3 DEF AddEncryption
  <2>2. CASE g # h
    BY <2>2 DEF AddEncryption
  <2> QED
    BY <2>1, <2>2
<1>3. CASE \E g \in Hosts : StartTransport(g) \/ RunTunnel(g)
  BY <1>3 DEF StartTransport, RunTunnel
<1>4. CASE UNCHANGED <<stack, phase, registered>>
  BY <1>4
<1> QED
  BY <1>1, <1>2, <1>3, <1>4 DEF Next, vars, Send, Unwrap, Deliver, Lose, Arrive

(* Every action keeps the types; for a message it is what it was made of   *)
(* that gives them.                                                        *)
LEMMA TypesNext == StackInv /\ [Next]_vars => TypeOK'
<1> SUFFICES ASSUME StackInv, [Next]_vars  PROVE TypeOK'
  OBVIOUS
<1> USE StackAssumption DEF StackInv, TypeOK, Phases
<1>1. ASSUME NEW h \in Hosts, AddCodec(h)  PROVE TypeOK'
  <2>1. stack[h] = <<>> /\ flags[h].codec \in Codecs
    BY <1>1, FlagFacts DEF AddCodec, Built
  <2>2. Append(stack[h], flags[h].codec) = <<flags[h].codec>> /\ <<flags[h].codec>> \in Stacks
    BY <2>1, Short DEF Stacks
  <2>3. Len(stack[h]) = 0 /\ Len(<<flags[h].codec>>) = 1
    BY <2>1, Short
  <2>4. stack' \in [Hosts -> Stacks] /\ \A g \in Hosts : level[g] <= Len(stack'[g]) + 1
    BY <1>1, <2>2, <2>3 DEF AddCodec
  <2> QED
    BY <1>1, <2>4 DEF AddCodec, traffic
<1>2. ASSUME NEW h \in Hosts, AddEncryption(h)  PROVE TypeOK'
  <2>1. stack[h] = <<flags[h].codec>> /\ Len(stack[h]) = 1 /\ flags[h].codec \in Codecs
    BY <1>2, FlagFacts, Short DEF AddEncryption, Built
  <2>2. /\ Append(stack[h], "encrypted") = <<flags[h].codec, "encrypted">>
        /\ Len(<<flags[h].codec, "encrypted">>) = 2
    BY <2>1, AppendOne
  <2>3. Append(stack[h], "encrypted") \in Stacks /\ Len(Append(stack[h], "encrypted")) = 2
    BY <2>1, <2>2 DEF Stacks
  <2>4. stack' \in [Hosts -> Stacks] /\ \A g \in Hosts : level[g] <= Len(stack'[g]) + 1
    <3>1. ASSUME NEW g \in Hosts  PROVE stack'[g] \in Stacks /\ level[g] <= Len(stack'[g]) + 1
      <4>1. CASE g = h
        <5>1. stack'[h] = stack[h] \/ stack'[h] = Append(stack[h], "encrypted")
          <6>1. stack \in [Hosts -> Stacks]
            OBVIOUS
          <6>2. stack' = stack \/ stack' = [stack EXCEPT ![h] = Append(stack[h], "encrypted")]
            BY <1>2 DEF AddEncryption
          <6> HIDE DEF StackInv, TypeOK
          <6> QED
            BY <6>1, <6>2
        <5>2. stack[h] \in Stacks /\ level[h] \in Nat /\ level[h] <= 2
          <6>1. stack[h] \in Stacks /\ level[h] \in Nat /\ level[h] <= Len(stack[h]) + 1
            OBVIOUS
          <6>2. Len(stack[h]) = 1
            BY <2>1
          <6> HIDE DEF StackInv, TypeOK
          <6> QED
            BY <6>1, <6>2
        <5>3. Len(stack[h]) = 1 /\ Len(Append(stack[h], "encrypted")) = 2
          BY <2>1, <2>3
        <5>4. stack'[h] \in Stacks /\ (Len(stack'[h]) = 1 \/ Len(stack'[h]) = 2)
          BY <2>3, <5>1, <5>2, <5>3
        <5>5. level[h] <= Len(stack'[h]) + 1
          <6>1. CASE Len(stack'[h]) = 1
            BY <5>2, <6>1
          <6>2. CASE Len(stack'[h]) = 2
            BY <5>2, <6>2
          <6> QED
            BY <5>4, <6>1, <6>2
        <5> QED
          BY <4>1, <5>4, <5>5
      <4>2. CASE g # h
        BY <1>2, <4>2 DEF AddEncryption
      <4> QED
        BY <4>1, <4>2
    <3>2. \E s : stack' = [stack EXCEPT ![h] = s] \/ stack' = stack
      BY <1>2 DEF AddEncryption
    <3> QED
      BY <3>1, <3>2
  <2> QED
    BY <1>2, <2>4 DEF AddEncryption, traffic
<1>3. ASSUME NEW h \in Hosts, StartTransport(h) \/ RunTunnel(h)  PROVE TypeOK'
  BY <1>3 DEF StartTransport, RunTunnel, traffic
<1>4. ASSUME NEW h \in Hosts, Send(h)  PROVE TypeOK'
  <2>1. sent[h] + 1 \in 1..MaxPackets /\ stack[h] = FullStack(h)
    BY <1>4 DEF Send, Built
  <2>2. Message(h, sent[h] + 1) \in Messages
    BY <2>1, MessageTypes
  <2>3. wire' = [g \in Hosts |-> IF g = h THEN wire[g] ELSE wire[g] \cup {Message(h, sent[h] + 1)}]
    BY <1>4, <2>1, Wrapped DEF Send
  <2>4. wire' \in [Hosts -> SUBSET Messages] /\ sent' \in [Hosts -> 0..MaxPackets]
    <3>1. \A g \in Hosts : wire[g] \cup {Message(h, sent[h] + 1)} \in SUBSET Messages
      BY <2>2
    <3>2. wire' \in [Hosts -> SUBSET Messages]
      BY <2>3, <3>1
    <3>3. sent' \in [Hosts -> 0..MaxPackets]
      BY <1>4, <2>1 DEF Send
    <3> QED
      BY <3>2, <3>3
  <2> QED
    BY <1>4, <2>4 DEF Send
<1>5. ASSUME NEW h \in Hosts, NEW m \in wire[h], Lose(h, m) \/ Arrive(h, m)  PROVE TypeOK'
  <2>1. wire' \in [Hosts -> SUBSET Messages]
    BY <1>5 DEF Lose, Arrive
  <2>2. /\ rising' \in [Hosts -> Messages] /\ level' \in [Hosts -> Nat \ {0}]
        /\ \A g \in Hosts : level'[g] <= Len(stack[g]) + 1
    <3>1. m \in Messages
      OBVIOUS
    <3>2. \A g \in Hosts : Len(stack[g]) \in 0..2
      BY StackLength
    <3>3. \/ rising' = rising /\ level' = level
          \/ rising' = [rising EXCEPT ![h] = m] /\ level' = [level EXCEPT ![h] = 1]
      BY <1>5 DEF Lose, Arrive
    <3>4. CASE rising' = rising /\ level' = level
      BY <3>4
    <3>5. CASE rising' = [rising EXCEPT ![h] = m] /\ level' = [level EXCEPT ![h] = 1]
      BY <3>1, <3>2, <3>5
    <3> QED
      BY <3>3, <3>4, <3>5
  <2> QED
    BY <1>5, <2>1, <2>2 DEF Lose, Arrive
<1>6. ASSUME NEW h \in Hosts, Unwrap(h)  PROVE TypeOK'
  <2>1. rising[h] # <<>> /\ level[h] <= Len(stack[h]) /\ Len(stack[h]) \in Nat /\ rising[h] \in Messages
    BY <1>6, Reading DEF Unwrap
  <2>2. Tail(rising[h]) \in Messages /\ <<>> \in Messages
    BY <2>1, HeadTailProperties DEF Messages
  <2>3. rising' \in [Hosts -> Messages]
    <3>1. \/ rising' = [rising EXCEPT ![h] = Tail(rising[h])]
          \/ rising' = [rising EXCEPT ![h] = <<>>]
          \/ rising' = rising
      BY <1>6 DEF Unwrap
    <3> QED
      BY <2>2, <3>1
  <2>4. level' \in [Hosts -> Nat \ {0}] /\ \A g \in Hosts : level'[g] <= Len(stack[g]) + 1
    <3>1. \/ level' = [level EXCEPT ![h] = level[h] + 1]
          \/ level' = [level EXCEPT ![h] = 1]
      BY <1>6 DEF Unwrap
    <3>2. \A g \in Hosts : Len(stack[g]) \in 0..2
      BY StackLength
    <3>3. level' \in [Hosts -> Nat \ {0}]
      BY <3>1
    <3>4. ASSUME NEW g \in Hosts  PROVE level'[g] <= Len(stack[g]) + 1
      <4>1. level[g] <= Len(stack[g]) + 1 /\ level[g] \in Nat /\ Len(stack[g]) \in Nat
        BY <3>2
      <4>2. level'[g] = level[g] \/ level'[g] = 1 \/ (g = h /\ level'[g] = level[h] + 1)
        BY <3>1
      <4> QED
        BY <2>1, <4>1, <4>2
    <3> QED
      BY <3>3, <3>4
  <2> QED
    BY <1>6, <2>3, <2>4 DEF Unwrap
<1>7. ASSUME NEW h \in Hosts, Deliver(h)  PROVE TypeOK'
  <2>1. Len(stack[h]) \in Nat /\ rising[h] \in Messages /\ <<>> \in Messages
    BY <1>7, Reading DEF Deliver, Messages
  <2>2. level' \in [Hosts -> Nat \ {0}] /\ \A g \in Hosts : level'[g] <= Len(stack[g]) + 1
    BY <1>7, <2>1 DEF Deliver
  <2>3. rising' \in [Hosts -> Messages] /\ delivered' \in [Hosts -> SUBSET Messages]
    BY <1>7, <2>1 DEF Deliver
  <2> QED
    BY <1>7, <2>2, <2>3 DEF Deliver
<1>8. CASE UNCHANGED vars
  BY <1>8 DEF vars
<1> QED
  BY <1>1, <1>2, <1>3, <1>4, <1>5, <1>6, <1>7, <1>8 DEF Next

LEMMA OnWireNext == StackInv /\ [Next]_vars => OnWire'
<1> SUFFICES ASSUME StackInv, [Next]_vars, NEW h \in Hosts, NEW m \in wire'[h]
             PROVE  \E g \in Hosts \ {h} : \E n \in (1..sent[g])' : m = Message(g, n)
  BY Steady DEF OnWire, StackInv
<1>1. CASE m \in wire[h]
  <2>g. PICK g \in Hosts \ {h} : \E n \in 1..sent[g] : m = Message(g, n)
    BY <1>1 DEF StackInv, OnWire
  <2>1. PICK n \in 1..sent[g] : m = Message(g, n)
    BY <2>g
  <2> QED
    BY <2>1, Steady DEF StackInv
<1>2. CASE \E g \in Hosts : Send(g)
  <2> PICK g \in Hosts : Send(g)
    BY <1>2
  <2>1. stack[g] = FullStack(g) /\ sent[g] \in Nat
    BY StackAssumption DEF StackInv, Built, Send, TypeOK
  <2>2. wire' = [f \in Hosts |-> IF f = g THEN wire[f] ELSE wire[f] \cup {Message(g, sent[g] + 1)}]
    BY <2>1, Wrapped DEF Send, StackInv
  <2>3. m \in wire[h] \/ (h # g /\ m = Message(g, sent[g] + 1))
    BY <2>2
  <2>4. sent[g] + 1 \in (1..sent[g])'
    BY <2>1 DEF Send, StackInv, TypeOK
  <2> QED
    BY <1>1, <2>3, <2>4
<1>3. CASE \E g \in Hosts : \E x \in wire[g] : Lose(g, x) \/ Arrive(g, x)
  <2>1. wire'[h] \subseteq wire[h]
    BY <1>3 DEF Lose, Arrive, StackInv, TypeOK
  <2> QED
    BY <1>1, <2>1
<1>4. CASE UNCHANGED wire
  BY <1>1, <1>4
<1> QED
  BY <1>2, <1>3, <1>4 DEF Next, vars, traffic, AddCodec, AddEncryption, StartTransport, RunTunnel,
                          Unwrap, Deliver

(* A layer leaves of a message what the next one expects, or nothing. *)
LEMMA Unwraps ==
  ASSUME StackInv, [Next]_vars, NEW h \in Hosts, Unwrap(h)
  PROVE  \/ rising'[h] = <<>> /\ level'[h] = 1
         \/ /\ rising'[h] # <<>>
            /\ \E g \in Hosts \ {h} : \E n \in 1..sent[g] : Climbed(g, h, n)'
<1>1. rising[h] # <<>> /\ level[h] <= Len(stack[h]) /\ level[h] \in Nat
  BY Reading DEF Unwrap
<1>g. PICK g \in Hosts \ {h} : \E n \in 1..sent[g] : Climbed(g, h, n)
  BY <1>1, Reading
<1>2. PICK n \in 1..sent[g] : Climbed(g, h, n)
  BY <1>g
<1>3. \/ /\ Expected(h, Head(rising[h]))
         /\ rising'[h] = Tail(rising[h]) /\ level'[h] = level[h] + 1
      \/ rising'[h] = <<>> /\ level'[h] = 1
      \/ /\ ~Expected(h, Head(rising[h])) /\ Layer(h) = "legacy"
         /\ rising'[h] = rising[h] /\ level'[h] = level[h] + 1
  BY DEF Unwrap, Rejects, StackInv, TypeOK
<1>4. CASE level[h] = 1 /\ Layer(h) = flags[h].codec
  <2>1. rising[h] = Message(g, n)
    BY <1>2, <1>4 DEF Climbed
  <2>2. Layer(h) # "encrypted"
    BY <1>4, FlagFacts DEF StackInv
  <2>3. Expected(h, Head(rising[h])) <=> SameCodec(g, h)
    BY <1>4, <2>1, <2>2, MessageFacts DEF Expected, SameCodec
  <2>4. CASE SameCodec(g, h) /\ rising'[h] = Tail(rising[h]) /\ level'[h] = 2
    <3>1. rising'[h] = Inner(g, n) /\ rising'[h] # <<>>
      BY <2>1, <2>4, MessageFacts
    <3>2. Climbed(g, h, n)'
      BY <2>4, <3>1, Steady DEF Climbed, StackInv
    <3> QED
      BY <3>1, <3>2
  <2>5. CASE ~SameCodec(g, h) /\ rising'[h] = rising[h] /\ level'[h] = 2
    <3>1. Climbed(g, h, n)'
      BY <2>1, <2>5, Steady DEF Climbed, StackInv
    <3> QED
      BY <1>1, <2>5, <3>1
  <2> QED
    BY <1>3, <1>4, <2>3, <2>4, <2>5
<1>5. CASE level[h] = 2 /\ Layer(h) = "encrypted" /\ flags[h].key # NoKey
  <2>1. rising[h] = IF SameCodec(g, h) THEN Inner(g, n) ELSE Message(g, n)
    BY <1>2, <1>5 DEF Climbed
  <2>2. CASE /\ Expected(h, Head(rising[h]))
             /\ rising'[h] = Tail(rising[h]) /\ level'[h] = 3
    <3>1. Head(rising[h]) = <<"sealed", flags[h].key, Opposite(flags[h].role)>>
      BY <1>5, <2>2 DEF Expected
    <3>2. SameCodec(g, h)
      <4>1. <<flags[g].codec>> # <<"sealed", flags[h].key, Opposite(flags[h].role)>>
        OBVIOUS
      <4> QED
        BY <2>1, <3>1, <4>1, MessageFacts
    <3>3. flags[g].key # NoKey
      <4>1. Packet(g, n) # <<"sealed", flags[h].key, Opposite(flags[h].role)>>
        BY DEF Packet
      <4> QED
        BY <2>1, <3>1, <3>2, <4>1, MessageFacts
    <3>4. <<"sealed", flags[g].key, flags[g].role>>
            = <<"sealed", flags[h].key, Opposite(flags[h].role)>>
      BY <2>1, <3>1, <3>2, <3>3, MessageFacts
    <3>5. Paired(g, h)
      BY <3>4 DEF Paired
    <3>6. rising'[h] = <<Packet(g, n)>> /\ rising'[h] # <<>>
      BY <2>1, <2>2, <3>2, <3>3, MessageFacts
    <3>7. Climbed(g, h, n)'
      <4>1. Paired(g, h)'
        BY <3>5, Steady DEF StackInv
      <4>2. rising'[h] = <<Packet(g, n)>>'
        BY <3>6 DEF Packet
      <4>3. level'[h] # 1 /\ level'[h] # 2
        BY <2>2
      <4> QED
        BY <4>1, <4>2, <4>3 DEF Climbed
    <3> QED
      BY <3>6, <3>7
  <2> QED
    BY <1>3, <1>5, <2>2
<1> QED
  BY <1>1, <1>4, <1>5, Layers

LEMMA RisingNext == StackInv /\ [Next]_vars => Rising' /\ Resting'
<1> SUFFICES ASSUME StackInv, [Next]_vars, NEW h \in Hosts
             PROVE  \/ rising'[h] = <<>> /\ level'[h] = 1
                    \/ /\ rising'[h] # <<>> /\ registered'[h]
                       /\ \E g \in Hosts \ {h} : \E n \in (1..sent[g])' : Climbed(g, h, n)'
  BY DEF Rising, Resting
<1>1. CASE UNCHANGED <<rising[h], level[h]>> /\ (registered[h] => registered'[h])
  <2>1. CASE rising[h] = <<>>
    BY <1>1, <2>1 DEF StackInv, Resting
  <2>2. CASE rising[h] # <<>>
    <3>g. PICK g \in Hosts \ {h} : \E n \in 1..sent[g] : Climbed(g, h, n)
      BY <2>2 DEF StackInv, Rising
    <3>1. PICK n \in 1..sent[g] : Climbed(g, h, n)
      BY <3>g
    <3>2. Climbed(g, h, n)'
      BY <1>1, <3>1, Steady DEF Climbed, StackInv, Packet
    <3>3. n \in (1..sent[g])' /\ registered'[h]
      BY <1>1, <2>2, Steady DEF StackInv, Rising
    <3> QED
      BY <1>1, <2>2, <3>2, <3>3
  <2> QED
    BY <2>1, <2>2
<1>2. ASSUME NEW k \in Hosts, NEW m \in wire[k], Arrive(k, m)
      PROVE  \/ rising'[h] = <<>> /\ level'[h] = 1
             \/ /\ rising'[h] # <<>> /\ registered'[h]
                /\ \E g \in Hosts \ {h} : \E n \in (1..sent[g])' : Climbed(g, h, n)'
  <2>1. CASE k = h /\ registered[h]
    <3>1. rising'[h] = m /\ level'[h] = 1 /\ registered'[h]
      BY <1>2, <2>1 DEF Arrive, StackInv, TypeOK
    <3>g. PICK g \in Hosts \ {h} : \E n \in 1..sent[g] : m = Message(g, n)
      BY <2>1 DEF StackInv, OnWire
    <3>2. PICK n \in 1..sent[g] : m = Message(g, n)
      BY <3>g
    <3>3. Climbed(g, h, n)' /\ n \in (1..sent[g])'
      BY <3>1, <3>2, Steady DEF Climbed, StackInv
    <3>4. rising'[h] # <<>>
      BY <3>1, <3>2, MessageFacts
    <3> QED
      BY <3>1, <3>3, <3>4
  <2>2. CASE k # h \/ ~registered[h]
    <3>1. UNCHANGED <<rising[h], level[h], registered>>
      BY <1>2, <2>2 DEF Arrive, StackInv, TypeOK
    <3> QED
      BY <1>1, <3>1
  <2> QED
    BY <2>1, <2>2
<1>3. ASSUME NEW k \in Hosts, Unwrap(k)
      PROVE  \/ rising'[h] = <<>> /\ level'[h] = 1
             \/ /\ rising'[h] # <<>> /\ registered'[h]
                /\ \E g \in Hosts \ {h} : \E n \in (1..sent[g])' : Climbed(g, h, n)'
  <2>1. CASE k = h
    <3>1. registered'[h]
      BY <1>3, <2>1, Reading DEF Unwrap
    <3>2. \A g \in Hosts : \A n \in 1..sent[g] : n \in (1..sent[g])'
      BY Steady DEF StackInv
    <3> QED
      BY <1>3, <2>1, <3>1, <3>2, Unwraps
  <2>2. CASE k # h
    <3>1. UNCHANGED <<rising[h], level[h], registered>>
      BY <1>3, <2>2 DEF Unwrap, StackInv, TypeOK
    <3> QED
      BY <1>1, <3>1
  <2> QED
    BY <2>1, <2>2
<1>4. CASE \E k \in Hosts : Deliver(k)
  <2> PICK k \in Hosts : Deliver(k)
    BY <1>4
  <2>1. k = h => rising'[h] = <<>> /\ level'[h] = 1
    BY DEF Deliver, StackInv, TypeOK
  <2>2. k # h => UNCHANGED <<rising[h], level[h], registered>>
    BY DEF Deliver, StackInv, TypeOK
  <2> QED
    BY <1>1, <2>1, <2>2
<1>5. CASE \E k \in Hosts : RunTunnel(k)
  <2>1. UNCHANGED <<rising, level>> /\ (registered[h] => registered'[h])
    BY <1>5 DEF RunTunnel, traffic, StackInv, TypeOK
  <2> QED
    BY <1>1, <2>1
<1>6. CASE UNCHANGED <<rising, level, registered>>
  BY <1>1, <1>6
<1> QED
  BY <1>2, <1>3, <1>4, <1>5, <1>6
     DEF Next, vars, traffic, AddCodec, AddEncryption, StartTransport, Send, Lose

(* What is handed up has passed every layer. *)
LEMMA Passed ==
  ASSUME StackInv, NEW h \in Hosts, Deliver(h)
  PROVE  \E g \in Hosts \ {h} : \E n \in 1..sent[g] : Genuine(h, rising[h], g, n)
<1>1. /\ rising[h] # <<>> /\ level[h] > Len(stack[h]) /\ level[h] \in 1..3
      /\ Len(stack[h]) = IF flags[h].key = NoKey THEN 1 ELSE 2
      /\ level[h] <= Len(stack[h]) + 1
  BY Reading DEF Deliver
<1>g. PICK g \in Hosts \ {h} : \E n \in 1..sent[g] : Climbed(g, h, n)
  BY <1>1, Reading
<1>2. PICK n \in 1..sent[g] : Climbed(g, h, n)
  BY <1>g
<1>3. CASE flags[h].key = NoKey
  <2>1. level[h] = 2
    BY <1>1, <1>3
  <2>2. rising[h] = IF SameCodec(g, h) THEN Inner(g, n) ELSE Message(g, n)
    BY <1>2, <2>1 DEF Climbed
  <2>3. Compatible(g, h) => SameCodec(g, h) /\ flags[g].key = NoKey
    BY <1>3 DEF Compatible, SameCodec
  <2>4. Compatible(g, h) => rising[h] = <<Packet(g, n)>>
    BY <2>2, <2>3, MessageFacts
  <2> QED
    BY <1>3, <2>4 DEF Genuine
<1>4. CASE flags[h].key # NoKey
  <2>1. level[h] = 3
    BY <1>1, <1>4
  <2>2. Paired(g, h) /\ rising[h] = <<Packet(g, n)>>
    BY <1>2, <2>1 DEF Climbed
  <2> QED
    BY <2>2 DEF Genuine
<1> QED
  BY <1>3, <1>4

LEMMA HandedUpNext == StackInv /\ [Next]_vars => HandedUp'
<1> SUFFICES ASSUME StackInv, [Next]_vars, NEW h \in Hosts, NEW m \in delivered'[h]
             PROVE  \E g \in Hosts \ {h} : \E n \in (1..sent[g])' : Genuine(h, m, g, n)'
  BY DEF HandedUp
<1>0. \E g \in Hosts \ {h} : \E n \in 1..sent[g] : Genuine(h, m, g, n)
  <2>1. CASE m \in delivered[h]
    BY <2>1 DEF StackInv, HandedUp
  <2>2. CASE \E k \in Hosts : Deliver(k)
    <3> PICK k \in Hosts : Deliver(k)
      BY <2>2
    <3>1. m \in delivered[h] \/ (k = h /\ m = rising[h])
      BY DEF Deliver, StackInv, TypeOK
    <3>2. CASE k = h /\ m = rising[h]
      BY <3>2, Passed
    <3> QED
      BY <2>1, <3>1, <3>2
  <2>3. CASE UNCHANGED delivered
    BY <2>1, <2>3
  <2> QED
    BY <2>2, <2>3 DEF Next, vars, traffic, AddCodec, AddEncryption, StartTransport, RunTunnel, Send,
                      Unwrap, Lose, Arrive
<1>g. PICK g \in Hosts \ {h} : \E n \in 1..sent[g] : Genuine(h, m, g, n)
  BY <1>0
<1>1. PICK n \in 1..sent[g] : Genuine(h, m, g, n)
  BY <1>g
<1>2. n \in (1..sent[g])' /\ flags' = flags
  BY Steady DEF StackInv
<1>3. Genuine(h, m, g, n)'
  BY <1>1, <1>2 DEF Genuine, Paired, Compatible, Packet
<1> QED
  BY <1>2, <1>3

LEMMA StackInvariant == Spec => []StackInv
<1>1. StackInv /\ [Next]_vars => StackInv'
  BY TypesNext, BuiltNext, OnWireNext, RisingNext, HandedUpNext DEF StackInv
<1> QED
  BY InitInv, <1>1, PTL DEF Spec

-------------------------------------------------------------------------------
(* The stacks, the messages and how far they have come keep their types,   *)
(* for any keys and any number of packets.                                 *)
THEOREM StackTypes == Spec => []TypeOK
<1>1. StackInv => TypeOK
  BY DEF StackInv
<1> QED
  BY StackInvariant, <1>1, PTL

(* Two ends with the same codec and key and opposite roles hand each other *)
(* exactly the packets that were sent, whichever layers main.go built and  *)
(* however far the other end has come with its start (main.go:308-368).    *)
THEOREM EqualEndsAreTransparent == Spec => []Transparent
<1>1. StackInv => Transparent
  <2> SUFFICES ASSUME StackInv, NEW g \in Hosts, NEW h \in Hosts, g # h, Compatible(g, h),
                      NEW m \in delivered[h]
               PROVE  \E n \in 1..sent[g] : m = <<Packet(g, n)>>
    BY DEF Transparent
  <2>1. PICK f \in Hosts \ {h} : \E n \in 1..sent[f] :
                Compatible(f, h) => m = <<Packet(f, n)>>
    BY DEF StackInv, HandedUp, Genuine
  <2>2. f = g
    BY StackAssumption
  <2> QED
    BY <2>1, <2>2
<1> QED
  BY StackInvariant, <1>1, PTL

(* A host with a key hands up nothing but packets of a peer with the same  *)
(* key and the opposite role, whatever the other end was started with      *)
(* (encrypted.go:122-141).                                                 *)
THEOREM KeyKeepsOthersOut == Spec => []KeyedHostIsStrict
<1>1. StackInv => KeyedHostIsStrict
  <2> SUFFICES ASSUME StackInv, NEW g \in Hosts, NEW h \in Hosts, g # h, flags[h].key # NoKey
               PROVE  \A m \in delivered[h] :
                        /\ flags[g].key = flags[h].key /\ flags[g].role # flags[h].role
                        /\ \E n \in 1..sent[g] : m = <<Packet(g, n)>>
    BY DEF KeyedHostIsStrict
  <2>1. \A f \in Hosts \ {h} : f = g
    BY StackAssumption
  <2>2. Opposite(flags[h].role) # flags[h].role
    BY FlagFacts DEF StackInv
  <2> QED
    BY <2>1, <2>2 DEF StackInv, HandedUp, Genuine, Paired
<1> QED
  BY StackInvariant, <1>1, PTL

(* Between equal ends no layer rejects a message: what arrives after       *)
(* Receive was called is handed up.                                        *)
THEOREM EqualEndsRejectNothing == Spec => []NothingRejected
<1>1. StackInv => NothingRejected
  <2> SUFFICES ASSUME StackInv, NEW h \in Hosts, rising[h] # <<>>,
                      \A g \in Hosts \ {h} : Compatible(g, h), level[h] <= Len(stack[h])
               PROVE  Expected(h, Head(rising[h]))
    BY DEF NothingRejected
  <2>g. PICK g \in Hosts \ {h} : \E n \in 1..sent[g] : Climbed(g, h, n)
    BY Reading
  <2>1. PICK n \in 1..sent[g] : Climbed(g, h, n)
    BY <2>g
  <2>2. SameCodec(g, h) /\ flags[g].key = flags[h].key /\ flags[g].role = Opposite(flags[h].role)
    BY DEF Compatible, SameCodec
  <2>3. CASE level[h] = 1 /\ Layer(h) = flags[h].codec
    <3>1. Head(rising[h]) = <<Layer(h)>> /\ Layer(h) # "encrypted"
      BY <2>1, <2>2, <2>3, MessageFacts, FlagFacts DEF Climbed, SameCodec, StackInv
    <3> QED
      BY <3>1 DEF Expected
  <2>4. CASE level[h] = 2 /\ Layer(h) = "encrypted" /\ flags[h].key # NoKey
    <3>1. rising[h] = Inner(g, n)
      BY <2>1, <2>2, <2>4 DEF Climbed
    <3>2. Head(rising[h]) = <<"sealed", flags[h].key, Opposite(flags[h].role)>>
      BY <2>2, <2>4, <3>1, MessageFacts
    <3> QED
      BY <2>4, <3>2 DEF Expected
  <2> QED
    BY <2>3, <2>4, Layers
<1> QED
  BY StackInvariant, <1>1, PTL
=============================================================================
