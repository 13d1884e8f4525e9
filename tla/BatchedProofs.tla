----------------------------- MODULE BatchedProofs -----------------------------
(***************************************************************************)
(* Machine-checked proofs about BatchedTransport, for every queue depth,   *)
(* batch limit, set of packet lengths and number of packets.               *)
(***************************************************************************)
EXTENDS BatchedTransport, SequenceTheorems, TLAPS

(* Removing the head of a sequence keeps the order of the rest, and what   *)
(* remains lies above the removed packet.                                  *)
LEMMA TailFacts ==
  ASSUME NEW s \in Seq(Packet), s # <<>>, Increasing(s),
         NEW lo \in Int, NEW hi \in Int, Within(s, lo, hi)
  PROVE  /\ Head(s) \in Packet /\ Head(s) = s[1]
         /\ Tail(s) \in Seq(Packet) /\ Len(Tail(s)) = Len(s) - 1
         /\ Increasing(Tail(s))
         /\ lo < Head(s).id /\ Head(s).id <= hi
         /\ Within(Tail(s), Head(s).id, hi)
         /\ Within(Tail(s), lo, hi)
<1>1. /\ Tail(s) \in Seq(Packet) /\ Len(Tail(s)) = Len(s) - 1
      /\ Head(s) \in Packet /\ Head(s) = s[1]
      /\ \A i \in 1..Len(Tail(s)) : Tail(s)[i] = s[i + 1]
  BY HeadTailProperties
<1>2. \A i \in 1..Len(Tail(s)) : i + 1 \in 1..Len(s)
  BY <1>1
<1>3. DOMAIN s = 1..Len(s) /\ DOMAIN Tail(s) = 1..Len(Tail(s)) /\ 1 \in DOMAIN s
  BY <1>1
<1>4. Increasing(Tail(s))
  BY <1>1, <1>2, <1>3 DEF Increasing
<1>5. lo < Head(s).id /\ Head(s).id <= hi
  BY <1>1, <1>3 DEF Within
<1>6. Within(Tail(s), Head(s).id, hi)
  BY <1>1, <1>2, <1>3 DEF Within, Increasing
<1>7. Within(Tail(s), lo, hi)
  BY <1>1, <1>2, <1>3 DEF Within
<1>8. QED
  BY <1>1, <1>4, <1>5, <1>6, <1>7

(* Appending a packet that lies above a sequence keeps it ordered.         *)
LEMMA AppendFacts ==
  ASSUME NEW s \in Seq(Packet), NEW p \in Packet, Increasing(s),
         NEW lo \in Int, NEW hi \in Int, Within(s, lo, hi),
         lo < p.id, p.id <= hi, \A i \in DOMAIN s : s[i].id < p.id
  PROVE  /\ Append(s, p) \in Seq(Packet) /\ Append(s, p) # <<>>
         /\ Len(Append(s, p)) = Len(s) + 1
         /\ Last(Append(s, p)) = p
         /\ Increasing(Append(s, p)) /\ Within(Append(s, p), lo, hi)
<1>1. /\ Append(s, p) \in Seq(Packet) /\ Append(s, p) # <<>>
      /\ Len(Append(s, p)) = Len(s) + 1
      /\ \A i \in 1..Len(s) : Append(s, p)[i] = s[i]
      /\ Append(s, p)[Len(s) + 1] = p
  BY AppendProperties
<1>2. DOMAIN s = 1..Len(s) /\ DOMAIN Append(s, p) = 1..(Len(s) + 1) /\ Len(s) \in Nat
  BY <1>1
<1>3. \A i \in 1..(Len(s) + 1) : i \in 1..Len(s) \/ i = Len(s) + 1
  BY <1>2
<1>4. Increasing(Append(s, p))
  BY <1>1, <1>2, <1>3 DEF Increasing
<1>5. Within(Append(s, p), lo, hi)
  BY <1>1, <1>2, <1>3 DEF Within
<1>6. QED
  BY <1>1, <1>4, <1>5 DEF Last

(* The last packet of a batch bounds the batch from above.                 *)
LEMMA LastFacts ==
  ASSUME NEW s \in Seq(Packet), s # <<>>, Increasing(s),
         NEW lo \in Int, NEW hi \in Int, Within(s, lo, hi)
  PROVE  /\ Last(s) \in Packet /\ lo < Last(s).id /\ Last(s).id <= hi
         /\ Within(s, lo, Last(s).id)
         /\ \E i \in DOMAIN s : Last(s) = s[i]
<1>1. Len(s) \in DOMAIN s /\ DOMAIN s = 1..Len(s) /\ s[Len(s)] \in Packet /\ Last(s) = s[Len(s)]
  BY DEF Last
<1>2. \A i \in DOMAIN s : i < Len(s) \/ i = Len(s)
  BY <1>1
<1>3. \A i \in DOMAIN s : s[i].id \in Nat
  <2>1. \A i \in DOMAIN s : s[i] \in Packet
    BY <1>1, ElementOfSeq
  <2>2. \A p \in Packet : p.id \in Nat
    BY BatchedAssumption DEF Packet
  <2>3. QED  BY <2>1, <2>2
<1>4. \A i \in DOMAIN s : s[i].id <= s[Len(s)].id
  BY <1>1, <1>2, <1>3 DEF Increasing
<1>5. QED
  BY <1>1, <1>4 DEF Within

(* What the assumptions say of a packet.                                   *)
LEMMA PacketType ==
  /\ \A p \in Packet : p.id \in 1..MaxPackets /\ p.len \in Nat /\ RecordSize(p) \in Nat
  /\ \A i \in 1..MaxPackets, n \in Lens : [id |-> i, len |-> n] \in Packet
<1>1. \A p \in Packet : p.id \in 1..MaxPackets /\ p.len \in Lens
  BY DEF Packet
<1>2. \A n \in Lens : n \in Nat
  BY BatchedAssumption
<1>3. \A p \in Packet : RecordSize(p) \in Nat
  BY <1>1, <1>2 DEF RecordSize
<1>4. \A i \in 1..MaxPackets, n \in Lens : [id |-> i, len |-> n] \in Packet
  BY DEF Packet
<1>5. QED  BY <1>1, <1>2, <1>3, <1>4

-------------------------------------------------------------------------------
(* The inductive invariant holds initially and is kept by every step.      *)

LEMMA InitInv == Init => IInv
<1> SUFFICES ASSUME Init  PROVE IInv
  OBVIOUS
<1> USE DEF Init
<1>1. MaxPackets \in Nat /\ QueueDepth \in Nat
  BY BatchedAssumption
<1>2. /\ <<>> \in Seq(Packet) /\ Len(<<>>) = 0
      /\ <<>> \in Seq(Seq(Packet))
      /\ 0 \in 0..MaxPackets
  BY <1>1
<1>3. TypeOK
  <2>1. queue \in Seq(Packet) /\ Len(queue) <= QueueDepth /\ batch \in Seq(Packet) /\ rx \in Seq(Packet)
    BY <1>1, <1>2
  <2>2. wire \in Seq(Seq(Packet))
    BY <1>2
  <2>3. QED  BY <1>1, <1>2, <2>1, <2>2 DEF TypeOK, PC
<1>4. DOMAIN <<>> = {}
  OBVIOUS
<1>5. SendingOrder
  BY <1>4 DEF SendingOrder, Increasing, Within, Below
<1>6. ReceivingOrder
  BY <1>4 DEF ReceivingOrder, Increasing, Within, Below
<1>7. StopOrder
  BY DEF StopOrder
<1>8. QED  BY <1>3, <1>5, <1>6, <1>7 DEF IInv

(* Starting and stopping touch neither packets nor counters.               *)
LEMMA ControlInv ==
  ASSUME IInv, Start \/ Stop \/ LoopTop \/ DrainEnds \/ LingerEnds
  PROVE  IInv'
<1> USE DEF IInv, sender, receiver
<1>1. /\ UNCHANGED <<sent, accepted, queue, batch, size, handed, late, wire, receiver>>
      /\ running' \in BOOLEAN /\ pc' \in PC
      /\ pc \in {"drain", "linger", "flush"} <=> pc' \in {"drain", "linger", "flush"}
      /\ running' => late = 0
      /\ pc' = "idle" => pc = "idle"
      /\ pc \in {"top", "exit"} /\ late = 1 => pc' \in {"top", "exit"}
  <2> USE DEF TypeOK, PC, StopOrder
  <2>1. CASE Start  BY <2>1 DEF Start
  <2>2. CASE Stop  BY <2>2 DEF Stop
  <2>3. CASE LoopTop  BY <2>3 DEF LoopTop
  <2>4. CASE DrainEnds  BY <2>4 DEF DrainEnds
  <2>5. CASE LingerEnds  BY <2>5 DEF LingerEnds
  <2>6. QED  BY <2>1, <2>2, <2>3, <2>4, <2>5
<1>2. TypeOK'
  BY <1>1 DEF TypeOK
<1>3. SendingOrder'
  BY <1>1 DEF SendingOrder, Increasing, Within, Below
<1>4. ReceivingOrder'
  BY <1>1 DEF ReceivingOrder, Increasing, Within, Below
<1>5. StopOrder'
  BY <1>1 DEF StopOrder
<1>6. QED  BY <1>2, <1>3, <1>4, <1>5

(* Send appends the highest number so far.                                 *)
LEMMA SendInv ==
  ASSUME IInv, NEW n \in Lens, Send(n)
  PROVE  IInv'
<1> USE DEF IInv, sender, receiver
<1> DEFINE p == [id |-> sent + 1, len |-> n]
<1>1. /\ sent \in Nat /\ sent' = sent + 1 /\ sent' \in 1..MaxPackets /\ handed \in Nat
      /\ MaxPackets \in Nat
      /\ UNCHANGED <<running, pc, batch, size, handed, late, wire, receiver>>
  BY BatchedAssumption DEF Send, TypeOK
<1>2. p \in Packet /\ p.id = sent + 1
  BY <1>1, PacketType
<1>3. accepted' \in SUBSET (1..MaxPackets)
  BY <1>1 DEF Send, TypeOK
<1>4. \A s \in Seq(Packet) : Within(s, handed, sent) => Within(s, handed, sent')
  <2>1. \A q \in Packet : q.id \in Nat
    BY <1>1, PacketType
  <2>2. \A s \in Seq(Packet) : \A i \in DOMAIN s : s[i].id \in Nat
    BY <2>1, ElementOfSeq
  <2>3. QED  BY <1>1, <2>2 DEF Within
<1>5. /\ queue' \in Seq(Packet) /\ Len(queue') <= QueueDepth
      /\ Increasing(queue') /\ Within(queue', handed, sent')
      /\ Below(batch, queue')
  <2>1. CASE HasSlot
    <3>1. queue' = Append(queue, p)
      BY <2>1 DEF Send
    <3>2. /\ queue \in Seq(Packet) /\ Increasing(queue) /\ Within(queue, handed, sent')
          /\ Within(batch, handed, sent) /\ Below(batch, queue)
      BY <1>4 DEF TypeOK, SendingOrder
    <3>3. handed < p.id /\ p.id <= sent' /\ \A i \in DOMAIN queue : queue[i].id < p.id
      <4>1. \A i \in DOMAIN queue : queue[i].id <= sent /\ queue[i] \in Packet
        BY ElementOfSeq DEF SendingOrder, TypeOK, Within
      <4>2. \A i \in DOMAIN queue : queue[i].id \in Nat
        BY <4>1, PacketType, <1>1
      <4>3. QED  BY <1>1, <1>2, <4>1, <4>2 DEF SendingOrder
    <3>4. /\ Append(queue, p) \in Seq(Packet) /\ Len(Append(queue, p)) = Len(queue) + 1
          /\ Increasing(Append(queue, p)) /\ Within(Append(queue, p), handed, sent')
      BY <1>1, <1>2, <3>2, <3>3, AppendFacts
    <3>5. Len(queue') <= QueueDepth
      BY <2>1, <3>1, <3>2, <3>4, BatchedAssumption DEF HasSlot
    <3>6. Below(batch, queue')
      <4>1. /\ \A i \in 1..Len(queue) : Append(queue, p)[i] = queue[i]
            /\ Append(queue, p)[Len(queue) + 1] = p
            /\ DOMAIN Append(queue, p) = 1..(Len(queue) + 1)
            /\ DOMAIN queue = 1..Len(queue)
        BY <1>2, <3>2, AppendProperties
      <4>2. \A i \in DOMAIN batch : batch[i].id <= sent /\ batch[i].id \in Nat
        BY <1>1, <3>2, ElementOfSeq, PacketType DEF Within, TypeOK
      <4>3. \A i \in DOMAIN batch : batch[i].id < p.id
        BY <1>1, <1>2, <4>2
      <4>4. QED  BY <3>1, <3>2, <4>1, <4>3 DEF Below
    <3>7. QED  BY <3>1, <3>4, <3>5, <3>6
  <2>2. CASE ~HasSlot
    BY <2>2, <1>4 DEF Send, TypeOK, SendingOrder
  <2>3. QED  BY <2>1, <2>2
<1>6. TypeOK'
  BY <1>1, <1>3, <1>5 DEF TypeOK
<1>7. SendingOrder'
  <2>1. Within(batch, handed, sent')
    BY <1>4 DEF SendingOrder, TypeOK
  <2>2. Increasing(batch) /\ handed <= sent'
    BY <1>1 DEF SendingOrder
  <2>3. QED  BY <1>1, <1>5, <2>1, <2>2 DEF SendingOrder
<1>8. ReceivingOrder'
  BY <1>1 DEF ReceivingOrder
<1>9. StopOrder'
  BY <1>1 DEF StopOrder
<1>10. QED  BY <1>6, <1>7, <1>8, <1>9

(* Moving the head of the queue to the end of the batch.                   *)
LEMMA MoveFacts ==
  ASSUME IInv, queue # <<>>
  PROVE  /\ Head(queue) \in Packet /\ Tail(queue) \in Seq(Packet)
         /\ Len(Tail(queue)) <= QueueDepth
         /\ RecordSize(Head(queue)) \in Nat
         /\ Increasing(Tail(queue)) /\ Within(Tail(queue), handed, sent)
         /\ Append(batch, Head(queue)) \in Seq(Packet)
         /\ Append(batch, Head(queue)) # <<>>
         /\ Increasing(Append(batch, Head(queue)))
         /\ Within(Append(batch, Head(queue)), handed, sent)
         /\ Below(Append(batch, Head(queue)), Tail(queue))
<1> USE DEF IInv
<1> DEFINE p == Head(queue)
<1>1. /\ queue \in Seq(Packet) /\ batch \in Seq(Packet)
      /\ handed \in Int /\ sent \in Int /\ Len(queue) <= QueueDepth
      /\ Increasing(queue) /\ Within(queue, handed, sent)
      /\ Increasing(batch) /\ Within(batch, handed, sent) /\ Below(batch, queue)
  BY BatchedAssumption DEF TypeOK, SendingOrder
<1>2. /\ p \in Packet /\ p = queue[1] /\ Tail(queue) \in Seq(Packet)
      /\ Len(Tail(queue)) = Len(queue) - 1
      /\ Increasing(Tail(queue)) /\ handed < p.id /\ p.id <= sent
      /\ Within(Tail(queue), p.id, sent) /\ Within(Tail(queue), handed, sent)
  BY <1>1, TailFacts
<1>3. Len(Tail(queue)) <= QueueDepth
  BY <1>1, <1>2, BatchedAssumption
<1>4. 1 \in DOMAIN queue
  BY <1>1
<1>5. \A i \in DOMAIN batch : batch[i].id < p.id
  BY <1>1, <1>2, <1>4 DEF Below
<1>6. /\ Append(batch, p) \in Seq(Packet) /\ Append(batch, p) # <<>>
      /\ Increasing(Append(batch, p)) /\ Within(Append(batch, p), handed, sent)
  BY <1>1, <1>2, <1>5, AppendFacts
<1>7. Below(Append(batch, p), Tail(queue))
  <2>1. /\ DOMAIN Append(batch, p) = 1..(Len(batch) + 1)
        /\ DOMAIN batch = 1..Len(batch)
        /\ DOMAIN Tail(queue) = 1..Len(Tail(queue))
        /\ \A i \in 1..Len(batch) : Append(batch, p)[i] = batch[i]
        /\ Append(batch, p)[Len(batch) + 1] = p
        /\ Len(batch) \in Nat
    BY <1>1, <1>2, <1>6, AppendProperties
  <2>2. \A i \in 1..Len(Tail(queue)) : Tail(queue)[i] = queue[i + 1] /\ i + 1 \in DOMAIN queue
    BY <1>1, <1>2, HeadTailProperties
  <2>3. \A i \in DOMAIN batch, j \in DOMAIN Tail(queue) : batch[i].id < Tail(queue)[j].id
    BY <1>1, <2>1, <2>2 DEF Below
  <2>4. \A j \in DOMAIN Tail(queue) : p.id < Tail(queue)[j].id
    BY <1>2 DEF Within
  <2>5. QED  BY <2>1, <2>3, <2>4 DEF Below
<1>8. QED  BY <1>2, <1>3, <1>6, <1>7, PacketType

LEMMA AbsorbInv ==
  ASSUME IInv, Absorb
  PROVE  IInv'
<1> USE DEF IInv, sender, receiver
<1>1. /\ queue # <<>> /\ pc \in {"drain", "linger"}
      /\ batch' = Append(batch, Head(queue)) /\ queue' = Tail(queue)
      /\ size' = size + RecordSize(Head(queue))
      /\ UNCHANGED <<sent, accepted, running, pc, handed, late, wire, receiver>>
  BY DEF Absorb
<1>2. TypeOK'
  <2>1. batch' \in Seq(Packet) /\ queue' \in Seq(Packet) /\ Len(queue') <= QueueDepth
    BY <1>1, MoveFacts DEF TypeOK
  <2>2. size' \in Nat
    <3>1. size \in Nat /\ RecordSize(Head(queue)) \in Nat
      BY <1>1, MoveFacts DEF TypeOK
    <3>2. QED  BY <1>1, <3>1
  <2>3. QED  BY <1>1, <2>1, <2>2 DEF TypeOK
<1>3. SendingOrder'
  BY <1>1, MoveFacts DEF SendingOrder
<1>4. ReceivingOrder'
  BY <1>1 DEF ReceivingOrder
<1>5. StopOrder'
  BY <1>1 DEF StopOrder
<1>6. QED  BY <1>2, <1>3, <1>4, <1>5

LEMMA TakeFirstInv ==
  ASSUME IInv, TakeFirst
  PROVE  IInv'
<1> USE DEF IInv, sender, receiver
<1>1. batch = <<>>
  BY DEF TakeFirst, SendingOrder
<1>2. Append(batch, Head(queue)) = <<Head(queue)>>
  BY <1>1
<1>3. /\ queue # <<>> /\ pc = "first" /\ pc' = "drain"
      /\ batch' = Append(batch, Head(queue)) /\ queue' = Tail(queue)
      /\ size' = RecordSize(Head(queue))
      /\ UNCHANGED <<sent, accepted, running, handed, late, wire, receiver>>
  BY <1>2 DEF TakeFirst
<1>4. TypeOK'
  BY <1>3, MoveFacts DEF TypeOK, PC
<1>5. SendingOrder'
  BY <1>3, MoveFacts DEF SendingOrder
<1>6. ReceivingOrder'
  BY <1>3 DEF ReceivingOrder
<1>7. StopOrder'
  BY <1>3 DEF StopOrder
<1>8. QED  BY <1>4, <1>5, <1>6, <1>7

(* A flush closes the interval of the batch: handed moves to its last id,  *)
(* below everything still queued, and the frame joins the end of the wire. *)
LEMMA FlushInv ==
  ASSUME IInv, NEW taken \in BOOLEAN, Flush(taken)
  PROVE  IInv'
<1> USE DEF IInv, sender, receiver
<1> DEFINE top == Last(batch).id
<1>1. /\ pc = "flush" /\ pc' = "top" /\ batch' = <<>> /\ size' = 0
      /\ handed' = top /\ wire' = (IF taken THEN Append(wire, batch) ELSE wire)
      /\ late' = (IF running THEN late ELSE late + 1)
      /\ UNCHANGED <<sent, accepted, queue, running, receiver>>
  BY DEF Flush
<1>2. /\ batch \in Seq(Packet) /\ batch # <<>> /\ Increasing(batch)
      /\ Within(batch, handed, sent) /\ Below(batch, queue)
      /\ handed \in Int /\ sent \in Int /\ last \in Int /\ last <= handed
      /\ wire \in Seq(Seq(Packet)) /\ queue \in Seq(Packet) /\ rx \in Seq(Packet)
      /\ Within(queue, handed, sent)
  BY <1>1, BatchedAssumption DEF TypeOK, SendingOrder, ReceivingOrder
<1>3. /\ Last(batch) \in Packet /\ handed < top /\ top <= sent
      /\ Within(batch, handed, top)
  BY <1>2, LastFacts
<1>4. PICK m \in DOMAIN batch : Last(batch) = batch[m]
  BY <1>2, LastFacts
<1>5. top \in 1..MaxPackets
  BY <1>3, PacketType
<1>6. \A s \in Seq(Packet), lo \in Int : Within(s, lo, handed) => Within(s, lo, top)
  <2>1. \A s \in Seq(Packet) : \A i \in DOMAIN s : s[i].id \in Int
    BY ElementOfSeq, PacketType
  <2>2. QED  BY <1>2, <1>3, <1>5, <2>1 DEF Within
<1>7. TypeOK'
  <2>1. Append(wire, batch) \in Seq(Seq(Packet))
    BY <1>2, AppendProperties
  <2>2. <<>> \in Seq(Packet)
    OBVIOUS
  <2>3. /\ wire' \in Seq(Seq(Packet)) /\ late' \in Nat /\ pc' \in PC /\ handed' \in 0..MaxPackets
    BY <1>1, <1>2, <1>5, <2>1 DEF TypeOK, PC
  <2>4. QED  BY <1>1, <2>2, <2>3 DEF TypeOK
<1>8. SendingOrder'
  <2>1. Within(queue, top, sent)
    BY <1>2, <1>4 DEF Within, Below
  <2>2. DOMAIN <<>> = {}
    OBVIOUS
  <2>3. Increasing(<<>>) /\ Within(<<>>, top, sent) /\ Below(<<>>, queue)
    BY <2>2 DEF Increasing, Within, Below
  <2>4. QED  BY <1>1, <1>3, <2>1, <2>3 DEF SendingOrder
<1>9. ReceivingOrder'
  <2>1. last <= top
    BY <1>2, <1>3, <1>5
  <2>2. Within(rx, last, top) /\ Increasing(rx)
    BY <1>2, <1>6 DEF ReceivingOrder
  <2>3. \A k \in DOMAIN wire :
          wire[k] \in Seq(Packet) /\ Within(wire[k], last, handed) /\ Within(wire[k], last, top)
          /\ Increasing(wire[k]) /\ Below(rx, wire[k])
    BY <1>2, <1>6, ElementOfSeq DEF ReceivingOrder
  <2>4. \A s \in Seq(Packet), lo \in Int : Within(s, lo, handed) => Below(s, batch)
    <3>1. \A s \in Seq(Packet) : \A i \in DOMAIN s : s[i].id \in Int
      BY ElementOfSeq, PacketType
    <3>2. QED  BY <1>2, <3>1 DEF Within, Below
  <2>5. /\ Below(rx, batch) /\ \A k \in DOMAIN wire : Below(wire[k], batch)
    BY <1>2, <2>3, <2>4 DEF ReceivingOrder
  <2>6. Within(batch, last, top)
    <3>1. \A i \in DOMAIN batch : batch[i].id \in Int
      BY <1>2, ElementOfSeq, PacketType
    <3>2. QED  BY <1>2, <1>3, <3>1 DEF Within
  <2>7. CASE taken
    <3>1. /\ DOMAIN wire = 1..Len(wire) /\ Len(wire) \in Nat
          /\ DOMAIN wire' = 1..(Len(wire) + 1)
          /\ \A k \in 1..Len(wire) : wire'[k] = wire[k]
          /\ wire'[Len(wire) + 1] = batch
      BY <1>1, <1>2, <2>7, AppendProperties
    <3>2. \A k \in 1..(Len(wire) + 1) : k \in 1..Len(wire) \/ k = Len(wire) + 1
      BY <3>1
    <3>3. \A k \in DOMAIN wire' :
            Increasing(wire'[k]) /\ Within(wire'[k], last, top) /\ Below(rx, wire'[k])
      BY <1>2, <2>3, <2>5, <2>6, <3>1, <3>2
    <3>4. \A k, l \in DOMAIN wire : k < l => Below(wire[k], wire[l])
      BY DEF ReceivingOrder
    <3>5. \A k, l \in DOMAIN wire' : k < l => Below(wire'[k], wire'[l])
      BY <2>5, <3>1, <3>2, <3>4
    <3>6. QED  BY <1>1, <2>1, <2>2, <3>3, <3>5 DEF ReceivingOrder
  <2>8. CASE ~taken
    BY <1>1, <2>1, <2>2, <2>3, <2>8 DEF ReceivingOrder
  <2>9. QED  BY <2>7, <2>8
<1>10. StopOrder'
  BY <1>1 DEF StopOrder, TypeOK
<1>11. QED  BY <1>7, <1>8, <1>9, <1>10

(* Losing the first frame keeps the rest in order.                         *)
LEMMA WireTail ==
  ASSUME IInv, wire # <<>>
  PROVE  /\ Head(wire) \in Seq(Packet) /\ Tail(wire) \in Seq(Seq(Packet))
         /\ Increasing(Head(wire)) /\ Within(Head(wire), last, handed)
         /\ \A k \in DOMAIN Tail(wire) :
              /\ Increasing(Tail(wire)[k]) /\ Within(Tail(wire)[k], last, handed)
              /\ Below(rx, Tail(wire)[k]) /\ Below(Head(wire), Tail(wire)[k])
         /\ \A k, l \in DOMAIN Tail(wire) : k < l => Below(Tail(wire)[k], Tail(wire)[l])
<1>1. wire \in Seq(Seq(Packet))
  BY DEF IInv, TypeOK
<1>2. /\ Head(wire) \in Seq(Packet) /\ Tail(wire) \in Seq(Seq(Packet))
      /\ Head(wire) = wire[1] /\ 1 \in DOMAIN wire
      /\ DOMAIN wire = 1..Len(wire) /\ DOMAIN Tail(wire) = 1..(Len(wire) - 1)
      /\ \A k \in DOMAIN Tail(wire) : Tail(wire)[k] = wire[k + 1]
  BY <1>1, HeadTailProperties
<1>3. \A k \in DOMAIN Tail(wire) : k + 1 \in DOMAIN wire /\ 1 < k + 1
  BY <1>1, <1>2
<1>4. \A k, l \in DOMAIN Tail(wire) : k < l => k + 1 < l + 1
  BY <1>1, <1>2
<1>5. QED  BY <1>2, <1>3, <1>4 DEF IInv, ReceivingOrder

LEMMA WireInv ==
  ASSUME IInv, LoseFrame \/ Register \/ Arrive
  PROVE  IInv'
<1> USE DEF sender, receiver
<1>1. CASE LoseFrame
  <2>1. wire # <<>> /\ wire' = Tail(wire) /\ UNCHANGED <<sender, receiver>>
    BY <1>1 DEF LoseFrame
  <2>2. TypeOK' /\ SendingOrder' /\ StopOrder'
    BY <2>1, WireTail DEF IInv, TypeOK, SendingOrder, StopOrder
  <2>3. ReceivingOrder'
    BY <2>1, WireTail DEF IInv, ReceivingOrder
  <2>4. QED  BY <2>2, <2>3 DEF IInv
<1>2. CASE Register
  BY <1>2 DEF Register, IInv, TypeOK, SendingOrder, ReceivingOrder, StopOrder
<1>3. CASE Arrive
  <2>1. /\ wire # <<>> /\ wire' = Tail(wire) /\ UNCHANGED <<sender, registered, last, count>>
        /\ rx' = Head(wire) \/ rx' = <<>>
    BY <1>3 DEF Arrive
  <2>2. /\ rx' \in Seq(Packet) /\ Increasing(rx') /\ Within(rx', last, handed)
        /\ \A k \in DOMAIN Tail(wire) : Below(rx', Tail(wire)[k])
    <3>1. DOMAIN <<>> = {} /\ <<>> \in Seq(Packet)
      OBVIOUS
    <3>2. /\ Increasing(<<>>) /\ Within(<<>>, last, handed)
          /\ \A k \in DOMAIN Tail(wire) : Below(<<>>, Tail(wire)[k])
      BY <3>1 DEF Increasing, Within, Below
    <3>3. QED  BY <2>1, <3>1, <3>2, WireTail
  <2>3. TypeOK' /\ SendingOrder' /\ StopOrder'
    BY <2>1, <2>2, WireTail DEF IInv, TypeOK, SendingOrder, StopOrder
  <2>4. last <= handed
    BY DEF IInv, ReceivingOrder
  <2>5. ReceivingOrder'
    BY <2>1, <2>2, <2>4, WireTail DEF ReceivingOrder
  <2>6. QED  BY <2>3, <2>5 DEF IInv
<1>4. QED  BY <1>1, <1>2, <1>3

(* The callback delivers the lowest number of everything in transit.       *)
LEMMA CallbackInv ==
  ASSUME IInv, Callback
  PROVE  IInv' /\ last < last' /\ last' <= sent
<1> USE DEF sender, receiver
<1>1. /\ rx # <<>> /\ last' = Head(rx).id /\ count' = count + 1 /\ rx' = Tail(rx)
      /\ UNCHANGED <<sender, wire, registered>>
  BY DEF Callback
<1>2. /\ rx \in Seq(Packet) /\ last \in Int /\ handed \in Int /\ sent \in Int /\ handed <= sent
      /\ Increasing(rx) /\ Within(rx, last, handed) /\ wire \in Seq(Seq(Packet))
  BY BatchedAssumption DEF IInv, TypeOK, ReceivingOrder, SendingOrder
<1>3. /\ Head(rx) \in Packet /\ Head(rx) = rx[1] /\ Tail(rx) \in Seq(Packet)
      /\ Increasing(Tail(rx)) /\ last < Head(rx).id /\ Head(rx).id <= handed
      /\ Within(Tail(rx), Head(rx).id, handed)
      /\ 1 \in DOMAIN rx
  BY <1>1, <1>2, TailFacts
<1>4. Head(rx).id \in 1..MaxPackets
  BY <1>3, PacketType
<1>5. TypeOK' /\ SendingOrder' /\ StopOrder'
  BY <1>1, <1>3, <1>4 DEF IInv, TypeOK, SendingOrder, StopOrder
<1>6. \A k \in DOMAIN wire :
        /\ Increasing(wire[k]) /\ Within(wire[k], Head(rx).id, handed)
        /\ Below(Tail(rx), wire[k])
  <2> SUFFICES ASSUME NEW k \in DOMAIN wire
               PROVE  /\ Increasing(wire[k]) /\ Within(wire[k], Head(rx).id, handed)
                      /\ Below(Tail(rx), wire[k])
    OBVIOUS
  <2>1. Increasing(wire[k]) /\ Within(wire[k], last, handed) /\ Below(rx, wire[k])
    BY DEF IInv, ReceivingOrder
  <2>2. Within(wire[k], Head(rx).id, handed)
    BY <1>3, <2>1 DEF Within, Below
  <2>3. \A i \in DOMAIN Tail(rx) : i + 1 \in DOMAIN rx /\ Tail(rx)[i] = rx[i + 1]
    BY <1>1, <1>2, HeadTailProperties
  <2>4. Below(Tail(rx), wire[k])
    BY <2>1, <2>3 DEF Below
  <2>5. QED  BY <2>1, <2>2, <2>4
<1>7. ReceivingOrder'
  BY <1>1, <1>3, <1>4, <1>6 DEF IInv, ReceivingOrder
<1>8. last < last' /\ last' <= sent
  BY <1>1, <1>2, <1>3, <1>4
<1>9. QED  BY <1>5, <1>7, <1>8 DEF IInv

LEMMA StepInv ==
  ASSUME IInv, [Next]_vars
  PROVE  IInv'
<1>1. CASE Next
  <2>1. CASE Start \/ Stop \/ LoopTop \/ DrainEnds \/ LingerEnds  BY <2>1, ControlInv
  <2>2. CASE \E n \in Lens : Send(n)  BY <2>2, SendInv
  <2>3. CASE TakeFirst  BY <2>3, TakeFirstInv
  <2>4. CASE Absorb  BY <2>4, AbsorbInv
  <2>5. CASE \E taken \in BOOLEAN : Flush(taken)  BY <2>5, FlushInv
  <2>6. CASE LoseFrame \/ Register \/ Arrive  BY <2>6, WireInv
  <2>7. CASE Callback  BY <2>7, CallbackInv
  <2>8. QED  BY <1>1, <2>1, <2>2, <2>3, <2>4, <2>5, <2>6, <2>7 DEF Next, FlushLoop
<1>2. CASE UNCHANGED vars
  BY <1>2 DEF vars, sender, receiver, IInv, TypeOK, SendingOrder, ReceivingOrder, StopOrder
<1>3. QED  BY <1>1, <1>2

(* The packets in transit carry strictly increasing numbers in every       *)
(* reachable state (batched.go:80-165).                                    *)
THEOREM InTransitOrdered == Spec => []IInv
BY InitInv, StepInv, PTL DEF Spec

-------------------------------------------------------------------------------
(* What the invariant gives *)

(* Every variable keeps its type and the queue never exceeds               *)
(* batchQueueDepth (batched.go:32-46 and 80-89).                           *)
THEOREM TypeCorrect == Spec => []TypeOK
<1>1. IInv => TypeOK  BY DEF IInv
<1>2. QED  BY <1>1, InTransitOrdered, PTL

(* Stop lets at most one more frame through, whatever the interleaving of  *)
(* Stop, Send and flushLoop (batched.go:72-75 and 115).                    *)
THEOREM StopBounded == Spec => []OneLateFrame
<1>1. IInv => OneLateFrame  BY DEF IInv, StopOrder, OneLateFrame
<1>2. QED  BY <1>1, InTransitOrdered, PTL

(* For every queue depth, batch limit and length of run, the batching      *)
(* layer implements a lossy FIFO channel (batched.go:17-22).               *)
THEOREM ImplementsLossyFifo == Spec => FifoChannel
<1>1. Init => Channel!Init
  BY DEF Init, Channel!Init
<1>2. ASSUME IInv, [Next]_vars  PROVE [Channel!Next]_(Channel!vars)
  <2> USE DEF Channel!Next, Channel!Accept, Channel!Deliver, Channel!vars, sender, receiver
  <2>1. CASE \E n \in Lens : Send(n)
    BY <2>1 DEF Send
  <2>2. CASE Callback
    <3>1. last < last' /\ last' <= sent
      BY <1>2, <2>2, CallbackInv
    <3>2. last \in Nat /\ last' \in Nat /\ sent \in Nat /\ sent' = sent
      BY <1>2, <2>2, CallbackInv, BatchedAssumption DEF IInv, TypeOK, Callback
    <3>3. last' \in (last + 1)..sent
      BY <3>1, <3>2
    <3>4. count' = count + 1
      BY <2>2 DEF Callback
    <3>5. QED  BY <3>2, <3>3, <3>4
  <2>3. CASE Start \/ Stop \/ LoopTop \/ DrainEnds \/ LingerEnds \/ TakeFirst \/ Absorb
    BY <2>3 DEF Start, Stop, LoopTop, DrainEnds, LingerEnds, TakeFirst, Absorb
  <2>4. CASE \E taken \in BOOLEAN : Flush(taken)
    BY <2>4 DEF Flush
  <2>5. CASE LoseFrame \/ Register \/ Arrive
    BY <2>5 DEF LoseFrame, Register, Arrive
  <2>6. CASE UNCHANGED vars
    BY <2>6 DEF vars
  <2>7. QED  BY <1>2, <2>1, <2>2, <2>3, <2>4, <2>5, <2>6 DEF Next, FlushLoop
<1>3. QED
  BY <1>1, <1>2, InTransitOrdered, PTL DEF Spec, FifoChannel, Channel!Spec

-------------------------------------------------------------------------------
(* Nothing forgotten, batches bounded *)

LEMMA IdsAppend ==
  ASSUME NEW s \in Seq(Packet), NEW p \in Packet
  PROVE  Ids(Append(s, p)) = Ids(s) \cup {p.id}
<1>1. /\ DOMAIN Append(s, p) = 1..(Len(s) + 1) /\ DOMAIN s = 1..Len(s) /\ Len(s) \in Nat
      /\ \A i \in 1..Len(s) : Append(s, p)[i] = s[i]
      /\ Append(s, p)[Len(s) + 1] = p
  BY AppendProperties
<1>2. \A i \in 1..(Len(s) + 1) : i \in 1..Len(s) \/ i = Len(s) + 1
  BY <1>1
<1>3. QED  BY <1>1, <1>2 DEF Ids

LEMMA IdsHeadTail ==
  ASSUME NEW s \in Seq(Packet), s # <<>>
  PROVE  Ids(s) = {Head(s).id} \cup Ids(Tail(s))
<1>1. /\ DOMAIN s = 1..Len(s) /\ DOMAIN Tail(s) = 1..(Len(s) - 1) /\ Len(s) \in Nat \ {0}
      /\ \A i \in 1..(Len(s) - 1) : Tail(s)[i] = s[i + 1]
      /\ Head(s) = s[1]
  BY HeadTailProperties
<1>2. \A i \in 1..Len(s) : i = 1 \/ \E j \in 1..(Len(s) - 1) : i = j + 1
  <2> SUFFICES ASSUME NEW i \in 1..Len(s), i # 1
               PROVE  \E j \in 1..(Len(s) - 1) : i = j + 1
    OBVIOUS
  <2>1. i - 1 \in 1..(Len(s) - 1) /\ i = (i - 1) + 1
    BY <1>1
  <2>2. QED  BY <2>1
<1>3. \A i \in 1..Len(s) : s[i] = Head(s) \/ \E j \in 1..(Len(s) - 1) : s[i] = Tail(s)[j]
  BY <1>1, <1>2
<1>4. Ids(s) \subseteq {Head(s).id} \cup Ids(Tail(s))
  <2> SUFFICES ASSUME NEW i \in 1..Len(s)
               PROVE  s[i].id \in {Head(s).id} \cup Ids(Tail(s))
    BY <1>1 DEF Ids
  <2>1. CASE s[i] = Head(s)
    BY <2>1
  <2>2. ASSUME NEW j \in 1..(Len(s) - 1), s[i] = Tail(s)[j]
        PROVE  s[i].id \in Ids(Tail(s))
    BY <1>1, <2>2 DEF Ids
  <2>3. QED  BY <1>3, <2>1, <2>2
<1>5. {Head(s).id} \cup Ids(Tail(s)) \subseteq Ids(s)
  BY <1>1 DEF Ids
<1>6. QED  BY <1>4, <1>5

LEMMA ForgottenStep ==
  ASSUME IInv, NothingForgotten, [Next]_vars
  PROVE  NothingForgotten'
<1> USE DEF sender, receiver
<1>0. /\ queue \in Seq(Packet) /\ batch \in Seq(Packet) /\ accepted \in SUBSET (1..MaxPackets)
      /\ handed \in Nat /\ sent \in Nat /\ handed <= sent
  BY BatchedAssumption DEF IInv, TypeOK, SendingOrder
<1>1. ASSUME NEW n \in Lens, Send(n)  PROVE NothingForgotten'
  <2>1. CASE HasSlot
    <3> DEFINE p == [id |-> sent + 1, len |-> n]
    <3>1. /\ queue' = Append(queue, p) /\ accepted' = accepted \cup {sent + 1}
          /\ UNCHANGED <<batch, handed>>
      BY <1>1, <2>1 DEF Send
    <3>2. p \in Packet /\ p.id = sent + 1
      <4>1. sent + 1 \in 1..MaxPackets
        BY <1>0, <1>1, BatchedAssumption DEF Send
      <4>2. QED  BY <4>1, PacketType
    <3>3. Ids(queue') = Ids(queue) \cup {sent + 1}
      BY <1>0, <3>1, <3>2, IdsAppend
    <3>4. {q \in accepted' : q > handed} = {q \in accepted : q > handed} \cup {sent + 1}
      BY <1>0, <3>1
    <3>5. QED  BY <3>1, <3>3, <3>4 DEF NothingForgotten
  <2>2. CASE ~HasSlot
    BY <1>1, <2>2 DEF Send, NothingForgotten
  <2>3. QED  BY <2>1, <2>2
<1>2. CASE TakeFirst \/ Absorb
  <2>1. /\ queue # <<>> /\ queue' = Tail(queue) /\ UNCHANGED <<accepted, handed>>
        /\ batch' = Append(batch, Head(queue))
    <3>1. CASE Absorb  BY <3>1 DEF Absorb
    <3>2. CASE TakeFirst
      <4>1. batch = <<>>
        BY <3>2 DEF TakeFirst, IInv, SendingOrder
      <4>2. Append(batch, Head(queue)) = <<Head(queue)>>
        BY <4>1
      <4>3. QED  BY <3>2, <4>2 DEF TakeFirst
    <3>3. QED  BY <1>2, <3>1, <3>2
  <2>2. Head(queue) \in Packet
    BY <1>0, <2>1, HeadTailProperties
  <2>3. /\ Ids(batch') = Ids(batch) \cup {Head(queue).id}
        /\ Ids(queue) = {Head(queue).id} \cup Ids(queue')
    BY <1>0, <2>1, <2>2, IdsAppend, IdsHeadTail
  <2>4. QED  BY <2>1, <2>3 DEF NothingForgotten
<1>3. ASSUME NEW taken \in BOOLEAN, Flush(taken)  PROVE NothingForgotten'
  <2> DEFINE top == Last(batch).id
  <2>1. /\ batch' = <<>> /\ handed' = top /\ UNCHANGED <<queue, accepted>>
        /\ batch # <<>> /\ Increasing(batch) /\ Within(batch, handed, sent)
        /\ Below(batch, queue)
    BY <1>3 DEF Flush, IInv, SendingOrder
  <2>2. /\ handed < top /\ Within(batch, handed, top)
        /\ \E i \in DOMAIN batch : Last(batch) = batch[i]
    BY <1>0, <2>1, LastFacts
  <2>3. top \in Nat
    BY <1>0, <2>1, LastFacts, PacketType
  <2>4. \A p \in Ids(batch) : p <= top
    BY <2>2 DEF Ids, Within
  <2>5. \A p \in Ids(queue) : p > top
    BY <2>1, <2>2 DEF Ids, Below
  <2>6. {p \in accepted : p > top} = Ids(queue)
    <3>1. \A p \in accepted : p > top => p > handed
      BY <1>0, <2>2, <2>3
    <3>2. \A p \in accepted : p > top => p \in Ids(batch) \cup Ids(queue)
      BY <3>1 DEF NothingForgotten
    <3>3. \A p \in accepted : p > top => p \in Ids(queue)
      BY <1>0, <2>3, <2>4, <3>2
    <3>4. \A p \in Ids(queue) : p \in accepted
      BY DEF NothingForgotten
    <3>5. QED  BY <2>5, <3>3, <3>4
  <2>7. Ids(<<>>) = {}
    BY DEF Ids
  <2>8. QED  BY <2>1, <2>6, <2>7 DEF NothingForgotten
<1>4. CASE UNCHANGED <<accepted, handed, batch, queue>>
  BY <1>4 DEF NothingForgotten, Ids
<1>5. CASE \/ Start \/ Stop \/ LoopTop \/ DrainEnds \/ LingerEnds \/ LoseFrame \/ Register
           \/ Arrive \/ Callback \/ UNCHANGED vars
  BY <1>4, <1>5 DEF Start, Stop, LoopTop, DrainEnds, LingerEnds, LoseFrame, Register, Arrive,
                    Callback, vars
<1>6. QED  BY <1>1, <1>2, <1>3, <1>5 DEF Next, FlushLoop

(* An accepted packet stays in the queue or in the batch until it is       *)
(* handed to the inner transport (batched.go:80-89 and 114-165).           *)
THEOREM AcceptedKept == Spec => []NothingForgotten
<1>1. Init => NothingForgotten
  BY DEF Init, NothingForgotten, Ids
<1>2. IInv /\ NothingForgotten /\ [Next]_vars => NothingForgotten'
  BY ForgottenStep
<1>3. QED  BY <1>1, <1>2, InTransitOrdered, PTL DEF Spec

(* Batches respect both limits of the coalescing layer up to one record    *)
(* (batched.go:117-153).                                                   *)
THEOREM BatchesBounded == Spec => []BatchBounded
<1>1. Init => BatchBounded
  BY DEF Init, BatchBounded
<1>2. ASSUME IInv, BatchBounded, [Next]_vars  PROVE BatchBounded'
  <2> USE DEF sender, receiver
  <2>1. MaxBatchBytes \in Nat \ {0} /\ MaxBatchCount \in Nat \ {0}
    BY BatchedAssumption
  <2>2. CASE TakeFirst
    <3>1. /\ batch' = <<Head(queue)>> /\ size' = RecordSize(Head(queue)) /\ queue # <<>>
      BY <2>2 DEF TakeFirst
    <3>2. Len(batch') = 1 /\ Last(batch') = Head(queue) /\ RecordSize(Head(queue)) \in Nat
      BY <1>2, <3>1, MoveFacts DEF Last
    <3>3. QED  BY <2>1, <3>1, <3>2 DEF BatchBounded
  <2>3. CASE Absorb
    <3>1. /\ Room /\ queue # <<>> /\ batch' = Append(batch, Head(queue))
          /\ size' = size + RecordSize(Head(queue))
      BY <2>3 DEF Absorb
    <3>2. batch \in Seq(Packet) /\ Head(queue) \in Packet /\ RecordSize(Head(queue)) \in Nat
          /\ size \in Nat
      BY <1>2, <3>1, MoveFacts DEF IInv, TypeOK
    <3>3. Len(batch') = Len(batch) + 1 /\ Last(batch') = Head(queue) /\ Len(batch) \in Nat
      BY <3>1, <3>2, AppendProperties DEF Last
    <3>4. QED  BY <2>1, <3>1, <3>2, <3>3 DEF BatchBounded, Room
  <2>4. CASE \E taken \in BOOLEAN : Flush(taken)
    BY <2>4 DEF Flush, BatchBounded
  <2>5. CASE UNCHANGED <<batch, size>>
    BY <1>2, <2>5 DEF BatchBounded
  <2>6. CASE \/ Start \/ Stop \/ LoopTop \/ DrainEnds \/ LingerEnds \/ LoseFrame \/ Register
             \/ Arrive \/ Callback \/ UNCHANGED vars \/ \E n \in Lens : Send(n)
    BY <2>5, <2>6 DEF Start, Stop, LoopTop, DrainEnds, LingerEnds, LoseFrame, Register, Arrive,
                      Callback, Send, vars
  <2>7. QED  BY <1>2, <2>2, <2>3, <2>4, <2>6 DEF Next, FlushLoop
<1>3. QED  BY <1>1, <1>2, InTransitOrdered, PTL DEF Spec
================================================================================
