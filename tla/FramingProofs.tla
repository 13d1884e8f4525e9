---------------------------- MODULE FramingProofs ----------------------------
(***************************************************************************)
(* framing.go is correct for every batch of packets, of any length, and    *)
(* for every cut: the proof follows the records, whose offsets the         *)
(* auxiliary variable start remembers, instead of an induction over the    *)
(* frame.  A packet longer than its length field can say makes the decoder *)
(* lose its place from there on, and nothing is claimed of what follows.   *)
(***************************************************************************)
EXTENDS Framing, SequenceTheorems, TLAPS

(* Lengths and counters of the state, as numbers.                          *)
LEMMA Lengths ==
  ASSUME IInv
  PROVE  /\ Len(batch) \in Nat /\ Len(framed) \in Nat /\ Len(start) \in Nat /\ Len(out) \in Nat
         /\ pos \in Nat /\ arrived \in Nat /\ arrived <= Len(framed)
         /\ Len(start) >= 1 /\ Len(start) <= Len(batch) + 1
         /\ start[1] = 0 /\ start[Len(start)] = Len(framed)
<1>1. TypeOK /\ Framed /\ Decoded
  BY DEF IInv
<1>2. Len(batch) \in Nat /\ Len(framed) \in Nat /\ Len(start) \in Nat /\ Len(out) \in Nat
  BY <1>1 DEF TypeOK
<1> QED
  BY <1>1, <1>2 DEF TypeOK, Framed, Decoded

(* The sequences of the state and their domains.                           *)
LEMMA SequenceTypes ==
  ASSUME IInv
  PROVE  /\ batch \in Seq(Packets) /\ DOMAIN batch = 1..Len(batch)
         /\ framed \in Seq(Byte) /\ DOMAIN framed = 1..Len(framed)
         /\ start \in Seq(Nat) /\ DOMAIN start = 1..Len(start)
         /\ out \in Seq(Seq(Byte)) /\ DOMAIN out = 1..Len(out)
  BY DEF IInv, TypeOK

(* The records of the frame and where they start.                          *)
LEMMA Records ==
  ASSUME IInv
  PROVE  /\ \A i \in 1..Len(start) : start[i] \in Nat /\ start[i] <= Len(framed)
         /\ \A i \in 1..(Len(start) - 1) : Record(i)
<1>1. Framed
  BY DEF IInv
<1>2. \A i \in 1..Len(start) : start[i] \in Nat
  BY SequenceTypes, ElementOfSeq
<1> QED
  BY <1>1, <1>2, SequenceTypes DEF Framed

(* The packets of the batch are sequences of bytes.                        *)
LEMMA PacketFacts ==
  ASSUME IInv, NEW i \in 1..Len(batch)
  PROVE  batch[i] \in Seq(Byte) /\ Len(batch[i]) \in Nat
<1>1. batch[i] \in Packets
  BY SequenceTypes, ElementOfSeq
<1> QED
  BY <1>1, FramingAssumption

(* Division by a positive number.                                          *)
LEMMA DivMod ==
  ASSUME NEW n \in Nat, NEW d \in Nat, d >= 1
  PROVE  /\ n \div d \in Nat /\ n % d \in 0..(d - 1)
         /\ n = d * (n \div d) + (n % d)
  OBVIOUS

(* What a length field says of a length: never more, the length itself     *)
(* when it fits.                                                           *)
LEMMA LengthFacts ==
  ASSUME NEW n \in Nat
  PROVE  /\ LengthRange \in Nat /\ LengthRange >= 1
         /\ n % LengthRange \in Nat /\ n % LengthRange < LengthRange
         /\ n % LengthRange <= n
         /\ n < LengthRange => n % LengthRange = n
<1>1. LengthRange \in Nat /\ LengthRange >= 1
  <2>1. Base \in Nat /\ Base >= 2
    BY FramingAssumption
  <2> QED
    BY <2>1 DEF LengthRange
<1> DEFINE d == LengthRange
           q == n \div d
           r == n % d
<1>2. q \in Nat /\ r \in 0..(d - 1) /\ n = d * q + r /\ d \in Nat
  BY <1>1, DivMod
<1>3. n < d => n % d = n
  BY <1>1
<1> HIDE DEF d, q, r
<1>4. d * q \in Nat
  BY <1>2
<1>5. r \in Nat /\ r < d /\ r <= n
  BY <1>2, <1>4
<1> QED
  BY <1>1, <1>3, <1>5 DEF d, r

(* A length is put into two bytes that give back what fits into them.      *)
LEMMA Uint16Facts ==
  ASSUME NEW n \in Nat
  PROVE  /\ PutUint16(n) \in Seq(Byte) /\ Len(PutUint16(n)) = 2
         /\ PutUint16(n)[1] * Base + PutUint16(n)[2] = n % LengthRange
<1> DEFINE m == n % LengthRange
           q == m \div Base
           r == m % Base
<1>1. m \in Nat /\ m < Base * Base
  BY LengthFacts DEF LengthRange
<1>2. Base \in Nat /\ Base >= 2
  BY FramingAssumption
<1> HIDE DEF m
<1>3. q \in Nat /\ r \in 0..(Base - 1) /\ m = Base * q + r
  <2>1. Base \in Nat /\ Base >= 1 /\ m \in Nat
    BY <1>1, <1>2
  <2> QED
    BY <2>1, DivMod, Zenon
<1> HIDE DEF q, r
<1>4. q < Base
  <2>1. SUFFICES ASSUME q >= Base PROVE FALSE
    BY <1>2, <1>3
  <2>2. Base * q >= Base * Base
    BY <1>2, <1>3, <2>1
  <2>3. Base * q \in Nat /\ Base * Base \in Nat /\ r \in Nat
    BY <1>2, <1>3
  <2> QED
    BY <1>1, <1>3, <2>2, <2>3
<1>5. q \in Byte /\ r \in Byte
  BY <1>2, <1>3, <1>4 DEF Byte
<1>6. PutUint16(n) = <<q, r>>
  BY DEF PutUint16, q, r, m
<1>7. q * Base + r = m
  BY <1>2, <1>3
<1> QED
  BY <1>5, <1>6, <1>7 DEF m

(* A record stays what it is when the bytes it covers do.                  *)
LEMMA RecordKept ==
  ASSUME NEW i \in Nat, Record(i), batch'[i] = batch[i],
         start'[i] = start[i], start'[i + 1] = start[i + 1],
         framed'[start[i] + 1] = framed[start[i] + 1],
         framed'[start[i] + 2] = framed[start[i] + 2],
         \A j \in 1..Len(batch[i]) : framed'[start[i] + 2 + j] = framed[start[i] + 2 + j]
  PROVE  Record(i)'
<1>1. Uint16(start[i])' = Uint16(start[i])
  BY DEF Uint16
<1> QED
  BY <1>1 DEF Record

(* frameBatch appends the record of a packet behind those it has written.  *)
LEMMA FrameRecordStep ==
  ASSUME IInv, FrameRecord
  PROVE  IInv'
<1> DEFINE k == Len(start)
           p == batch[k]
           u == PutUint16(Len(p))
           prefix == framed \o u
<1>1. /\ k \in 1..Len(batch) /\ pc = "frame"
      /\ framed' = prefix \o p /\ start' = Append(start, Len(framed'))
      /\ UNCHANGED <<batch, compressed, arrived, intact, pos, out, pc>>
  BY Lengths DEF FrameRecord
<1>2. p \in Seq(Byte) /\ Len(p) \in Nat
  BY <1>1, PacketFacts
<1>3. u \in Seq(Byte) /\ Len(u) = 2 /\ u[1] * Base + u[2] = Len(p) % LengthRange
  BY <1>2, Uint16Facts
<1>20. k \in Nat /\ k >= 1 /\ k <= Len(batch) /\ start[k] = Len(framed) /\ batch[k] = p
  BY <1>1, Lengths
<1>21. framed \in Seq(Byte) /\ Len(framed) \in Nat
  BY SequenceTypes, Lengths
<1> HIDE DEF p, u
<1>4. /\ prefix \in Seq(Byte) /\ Len(prefix) = Len(framed) + 2
      /\ \A i \in 1..(Len(framed) + 2) :
           prefix[i] = IF i <= Len(framed) THEN framed[i] ELSE u[i - Len(framed)]
  <2>1. /\ framed \o u \in Seq(Byte)
        /\ Len(framed \o u) = Len(framed) + Len(u)
        /\ \A i \in 1..(Len(framed) + Len(u)) :
             (framed \o u)[i] = IF i <= Len(framed) THEN framed[i] ELSE u[i - Len(framed)]
    <3>1. u \in Seq(Byte) /\ framed \in Seq(Byte)
      BY <1>3, <1>21
    <3> QED
      BY <3>1, ConcatProperties
  <2> QED
    BY <1>3, <2>1
<1> HIDE DEF prefix
<1>5. /\ framed' \in Seq(Byte) /\ Len(framed') = Len(framed) + 2 + Len(p)
      /\ \A i \in 1..(Len(framed) + 2 + Len(p)) :
           framed'[i] = IF i <= Len(framed) + 2 THEN prefix[i]
                        ELSE p[i - (Len(framed) + 2)]
  <2>1. /\ prefix \o p \in Seq(Byte)
        /\ Len(prefix \o p) = Len(prefix) + Len(p)
        /\ \A i \in 1..(Len(prefix) + Len(p)) :
             (prefix \o p)[i] = IF i <= Len(prefix) THEN prefix[i] ELSE p[i - Len(prefix)]
    <3>1. prefix \in Seq(Byte) /\ p \in Seq(Byte)
      BY <1>2, <1>4
    <3> QED
      BY <3>1, ConcatProperties
  <2> QED
    BY <1>1, <1>4, <2>1
<1>6. /\ \A i \in 1..Len(framed) : framed'[i] = framed[i]
      /\ framed'[Len(framed) + 1] = u[1] /\ framed'[Len(framed) + 2] = u[2]
      /\ \A j \in 1..Len(p) : framed'[Len(framed) + 2 + j] = p[j]
  <2>1. \A i \in 1..Len(framed) : framed'[i] = framed[i]
    BY <1>2, <1>4, <1>5, <1>21
  <2>2. framed'[Len(framed) + 1] = u[1] /\ framed'[Len(framed) + 2] = u[2]
    BY <1>2, <1>4, <1>5, <1>21
  <2>3. \A j \in 1..Len(p) : framed'[Len(framed) + 2 + j] = p[j]
    <3>1. TAKE j \in 1..Len(p)
    <3>2. /\ Len(framed) + 2 + j \in 1..(Len(framed) + 2 + Len(p))
          /\ ~(Len(framed) + 2 + j <= Len(framed) + 2)
          /\ Len(framed) + 2 + j - (Len(framed) + 2) = j
      BY <1>2, <1>21
    <3> QED
      BY <1>5, <3>2
  <2> QED
    BY <2>1, <2>2, <2>3
<1>7. /\ start' \in Seq(Nat) /\ Len(start') = k + 1 /\ DOMAIN start' = 1..(k + 1)
      /\ \A i \in 1..k : start'[i] = start[i]
      /\ start'[k + 1] = Len(framed')
  <2>1. Len(framed') \in Nat
    BY <1>2, <1>5, <1>21
  <2> QED
    BY <1>1, <2>1, SequenceTypes, AppendProperties
<1> HIDE DEF k
<1>8. TypeOK'
  BY <1>1, <1>5, <1>7 DEF IInv, TypeOK
<1>9. \A i \in 1..k : Record(i)'
  <2>1. TAKE i \in 1..k
  <2>2. CASE i = k
    <3>1. /\ start'[i] = Len(framed) /\ start'[i + 1] = Len(framed) + 2 + Len(p)
      BY <1>5, <1>7, <1>20, <2>2
    <3>2. batch'[i] = p
      BY <1>1, <1>20, <2>2
    <3>3. Uint16(start[i])' = Len(p) % LengthRange
      BY <1>3, <1>6, <3>1 DEF Uint16
    <3> QED
      BY <1>6, <3>1, <3>2, <3>3 DEF Record
  <2>3. CASE i # k
    <3>1. i \in 1..(k - 1) /\ i + 1 \in 1..k /\ i \in 1..Len(batch)
      BY <1>20, <2>3, Lengths
    <3>2. Record(i) /\ start'[i] = start[i] /\ start'[i + 1] = start[i + 1]
      BY <1>7, <3>1, Records DEF k
    <3>3. batch'[i] = batch[i] /\ Len(batch[i]) \in Nat
      BY <1>1, <3>1, PacketFacts
    <3>4. /\ start[i] \in Nat /\ start[i + 1] = start[i] + 2 + Len(batch[i])
          /\ start[i + 1] <= Len(framed)
      BY <3>1, <3>2, Records DEF Record, k
    <3>5. /\ start[i] + 1 \in 1..Len(framed) /\ start[i] + 2 \in 1..Len(framed)
          /\ \A j \in 1..Len(batch[i]) : start[i] + 2 + j \in 1..Len(framed)
      <4> DEFINE here == start[i]
                 next == start[i + 1]
                 size == Len(batch[i])
                 end == Len(framed)
      <4>1. /\ here \in Nat /\ size \in Nat /\ end \in Nat
            /\ next = here + 2 + size /\ next <= end
        BY <1>21, <3>3, <3>4
      <4> HIDE DEF here, next, size, end
      <4>2. /\ here + 1 \in 1..end /\ here + 2 \in 1..end
            /\ \A j \in 1..size : here + 2 + j \in 1..end
        BY <4>1
      <4> QED
        BY <4>2 DEF here, size, end
    <3>6. /\ framed'[start[i] + 1] = framed[start[i] + 1]
          /\ framed'[start[i] + 2] = framed[start[i] + 2]
          /\ \A j \in 1..Len(batch[i]) : framed'[start[i] + 2 + j] = framed[start[i] + 2 + j]
      BY <1>6, <3>5
    <3>7. i \in Nat
      BY <1>20
    <3> QED
      BY <3>2, <3>3, <3>6, <3>7, RecordKept
  <2> QED
    BY <2>2, <2>3
<1>10. Framed'
  <2>1. \A i \in DOMAIN start' : start'[i] <= Len(framed')
    <3>1. TAKE i \in DOMAIN start'
    <3>2. CASE i = k + 1
      BY <1>2, <1>5, <1>7, <1>21, <3>2
    <3>3. CASE i # k + 1
      <4>1. i \in 1..k /\ start'[i] = start[i]
        BY <1>7, <1>20, <3>3
      <4>2. start[i] \in Nat /\ start[i] <= Len(framed)
        BY <4>1, Records DEF k
      <4> QED
        BY <1>2, <1>5, <1>21, <4>1, <4>2
    <3> QED
      BY <3>2, <3>3
  <2>2. start'[1] = 0 /\ start'[Len(start')] = Len(framed')
    BY <1>7, <1>20, Lengths
  <2> QED
    BY <1>1, <1>7, <1>9, <1>20, <2>1, <2>2 DEF Framed
<1>11. Decoded'
  BY <1>1, <1>2, <1>5, Lengths DEF IInv, Decoded
<1> QED
  BY <1>8, <1>10, <1>11 DEF IInv

(* What an iteration of decodeBatch finds at pos as long as every packet   *)
(* so far was as long as its length field said: the next record of the     *)
(* frame, of whose packet it copies out what the length field says.        *)
LEMMA AtRecord ==
  ASSUME IInv, pc \in {"decode", "done"}, pos < Len(framed),
         Len(out) <= Len(batch), Fit(Len(out))
  PROVE  LET k == Len(out) + 1 IN
         /\ k \in 1..Len(batch) /\ batch[k] \in Seq(Byte) /\ Len(batch[k]) \in Nat
         /\ Uint16(pos) = Len(batch[k]) % LengthRange
         /\ start[k + 1] = pos + 2 + Len(batch[k]) /\ start[k + 1] <= Len(framed)
         /\ SubSeq(framed, pos + 3, pos + 2 + Uint16(pos)) = Announced(batch[k])
<1> DEFINE k == Len(out) + 1
<1>1. k \in 1..Len(start) /\ pos = start[k] /\ Len(start) = Len(batch) + 1
  BY Lengths DEF IInv, Decoded, Framed
<1>2. k \in 1..(Len(start) - 1) /\ k \in 1..Len(batch) /\ k + 1 \in 1..Len(start)
  <2>1. k # Len(start)
    BY <1>1, Lengths
  <2> QED
    BY <1>1, <2>1, Lengths
<1>3. batch[k] \in Seq(Byte) /\ Len(batch[k]) \in Nat
  BY <1>2, PacketFacts
<1>4. /\ start[k + 1] = pos + 2 + Len(batch[k])
      /\ Uint16(pos) = Len(batch[k]) % LengthRange
      /\ \A j \in 1..Len(batch[k]) : framed[pos + 2 + j] = batch[k][j]
  BY <1>1, <1>2, Records DEF Record
<1>5. start[k + 1] <= Len(framed)
  BY <1>2, Records
<1>6. SubSeq(framed, pos + 3, pos + 2 + Uint16(pos)) = Announced(batch[k])
  <2> DEFINE p == batch[k]
             l == Len(p) % LengthRange
             m == pos + 3
             n == pos + 2 + Uint16(pos)
             part == SubSeq(framed, m, n)
             whole == SubSeq(p, 1, l)
  <2>1. /\ l \in Nat /\ l <= Len(p) /\ Len(p) \in Nat /\ pos \in Nat
        /\ m = pos + 3 /\ n = pos + 2 + l
        /\ m \in Int /\ n \in Int /\ n <= Len(framed) /\ Len(framed) \in Nat
    <3>1. Len(p) \in Nat /\ Uint16(pos) = l /\ start[k + 1] = pos + 2 + Len(p)
      BY <1>3, <1>4
    <3>2. pos \in Nat /\ Len(framed) \in Nat
      BY Lengths
    <3>3. l \in Nat /\ l <= Len(p)
      BY <3>1, LengthFacts
    <3>4. pos + 2 + Len(p) <= Len(framed)
      BY <1>5, <3>1
    <3> HIDE DEF l, p
    <3> QED
      BY <3>1, <3>2, <3>3, <3>4
  <2>2. p \in Seq(Byte)
    BY <1>3
  <2>3. \A j \in 1..Len(p) : framed[pos + 2 + j] = p[j]
    BY <1>4
  <2> HIDE DEF l, m, n, p
  <2>4. \A i \in m..n : framed[i] \in Byte
    <3>1. \A i \in m..n : i \in 1..Len(framed)
      BY <2>1
    <3> QED
      BY <3>1, SequenceTypes, ElementOfSeq
  <2>5. /\ part \in Seq(Byte) /\ Len(part) = IF m <= n THEN n - m + 1 ELSE 0
        /\ \A i \in 1..(n - m + 1) : part[i] = framed[m + i - 1]
    <3>1. m \in Int /\ n \in Int
      BY <2>1
    <3> QED
      BY <2>4, <3>1, SubSeqProperties
  <2>6. \A i \in 1..l : p[i] \in Byte
    <3>1. \A i \in 1..l : i \in 1..Len(p)
      BY <2>1
    <3> QED
      BY <2>2, <3>1, ElementOfSeq
  <2>7. /\ whole \in Seq(Byte) /\ Len(whole) = IF 1 <= l THEN l - 1 + 1 ELSE 0
        /\ \A i \in 1..(l - 1 + 1) : whole[i] = p[1 + i - 1]
    <3>1. 1 \in Int /\ l \in Int
      BY <2>1
    <3> QED
      BY <2>6, <3>1, SubSeqProperties
  <2> HIDE DEF part, whole
  <2>8. Len(part) = l /\ Len(whole) = l
    BY <2>1, <2>5, <2>7
  <2>9. \A i \in 1..l : part[i] = whole[i]
    <3>1. TAKE i \in 1..l
    <3>2. /\ i \in 1..(n - m + 1) /\ m + i - 1 = pos + 2 + i
          /\ i \in 1..(l - 1 + 1) /\ 1 + i - 1 = i /\ i \in 1..Len(p)
      BY <2>1
    <3>3. part[i] = framed[m + i - 1] /\ whole[i] = p[1 + i - 1]
      BY <2>5, <2>7, <3>2
    <3>4. framed[pos + 2 + i] = p[i]
      BY <2>3, <3>2
    <3> QED
      BY <3>2, <3>3, <3>4
  <2>10. part = whole
    BY <2>5, <2>7, <2>8, <2>9, SeqEqual
  <2> QED
    BY <2>10 DEF m, n, part, whole, l, p, Announced
<1> QED
  BY <1>2, <1>3, <1>4, <1>5, <1>6

(* When all packets fit, the decoder has returned no more than the batch.  *)
LEMMA FitAll ==
  ASSUME IInv, AllFit
  PROVE  \A n \in Nat : Fit(n)
  BY SequenceTypes, Lengths DEF AllFit, Fit

LEMMA DecodeRecordStep ==
  ASSUME IInv, DecodeRecord
  PROVE  IInv'
<1> DEFINE k == Len(out) + 1
           u == Uint16(pos)
           part == SubSeq(framed, pos + 3, pos + 2 + u)
<1>1. /\ pc = "decode" /\ pos < arrived /\ HasPrefix /\ HasPacket
      /\ out' = Append(out, part) /\ pos' = pos + 2 + u
      /\ UNCHANGED <<batch, framed, start, compressed, arrived, intact, pc>>
  BY DEF DecodeRecord
<1>2. /\ pos \in Nat /\ arrived \in Nat /\ Len(framed) \in Nat /\ arrived <= Len(framed)
      /\ Len(out) \in Nat /\ Len(batch) \in Nat
  BY Lengths
<1>3. pos + 2 <= arrived
  BY <1>1, <1>2 DEF HasPrefix
<1>4. u \in Nat
  <2>1. pos + 1 \in 1..Len(framed) /\ pos + 2 \in 1..Len(framed)
    BY <1>2, <1>3
  <2>2. framed[pos + 1] \in Byte /\ framed[pos + 2] \in Byte
    BY <2>1, SequenceTypes, ElementOfSeq
  <2>3. Base \in Nat
    BY FramingAssumption
  <2>4. framed[pos + 1] \in Nat /\ framed[pos + 2] \in Nat
    BY <2>2, <2>3 DEF Byte
  <2>5. framed[pos + 1] * Base \in Nat
    BY <2>3, <2>4
  <2> QED
    BY <2>4, <2>5 DEF Uint16
<1>5. pos + 2 + u <= arrived
  <2>1. arrived - (pos + 2) >= u
    BY <1>1 DEF HasPacket
  <2> HIDE DEF u
  <2> QED
    BY <1>2, <1>4, <2>1
<1> HIDE DEF u
<1>6. part \in Seq(Byte)
  <2>1. \A i \in (pos + 3)..(pos + 2 + u) : i \in 1..Len(framed)
    BY <1>2, <1>4, <1>5
  <2>2. \A i \in (pos + 3)..(pos + 2 + u) : framed[i] \in Byte
    BY <2>1, SequenceTypes, ElementOfSeq
  <2>3. pos + 3 \in Int /\ pos + 2 + u \in Int
    BY <1>2, <1>4
  <2> QED
    BY <2>2, <2>3, SubSeqProperties
<1>7. /\ out' \in Seq(Seq(Byte)) /\ Len(out') = k /\ DOMAIN out' = 1..k
      /\ \A i \in 1..Len(out) : out'[i] = out[i]
      /\ out'[k] = part
  <2> HIDE DEF part
  <2> QED
    BY <1>1, <1>6, SequenceTypes, Lengths, AppendProperties
<1>8. pos' \in Nat /\ pos' <= arrived /\ pos < Len(framed)
  BY <1>1, <1>2, <1>4, <1>5
<1>9. TypeOK'
  BY <1>1, <1>7, <1>8 DEF IInv, TypeOK
<1>10. Framed'
  BY <1>1 DEF IInv, Framed, Record, Uint16
<1>11. ASSUME Len(out) <= Len(batch), Fit(Len(out))
       PROVE  /\ k \in 1..Len(batch) /\ part = Announced(batch[k])
              /\ Len(batch[k]) \in Nat /\ u = Len(batch[k]) % LengthRange
              /\ start[k + 1] = pos + 2 + Len(batch[k])
  BY <1>1, <1>8, <1>11, AtRecord DEF u
<1>12. \A n \in Nat : Fit(n)' = Fit(n)
  BY <1>1 DEF Fit
<1>13. AllFit' = AllFit
  BY <1>1 DEF Fit, AllFit
<1>14. AllFit' => Len(out') <= Len(batch')
  <2>1. SUFFICES ASSUME AllFit PROVE k <= Len(batch)
    BY <1>1, <1>7, <1>13
  <2>2. Len(out) <= Len(batch)
    BY <1>1, <2>1 DEF IInv, Decoded
  <2>3. Fit(Len(out))
    BY <1>2, <2>1, FitAll
  <2> QED
    BY <1>2, <1>11, <2>2, <2>3
<1>15. (Len(out) <= Len(batch) /\ Fit(Len(out)) => pos = start[Len(out) + 1])'
  <2>1. SUFFICES ASSUME k <= Len(batch), Fit(k) PROVE pos' = start[k + 1]
    <3>1. PICK c \in Nat : c = k
      BY <1>2
    <3>2. Fit(c)' = Fit(c) /\ Len(out') = c
      BY <1>7, <1>12, <3>1
    <3>3. Fit(Len(out))' = Fit(c)'
      BY <3>2 DEF Fit
    <3> QED
      BY <1>1, <1>7, <2>1, <3>1, <3>2, <3>3
  <2>2. Len(out) <= Len(batch) /\ Fit(Len(out))
    BY <1>2, <2>1, SequenceTypes DEF Fit
  <2>3. Len(batch[k]) < LengthRange
    <3>1. k \in DOMAIN batch /\ k <= k
      BY <1>2, <2>1, SequenceTypes
    <3> QED
      BY <2>1, <3>1 DEF Fit
  <2>4. u = Len(batch[k])
    BY <1>11, <2>2, <2>3, LengthFacts
  <2> QED
    BY <1>1, <1>11, <2>2, <2>4
<1>16. ASSUME NEW i \in 1..k, i <= Len(batch), Fit(i - 1)
       PROVE  out'[i] = Announced(batch[i])
  <2>1. CASE i = k
    <3>1. i - 1 = Len(out) /\ Len(out) <= Len(batch)
      BY <1>2, <1>16, <2>1
    <3>2. Fit(Len(out))
      BY <1>16, <3>1
    <3> QED
      BY <1>7, <1>11, <2>1, <3>1, <3>2
  <2>2. CASE i # k
    <3>1. i \in DOMAIN out /\ i \in 1..Len(out)
      BY <1>2, <2>2, SequenceTypes
    <3>2. out[i] = Announced(batch[i])
      BY <1>1, <1>16, <3>1 DEF IInv, Decoded
    <3> QED
      BY <1>7, <3>1, <3>2
  <2> QED
    BY <2>1, <2>2
<1>17. \A i \in DOMAIN out' : i <= Len(batch') /\ Fit(i - 1)' => out'[i] = Announced(batch'[i])
  <2>1. TAKE i \in DOMAIN out'
  <2>2. i \in 1..k /\ i - 1 \in Nat
    BY <1>2, <1>7
  <2>3. Fit(i - 1)' = Fit(i - 1)
    BY <1>12, <2>2
  <2> QED
    BY <1>1, <1>16, <2>2, <2>3
<1>18. Decoded'
  <2>1. arrived' <= Len(framed') /\ pos' <= arrived' /\ (intact' => arrived' = Len(framed'))
    BY <1>1, <1>8 DEF IInv, Decoded
  <2>2. \A i \in DOMAIN out' : (i <= Len(batch) /\ Fit(i - 1) => out[i] = Announced(batch[i]))'
    BY <1>17 DEF Announced
  <2>3. (Len(out) <= Len(batch) /\ Fit(Len(out)) => pos = start[Len(out) + 1])'
    BY <1>15
  <2>4. pc' = "decode"
    BY <1>1
  <2> QED
    BY <1>14, <2>1, <2>2, <2>3, <2>4 DEF Decoded
<1> QED
  BY <1>9, <1>10, <1>18 DEF IInv

LEMMA InitHasIInv == Init => IInv
<1> SUFFICES ASSUME Init PROVE IInv
  OBVIOUS
<1>1. /\ <<>> \in Seq(Packets) /\ <<>> \in Seq(Byte) /\ <<>> \in Seq(Seq(Byte))
      /\ Len(<<>>) = 0 /\ DOMAIN <<>> = {}
  OBVIOUS
<1>2. /\ <<0>> \in Seq(Nat) /\ Len(<<0>>) = 1 /\ <<0>>[1] = 0 /\ DOMAIN <<0>> = {1}
  OBVIOUS
<1>3. TypeOK
  <2>1. \A n \in {0} : n \in Nat
    OBVIOUS
  <2>2. 0 <= MaxBatch
    BY FramingAssumption
  <2> QED
    BY <1>1, <1>2, <2>2 DEF Init, TypeOK
<1>4. Framed
  BY <1>1, <1>2 DEF Init, Framed
<1>5. Decoded
  BY <1>1 DEF Init, Decoded
<1> QED
  BY <1>3, <1>4, <1>5 DEF IInv

(* Decoded speaks of the batch only once it is complete.                   *)
LEMMA DecodedKept ==
  ASSUME IInv, pc \in {"gather", "frame", "carry"}, pc' \in {"gather", "frame", "carry"},
         UNCHANGED <<framed, arrived, intact, pos, out>>
  PROVE  Decoded'
  BY DEF IInv, Decoded

LEMMA StepKeepsIInv == IInv /\ [Next]_vars => IInv'
<1> SUFFICES ASSUME IInv, [Next]_vars PROVE IInv'
  OBVIOUS
<1>1. ASSUME NEW p \in Packets, Gather(p) PROVE IInv'
  <2>1. /\ batch' \in Seq(Packets) /\ Len(batch') = Len(batch) + 1 /\ Len(batch') <= MaxBatch
    <3>1. batch \in Seq(Packets) /\ Len(batch) \in Nat /\ Len(batch) < MaxBatch
      BY <1>1, SequenceTypes, Lengths DEF Gather
    <3>2. batch' = Append(batch, p)
      BY <1>1 DEF Gather
    <3> QED
      BY <3>1, <3>2, FramingAssumption, AppendProperties
  <2>2. /\ pc = "gather" /\ Len(start) = 1
        /\ UNCHANGED <<framed, start, compressed, arrived, intact, pos, out, pc>>
    BY <1>1 DEF Gather, IInv, Framed
  <2>3. TypeOK'
    BY <2>1, <2>2 DEF IInv, TypeOK
  <2>4. Framed'
    <3>1. \A i \in 1..(Len(start) - 1) : FALSE
      BY <2>2
    <3>2. Len(start') <= Len(batch') + 1
      <4>1. Len(batch) \in Nat /\ Len(start') = 1
        BY <2>2, Lengths
      <4>2. Len(batch') = Len(batch) + 1
        BY <2>1
      <4> QED
        BY <4>1, <4>2
    <3> QED
      BY <2>2, <3>1, <3>2 DEF IInv, Framed
  <2>5. Decoded'
    BY <2>2, DecodedKept
  <2> QED
    BY <2>3, <2>4, <2>5 DEF IInv
<1>2. ASSUME BeginFrame PROVE IInv'
  <2>1. /\ pc = "gather" /\ pc' = "frame"
        /\ UNCHANGED <<batch, framed, start, compressed, arrived, intact, pos, out>>
    BY <1>2 DEF BeginFrame
  <2>2. Decoded'
    BY <2>1, DecodedKept
  <2> QED
    BY <2>1, <2>2 DEF IInv, TypeOK, Framed, Record, Uint16
<1>3. ASSUME FrameRecord PROVE IInv'
  BY <1>3, FrameRecordStep
<1>4. ASSUME NEW zstd \in BOOLEAN, Encode(zstd) PROVE IInv'
  <2>1. /\ pc = "frame" /\ pc' = "carry" /\ compressed' \in BOOLEAN
        /\ Len(start) = Len(batch) + 1
        /\ UNCHANGED <<batch, framed, start, arrived, intact, pos, out>>
    BY <1>4, Lengths DEF Encode
  <2>2. Decoded'
    BY <2>1, DecodedKept
  <2> QED
    BY <2>1, <2>2 DEF IInv, TypeOK, Framed, Record, Uint16
<1>5. ASSUME NEW n \in 0..Len(framed), Carry(n) PROVE IInv'
  <2>1. /\ pc = "carry" /\ arrived' = n
        /\ UNCHANGED <<batch, framed, start, compressed, pos, out>>
        /\ \/ n = Len(framed) /\ intact' = intact /\ pc' = "decode"
           \/ intact' = FALSE /\ pc' \in {"decode", "error"}
    BY <1>5 DEF Carry
  <2>2. pos = 0 /\ out = <<>> /\ intact \in BOOLEAN /\ Len(start) = Len(batch) + 1
    BY <2>1 DEF IInv, TypeOK, Decoded, Framed
  <2>3. TypeOK'
    <3>1. arrived' \in Nat /\ intact' \in BOOLEAN
      <4>1. n \in Nat
        BY Lengths
      <4> QED
        BY <2>1, <2>2, <4>1
    <3> QED
      BY <2>1, <3>1 DEF IInv, TypeOK
  <2>4. Framed'
    BY <2>1, <2>2 DEF IInv, Framed, Record, Uint16
  <2>5. Decoded'
    <3>1. Len(out) = 0 /\ DOMAIN out = {} /\ start[1] = 0 /\ Len(start) >= 1
      BY <2>2, Lengths
    <3>2. n \in Nat /\ n <= Len(framed)
      BY Lengths
    <3> QED
      BY <2>1, <2>2, <3>1, <3>2 DEF Decoded
  <2> QED
    BY <2>3, <2>4, <2>5 DEF IInv
<1>6. ASSUME DecodeRecord PROVE IInv'
  BY <1>6, DecodeRecordStep
<1>7. ASSUME DecodeError PROVE IInv'
  <2>1. /\ pc = "decode" /\ pos < arrived /\ pc' = "error" /\ out' = <<>>
        /\ (IF HasPrefix THEN ~HasPacket ELSE TRUE)
        /\ UNCHANGED <<batch, framed, start, compressed, arrived, intact, pos>>
    BY <1>7 DEF DecodeError
  <2>2. intact => ~AllFit
    <3>1. SUFFICES ASSUME intact, AllFit PROVE FALSE
      OBVIOUS
    <3>2. arrived = Len(framed) /\ Len(out) <= Len(batch)
      BY <2>1, <3>1 DEF IInv, Decoded
    <3>3. Fit(Len(out))
      BY <3>1, FitAll, Lengths
    <3> DEFINE l == Len(batch[Len(out) + 1])
               next == start[Len(out) + 2]
               u == Uint16(pos)
               end == Len(framed)
    <3>4. u = l % LengthRange /\ l \in Nat /\ next = pos + 2 + l /\ next <= end
      <4>1. Len(out) + 1 + 1 = Len(out) + 2
        BY Lengths
      <4> QED
        BY <2>1, <3>2, <3>3, <4>1, AtRecord
    <3>5. u \in Nat /\ u <= l
      <4> HIDE DEF l
      <4> QED
        BY <3>4, LengthFacts
    <3>6. arrived - pos < 2 \/ arrived - (pos + 2) < u
      <4>1. arrived \in Nat /\ pos \in Nat
        BY Lengths
      <4> QED
        BY <2>1, <3>5, <4>1 DEF HasPrefix, HasPacket
    <3>7. arrived = end /\ end \in Nat /\ pos \in Nat
      BY <3>2, Lengths
    <3> HIDE DEF l, next, u, end
    <3> QED
      BY <3>4, <3>5, <3>6, <3>7
  <2>3. TypeOK'
    BY <2>1 DEF IInv, TypeOK
  <2>4. Framed'
    BY <2>1 DEF IInv, Framed, Record, Uint16
  <2>5. Decoded'
    <3>1. AllFit' = AllFit
      BY <2>1 DEF AllFit, Fit
    <3>2. arrived <= Len(framed) /\ pos <= arrived
      BY Lengths DEF IInv, Decoded
    <3> QED
      BY <2>1, <2>2, <3>1, <3>2 DEF Decoded
  <2> QED
    BY <2>3, <2>4, <2>5 DEF IInv
<1>8. ASSUME DecodeDone PROVE IInv'
  <2>1. /\ pc = "decode" /\ pos >= arrived /\ pc' = "done"
        /\ UNCHANGED <<batch, framed, start, compressed, arrived, intact, pos, out>>
    BY <1>8 DEF DecodeDone, DecodeEnds
  <2>2. TypeOK'
    BY <2>1 DEF IInv, TypeOK
  <2>3. Framed'
    BY <2>1 DEF IInv, Framed, Record, Uint16
  <2>4. Decoded'
    <3>1. pos = arrived
      BY <2>1, Lengths DEF IInv, Decoded
    <3> QED
      BY <2>1, <3>1 DEF IInv, Decoded, AllFit, Fit, Announced
  <2> QED
    BY <2>2, <2>3, <2>4 DEF IInv
<1>9. CASE UNCHANGED vars
  BY <1>9 DEF vars, IInv, TypeOK, Framed, Record, Uint16, Decoded, AllFit, Fit, Announced
<1> QED
  BY <1>1, <1>2, <1>3, <1>4, <1>5, <1>6, <1>7, <1>8, <1>9 DEF Next, Decoding

(* The frame always holds one record per packet encoded so far, and the    *)
(* decoder stands between two records.                                     *)
THEOREM FrameInvariant == Spec => []IInv
  BY InitHasIInv, StepKeepsIInv, PTL DEF Spec

(* The types of both ends' state: every byte of a frame is one             *)
(* (framing.go:51-64).                                                     *)
THEOREM FramingTypes == Spec => []TypeOK
  BY FrameInvariant, PTL DEF IInv

(* A frame that arrived whole is decoded at least as far as the first      *)
(* packet that does not fit its length field.                              *)
LEMMA DecodedAll ==
  ASSUME IInv, intact, pc = "done", Len(out) < Len(batch)
  PROVE  ~Fit(Len(out))
<1> SUFFICES ASSUME Fit(Len(out)) PROVE FALSE
  OBVIOUS
<1>1. pos = arrived /\ arrived = Len(framed) /\ Len(start) = Len(batch) + 1
  BY DEF IInv, Decoded, Framed
<1>2. Len(out) \in Nat /\ Len(batch) \in Nat
  BY Lengths
<1>3. pos = start[Len(out) + 1]
  BY <1>2 DEF IInv, Decoded
<1>4. /\ Len(out) + 1 \in 1..(Len(start) - 1) /\ Len(out) + 1 \in 1..Len(batch)
      /\ Len(out) + 2 \in 1..Len(start) /\ Len(out) + 1 + 1 = Len(out) + 2
  BY <1>1, <1>2
<1> DEFINE here == start[Len(out) + 1]
           next == start[Len(out) + 2]
           size == Len(batch[Len(out) + 1])
           end == Len(framed)
<1>5. next = here + 2 + size
  BY <1>4, Records DEF Record
<1>6. size \in Nat
  BY <1>4, PacketFacts
<1>7. next <= end /\ here = end /\ end \in Nat
  BY <1>1, <1>3, <1>4, Records, Lengths
<1> HIDE DEF here, next, size, end
<1> QED
  BY <1>5, <1>6, <1>7

(* What the length field announces of a packet that fits it is all of it.  *)
LEMMA AnnouncedWhole ==
  ASSUME NEW p \in Seq(Byte), Len(p) < LengthRange
  PROVE  Announced(p) = p
<1>1. Len(p) \in Nat
  OBVIOUS
<1>2. Len(p) % LengthRange = Len(p)
  BY <1>1, LengthFacts
<1> DEFINE q == SubSeq(p, 1, Len(p))
<1>3. \A i \in 1..Len(p) : p[i] \in Byte
  BY ElementOfSeq
<1>4. /\ q \in Seq(Byte) /\ Len(q) = IF 1 <= Len(p) THEN Len(p) - 1 + 1 ELSE 0
      /\ \A i \in 1..(Len(p) - 1 + 1) : q[i] = p[1 + i - 1]
  <2>1. 1 \in Int /\ Len(p) \in Int
    BY <1>1
  <2> QED
    BY <1>3, <2>1, SubSeqProperties
<1> HIDE DEF q
<1>5. Len(q) = Len(p)
  BY <1>1, <1>4
<1>6. \A i \in 1..Len(p) : q[i] = p[i]
  <2>1. TAKE i \in 1..Len(p)
  <2>2. i \in 1..(Len(p) - 1 + 1) /\ 1 + i - 1 = i
    BY <1>1
  <2> QED
    BY <1>4, <2>2
<1>7. q = p
  BY <1>4, <1>5, <1>6, SeqEqual
<1> QED
  BY <1>2, <1>7 DEF Announced, q

(* decodeBatch reverses encodeBatch (framing.go:84) for every batch whose  *)
(* packets are shorter than 65536 bytes; in every other batch it restores  *)
(* the packets before the first longer one and the announced part of that. *)
THEOREM DecodeReversesEncode == Spec => []RoundTrip
<1>1. ASSUME IInv, intact, pc = "done", NEW i \in 1..Len(batch), Fit(i - 1)
      PROVE  i \in 1..Len(out) /\ out[i] = Announced(batch[i])
  <2>1. Len(out) \in Nat /\ Len(batch) \in Nat
    BY <1>1, Lengths
  <2>2. i <= Len(out)
    <3>1. SUFFICES ASSUME Len(out) < i PROVE FALSE
      BY <2>1
    <3>2. Len(out) < Len(batch) /\ Len(out) <= i - 1
      BY <2>1, <3>1
    <3>3. Fit(Len(out))
      BY <1>1, <2>1, <3>2, SequenceTypes DEF Fit
    <3> QED
      BY <1>1, <3>2, <3>3, DecodedAll
  <2>3. i \in 1..Len(out)
    BY <2>1, <2>2
  <2> QED
    BY <1>1, <2>1, <2>3, SequenceTypes DEF IInv, Decoded
<1>2. ASSUME IInv, intact, pc = "done", AllFit PROVE out = batch
  <2>1. Len(out) \in Nat /\ Len(batch) \in Nat /\ Len(out) <= Len(batch)
    BY <1>2, Lengths DEF IInv, Decoded
  <2>2. Len(out) = Len(batch)
    <3>1. Fit(Len(out))
      BY <1>2, <2>1, FitAll
    <3> QED
      BY <1>2, <2>1, <3>1, DecodedAll
  <2>3. ASSUME NEW i \in 1..Len(out) PROVE out[i] = batch[i]
    <3>1. i \in 1..Len(batch) /\ i - 1 \in Nat
      BY <2>1, <2>2
    <3>2. Fit(i - 1)
      BY <1>2, <3>1, FitAll
    <3>3. batch[i] \in Seq(Byte) /\ Len(batch[i]) < LengthRange
      <4>1. i \in DOMAIN batch /\ i <= Len(batch)
        BY <1>2, <2>1, <3>1, SequenceTypes
      <4>2. Len(batch[i]) < LengthRange
        BY <1>2, <4>1 DEF AllFit, Fit
      <4>3. batch[i] \in Seq(Byte)
        BY <1>2, <3>1, PacketFacts
      <4> QED
        BY <4>2, <4>3
    <3> QED
      BY <1>1, <1>2, <3>1, <3>2, <3>3, AnnouncedWhole
  <2>4. batch \in Seq(Seq(Byte)) /\ out \in Seq(Seq(Byte))
    <3>1. Packets \subseteq Seq(Byte)
      BY FramingAssumption
    <3> QED
      BY <1>2, <3>1, SequenceTypes
  <2> QED
    BY <2>2, <2>3, <2>4, SeqEqual
<1>3. ASSUME IInv PROVE RoundTrip
  <2>1. intact => (AllFit => pc # "error")
    BY <1>3 DEF IInv, Decoded
  <2> QED
    BY <1>1, <1>2, <1>3, <2>1, SequenceTypes DEF RoundTrip
<1> QED
  BY <1>3, FrameInvariant, PTL

(* A frame cut anywhere yields undamaged leading packets or nothing, as    *)
(* far as their lengths fit (framing.go:105-118).                          *)
THEOREM CutIsHarmless == Spec => []CutYieldsPrefix
<1>1. ASSUME IInv PROVE CutYieldsPrefix
  <2>1. pc = "error" => out = <<>>
    BY <1>1 DEF IInv, Decoded
  <2>2. pc = "done" /\ AllFit => Len(out) <= Len(batch)
    BY <1>1 DEF IInv, Decoded
  <2>3. ASSUME pc = "done", NEW i \in DOMAIN out, i <= Len(batch), Fit(i) PROVE out[i] = batch[i]
    <3>1. i \in 1..Len(batch) /\ i \in Nat
      BY <1>1, <2>3, SequenceTypes, Lengths
    <3>2. Fit(i - 1) /\ Len(batch[i]) < LengthRange
      <4>1. Len(batch) \in Nat
        BY <1>1, Lengths
      <4>2. \A j \in 1..Len(batch) : j <= i - 1 => j <= i
        BY <3>1, <4>1
      <4> QED
        BY <1>1, <2>3, <3>1, <4>1, <4>2, SequenceTypes DEF Fit
    <3>3. out[i] = Announced(batch[i])
      BY <1>1, <2>3, <3>2 DEF IInv, Decoded
    <3> QED
      BY <1>1, <3>1, <3>2, <3>3, PacketFacts, AnnouncedWhole
  <2> QED
    BY <2>1, <2>2, <2>3 DEF CutYieldsPrefix
<1> QED
  BY <1>1, FrameInvariant, PTL

(* No index of decodeBatch is out of range (framing.go:106-117).           *)
THEOREM NoReadPastEnd == Spec => []WithinArrived
<1>1. IInv => WithinArrived
  BY DEF IInv, Decoded, WithinArrived
<1> QED
  BY <1>1, FrameInvariant, PTL
=============================================================================
