--------------------------- MODULE EncryptedProofs ---------------------------
(***************************************************************************)
(* The invariants of EncryptedTransport hold for every window, every       *)
(* number of packets and copies and every set of goroutines.  They are     *)
(* inductive together with Remembers: seenOrder is the end of delivered.   *)
(***************************************************************************)
EXTENDS EncryptedTransport, SequenceTheorems, TLAPS

(* What the invariant says about the list and the history, one by one.     *)
LEMMA Reading ==
  ASSUME IInv
  PROVE  /\ seenOrder \in Seq(Nonce) /\ Len(seenOrder) \in Nat
         /\ DOMAIN seenOrder = 1..Len(seenOrder)
         /\ delivered \in Seq(Nonce) /\ Len(delivered) \in Nat
         /\ DOMAIN delivered = 1..Len(delivered)
         /\ Len(seenOrder) <= Window /\ Window \in Nat /\ Window >= 1
         /\ Len(seenOrder) <= Len(delivered)
         /\ Len(seenOrder) < Len(delivered) => Len(seenOrder) = Window
         /\ \A i \in 1..Len(seenOrder) :
              seenOrder[i] = delivered[Len(delivered) - Len(seenOrder) + i]
<1>1. TypeOK /\ Remembers
  BY DEF IInv
<1>2. Window \in Nat /\ Window >= 1
  BY EncryptedAssumption
<1>3. /\ seenOrder \in Seq(Nonce) /\ Len(seenOrder) \in Nat
      /\ DOMAIN seenOrder = 1..Len(seenOrder)
      /\ delivered \in Seq(Nonce) /\ Len(delivered) \in Nat
      /\ DOMAIN delivered = 1..Len(delivered)
      /\ Len(seenOrder) <= Window
  BY <1>1 DEF TypeOK
<1> QED
  BY <1>1, <1>2, <1>3 DEF Remembers

(* What rememberNonce does to the list, whether or not it evicts: the      *)
(* result is again the end of the longer history.                          *)
LEMMA OrderAfter ==
  ASSUME IInv, NEW n \in Nonce, RememberNonce(n), delivered' = Append(delivered, n)
  PROVE  /\ seenOrder' \in Seq(Nonce)
         /\ Len(seenOrder') <= Window
         /\ Remembers'
<1> DEFINE order == Append(seenOrder, n)
<1>0. seenOrder' = IF Evicts(order) THEN Tail(order) ELSE order
  BY DEF RememberNonce
<1>1. /\ order \in Seq(Nonce) /\ Len(order) = Len(seenOrder) + 1
      /\ \A i \in 1..Len(seenOrder) : order[i] = seenOrder[i]
      /\ order[Len(seenOrder) + 1] = n
  BY Reading, AppendProperties
<1>2. /\ delivered' \in Seq(Nonce) /\ Len(delivered') = Len(delivered) + 1
      /\ \A i \in 1..Len(delivered) : delivered'[i] = delivered[i]
      /\ delivered'[Len(delivered) + 1] = n
  BY Reading, AppendProperties
<1> HIDE DEF order
<1>4. CASE ~Evicts(order)
  <2>1. seenOrder' = order
    BY <1>0, <1>4
  <2>2. Len(order) <= Window
    BY <1>1, <1>4, Reading DEF Evicts
  <2>3. \A i \in 1..Len(seenOrder') :
          seenOrder'[i] = delivered'[Len(delivered') - Len(seenOrder') + i]
    <3>0. Len(seenOrder') = Len(seenOrder) + 1
      BY <1>1, <2>1
    <3>1. TAKE i \in 1..Len(seenOrder')
    <3>2. CASE i = Len(seenOrder) + 1
      <4>1. seenOrder'[i] = n
        BY <1>1, <2>1, <3>2
      <4>2. Len(delivered') - Len(seenOrder') + i = Len(delivered) + 1
        BY <1>2, <3>0, <3>2, Reading
      <4> QED
        BY <1>2, <4>1, <4>2
    <3>3. CASE i # Len(seenOrder) + 1
      <4>1. i \in 1..Len(seenOrder)
        BY <3>0, <3>3, Reading
      <4>2. seenOrder'[i] = delivered[Len(delivered) - Len(seenOrder) + i]
        BY <1>1, <2>1, <4>1, Reading
      <4>3. Len(delivered) - Len(seenOrder) + i \in 1..Len(delivered)
        BY <4>1, Reading
      <4>4. Len(delivered') - Len(seenOrder') + i = Len(delivered) - Len(seenOrder) + i
        BY <1>2, <3>0, <4>1, Reading
      <4> QED
        BY <1>2, <4>2, <4>3, <4>4
    <3> QED
      BY <3>2, <3>3
  <2>4. DOMAIN seenOrder' = 1..Len(seenOrder')
    BY <1>1, <2>1
  <2> QED
    BY <1>1, <1>2, <2>1, <2>2, <2>3, <2>4, Reading DEF Remembers
<1>5. CASE Evicts(order)
  <2>1. seenOrder' = Tail(order) /\ order # <<>>
    BY <1>0, <1>1, <1>5, Reading
  <2>2. /\ seenOrder' \in Seq(Nonce) /\ Len(seenOrder') = Len(seenOrder)
        /\ \A i \in 1..Len(seenOrder') : seenOrder'[i] = order[i + 1]
    BY <1>1, <2>1, HeadTailProperties, Reading
  <2>3. Len(seenOrder) = Window
    BY <1>1, <1>5, Reading DEF Evicts
  <2>4. \A i \in 1..Len(seenOrder') :
          seenOrder'[i] = delivered'[Len(delivered') - Len(seenOrder') + i]
    <3>1. TAKE i \in 1..Len(seenOrder')
    <3>2. CASE i = Len(seenOrder)
      BY <1>1, <1>2, <2>2, <3>2, Reading
    <3>3. CASE i # Len(seenOrder)
      <4>1. i \in 1..Len(seenOrder) /\ i + 1 \in 1..Len(seenOrder)
        BY <2>2, <3>3, Reading
      <4>2. seenOrder'[i] = delivered[Len(delivered) - Len(seenOrder) + (i + 1)]
        BY <1>1, <2>2, <4>1, Reading
      <4>3. Len(delivered) - Len(seenOrder) + (i + 1) \in 1..Len(delivered)
        BY <4>1, Reading
      <4>4. Len(delivered') - Len(seenOrder') + i = Len(delivered) - Len(seenOrder) + (i + 1)
        BY <1>2, <2>2, <4>1, Reading
      <4> QED
        BY <1>2, <4>2, <4>3, <4>4
    <3> QED
      BY <3>2, <3>3
  <2>5. DOMAIN seenOrder' = 1..Len(seenOrder')
    BY <2>2
  <2> QED
    BY <1>2, <2>2, <2>3, <2>4, <2>5, Reading DEF Remembers
<1> QED
  BY <1>4, <1>5

(* A nonce the map does not hold is not among the last Window delivered.   *)
LEMMA FreshIsOld ==
  ASSUME IInv, NEW n \in Nonce, n \notin seen, NEW i \in DOMAIN delivered, delivered[i] = n
  PROVE  Len(delivered) + 1 - i > Window
<1> DEFINE base == Len(delivered) - Len(seenOrder)
<1>1. i \in 1..Len(delivered)
  BY Reading
<1>2. i <= base
  <2>1. SUFFICES ASSUME i > base PROVE FALSE
    BY <1>1, Reading
  <2>2. i - base \in 1..Len(seenOrder)
    BY <1>1, <2>1, Reading
  <2>3. seenOrder[i - base] = delivered[base + (i - base)]
    BY <2>2, Reading
  <2>4. base + (i - base) = i
    BY <1>1, Reading
  <2>5. n \in {seenOrder[k] : k \in DOMAIN seenOrder}
    BY <2>2, <2>3, <2>4, Reading
  <2> QED
    BY <2>5 DEF IInv, SeenIsWindow
<1> QED
  BY <1>1, <1>2, Reading

(* The map follows the list: evicting the head of the list removes a nonce *)
(* that does not occur in the rest of it.                                  *)
LEMMA SeenAfter ==
  ASSUME IInv, NEW n \in Nonce, n \notin seen, RememberNonce(n)
  PROVE  SeenIsWindow'
<1> DEFINE order == Append(seenOrder, n)
<1>0. /\ seenOrder' = IF Evicts(order) THEN Tail(order) ELSE order
      /\ seen' = IF Evicts(order) THEN (seen \cup {n}) \ {Head(order)} ELSE seen \cup {n}
  BY DEF RememberNonce
<1>1. /\ order \in Seq(Nonce) /\ Len(order) = Len(seenOrder) + 1
      /\ \A i \in 1..Len(seenOrder) : order[i] = seenOrder[i]
      /\ order[Len(seenOrder) + 1] = n
  BY Reading, AppendProperties
<1> HIDE DEF order
<1>2. DOMAIN order = 1..(Len(seenOrder) + 1)
  BY <1>1
<1>3. seen = {seenOrder[i] : i \in 1..Len(seenOrder)}
  BY Reading DEF IInv, SeenIsWindow
<1>4. seen \cup {n} = {order[i] : i \in 1..(Len(seenOrder) + 1)}
  <2>1. {order[i] : i \in 1..(Len(seenOrder) + 1)} \subseteq seen \cup {n}
    <3>1. ASSUME NEW i \in 1..(Len(seenOrder) + 1) PROVE order[i] \in seen \cup {n}
      <4>1. i \in 1..Len(seenOrder) \/ i = Len(seenOrder) + 1
        BY Reading
      <4> QED
        BY <1>1, <1>3, <4>1
    <3> QED
      BY <3>1
  <2>2. ASSUME NEW m \in seen PROVE m \in {order[i] : i \in 1..(Len(seenOrder) + 1)}
    <3>1. PICK i \in 1..Len(seenOrder) : m = seenOrder[i]
      BY <1>3
    <3>2. i \in 1..(Len(seenOrder) + 1) /\ order[i] = m
      BY <1>1, <3>1, Reading
    <3> QED
      BY <3>2
  <2>3. Len(seenOrder) + 1 \in 1..(Len(seenOrder) + 1)
    BY Reading
  <2> QED
    BY <1>1, <2>1, <2>2, <2>3
<1>5. CASE ~Evicts(order)
  BY <1>0, <1>2, <1>4, <1>5 DEF SeenIsWindow
<1>6. CASE Evicts(order)
  <2>1. /\ seenOrder' = Tail(order) /\ order # <<>>
        /\ seen' = (seen \cup {n}) \ {Head(order)}
    BY <1>0, <1>1, <1>6, Reading
  <2>2. /\ Len(seenOrder') = Len(seenOrder) /\ DOMAIN seenOrder' = 1..Len(seenOrder)
        /\ \A i \in 1..Len(seenOrder) : seenOrder'[i] = order[i + 1]
        /\ Head(order) = order[1]
    <3>1. /\ Tail(order) \in Seq(Nonce) /\ Len(Tail(order)) = Len(order) - 1
          /\ \A i \in 1..Len(Tail(order)) : Tail(order)[i] = order[i + 1]
          /\ Head(order) = order[1]
      BY <1>1, <2>1, HeadTailProperties
    <3> QED
      BY <1>1, <2>1, <3>1, Reading
  <2>3. \A i \in 2..(Len(seenOrder) + 1) : order[i] # order[1]
    <3>1. TAKE i \in 2..(Len(seenOrder) + 1)
    <3>2. 1 \in 1..Len(seenOrder) /\ Len(seenOrder) = Window
      BY <1>1, <1>6, Reading DEF Evicts
    <3>3. CASE i = Len(seenOrder) + 1
      <4>1. order[1] \in seen
        BY <1>1, <1>3, <3>2
      <4> QED
        BY <1>1, <3>3, <4>1
    <3>4. CASE i # Len(seenOrder) + 1
      <4> DEFINE base == Len(delivered) - Len(seenOrder)
      <4>1. i \in 1..Len(seenOrder) /\ 1 < i
        BY <3>4, Reading
      <4>2. order[1] = delivered[base + 1] /\ order[i] = delivered[base + i]
        BY <1>1, <3>2, <4>1, Reading
      <4>3. /\ base + 1 \in DOMAIN delivered /\ base + i \in DOMAIN delivered
            /\ base + 1 < base + i /\ ~((base + i) - (base + 1) > Window)
        BY <3>2, <4>1, Reading
      <4> HIDE DEF base
      <4>4. OncePerWindow
        BY DEF IInv
      <4> QED
        BY <4>2, <4>3, <4>4 DEF OncePerWindow
    <3> QED
      BY <3>3, <3>4
  <2>4. seen' = {order[i] : i \in 2..(Len(seenOrder) + 1)}
    <3>1. \A i \in 1..(Len(seenOrder) + 1) : i = 1 \/ i \in 2..(Len(seenOrder) + 1)
      BY Reading
    <3>2. \A i \in 2..(Len(seenOrder) + 1) : i \in 1..(Len(seenOrder) + 1)
      BY Reading
    <3> QED
      BY <1>4, <2>1, <2>2, <2>3, <3>1, <3>2
  <2>5. {order[i] : i \in 2..(Len(seenOrder) + 1)} = {seenOrder'[i] : i \in DOMAIN seenOrder'}
    <3>1. \A i \in 2..(Len(seenOrder) + 1) :
            i - 1 \in DOMAIN seenOrder' /\ order[i] = seenOrder'[i - 1]
      BY <2>2, Reading
    <3>2. \A i \in DOMAIN seenOrder' :
            i + 1 \in 2..(Len(seenOrder) + 1) /\ order[i + 1] = seenOrder'[i]
      BY <2>2, Reading
    <3> QED
      BY <3>1, <3>2
  <2> QED
    BY <2>4, <2>5 DEF SeenIsWindow
<1> QED
  BY <1>5, <1>6

(* A step of Remember that lets the packet through. *)
LEMMA Delivers ==
  ASSUME IInv, NEW w \in Workers, Remember(w), checking[w] \notin seen
  PROVE  IInv'
<1> DEFINE n == checking[w]
<1>1. /\ n \in Nonce /\ RememberNonce(n) /\ delivered' = Append(delivered, n)
      /\ n[1] = "recv" /\ n[2] <= sent["recv"]
      /\ sent' = sent /\ copies' = copies
      /\ checking' = [checking EXCEPT ![w] = Idle]
  BY DEF Remember, IInv, TypeOK, CheckedFromPeer
<1>2. /\ delivered' \in Seq(Nonce) /\ Len(delivered') = Len(delivered) + 1
      /\ Len(delivered) \in Nat /\ DOMAIN delivered = 1..Len(delivered)
      /\ DOMAIN delivered' = 1..(Len(delivered) + 1)
      /\ \A i \in 1..Len(delivered) : delivered'[i] = delivered[i]
      /\ delivered'[Len(delivered) + 1] = n
  BY <1>1, AppendProperties DEF IInv, TypeOK
<1>3. /\ seenOrder' \in Seq(Nonce) /\ Len(seenOrder') <= Window /\ Remembers'
  BY <1>1, OrderAfter
<1>4. SeenIsWindow'
  BY <1>1, SeenAfter
<1>5. TypeOK'
  <2>1. seen' \in SUBSET Nonce
    BY <1>1 DEF RememberNonce, IInv, TypeOK
  <2> QED
    BY <1>1, <1>2, <1>3, <2>1 DEF IInv, TypeOK
<1>6. FromPeer'
  BY <1>1, <1>2 DEF IInv, FromPeer
<1>7. OncePerWindow'
  <2>1. SUFFICES ASSUME NEW i \in DOMAIN delivered', NEW j \in DOMAIN delivered',
                        i < j, delivered'[i] = delivered'[j]
                 PROVE  j - i > Window
    BY DEF OncePerWindow
  <2>2. CASE j = Len(delivered) + 1
    <3>1. i \in DOMAIN delivered /\ delivered[i] = n
      BY <1>2, <2>1, <2>2
    <3> QED
      BY <1>1, <2>2, <3>1, FreshIsOld
  <2>3. CASE j # Len(delivered) + 1
    <3>1. i \in DOMAIN delivered /\ j \in DOMAIN delivered /\ delivered[i] = delivered[j]
      BY <1>2, <2>1, <2>3
    <3> QED
      BY <2>1, <3>1 DEF IInv, OncePerWindow
  <2> QED
    BY <2>2, <2>3
<1>8. CheckedFromPeer'
  BY <1>1 DEF IInv, TypeOK, CheckedFromPeer
<1> QED
  BY <1>3, <1>4, <1>5, <1>6, <1>7, <1>8 DEF IInv

LEMMA StepKeepsIInv ==
  IInv /\ [Next]_vars => IInv'
<1> SUFFICES ASSUME IInv, [Next]_vars PROVE IInv'
  OBVIOUS
<1>1. ASSUME NEW d \in Directions, Send(d) PROVE IInv'
  <2>1. /\ sent' \in [Directions -> 0..MaxPackets] /\ sent["recv"] <= sent'["recv"]
        /\ sent["recv"] \in Nat /\ sent'["recv"] \in Nat
    BY <1>1, EncryptedAssumption DEF Send, IInv, TypeOK, Directions
  <2>2. UNCHANGED <<copies, checking, seen, seenOrder, delivered>>
    BY <1>1 DEF Send
  <2>3. FromPeer' /\ CheckedFromPeer'
    <3>1. \A i \in DOMAIN delivered : delivered[i][2] \in Nat
      BY Reading, ElementOfSeq DEF Nonce
    <3>2. \A w \in Workers : checking[w] # Idle => checking[w][2] \in Nat
      BY DEF IInv, TypeOK, Nonce
    <3> QED
      BY <2>1, <2>2, <3>1, <3>2 DEF IInv, FromPeer, CheckedFromPeer
  <2> QED
    BY <2>1, <2>2, <2>3 DEF IInv, TypeOK, OncePerWindow, SeenIsWindow, Remembers
<1>2. ASSUME NEW w \in Workers, NEW c \in Copy, Arrive(w, c) PROVE IInv'
  <2>1. checking' \in [Workers -> Nonce \cup {Idle}]
    BY <1>2 DEF Arrive, IInv, TypeOK, Copy
  <2>2. CheckedFromPeer'
    BY <1>2, <2>1 DEF Arrive, Opens, IInv, TypeOK, CheckedFromPeer, Copy, Nonce
  <2>3. copies' \in 0..MaxCopies
    BY <1>2, EncryptedAssumption DEF Arrive, IInv, TypeOK
  <2>4. UNCHANGED <<sent, seen, seenOrder, delivered>>
    BY <1>2 DEF Arrive
  <2> QED
    BY <2>1, <2>2, <2>3, <2>4 DEF IInv, TypeOK, FromPeer, OncePerWindow, SeenIsWindow,
       Remembers
<1>3. ASSUME NEW w \in Workers, Remember(w), checking[w] \in seen PROVE IInv'
  <2>1. /\ UNCHANGED <<sent, copies, seen, seenOrder, delivered>>
        /\ checking' = [checking EXCEPT ![w] = Idle]
    BY <1>3 DEF Remember
  <2>2. TypeOK' /\ CheckedFromPeer'
    BY <2>1 DEF IInv, TypeOK, CheckedFromPeer
  <2> QED
    BY <2>1, <2>2 DEF IInv, FromPeer, OncePerWindow, SeenIsWindow, Remembers
<1>4. ASSUME NEW w \in Workers, Remember(w), checking[w] \notin seen PROVE IInv'
  BY <1>4, Delivers
<1>5. CASE UNCHANGED vars
  BY <1>5 DEF vars, IInv, TypeOK, FromPeer, OncePerWindow, SeenIsWindow, Remembers,
     CheckedFromPeer
<1> QED
  BY <1>1, <1>2, <1>3, <1>4, <1>5 DEF Next

LEMMA InitHasIInv == Init => IInv
<1> SUFFICES ASSUME Init PROVE IInv
  OBVIOUS
<1>1. /\ <<>> \in Seq(Nonce) /\ Len(<<>>) = 0 /\ DOMAIN <<>> = {}
  OBVIOUS
<1>2. TypeOK
  BY <1>1, EncryptedAssumption DEF Init, TypeOK
<1>3. FromPeer /\ OncePerWindow /\ SeenIsWindow /\ CheckedFromPeer
  BY <1>1 DEF Init, FromPeer, OncePerWindow, SeenIsWindow, CheckedFromPeer
<1>4. Remembers
  BY <1>1 DEF Init, Remembers
<1> QED
  BY <1>2, <1>3, <1>4 DEF IInv

THEOREM WindowInvariant == Spec => []IInv
  BY InitHasIInv, StepKeepsIInv, PTL DEF Spec

(* The types of the layer's state, the bound on its memory included        *)
(* (encrypted.go:152-156).                                                 *)
THEOREM EncryptedTypes == Spec => []TypeOK
  BY WindowInvariant, PTL DEF IInv

(* Only what the peer sealed reaches the tunnel (encrypted.go:123-138).    *)
THEOREM OnlyFromPeer == Spec => []FromPeer
  BY WindowInvariant, PTL DEF IInv

(* A packet handed over again within maxSeenNonces packets is not          *)
(* delivered again (encrypted.go:143-158).                                 *)
THEOREM DuplicatesDropped == Spec => []OncePerWindow
  BY WindowInvariant, PTL DEF IInv

(* The map of nonces holds exactly those on the list (encrypted.go:150-156). *)
THEOREM MapMatchesList == Spec => []SeenIsWindow
  BY WindowInvariant, PTL DEF IInv
=============================================================================
