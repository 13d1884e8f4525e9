--------------------------- MODULE Tun2SocksProofs ---------------------------
(***************************************************************************)
(* UDP, DNS and TCP through tun2socks, for every number of sockets, flows, *)
(* addresses and ports, and every size of a window or a buffer.            *)
(***************************************************************************)
EXTENDS Tun2Socks, SequenceTheorems, FiniteSetTheorems, TLAPS

Addresses == Locals \X Remotes
Connection == [local : Locals, remote : Remotes, sock : Nat]

(* Where a pair was used last. *)
IsLast(u, f, i) == i \in DOMAIN u /\ u[i] = f /\ \A j \in i + 1..Len(u) : u[j] # f
Latest(u, f) == CHOOSE i \in DOMAIN u : IsLast(u, f, i)

UdpTypes ==
  /\ connections \in Seq(Connection) /\ Len(connections) <= MaxConnections
  /\ used \in Seq(Addresses)

(* Connections lie in the order of their last use, after all that was used *)
(* and has no socket any more.                                             *)
HaveLatest == \A f \in Range(used) : \E i \in DOMAIN used : IsLast(used, f, i)
Bound == \A i \in DOMAIN connections : Pair(connections[i]) \in Range(used)
ByUse ==
  \A i, j \in DOMAIN connections :
     i < j => Latest(used, Pair(connections[i])) < Latest(used, Pair(connections[j]))
Idler ==
  \A f \in Range(used), i \in DOMAIN connections :
     \/ \E j \in DOMAIN connections : Pair(connections[j]) = f
     \/ Latest(used, f) < Latest(used, Pair(connections[i]))

(* The sockets are numbered as they were opened, and none is shared.       *)
OwnSockets ==
  /\ \A i \in DOMAIN connections : connections[i].sock \in 1..Len(connections)
  /\ \A i, j \in DOMAIN connections : connections[i].sock = connections[j].sock => i = j

UdpInv == UdpTypes /\ HaveLatest /\ Bound /\ ByUse /\ Idler /\ OwnSockets /\ Solicited

-------------------------------------------------------------------------------
(* The last use of a pair *)

LEMMA LatestIs ==
  ASSUME NEW u \in Seq(Addresses), NEW f, NEW i, IsLast(u, f, i)
  PROVE  Latest(u, f) = i /\ i \in 1..Len(u)
<1>1. DOMAIN u = 1..Len(u) /\ Len(u) \in Nat
  OBVIOUS
<1>2. ASSUME NEW k, IsLast(u, f, k)  PROVE k = i
  <2>1. k \in 1..Len(u) /\ i \in 1..Len(u)
    BY <1>1, <1>2 DEF IsLast
  <2>2. (k < i => i \in k + 1..Len(u)) /\ (i < k => k \in i + 1..Len(u))
    BY <1>1, <2>1
  <2>3. ~(k < i) /\ ~(i < k)
    BY <1>2, <2>2 DEF IsLast
  <2>4. QED  BY <2>1, <2>3
<1>3. i \in DOMAIN u
  BY DEF IsLast
<1>4. QED  BY <1>1, <1>2, <1>3 DEF Latest

LEMMA LatestType ==
  ASSUME UdpTypes, HaveLatest, NEW f \in Range(used)
  PROVE  Latest(used, f) \in 1..Len(used) /\ IsLast(used, f, Latest(used, f))
<1>1. PICK i \in DOMAIN used : IsLast(used, f, i)
  BY DEF HaveLatest
<1>2. used \in Seq(Addresses)
  BY DEF UdpTypes
<1>3. Latest(used, f) = i /\ i \in 1..Len(used)
  BY <1>1, <1>2, LatestIs
<1>4. QED  BY <1>1, <1>3

(* A new use is the last one of its pair and leaves those of the others.   *)
LEMMA AppendUse ==
  ASSUME NEW u \in Seq(Addresses), NEW g \in Addresses
  PROVE  /\ Append(u, g) \in Seq(Addresses) /\ Len(Append(u, g)) = Len(u) + 1
         /\ Range(Append(u, g)) = Range(u) \cup {g}
         /\ IsLast(Append(u, g), g, Len(u) + 1)
         /\ \A f, i : IsLast(u, f, i) /\ f # g => IsLast(Append(u, g), f, i)
<1> DEFINE v == Append(u, g)
           n == Len(u)
<1>1. /\ n \in Nat /\ DOMAIN u = 1..n /\ DOMAIN v = 1..(n + 1) /\ Len(v) = n + 1
      /\ v \in Seq(Addresses)
      /\ \A i \in 1..n : v[i] = u[i]
      /\ v[n + 1] = g
  BY AppendProperties
<1>2. \A i \in 1..(n + 1) : i \in 1..n \/ i = n + 1
  BY <1>1
<1>3. n + 1 \in 1..(n + 1) /\ \A i \in 1..n : i \in 1..(n + 1)
  BY <1>1
<1> HIDE DEF v, n
<1>4. Range(v) = Range(u) \cup {g}
  BY <1>1, <1>2, <1>3 DEF Range
<1>5. IsLast(v, g, n + 1)
  BY <1>1, <1>3 DEF IsLast
<1>6. ASSUME NEW f, NEW i, IsLast(u, f, i), f # g  PROVE IsLast(v, f, i)
  <2>1. i \in 1..n /\ u[i] = f /\ \A j \in i + 1..n : u[j] # f
    BY <1>1, <1>6 DEF IsLast, n
  <2>2. \A j \in i + 1..(n + 1) : (j \in i + 1..n /\ j \in 1..n) \/ j = n + 1
    BY <1>1, <2>1
  <2>3. \A j \in i + 1..(n + 1) : v[j] # f
    BY <1>1, <1>6, <2>1, <2>2
  <2>4. QED  BY <1>1, <1>3, <2>1, <2>3 DEF IsLast
<1>7. QED  BY <1>1, <1>4, <1>5, <1>6 DEF v, n

LEMMA NewUse ==
  ASSUME UdpTypes, HaveLatest, NEW g \in Addresses, used' = Append(used, g)
  PROVE  /\ used' \in Seq(Addresses) /\ Range(used') = Range(used) \cup {g}
         /\ Latest(used', g) = Len(used) + 1
         /\ \A f \in Range(used) \ {g} :
              Latest(used', f) = Latest(used, f) /\ Latest(used, f) \in 1..Len(used)
         /\ HaveLatest'
<1>1. used \in Seq(Addresses)
  BY DEF UdpTypes
<1>2. /\ used' \in Seq(Addresses) /\ Range(used') = Range(used) \cup {g}
      /\ IsLast(used', g, Len(used) + 1)
      /\ \A f, i : IsLast(used, f, i) /\ f # g => IsLast(used', f, i)
  BY <1>1, AppendUse
<1>3. Latest(used', g) = Len(used) + 1
  BY <1>2, LatestIs
<1>4. \A f \in Range(used) \ {g} :
        /\ IsLast(used', f, Latest(used, f)) /\ Latest(used, f) \in 1..Len(used)
        /\ Latest(used', f) = Latest(used, f)
  <2> TAKE f \in Range(used) \ {g}
  <2>1. IsLast(used, f, Latest(used, f)) /\ Latest(used, f) \in 1..Len(used)
    BY LatestType
  <2>2. IsLast(used', f, Latest(used, f))
    BY <1>2, <2>1
  <2>3. QED  BY <1>2, <2>1, <2>2, LatestIs
<1>5. HaveLatest'
  <2> SUFFICES ASSUME NEW f \in Range(used')  PROVE \E i \in DOMAIN used' : IsLast(used', f, i)
    BY DEF HaveLatest
  <2>1. CASE f = g
    BY <1>2, <2>1 DEF IsLast
  <2>2. CASE f # g
    BY <1>2, <1>4, <2>2 DEF IsLast
  <2>3. QED  BY <2>1, <2>2
<1>6. QED  BY <1>2, <1>3, <1>4, <1>5

-------------------------------------------------------------------------------
(* What reuse and the move to the end of the list do to the connections    *)

(* new is old without some of its connections and with one more at the     *)
(* end, which serves the pair g; what lost its socket was used before all  *)
(* that kept theirs.                                                       *)
Renews(new, old, g, h) ==
  LET n == Len(new)
  IN /\ new \in Seq(Connection) /\ n \in 1..MaxConnections /\ Pair(new[n]) = g
     /\ h \in [1..n - 1 -> DOMAIN old]
     /\ \A i \in 1..n - 1 : new[i] = old[h[i]] /\ Pair(new[i]) # g
     /\ \A i, j \in 1..n - 1 : i < j => h[i] < h[j]
     /\ \A k \in DOMAIN old :
          \/ \E i \in 1..n - 1 : h[i] = k
          \/ Pair(old[k]) = g
          \/ \A i \in 1..n - 1 : k < h[i]
     /\ \A i \in 1..n : new[i].sock \in 1..n
     /\ \A i, j \in 1..n : new[i].sock = new[j].sock => i = j

LEMMA RemoveAtFacts ==
  ASSUME NEW S, NEW s \in Seq(S), NEW i \in 1..Len(s)
  PROVE  /\ RemoveAt(s, i) \in Seq(S) /\ Len(RemoveAt(s, i)) = Len(s) - 1
         /\ \A j \in 1..Len(s) - 1 : RemoveAt(s, i)[j] = IF j < i THEN s[j] ELSE s[j + 1]
<1> DEFINE a == SubSeq(s, 1, i - 1)
           b == SubSeq(s, i + 1, Len(s))
<1>1. Len(s) \in Nat /\ i \in Nat /\ 1 <= i /\ i <= Len(s)
  OBVIOUS
<1>2. a \in Seq(S) /\ Len(a) = i - 1 /\ \A j \in 1..i - 1 : a[j] = s[j]
  BY <1>1, SubSeqProperties, Z3
<1>3. b \in Seq(S) /\ Len(b) = Len(s) - i /\ \A j \in 1..Len(s) - i : b[j] = s[i + j]
  BY <1>1, SubSeqProperties, Z3
<1> HIDE DEF a, b
<1>4. /\ a \o b \in Seq(S) /\ Len(a \o b) = Len(s) - 1
      /\ \A j \in 1..Len(s) - 1 : (a \o b)[j] = IF j <= i - 1 THEN a[j] ELSE b[j - (i - 1)]
  <2>1. /\ a \o b \in Seq(S) /\ Len(a \o b) = Len(a) + Len(b)
        /\ \A j \in 1..Len(a) + Len(b) : (a \o b)[j] = IF j <= Len(a) THEN a[j] ELSE b[j - Len(a)]
    BY <1>2, <1>3, ConcatProperties
  <2>2. Len(a) + Len(b) = Len(s) - 1
    BY <1>1, <1>2, <1>3
  <2>3. QED  BY <1>2, <2>1, <2>2
<1>5. \A j \in 1..Len(s) - 1 : (a \o b)[j] = IF j < i THEN s[j] ELSE s[j + 1]
  <2> TAKE j \in 1..Len(s) - 1
  <2>1. CASE j < i
    BY <1>1, <1>2, <1>4, <2>1
  <2>2. CASE ~(j < i)
    <3>1. j - (i - 1) \in 1..Len(s) - i /\ i + (j - (i - 1)) = j + 1
      BY <1>1, <2>2
    <3>2. QED  BY <1>1, <1>3, <1>4, <2>2, <3>1
  <2>3. QED  BY <2>1, <2>2
<1>6. RemoveAt(s, i) = a \o b
  BY DEF RemoveAt, a, b
<1>7. QED  BY <1>4, <1>5, <1>6

(* Moving connections about, and the i-th to the end, keeps their sockets. *)
LEMMA SocketsKept ==
  ASSUME NEW n \in Nat \ {0}, NEW old, NEW new, NEW h, NEW i \in 1..n,
         \A j \in 1..n - 1 : h[j] \in 1..n \ {i} /\ new[j] = old[h[j]],
         \A j, k \in 1..n - 1 : j < k => h[j] < h[k],
         new[n].sock = old[i].sock,
         \A j \in 1..n : old[j].sock \in 1..n,
         \A j, k \in 1..n : old[j].sock = old[k].sock => j = k
  PROVE  /\ \A j \in 1..n : new[j].sock \in 1..n
         /\ \A j, k \in 1..n : new[j].sock = new[k].sock => j = k
<1>1. \A j \in 1..n : j \in 1..n - 1 \/ j = n
  OBVIOUS
<1>2. \A j, k \in 1..n - 1 : h[j] = h[k] => j = k
  <2> TAKE j, k \in 1..n - 1
  <2>1. j \in Int /\ k \in Int /\ h[j] \in Int /\ h[k] \in Int
    OBVIOUS
  <2>2. (j < k => h[j] < h[k]) /\ (k < j => h[k] < h[j])
    OBVIOUS
  <2>3. QED  BY <2>1, <2>2
<1>3. \A j \in 1..n - 1 : new[j].sock = old[h[j]].sock /\ new[j].sock \in 1..n
  OBVIOUS
<1>4. \A j, k \in 1..n - 1 : new[j].sock = new[k].sock => j = k
  BY <1>2, <1>3
<1>5. \A j \in 1..n - 1 : new[j].sock # new[n].sock
  BY <1>3
<1>6. QED  BY <1>1, <1>3, <1>4, <1>5

(* A pair that has a socket keeps it and goes to the end of the list.      *)
LEMMA Touched ==
  ASSUME UdpInv, NEW i \in 1..Len(connections)
  PROVE  \E h : Renews(Append(RemoveAt(connections, i), connections[i]), connections,
                       Pair(connections[i]), h)
<1> DEFINE old == connections
           n == Len(old)
           g == Pair(old[i])
           rest == RemoveAt(old, i)
           new == Append(rest, old[i])
           h == [j \in 1..n - 1 |-> IF j < i THEN j ELSE j + 1]
<1>1. /\ old \in Seq(Connection) /\ n \in Nat /\ i \in 1..n /\ n <= MaxConnections
      /\ DOMAIN old = 1..n /\ MaxConnections \in Nat
  BY UdpSizes DEF UdpInv, UdpTypes
<1>2. old[i] \in Connection
  BY <1>1, ElementOfSeq
<1>3. /\ rest \in Seq(Connection) /\ Len(rest) = n - 1
      /\ \A j \in 1..n - 1 : rest[j] = IF j < i THEN old[j] ELSE old[j + 1]
  BY <1>1, RemoveAtFacts
<1>4. /\ new \in Seq(Connection) /\ Len(new) = n
      /\ \A j \in 1..n - 1 : new[j] = rest[j]
      /\ new[n] = old[i]
  <2> HIDE DEF rest
  <2>1. n - 1 + 1 = n
    BY <1>1
  <2>2. QED  BY <1>2, <1>3, <2>1, AppendProperties
<1>5. \A j \in 1..n - 1 : h[j] \in 1..n \ {i} /\ new[j] = old[h[j]]
  BY <1>1, <1>3, <1>4
<1>6. \A j, k \in 1..n - 1 : j < k => h[j] < h[k]
  BY <1>1
<1>7. \A k \in 1..n \ {i} : \E j \in 1..n - 1 : h[j] = k
  <2> TAKE k \in 1..n \ {i}
  <2>1. CASE k < i
    <3>1. k \in 1..n - 1 /\ h[k] = k
      BY <1>1, <2>1
    <3>2. QED  BY <3>1
  <2>2. CASE ~(k < i)
    <3>1. k - 1 \in 1..n - 1 /\ h[k - 1] = k
      BY <1>1, <2>2
    <3>2. QED  BY <3>1
  <2>3. QED  BY <2>1, <2>2
<1>8. \A k \in 1..n \ {i} : Pair(old[k]) # g
  <2> TAKE k \in 1..n \ {i}
  <2>1. Latest(used, Pair(old[k])) \in Nat /\ Latest(used, g) \in Nat
    BY <1>1, LatestType DEF UdpInv, Bound
  <2>2. \/ Latest(used, Pair(old[k])) < Latest(used, g)
        \/ Latest(used, g) < Latest(used, Pair(old[k]))
    BY <1>1 DEF UdpInv, ByUse
  <2>3. QED  BY <2>1, <2>2
<1>9. /\ \A j \in 1..n : old[j].sock \in 1..n
      /\ \A j, k \in 1..n : old[j].sock = old[k].sock => j = k
  BY <1>1 DEF UdpInv, OwnSockets
<1>10. /\ \A j \in 1..n : new[j].sock \in 1..n
       /\ \A j, k \in 1..n : new[j].sock = new[k].sock => j = k
  <2>1. n \in Nat \ {0}
    BY <1>1
  <2>2. \A j \in 1..n - 1 : h[j] \in 1..n \ {i} /\ new[j] = old[h[j]]
    BY <1>5
  <2>3. new[n].sock = old[i].sock
    BY <1>4
  <2> HIDE DEF h, new, n
  <2>4. QED  BY <1>1, <1>6, <1>9, <2>1, <2>2, <2>3, SocketsKept
<1>11. h \in [1..n - 1 -> DOMAIN old]
  BY <1>1, <1>5
<1> HIDE DEF h, new, g
<1>12. Renews(new, old, g, h)
  <2>1. n \in 1..MaxConnections /\ Pair(new[n]) = g
    BY <1>1, <1>4 DEF g
  <2>2. \A j \in 1..n - 1 : new[j] = old[h[j]] /\ Pair(new[j]) # g
    BY <1>5, <1>8
  <2>3. \A k \in DOMAIN old : (\E j \in 1..n - 1 : h[j] = k) \/ Pair(old[k]) = g
    BY <1>1, <1>7 DEF g
  <2>4. QED  BY <1>4, <1>6, <1>10, <1>11, <2>1, <2>2, <2>3 DEF Renews
<1>13. QED  BY <1>12 DEF new, g

(* With every socket in use, the least recently used one changes its pair. *)
LEMMA Reused ==
  ASSUME UdpInv, NEW c \in Connection, Len(connections) = MaxConnections,
         c.sock = Head(connections).sock,
         \A k \in DOMAIN connections : Pair(connections[k]) # Pair(c)
  PROVE  \E h : Renews(Append(Tail(connections), c), connections, Pair(c), h)
<1> DEFINE old == connections
           n == Len(old)
           g == Pair(c)
           new == Append(Tail(old), c)
           h == [j \in 1..n - 1 |-> j + 1]
           first == 1
<1>1. /\ old \in Seq(Connection) /\ n \in Nat /\ n = MaxConnections /\ old # <<>>
      /\ DOMAIN old = 1..n /\ n \in Nat \ {0} /\ 1 \in 1..n
  BY UdpSizes DEF UdpInv, UdpTypes
<1>2. /\ Tail(old) \in Seq(Connection) /\ Len(Tail(old)) = n - 1 /\ Head(old) = old[1]
      /\ \A j \in 1..n - 1 : Tail(old)[j] = old[j + 1]
  BY <1>1, HeadTailProperties
<1>3. /\ new \in Seq(Connection) /\ Len(new) = n /\ new[n] = c
      /\ \A j \in 1..n - 1 : new[j] = old[j + 1]
  <2>1. n - 1 + 1 = n
    BY <1>1
  <2>2. QED  BY <1>2, <2>1, AppendProperties
<1>4. \A j \in 1..n - 1 : h[j] \in 1..n \ {first} /\ new[j] = old[h[j]]
  BY <1>1, <1>3
<1>5. \A j, k \in 1..n - 1 : j < k => h[j] < h[k]
  BY <1>1
<1>6. \A k \in 1..n : (\E j \in 1..n - 1 : h[j] = k) \/ \A j \in 1..n - 1 : k < h[j]
  <2> TAKE k \in 1..n
  <2>1. CASE k = 1
    BY <1>1, <2>1
  <2>2. CASE k # 1
    <3>1. k - 1 \in 1..n - 1 /\ h[k - 1] = k
      BY <1>1, <2>2
    <3>2. QED  BY <3>1
  <2>3. QED  BY <2>1, <2>2
<1>7. /\ \A j \in 1..n : new[j].sock \in 1..n
      /\ \A j, k \in 1..n : new[j].sock = new[k].sock => j = k
  <2>1. /\ \A j \in 1..n : old[j].sock \in 1..n
        /\ \A j, k \in 1..n : old[j].sock = old[k].sock => j = k
    BY <1>1 DEF UdpInv, OwnSockets
  <2>2. new[n].sock = old[first].sock
    BY <1>2, <1>3
  <2>3. n \in Nat \ {0} /\ first \in 1..n
    BY <1>1
  <2> HIDE DEF h, new, n, first, old
  <2>4. QED  BY <1>4, <1>5, <2>1, <2>2, <2>3, SocketsKept, ZenonT(60)
<1>8. h \in [1..n - 1 -> DOMAIN old]
  BY <1>1, <1>4
<1>9. \A k \in 1..n : Pair(old[k]) # g
  BY <1>1
<1> HIDE DEF h, new, g
<1>10. Renews(new, old, g, h)
  <2>1. n \in 1..MaxConnections /\ Pair(new[n]) = g
    BY <1>1, <1>3 DEF g
  <2>2. \A j \in 1..n - 1 : new[j] = old[h[j]] /\ Pair(new[j]) # g
    BY <1>4, <1>9
  <2>3. QED  BY <1>1, <1>3, <1>5, <1>6, <1>7, <1>8, <2>1, <2>2 DEF Renews
<1>11. QED  BY <1>10 DEF new, g

(* While there is room, a new pair gets a socket of its own.               *)
LEMMA Opened ==
  ASSUME UdpInv, NEW c \in Connection, Len(connections) # MaxConnections,
         c.sock = Len(connections) + 1,
         \A k \in DOMAIN connections : Pair(connections[k]) # Pair(c)
  PROVE  \E h : Renews(Append(connections, c), connections, Pair(c), h)
<1> DEFINE old == connections
           m == Len(old)
           g == Pair(c)
           new == Append(old, c)
           h == [j \in 1..m |-> j]
<1>1. /\ old \in Seq(Connection) /\ m \in Nat /\ m + 1 \in 1..MaxConnections
      /\ DOMAIN old = 1..m /\ m + 1 - 1 = m
  BY UdpSizes DEF UdpInv, UdpTypes
<1>2. /\ new \in Seq(Connection) /\ Len(new) = m + 1 /\ new[m + 1] = c
      /\ \A j \in 1..m : new[j] = old[j]
  BY <1>1, AppendProperties
<1>3. /\ \A j \in 1..m : old[j].sock \in 1..m
      /\ \A j, k \in 1..m : old[j].sock = old[k].sock => j = k
  BY <1>1 DEF UdpInv, OwnSockets
<1>4. /\ \A j \in 1..m + 1 : new[j].sock \in 1..m + 1
      /\ \A j, k \in 1..m + 1 : new[j].sock = new[k].sock => j = k
  <2>1. \A j \in 1..m + 1 : j \in 1..m \/ j = m + 1
    BY <1>1
  <2>2. m + 1 \in 1..m + 1 /\ m + 1 \notin 1..m /\ \A j \in 1..m : j \in 1..m + 1
    BY <1>1
  <2>3. \A j \in 1..m : new[j].sock = old[j].sock
    BY <1>2
  <2>4. new[m + 1].sock = m + 1
    BY <1>2
  <2> HIDE DEF new
  <2>5. QED  BY <1>3, <2>1, <2>2, <2>3, <2>4
<1>5. h \in [1..m -> DOMAIN old] /\ \A j, k \in 1..m : j < k => h[j] < h[k]
  BY <1>1
<1>6. \A j \in 1..m : h[j] = j /\ new[j] = old[h[j]] /\ Pair(new[j]) # g
  BY <1>1, <1>2
<1> HIDE DEF h, new, g
<1>7. Renews(new, old, g, h)
  <2>1. Pair(new[m + 1]) = g
    BY <1>2 DEF g
  <2>2. QED  BY <1>1, <1>2, <1>4, <1>5, <1>6, <2>1 DEF Renews
<1>8. QED  BY <1>7 DEF new, g

LEMMA ServeFacts ==
  ASSUME UdpInv, NEW l \in Locals, NEW r \in Remotes
  PROVE  \E h : Renews(Serve(l, r), connections, <<l, r>>, h)
<1>1. /\ connections \in Seq(Connection) /\ DOMAIN connections = 1..Len(connections)
      /\ Len(connections) \in Nat
  BY DEF UdpInv, UdpTypes
<1>2. CASE Find(l, r) # {}
  <2> DEFINE i == CHOOSE i \in Find(l, r) : TRUE
  <2>1. i \in DOMAIN connections /\ Pair(connections[i]) = <<l, r>>
    BY <1>2 DEF Find
  <2>2. Serve(l, r) = Append(RemoveAt(connections, i), connections[i])
    BY <1>2 DEF Serve
  <2> HIDE DEF i
  <2>3. QED  BY <1>1, <2>1, <2>2, Touched
<1>3. CASE Find(l, r) = {}
  <2>1. \A k \in DOMAIN connections : Pair(connections[k]) # <<l, r>>
    BY <1>3 DEF Find
  <2>2. CASE Len(connections) = MaxConnections
    <3> DEFINE c == [Head(connections) EXCEPT !.local = l, !.remote = r]
    <3>1. Head(connections) \in Connection
      <4>1. connections # <<>>
        BY <2>2, UdpSizes
      <4>2. QED  BY <1>1, <4>1, HeadTailProperties
    <3>2. c \in Connection /\ c.sock = Head(connections).sock /\ Pair(c) = <<l, r>>
      BY <3>1 DEF Connection, Pair
    <3>3. Serve(l, r) = Append(Tail(connections), c)
      BY <1>3, <2>2 DEF Serve
    <3> HIDE DEF c
    <3>4. QED  BY <2>1, <2>2, <3>2, <3>3, Reused
  <2>3. CASE Len(connections) # MaxConnections
    <3> DEFINE c == [local |-> l, remote |-> r, sock |-> Len(connections) + 1]
    <3>1. c \in Connection /\ c.sock = Len(connections) + 1 /\ Pair(c) = <<l, r>>
      BY <1>1 DEF Connection, Pair
    <3>2. Serve(l, r) = Append(connections, c)
      BY <1>3, <2>3 DEF Serve
    <3> HIDE DEF c
    <3>3. QED  BY <2>1, <2>3, <3>1, <3>2, Opened
  <2>4. QED  BY <2>2, <2>3
<1>4. QED  BY <1>2, <1>3

-------------------------------------------------------------------------------
(* The invariant of the UDP client *)

LEMMA SubmitInv ==
  ASSUME UdpInv, NEW l \in Locals, NEW r \in Remotes, SubmitPacket(l, r)
  PROVE  UdpInv'
<1> DEFINE g == <<l, r>>
<1>1. /\ connections' = Serve(l, r) /\ used' = Append(used, g) /\ delivered' = delivered
      /\ g \in Addresses
  BY DEF SubmitPacket, Addresses
<1>2. PICK h : Renews(connections', connections, g, h)
  BY <1>1, ServeFacts
<1> DEFINE n == Len(connections')
<1>3. /\ connections' \in Seq(Connection) /\ n \in 1..MaxConnections /\ n \in Nat /\ 1 <= n /\ n <= MaxConnections
      /\ DOMAIN connections' = 1..n
      /\ \A i \in 1..n : i \in 1..n - 1 \/ i = n
      /\ connections \in Seq(Connection) /\ DOMAIN connections = 1..Len(connections)
      /\ Len(connections) \in Nat
  BY <1>2, UdpSizes DEF Renews, UdpInv, UdpTypes
<1> HIDE DEF n
<1>4. /\ used' \in Seq(Addresses) /\ Range(used') = Range(used) \cup {g}
      /\ Latest(used', g) = Len(used) + 1 /\ Len(used) \in Nat
      /\ \A f \in Range(used) \ {g} :
           Latest(used', f) = Latest(used, f) /\ Latest(used, f) \in 1..Len(used)
      /\ HaveLatest'
  <2>1. UdpTypes /\ HaveLatest /\ Len(used) \in Nat
    BY DEF UdpInv, UdpTypes
  <2> HIDE DEF g
  <2>2. QED  BY <1>1, <2>1, NewUse
<1>5. /\ Pair(connections'[n]) = g
      /\ \A i \in 1..n - 1 :
           /\ h[i] \in DOMAIN connections /\ connections'[i] = connections[h[i]]
           /\ Pair(connections'[i]) = Pair(connections[h[i]])
           /\ Pair(connections'[i]) \in Range(used) \ {g}
  <2>1. \A i \in 1..n - 1 :
           /\ h[i] \in DOMAIN connections /\ connections'[i] = connections[h[i]]
           /\ Pair(connections'[i]) # g
    BY <1>2 DEF Renews, n
  <2>2. \A i \in DOMAIN connections : Pair(connections[i]) \in Range(used)
    BY DEF UdpInv, Bound
  <2>3. Pair(connections'[n]) = g
    BY <1>2 DEF Renews, n
  <2>4. QED  BY <2>1, <2>2, <2>3
<1>6. UdpTypes'
  BY <1>3, <1>4 DEF UdpTypes, n
<1>7. Bound'
  BY <1>3, <1>4, <1>5 DEF Bound
<1>8. ByUse'
  <2> SUFFICES ASSUME NEW i \in 1..n, NEW j \in 1..n, i < j
               PROVE  Latest(used', Pair(connections'[i])) < Latest(used', Pair(connections'[j]))
    BY <1>3 DEF ByUse
  <2>1. i \in 1..n - 1
    BY <1>3
  <2>2. /\ Latest(used', Pair(connections'[i])) = Latest(used, Pair(connections[h[i]]))
        /\ Latest(used, Pair(connections[h[i]])) \in 1..Len(used)
    BY <1>4, <1>5, <2>1
  <2>3. CASE j = n
    BY <1>4, <1>5, <2>2, <2>3
  <2>4. CASE j \in 1..n - 1
    <3>1. Latest(used', Pair(connections'[j])) = Latest(used, Pair(connections[h[j]]))
      BY <1>4, <1>5, <2>4
    <3>2. h[i] < h[j] /\ h[i] \in DOMAIN connections /\ h[j] \in DOMAIN connections
      BY <1>2, <1>5, <2>1, <2>4 DEF Renews, n
    <3>3. QED  BY <2>2, <3>1, <3>2 DEF UdpInv, ByUse
  <2>5. QED  BY <1>3, <2>3, <2>4
<1>9. Idler'
  <2> SUFFICES ASSUME NEW f \in Range(used'), NEW i \in 1..n,
                      \A j \in 1..n : Pair(connections'[j]) # f
               PROVE  Latest(used', f) < Latest(used', Pair(connections'[i]))
    BY <1>3 DEF Idler
  <2>1. n \in 1..n
    BY <1>3
  <2>2. f \in Range(used) \ {g}
    BY <1>4, <1>5, <2>1
  <2>3. Latest(used', f) = Latest(used, f) /\ Latest(used, f) \in 1..Len(used)
    BY <1>4, <2>2
  <2>4. CASE i = n
    BY <1>4, <1>5, <2>3, <2>4
  <2>5. CASE i \in 1..n - 1
    <3>1. /\ Latest(used', Pair(connections'[i])) = Latest(used, Pair(connections[h[i]]))
          /\ h[i] \in DOMAIN connections
      BY <1>4, <1>5, <2>5
    <3>2. CASE \E k \in DOMAIN connections : Pair(connections[k]) = f
      <4>1. PICK k \in DOMAIN connections : Pair(connections[k]) = f
        BY <3>2
      <4>2. ~\E j \in 1..n - 1 : h[j] = k
        <5>1. \A j \in 1..n - 1 : j \in 1..n
          BY <1>3
        <5>2. QED  BY <1>5, <4>1, <5>1
      <4>3. k < h[i]
        BY <1>2, <2>2, <2>5, <4>1, <4>2 DEF Renews, n
      <4>4. QED  BY <2>3, <3>1, <4>1, <4>3 DEF UdpInv, ByUse
    <3>3. CASE ~\E k \in DOMAIN connections : Pair(connections[k]) = f
      BY <2>2, <2>3, <3>1, <3>3 DEF UdpInv, Idler
    <3>4. QED  BY <3>2, <3>3
  <2>6. QED  BY <1>3, <2>4, <2>5
<1>10. OwnSockets'
  BY <1>2, <1>3 DEF OwnSockets, Renews, n
<1>11. Solicited'
  BY <1>1, <1>4 DEF UdpInv, Solicited
<1>12. QED  BY <1>4, <1>6, <1>7, <1>8, <1>9, <1>10, <1>11 DEF UdpInv

(* A reply is handed to a connection that is bound to its sender.          *)
LEMMA ReceivedInv ==
  ASSUME UdpInv, NEW d \in inbox, HandlerReceived(d)
  PROVE  UdpInv'
<1>1. UNCHANGED <<connections, used>>
  BY DEF HandlerReceived
<1>2. delivered' \subseteq Range(used)
  <2> SUFFICES ASSUME NEW c \in Range(connections), Matches(c, d)
               PROVE  <<c.local, d.from>> \in Range(used)
    BY DEF HandlerReceived
  <2>1. PICK i \in DOMAIN connections : c = connections[i]
    BY DEF Range
  <2>2. Pair(c) = <<c.local, d.from>>
    BY DEF Matches, Pair
  <2>3. QED  BY <2>1, <2>2 DEF UdpInv, Bound
<1>3. /\ UdpTypes' /\ HaveLatest' /\ Bound' /\ ByUse' /\ Idler' /\ OwnSockets'
  BY <1>1 DEF UdpInv, UdpTypes, HaveLatest, Bound, ByUse, Idler, OwnSockets, Pair
<1>4. Solicited'
  BY <1>1, <1>2 DEF Solicited
<1>5. QED  BY <1>3, <1>4 DEF UdpInv

LEMMA StillInv ==
  ASSUME UdpInv, UNCHANGED <<connections, used, delivered>>
  PROVE  UdpInv'
BY DEF UdpInv, UdpTypes, HaveLatest, Bound, ByUse, Idler, OwnSockets, Pair, Solicited

LEMMA UdpInitInv == Init => UdpInv
<1> SUFFICES ASSUME Init  PROVE UdpInv
  OBVIOUS
<1>1. connections = <<>> /\ used = <<>> /\ delivered = {}
  BY DEF Init, UdpInit
<1>2. DOMAIN <<>> = {} /\ Len(<<>>) = 0 /\ \A S : <<>> \in Seq(S)
  OBVIOUS
<1>3. Range(used) = {}
  BY <1>1, <1>2 DEF Range
<1>4. UdpTypes
  BY <1>1, <1>2, UdpSizes DEF UdpTypes
<1>5. HaveLatest /\ Bound /\ ByUse /\ Idler /\ OwnSockets /\ Solicited
  BY <1>1, <1>2, <1>3 DEF HaveLatest, Bound, ByUse, Idler, OwnSockets, Solicited
<1>6. QED  BY <1>4, <1>5 DEF UdpInv

LEMMA UdpNextInv == UdpInv /\ [Next]_vars => UdpInv'
<1> SUFFICES ASSUME UdpInv, [Next]_vars  PROVE UdpInv'
  OBVIOUS
<1>1. CASE RelayNext
  <2>1. ASSUME NEW l \in Locals, NEW r \in Remotes, SubmitPacket(l, r)  PROVE UdpInv'
    BY <2>1, SubmitInv
  <2>2. ASSUME NEW d \in inbox, HandlerReceived(d)  PROVE UdpInv'
    BY <2>2, ReceivedInv
  <2>3. ASSUME NEW d \in working, Forward(d)  PROVE UdpInv'
    BY <2>3, StillInv DEF Forward
  <2>4. ASSUME NEW s \in flows, NEW r \in Remotes, Reply(s, r)  PROVE UdpInv'
    BY <2>4, StillInv DEF Reply
  <2>5. ASSUME NEW s \in flows, CloseExpired(s)  PROVE UdpInv'
    BY <2>5, StillInv DEF CloseExpired
  <2>6. QED  BY <1>1, <2>1, <2>2, <2>3, <2>4, <2>5 DEF RelayNext
<1>2. CASE DnsNext
  BY <1>2, StillInv DEF DnsNext, ToDns, FromDns, ResolverDrops, relayVars
<1>3. CASE UNCHANGED udpVars
  BY <1>3, StillInv DEF udpVars
<1>4. QED  BY <1>1, <1>2, <1>3 DEF Next, Quits, vars

(* A set that a list enumerates without repetition has the list's length.  *)
LEMMA Enumerated ==
  ASSUME NEW n \in Nat, NEW T, NEW b \in [1..n -> T],
         \A t \in T : \E i \in 1..n : b[i] = t,
         \A i, j \in 1..n : b[i] = b[j] => i = j
  PROVE  Cardinality(T) = n
<1>1. b \in Bijection(1..n, T)
  BY DEF Bijection, Injection, IsInjective, Surjection
<1>2. QED  BY <1>1, FS_CountingElements DEF ExistsBijection

LEMMA LastUseIsLatest ==
  ASSUME UdpTypes, HaveLatest, NEW f \in Range(used)
  PROVE  LastUse(f) = Latest(used, f)
<1>1. IsLast(used, f, Latest(used, f))
  BY LatestType
<1>2. \A k : IsLast(used, f, k) => k = Latest(used, f)
  BY LatestIs DEF UdpTypes
<1>3. QED  BY <1>1, <1>2 DEF LastUse, IsLast

LEMMA KeepsRecent == UdpInv => RecentKept
<1> SUFFICES ASSUME UdpInv  PROVE RecentKept
  OBVIOUS
<1> DEFINE n == Len(connections)
           bound == {Pair(c) : c \in Range(connections)}
           socks == {c.sock : c \in Range(connections)}
<1>1. n \in Nat /\ DOMAIN connections = 1..n /\ UdpTypes /\ HaveLatest
  BY DEF UdpInv, UdpTypes
<1>2. /\ \A f \in bound : \E i \in 1..n : Pair(connections[i]) = f
      /\ \A i \in 1..n : Pair(connections[i]) \in bound
      /\ \A t \in socks : \E i \in 1..n : connections[i].sock = t
      /\ \A i \in 1..n : connections[i].sock \in socks
  BY <1>1 DEF Range
<1>3. \A i \in 1..n : /\ Pair(connections[i]) \in Range(used)
                      /\ Latest(used, Pair(connections[i])) \in Nat
  <2>1. \A i \in 1..n : Pair(connections[i]) \in Range(used)
    BY <1>1 DEF UdpInv, Bound
  <2>2. QED  BY <1>1, <2>1, LatestType
<1>4. \A f \in bound, g \in Range(used) \ bound : LastUse(g) < LastUse(f)
  <2> TAKE f \in bound, g \in Range(used) \ bound
  <2>1. PICK i \in 1..n : Pair(connections[i]) = f
    BY <1>2
  <2>2. \A j \in 1..n : Pair(connections[j]) # g
    BY <1>2
  <2>3. Latest(used, g) < Latest(used, f)
    BY <1>1, <2>1, <2>2 DEF UdpInv, Idler
  <2>4. f \in Range(used)
    BY <1>3, <2>1
  <2>5. QED  BY <1>1, <2>3, <2>4, LastUseIsLatest
<1>5. Cardinality(bound) = n
  <2> DEFINE b == [i \in 1..n |-> Pair(connections[i])]
  <2>1. b \in [1..n -> bound] /\ \A t \in bound : \E i \in 1..n : b[i] = t
    BY <1>2
  <2>2. \A i, j \in 1..n : Pair(connections[i]) = Pair(connections[j]) => i = j
    <3> TAKE i, j \in 1..n
    <3>1. i < j => Latest(used, Pair(connections[i])) < Latest(used, Pair(connections[j]))
      BY <1>1 DEF UdpInv, ByUse
    <3>2. j < i => Latest(used, Pair(connections[j])) < Latest(used, Pair(connections[i]))
      BY <1>1 DEF UdpInv, ByUse
    <3>3. i \in Int /\ j \in Int
      OBVIOUS
    <3>4. QED  BY <1>3, <3>1, <3>2, <3>3
  <2>3. \A i, j \in 1..n : b[i] = b[j] => i = j
    BY <2>2
  <2> HIDE DEF b, bound, n
  <2>4. QED  BY <1>1, <2>1, <2>3, Enumerated
<1>6. Cardinality(socks) = n
  <2> DEFINE b == [i \in 1..n |-> connections[i].sock]
  <2>1. b \in [1..n -> socks] /\ \A t \in socks : \E i \in 1..n : b[i] = t
    BY <1>2
  <2>2. \A i, j \in 1..n : b[i] = b[j] => i = j
    BY <1>1 DEF UdpInv, OwnSockets
  <2> HIDE DEF b, socks, n
  <2>3. QED  BY <1>1, <2>1, <2>2, Enumerated
<1>7. QED  BY <1>4, <1>5, <1>6 DEF RecentKept

(* Whatever senders the relay lets through and however sockets change      *)
(* hands, an application only gets datagrams from addresses it has sent to *)
(* (dgram_handler_received compares the address with the connection's).    *)
THEOREM OnlySolicited == Spec => []Solicited
<1>1. UdpInv => Solicited
  BY DEF UdpInv
<1>2. QED  BY UdpInitInv, UdpNextInv, <1>1, PTL DEF Spec

(* reuse_connection and the move to the end of connections_list make the   *)
(* sockets those of the pairs used last, for any number of sockets.        *)
THEOREM LeastRecentlyUsed == Spec => []RecentKept
BY UdpInitInv, UdpNextInv, KeepsRecent, PTL DEF Spec

-------------------------------------------------------------------------------
(* The DNS gateway *)

Query == [id : Nat, port : Ports, asked : Servers, state : {"asked", "answered", "lost"},
          overlaps : BOOLEAN, as : Servers]
Entry == [port : Ports, server : Servers, count : Nat \ {0}]

Pending(Q, p) == {q \in Q : q.port = p /\ q.state # "answered"}

(* Queries are numbered as they were sent.                                 *)
Numbered(Q) ==
  /\ IsFiniteSet(Q) /\ Q \subseteq Query
  /\ \A q \in Q : q.id < Cardinality(Q)
  /\ \A a, b \in Q : a.id = b.id => a = b

(* One entry for each port with queries nobody answered, which counts them *)
(* and names the server of the first.                                      *)
Counted(E, Q) ==
  /\ E \subseteq Entry
  /\ \A e, f \in E : e.port = f.port => e = f
  /\ \A e \in E : e.count = Cardinality(Pending(Q, e.port))
  /\ \A q \in Q : q.state # "answered" =>
       \E e \in E : e.port = q.port /\ (q.overlaps \/ e.server = q.asked)
  /\ \A q \in Q : q.overlaps \/ q.as = q.asked

DnsInv == Numbered(queries) /\ Counted(entries, queries)

LEMMA PendingFinite ==
  ASSUME NEW Q, IsFiniteSet(Q), NEW p
  PROVE  IsFiniteSet(Pending(Q, p)) /\ Cardinality(Pending(Q, p)) \in Nat
<1>1. Pending(Q, p) \in SUBSET Q
  BY DEF Pending
<1>2. QED  BY <1>1, FS_Subset, FS_CardinalityType

(* What became of a query changes, its number does not.                    *)
LEMMA Renamed ==
  ASSUME NEW Q, Numbered(Q), NEW q \in Q, NEW r \in Query, r.id = q.id, r.port = q.port
  PROVE  /\ Numbered((Q \ {q}) \cup {r})
         /\ \A p : p # q.port => Pending((Q \ {q}) \cup {r}, p) = Pending(Q, p)
         /\ r \notin Q \ {q}
<1> DEFINE R == (Q \ {q}) \cup {r}
<1>1. /\ IsFiniteSet(Q) /\ Q \subseteq Query
      /\ \A a \in Q : a.id < Cardinality(Q)
      /\ \A a, b \in Q : a.id = b.id => a = b
  BY DEF Numbered
<1>2. r \notin Q \ {q}
  BY <1>1
<1>3. /\ IsFiniteSet(Q \ {q}) /\ Cardinality(Q \ {q}) = Cardinality(Q) - 1
      /\ Cardinality(Q) \in Nat
  BY <1>1, FS_RemoveElement, FS_CardinalityType
<1>4. IsFiniteSet(R) /\ Cardinality(R) = Cardinality(Q)
  <2>1. IsFiniteSet(R) /\ Cardinality(R) = Cardinality(Q \ {q}) + 1
    BY <1>2, <1>3, FS_AddElement
  <2>2. QED  BY <1>3, <2>1
<1>5. /\ R \subseteq Query
      /\ \A a \in R : a.id < Cardinality(R)
      /\ \A a, b \in R : a.id = b.id => a = b
  BY <1>1, <1>4
<1>6. \A p : p # q.port => Pending(R, p) = Pending(Q, p)
  BY DEF Pending
<1>7. QED  BY <1>2, <1>4, <1>5, <1>6 DEF Numbered

LEMMA AskInv ==
  ASSUME DnsInv, NEW p \in Ports, NEW server \in Servers, ToDns(p, server)
  PROVE  DnsInv'
<1> DEFINE Q == queries
           E == entries
           c == Cardinality(queries)
           new == [id |-> c, port |-> p, asked |-> server, state |-> "asked",
                   overlaps |-> Unanswered(p) # {}, as |-> server]
<1>1. queries' = Q \cup {new} /\ InsertConnection(p, server)
  BY DEF ToDns
<1>2. /\ IsFiniteSet(Q) /\ Q \subseteq Query /\ c \in Nat
      /\ \A q \in Q : q.id < c /\ q.id \in Nat
      /\ \A a, b \in Q : a.id = b.id => a = b
  <2>1. IsFiniteSet(Q) /\ Q \subseteq Query
    BY DEF DnsInv, Numbered
  <2>2. \A q \in Query : q.id \in Nat
    BY DEF Query
  <2>3. QED  BY <2>1, <2>2, FS_CardinalityType DEF DnsInv, Numbered
<1>3. /\ new \in Query /\ new.id = c /\ new.port = p /\ new.asked = server
      /\ new.state = "asked" /\ new.as = server
      /\ new.overlaps <=> Pending(Q, p) # {}
  <2>1. Unanswered(p) = Pending(Q, p)
    BY DEF Unanswered, Pending
  <2>2. (Unanswered(p) # {}) \in BOOLEAN
    OBVIOUS
  <2>3. QED  BY <1>2, <2>1, <2>2 DEF Query
<1> HIDE DEF new, c
<1>4. new \notin Q
  BY <1>2, <1>3
<1>5. Numbered(queries')
  <2>1. IsFiniteSet(queries') /\ Cardinality(queries') = c + 1
    BY <1>1, <1>2, <1>4, FS_AddElement DEF c
  <2>2. queries' \subseteq Query
    BY <1>1, <1>2, <1>3
  <2>3. \A q \in queries' : q.id < c + 1
    BY <1>1, <1>2, <1>3
  <2>4. \A a, b \in queries' : a.id = b.id => a = b
    BY <1>1, <1>2, <1>3
  <2>5. QED  BY <2>1, <2>2, <2>3, <2>4 DEF Numbered
<1>6. /\ \A o : o # p => Pending(queries', o) = Pending(Q, o)
      /\ Cardinality(Pending(queries', p)) = Cardinality(Pending(Q, p)) + 1
      /\ Cardinality(Pending(Q, p)) \in Nat
  <2>1. \A o : o # p => Pending(queries', o) = Pending(Q, o)
    BY <1>1, <1>3 DEF Pending
  <2>2. Pending(queries', p) = Pending(Q, p) \cup {new} /\ new \notin Pending(Q, p)
    BY <1>1, <1>3, <1>4 DEF Pending
  <2>3. IsFiniteSet(Pending(Q, p)) /\ Cardinality(Pending(Q, p)) \in Nat
    BY <1>2, PendingFinite
  <2>4. QED  BY <2>1, <2>2, <2>3, FS_AddElement
<1>7. /\ E \subseteq Entry
      /\ \A e, f \in E : e.port = f.port => e = f
      /\ \A e \in E : e.count = Cardinality(Pending(Q, e.port))
      /\ \A q \in Q : q.state # "answered" =>
           \E e \in E : e.port = q.port /\ (q.overlaps \/ e.server = q.asked)
      /\ \A q \in Q : q.overlaps \/ q.as = q.asked
  BY DEF DnsInv, Counted
<1>8. CASE FindConnection(p) = {}
  <2> DEFINE f == [port |-> p, server |-> server, count |-> 1]
  <2>1. entries' = E \cup {f}
    BY <1>1, <1>8 DEF InsertConnection
  <2>2. f \in Entry /\ f.port = p /\ f.server = server /\ f.count = 1
    BY DEF Entry
  <2> HIDE DEF f
  <2>3. \A e \in E : e.port # p
    BY <1>8 DEF FindConnection
  <2>4. Pending(Q, p) = {}
    BY <1>7, <2>3 DEF Pending
  <2>5. Cardinality(Pending(queries', p)) = 1
    BY <1>6, <2>4, FS_EmptySet
  <2>6. entries' \subseteq Entry /\ \A e, g \in entries' : e.port = g.port => e = g
    BY <1>7, <2>1, <2>2, <2>3
  <2>7. \A e \in entries' : e.count = Cardinality(Pending(queries', e.port))
    BY <1>6, <1>7, <2>1, <2>2, <2>3, <2>5
  <2>8. \A q \in queries' : q.state # "answered" =>
           \E e \in entries' : e.port = q.port /\ (q.overlaps \/ e.server = q.asked)
    BY <1>1, <1>3, <1>7, <2>1, <2>2
  <2>9. \A q \in queries' : q.overlaps \/ q.as = q.asked
    BY <1>1, <1>3, <1>7
  <2>10. QED  BY <1>5, <2>6, <2>7, <2>8, <2>9 DEF DnsInv, Counted
<1>9. CASE FindConnection(p) # {}
  <2>1. PICK e \in FindConnection(p) : entries' = Recount(e, e.count + 1)
    BY <1>1, <1>9 DEF InsertConnection
  <2> DEFINE f == [e EXCEPT !.count = e.count + 1]
  <2>2. e \in E /\ e.port = p /\ entries' = (E \ {e}) \cup {f} /\ e \in Entry
    BY <1>7, <2>1 DEF FindConnection, Recount
  <2>3. f \in Entry /\ f.port = p /\ f.server = e.server /\ f.count = e.count + 1
    BY <2>2 DEF Entry
  <2> HIDE DEF f
  <2>4. \A g \in E \ {e} : g.port # p
    BY <1>7, <2>2
  <2>5. Pending(Q, p) # {}
    <3>1. e.count = Cardinality(Pending(Q, p)) /\ e.count # 0
      BY <1>7, <2>2 DEF Entry
    <3>2. QED  BY <3>1, FS_EmptySet
  <2>6. entries' \subseteq Entry /\ \A g, h \in entries' : g.port = h.port => g = h
    BY <1>7, <2>2, <2>3, <2>4
  <2>7. \A g \in entries' : g.count = Cardinality(Pending(queries', g.port))
    BY <1>6, <1>7, <2>2, <2>3, <2>4
  <2>8. \A q \in queries' : q.state # "answered" =>
           \E g \in entries' : g.port = q.port /\ (q.overlaps \/ g.server = q.asked)
    BY <1>1, <1>3, <1>7, <2>2, <2>3, <2>5
  <2>9. \A q \in queries' : q.overlaps \/ q.as = q.asked
    BY <1>1, <1>3, <1>7
  <2>10. QED  BY <1>5, <2>6, <2>7, <2>8, <2>9 DEF DnsInv, Counted
<1>10. QED  BY <1>8, <1>9

LEMMA AnswerInv ==
  ASSUME DnsInv, NEW q \in queries, FromDns(q)
  PROVE  DnsInv'
<1> DEFINE Q == queries
           E == entries
<1>1. PICK e \in FindConnection(q.port) :
        /\ queries' = (Q \ {q}) \cup {[q EXCEPT !.state = "answered", !.as = e.server]}
        /\ RemoveConnection(e)
  BY DEF FromDns
<1>2. /\ E \subseteq Entry
      /\ \A f, g \in E : f.port = g.port => f = g
      /\ \A f \in E : f.count = Cardinality(Pending(Q, f.port))
      /\ \A a \in Q : a.state # "answered" =>
           \E f \in E : f.port = a.port /\ (a.overlaps \/ f.server = a.asked)
      /\ \A a \in Q : a.overlaps \/ a.as = a.asked
      /\ IsFiniteSet(Q) /\ Q \subseteq Query /\ Numbered(Q)
  BY DEF DnsInv, Counted, Numbered
<1> DEFINE r == [q EXCEPT !.state = "answered", !.as = e.server]
<1>3. e \in E /\ e.port = q.port /\ e \in Entry /\ q \in Query /\ q.state = "asked"
  BY <1>1, <1>2 DEF FindConnection, FromDns
<1>4. /\ r \in Query /\ r.id = q.id /\ r.port = q.port /\ r.asked = q.asked
      /\ r.state = "answered" /\ r.as = e.server /\ r.overlaps = q.overlaps
  BY <1>3 DEF Query, Entry
<1>5. queries' = (Q \ {q}) \cup {r}
  BY <1>1
<1> HIDE DEF r
<1>6. /\ Numbered(queries')
      /\ \A p : p # q.port => Pending(queries', p) = Pending(Q, p)
  BY <1>2, <1>4, <1>5, Renamed
<1>7. /\ Cardinality(Pending(queries', q.port)) = Cardinality(Pending(Q, q.port)) - 1
      /\ IsFiniteSet(Pending(queries', q.port))
      /\ Cardinality(Pending(queries', q.port)) \in Nat
  <2>1. Pending(queries', q.port) = Pending(Q, q.port) \ {q} /\ q \in Pending(Q, q.port)
    BY <1>2, <1>3, <1>4, <1>5 DEF Pending, Numbered
  <2>2. IsFiniteSet(Pending(Q, q.port))
    BY <1>2, PendingFinite
  <2>3. IsFiniteSet(Pending(queries', q.port))
    BY <2>1, <2>2, FS_RemoveElement
  <2>4. QED  BY <2>1, <2>2, <2>3, FS_RemoveElement, FS_CardinalityType
<1>8. \A a \in queries' : a.overlaps \/ a.as = a.asked
  <2>1. q.overlaps \/ e.server = q.asked
    BY <1>2, <1>3
  <2>2. QED  BY <1>2, <1>4, <1>5, <2>1
<1>9. \A f \in E \ {e} : f.port # q.port
  BY <1>2, <1>3
<1>10. e.count = Cardinality(Pending(Q, q.port)) /\ e.count \in Nat \ {0}
  BY <1>2, <1>3 DEF Entry
<1>11. CASE e.count - 1 <= 0
  <2>1. entries' = E \ {e}
    BY <1>1, <1>11 DEF RemoveConnection
  <2>2. Pending(queries', q.port) = {}
    <3>1. Cardinality(Pending(queries', q.port)) = 0
      BY <1>7, <1>10, <1>11
    <3>2. QED  BY <1>7, <3>1, FS_EmptySet
  <2>3. \A f \in entries' : f.count = Cardinality(Pending(queries', f.port))
    BY <1>2, <1>6, <1>9, <2>1
  <2>4. \A a \in queries' : a.state # "answered" =>
          \E f \in entries' : f.port = a.port /\ (a.overlaps \/ f.server = a.asked)
    <3> SUFFICES ASSUME NEW a \in queries', a.state # "answered"
                 PROVE  \E f \in entries' : f.port = a.port /\ (a.overlaps \/ f.server = a.asked)
      OBVIOUS
    <3>1. a.port # q.port
      BY <2>2 DEF Pending
    <3>2. a \in Q
      BY <1>4, <1>5
    <3>3. QED  BY <1>2, <1>3, <2>1, <3>1, <3>2
  <2>5. entries' \subseteq Entry /\ \A f, g \in entries' : f.port = g.port => f = g
    BY <1>2, <2>1
  <2>6. QED  BY <1>6, <1>8, <2>3, <2>4, <2>5 DEF DnsInv, Counted
<1>12. CASE ~(e.count - 1 <= 0)
  <2> DEFINE d == [e EXCEPT !.count = e.count - 1]
  <2>1. entries' = (E \ {e}) \cup {d}
    BY <1>1, <1>12 DEF RemoveConnection, Recount
  <2>2. d \in Entry /\ d.port = q.port /\ d.server = e.server /\ d.count = e.count - 1
    BY <1>3, <1>10, <1>12 DEF Entry
  <2> HIDE DEF d
  <2>3. \A f \in entries' : f.count = Cardinality(Pending(queries', f.port))
    BY <1>2, <1>6, <1>7, <1>9, <1>10, <2>1, <2>2
  <2>4. \A a \in queries' : a.state # "answered" =>
          \E f \in entries' : f.port = a.port /\ (a.overlaps \/ f.server = a.asked)
    BY <1>2, <1>3, <1>4, <1>5, <2>1, <2>2
  <2>5. entries' \subseteq Entry /\ \A f, g \in entries' : f.port = g.port => f = g
    BY <1>2, <1>9, <2>1, <2>2
  <2>6. QED  BY <1>6, <1>8, <2>3, <2>4, <2>5 DEF DnsInv, Counted
<1>13. QED  BY <1>11, <1>12

(* A query the resolver gave up still counts.                              *)
LEMMA DropInv ==
  ASSUME DnsInv, NEW q \in queries, ResolverDrops(q)
  PROVE  DnsInv'
<1> DEFINE Q == queries
           r == [q EXCEPT !.state = "lost"]
<1>1. queries' = (Q \ {q}) \cup {r} /\ entries' = entries /\ q.state = "asked"
  BY DEF ResolverDrops
<1>2. /\ entries \subseteq Entry
      /\ \A f, g \in entries : f.port = g.port => f = g
      /\ \A f \in entries : f.count = Cardinality(Pending(Q, f.port))
      /\ \A a \in Q : a.state # "answered" =>
           \E f \in entries : f.port = a.port /\ (a.overlaps \/ f.server = a.asked)
      /\ \A a \in Q : a.overlaps \/ a.as = a.asked
      /\ IsFiniteSet(Q) /\ Q \subseteq Query /\ Numbered(Q)
  BY DEF DnsInv, Counted, Numbered
<1>3. /\ r \in Query /\ r.id = q.id /\ r.port = q.port /\ r.asked = q.asked
      /\ r.state = "lost" /\ r.as = q.as /\ r.overlaps = q.overlaps
  BY <1>2 DEF Query
<1> HIDE DEF r
<1>4. /\ Numbered(queries') /\ r \notin Q \ {q}
      /\ \A p : p # q.port => Pending(queries', p) = Pending(Q, p)
  <2>1. Numbered(Q) /\ queries' = (Q \ {q}) \cup {r}
    BY <1>1, <1>2
  <2> HIDE DEF Q
  <2>2. q \in Q
    BY DEF Q
  <2>3. QED  BY <1>3, <2>1, <2>2, Renamed
<1>5. Cardinality(Pending(queries', q.port)) = Cardinality(Pending(Q, q.port))
  <2> DEFINE P == Pending(Q, q.port)
  <2>1. Pending(queries', q.port) = (P \ {q}) \cup {r} /\ q \in P /\ r \notin P \ {q}
    BY <1>1, <1>3, <1>4 DEF Pending
  <2>2. IsFiniteSet(P) /\ Cardinality(P) \in Nat
    BY <1>2, PendingFinite
  <2> HIDE DEF P
  <2>3. IsFiniteSet(P \ {q}) /\ Cardinality(P \ {q}) = Cardinality(P) - 1
    BY <2>1, <2>2, FS_RemoveElement
  <2>4. Cardinality((P \ {q}) \cup {r}) = Cardinality(P \ {q}) + 1
    BY <2>1, <2>3, FS_AddElement
  <2>5. Cardinality((P \ {q}) \cup {r}) = Cardinality(P)
    BY <2>2, <2>3, <2>4
  <2>6. QED  BY <2>1, <2>5 DEF P
<1>6. \A f \in entries' : f.count = Cardinality(Pending(queries', f.port))
  BY <1>1, <1>2, <1>4, <1>5
<1>7. \A a \in queries' : a.state # "answered" =>
        \E f \in entries' : f.port = a.port /\ (a.overlaps \/ f.server = a.asked)
  BY <1>1, <1>2, <1>3
<1>8. \A a \in queries' : a.overlaps \/ a.as = a.asked
  BY <1>1, <1>2, <1>3
<1>9. QED  BY <1>1, <1>2, <1>4, <1>6, <1>7, <1>8 DEF DnsInv, Counted

LEMMA DnsInitInv == Init => DnsInv
<1> SUFFICES ASSUME Init  PROVE DnsInv
  OBVIOUS
<1>1. queries = {} /\ entries = {}
  BY DEF Init, UdpInit
<1>2. QED  BY <1>1, FS_EmptySet DEF DnsInv, Numbered, Counted

LEMMA DnsNextInv == DnsInv /\ [Next]_vars => DnsInv'
<1> SUFFICES ASSUME DnsInv, [Next]_vars  PROVE DnsInv'
  OBVIOUS
<1>1. CASE DnsNext
  <2>1. ASSUME NEW p \in Ports, NEW server \in Servers, ToDns(p, server)  PROVE DnsInv'
    BY <2>1, AskInv
  <2>2. ASSUME NEW q \in queries, FromDns(q)  PROVE DnsInv'
    BY <2>2, AnswerInv
  <2>3. ASSUME NEW q \in queries, ResolverDrops(q)  PROVE DnsInv'
    BY <2>3, DropInv
  <2>4. QED  BY <1>1, <2>1, <2>2, <2>3 DEF DnsNext
<1>2. CASE UNCHANGED <<queries, entries>>
  BY <1>2 DEF DnsInv
<1>3. CASE RelayNext
  BY <1>2, <1>3 DEF RelayNext, SubmitPacket, HandlerReceived, Forward, Reply, CloseExpired, dnsVars
<1>4. CASE UNCHANGED udpVars
  BY <1>2, <1>4 DEF udpVars
<1>5. QED  BY <1>1, <1>3, <1>4 DEF Next, Quits, vars

(* The count of connections_tree's entry for a port is that of the queries *)
(* nobody answered, and a query that was alone on its port is answered in  *)
(* the name of its server, for any ports, servers and number of queries.   *)
THEOREM AnswersAttributed == Spec => []DnsAttributed
<1>1. DnsInv => DnsAttributed
  <2> SUFFICES ASSUME DnsInv  PROVE DnsAttributed
    OBVIOUS
  <2>1. \A p : Unanswered(p) = Pending(queries, p)
    BY DEF Unanswered, Pending
  <2>2. ASSUME NEW p \in Ports
        PROVE  {e.count : e \in FindConnection(p)} = {Cardinality(Unanswered(p))} \ {0}
    <3>1. \A e \in FindConnection(p) : e.count = Cardinality(Unanswered(p)) /\ e.count # 0
      BY <2>1 DEF DnsInv, Counted, FindConnection, Entry
    <3>2. FindConnection(p) = {} => Cardinality(Unanswered(p)) = 0
      <4>1. FindConnection(p) = {} => Unanswered(p) = {}
        BY DEF DnsInv, Counted, FindConnection, Unanswered
      <4>2. QED  BY <4>1, FS_EmptySet
    <3>3. QED  BY <3>1, <3>2
  <2>3. \A q \in queries : q.overlaps \/ q.as = q.asked
    BY DEF DnsInv, Counted
  <2>4. QED  BY <2>2, <2>3 DEF DnsAttributed
<1>2. QED  BY DnsInitInv, DnsNextInv, <1>1, PTL DEF Spec
-------------------------------------------------------------------------------
(* TCP: the struct tcp_client *)

(* The states that the functions of tcp_client pass to each other.         *)
Clients ==
  [alive : BOOLEAN, closed : BOOLEAN, up : BOOLEAN, socksClosed : BOOLEAN, buf : Seq(Nat),
   sending : BOOLEAN, rbuf : Seq(Nat), receiving : BOOLEAN, pending : Nat]
Pcbs ==
  [state : {"LISTEN", "ESTABLISHED", "CLOSE_WAIT", "CLOSED"}, rcvWnd : Nat, unacked : Seq(Nat),
   recvCb : BOOLEAN]
Socks5 ==
  [state : {"CONNECTING", "UP", "FREED"}, written : Seq(Nat), in : Seq(Nat), made : Nat,
   eof : BOOLEAN, down : BOOLEAN]
Apps == [sent : Nat, got : Seq(Nat), fin : BOOLEAN, dead : BOOLEAN]
States == [client : Clients, pcb : Pcbs, sock : Socks5, app : Apps]

Holds(t) == t.client.alive /\ ~t.client.closed
Linked(t) == t.client.alive /\ ~t.client.socksClosed

(* Units k + 1, ..., k + n of a direction.                                 *)
Units(k, n) == [i \in 1..n |-> k + i]

(* What was read from SOCKS before the units that still lie there.         *)
ReadOf(t) == Ids(t.sock.made - Len(t.sock.in))

(* Each half of the connection is held by both sides or by none.           *)
Halves(t) ==
  /\ t.pcb.state # "LISTEN"
  /\ t.pcb.state = "CLOSED" <=> ~Holds(t)
  /\ t.client.socksClosed <=> t.sock.state = "FREED"
  /\ ~t.client.socksClosed => (t.client.up <=> t.sock.state = "UP")
  /\ ~t.client.alive => t.client.socksClosed
  /\ t.client.socksClosed => ~t.client.sending /\ ~t.client.receiving
  /\ t.client.alive /\ t.client.closed =>
       ~t.client.socksClosed /\ t.client.buf # <<>> /\ (t.app.fin \/ t.app.dead)
  /\ Holds(t) /\ t.client.socksClosed => t.sock.down
  /\ Holds(t) /\ ~t.client.socksClosed => t.pcb.recvCb

(* Before SOCKS is up nothing goes down.                                   *)
Early(t) ==
  ~t.client.up =>
    /\ t.sock.made = 0 /\ t.sock.in = <<>> /\ ~t.client.receiving /\ t.client.rbuf = <<>>
    /\ ~t.client.sending
    /\ t.client.pending = 0 /\ t.pcb.unacked = <<>> /\ t.app.got = <<>>

(* Up: the buffer follows what was written, and lwIP offers its free room. *)
Upward(t) ==
  /\ Linked(t) => t.sock.written \o t.client.buf = Ids(t.app.sent)
  /\ Holds(t) /\ ~t.client.socksClosed => t.pcb.rcvWnd + Len(t.client.buf) = Window
  /\ Linked(t) /\ t.client.up => (t.client.sending <=> t.client.buf # <<>>)

(* Down: what lwIP holds and what the receive buffer holds follow in order. *)
Downward(t) ==
  /\ Len(t.sock.in) <= t.sock.made
  /\ t.sock.in = Units(t.sock.made - Len(t.sock.in), Len(t.sock.in))
  /\ Holds(t) =>
       /\ t.client.pending = Len(t.pcb.unacked)
       /\ (t.app.got \o t.pcb.unacked) \o t.client.rbuf = ReadOf(t)

(* What is left when both halves have gone.                                *)
Settled(t) ==
  ~t.client.alive =>
    /\ ~t.sock.down => t.sock.written = Ids(t.app.sent)
    /\ ~t.app.fin /\ ~t.app.dead => t.app.got = ReadOf(t)

Sound(t) == t \in States /\ Halves(t) /\ Early(t) /\ Upward(t) /\ Downward(t) /\ Settled(t)

(* An operation is outstanding, or a confirmation is due.                  *)
Waits(t) ==
  Holds(t) =>
    /\ t.client.socksClosed => t.client.pending > 0
    /\ t.client.up /\ ~t.client.socksClosed =>
         (t.client.receiving <=> t.client.rbuf = <<>>) /\ (t.client.rbuf # <<>> => t.client.pending > 0)

(* Without SOCKS, lwIP drops what the application still sends.             *)
Deaf(t) == Holds(t) /\ t.client.socksClosed => t.client.up /\ ~t.pcb.recvCb

Good(t) == Sound(t) /\ Waits(t) /\ Deaf(t)

(* After terminate nothing moves any more.                                 *)
Ended ==
  /\ quitting /\ ~client.alive /\ ~client.sending /\ ~client.receiving /\ sock.state # "UP"

Fresh(t) ==
  /\ t.client = [alive |-> FALSE, closed |-> FALSE, up |-> FALSE, socksClosed |-> FALSE,
                 buf |-> <<>>, sending |-> FALSE, rbuf |-> <<>>, receiving |-> FALSE, pending |-> 0]
  /\ t.pcb = [state |-> "LISTEN", rcvWnd |-> Window, unacked |-> <<>>, recvCb |-> FALSE]
  /\ t.sock = [state |-> "CONNECTING", written |-> <<>>, in |-> <<>>, made |-> 0,
               eof |-> FALSE, down |-> FALSE]
  /\ t.app = [sent |-> 0, got |-> <<>>, fin |-> FALSE, dead |-> FALSE]

TcpInv == Ended \/ (~quitting /\ (Fresh(Now) \/ Good(Now)))

-------------------------------------------------------------------------------
(* Sequences of units *)

LEMMA UnitsAre ==
  ASSUME NEW k \in Nat, NEW n \in Nat
  PROVE  Units(k, n) \in Seq(Nat) /\ Len(Units(k, n)) = n
         /\ \A i \in 1..n : Units(k, n)[i] = k + i
BY DEF Units

LEMMA IdsAreUnits == \A n \in Nat : Ids(n) = Units(0, n) /\ Ids(n) \in Seq(Nat) /\ Len(Ids(n)) = n
<1>1. ASSUME NEW n \in Nat  PROVE Ids(n) = Units(0, n)
  BY DEF Ids, Units
<1>2. QED  BY <1>1, UnitsAre

LEMMA NoUnits == \A k \in Nat : Units(k, 0) = <<>> /\ Ids(0) = <<>>
<1>1. \A k \in Nat : Units(k, 0) \in Seq(Nat) /\ Len(Units(k, 0)) = 0
  BY UnitsAre
<1>2. QED  BY <1>1, IdsAreUnits, EmptySeq

LEMMA UnitsFollow ==
  ASSUME NEW k \in Nat, NEW n \in Nat
  PROVE  Ids(k) \o Units(k, n) = Ids(k + n)
<1>1. /\ Ids(k) \in Seq(Nat) /\ Len(Ids(k)) = k /\ Units(k, n) \in Seq(Nat) /\ Len(Units(k, n)) = n
      /\ Ids(k + n) \in Seq(Nat) /\ Len(Ids(k + n)) = k + n
  BY IdsAreUnits, UnitsAre
<1> DEFINE both == Ids(k) \o Units(k, n)
<1>2. both \in Seq(Nat) /\ Len(both) = k + n
      /\ \A i \in 1..k + n : both[i] = IF i <= k THEN Ids(k)[i] ELSE Units(k, n)[i - k]
  <2>1. /\ both \in Seq(Nat) /\ Len(both) = Len(Ids(k)) + Len(Units(k, n))
        /\ \A i \in 1..Len(Ids(k)) + Len(Units(k, n)) :
             both[i] = IF i <= Len(Ids(k)) THEN Ids(k)[i] ELSE Units(k, n)[i - Len(Ids(k))]
    BY <1>1, ConcatProperties, Zenon
  <2> HIDE DEF both
  <2>2. QED  BY <1>1, <2>1
<1>3. \A i \in 1..k + n : both[i] = Ids(k + n)[i]
  <2> SUFFICES ASSUME NEW i \in 1..k + n  PROVE both[i] = i
    BY DEF Ids
  <2>1. CASE i <= k
    BY <1>2, <2>1 DEF Ids
  <2>2. CASE ~(i <= k)
    <3>1. i - k \in 1..n
      BY <2>2
    <3>2. Units(k, n)[i - k] = k + (i - k)
      BY <3>1, UnitsAre
    <3> HIDE DEF both
    <3>3. QED  BY <1>2, <2>2, <3>2
  <2>3. QED  BY <2>1, <2>2
<1> HIDE DEF both
<1>4. both = Ids(k + n)
  BY <1>1, <1>2, <1>3, SeqEqual
<1>5. QED  BY <1>4 DEF both

LEMMA UnitsSplit ==
  ASSUME NEW k \in Nat, NEW n \in Nat, NEW m \in 0..n
  PROVE  /\ SubSeq(Units(k, n), 1, m) = Units(k, m)
         /\ SubSeq(Units(k, n), m + 1, n) = Units(k + m, n - m)
<1>1. \A i \in 1..n : Units(k, n)[i] = k + i /\ Units(k, n)[i] \in Nat
  <2>1. \A i \in 1..n : Units(k, n)[i] = k + i
    BY UnitsAre
  <2>2. QED  BY <2>1
<1>2. /\ SubSeq(Units(k, n), 1, m) \in Seq(Nat) /\ Len(SubSeq(Units(k, n), 1, m)) = m
      /\ \A i \in 1..m : SubSeq(Units(k, n), 1, m)[i] = k + i
  <2>1. /\ SubSeq(Units(k, n), 1, m) \in Seq(Nat)
        /\ Len(SubSeq(Units(k, n), 1, m)) = IF 1 <= m THEN m - 1 + 1 ELSE 0
        /\ \A i \in 1..m - 1 + 1 : SubSeq(Units(k, n), 1, m)[i] = Units(k, n)[1 + i - 1]
    BY <1>1, SubSeqProperties
  <2>2. QED  BY <1>1, <2>1
<1>3. /\ SubSeq(Units(k, n), m + 1, n) \in Seq(Nat) /\ Len(SubSeq(Units(k, n), m + 1, n)) = n - m
      /\ \A i \in 1..n - m : SubSeq(Units(k, n), m + 1, n)[i] = k + m + i
  <2>1. /\ SubSeq(Units(k, n), m + 1, n) \in Seq(Nat)
        /\ Len(SubSeq(Units(k, n), m + 1, n)) = IF m + 1 <= n THEN n - (m + 1) + 1 ELSE 0
        /\ \A i \in 1..n - (m + 1) + 1 : SubSeq(Units(k, n), m + 1, n)[i] = Units(k, n)[m + 1 + i - 1]
    BY <1>1, SubSeqProperties
  <2>2. QED  BY <1>1, <2>1
<1>4. /\ m \in Nat /\ Units(k, m) \in Seq(Nat) /\ Len(Units(k, m)) = m
      /\ \A i \in 1..m : Units(k, m)[i] = k + i
  BY UnitsAre
<1>5. /\ Units(k + m, n - m) \in Seq(Nat) /\ Len(Units(k + m, n - m)) = n - m
      /\ \A i \in 1..n - m : Units(k + m, n - m)[i] = k + m + i
  <2>1. k + m \in Nat /\ n - m \in Nat
    OBVIOUS
  <2>2. QED  BY <2>1, UnitsAre
<1>6. SubSeq(Units(k, n), 1, m) = Units(k, m)
  <2> DEFINE a == SubSeq(Units(k, n), 1, m)
             b == Units(k, m)
  <2>1. a \in Seq(Nat) /\ b \in Seq(Nat) /\ Len(a) = Len(b) /\ \A i \in 1..Len(a) : a[i] = b[i]
    BY <1>2, <1>4
  <2> HIDE DEF a, b
  <2>2. a = b
    BY <2>1, SeqEqual
  <2>3. QED  BY <2>2 DEF a, b
<1>7. SubSeq(Units(k, n), m + 1, n) = Units(k + m, n - m)
  <2> DEFINE a == SubSeq(Units(k, n), m + 1, n)
             b == Units(k + m, n - m)
  <2>1. a \in Seq(Nat) /\ b \in Seq(Nat) /\ Len(a) = Len(b) /\ \A i \in 1..Len(a) : a[i] = b[i]
    BY <1>3, <1>5
  <2> HIDE DEF a, b
  <2>2. a = b
    BY <2>1, SeqEqual
  <2>3. QED  BY <2>2 DEF a, b
<1>8. QED  BY <1>6, <1>7

(* Taking n units from the front of b. *)
LEMMA Split ==
  ASSUME NEW b \in Seq(Nat), NEW n \in 0..Len(b)
  PROVE  /\ SubSeq(b, 1, n) \in Seq(Nat) /\ Len(SubSeq(b, 1, n)) = n
         /\ SubSeq(b, n + 1, Len(b)) \in Seq(Nat) /\ Len(SubSeq(b, n + 1, Len(b))) = Len(b) - n
         /\ SubSeq(b, 1, n) \o SubSeq(b, n + 1, Len(b)) = b
<1>1. Len(b) \in Nat /\ \A i \in 1..Len(b) : b[i] \in Nat
  BY ElementOfSeq
<1>2. SubSeq(b, 1, n) \in Seq(Nat) /\ Len(SubSeq(b, 1, n)) = IF 1 <= n THEN n - 1 + 1 ELSE 0
  BY <1>1, SubSeqProperties
<1>3. /\ SubSeq(b, n + 1, Len(b)) \in Seq(Nat)
      /\ Len(SubSeq(b, n + 1, Len(b))) = IF n + 1 <= Len(b) THEN Len(b) - (n + 1) + 1 ELSE 0
  BY <1>1, SubSeqProperties
<1>4. SubSeq(b, 1, n) \o SubSeq(b, n + 1, Len(b)) = SubSeq(b, 1, Len(b))
  <2>1. 1 \in 1..Len(b) + 1 /\ n \in 1 - 1..Len(b) /\ Len(b) \in n..Len(b)
    BY <1>1
  <2>2. \A m \in 1..Len(b) + 1 : \A k \in m - 1..Len(b) : \A l \in k..Len(b) :
           SubSeq(b, m, k) \o SubSeq(b, k + 1, l) = SubSeq(b, m, l)
    BY ConcatAdjacentSubSeq
  <2>3. QED  BY <2>1, <2>2
<1>5. SubSeq(b, 1, Len(b)) = b
  BY SubSeqFull
<1>6. Len(SubSeq(b, 1, n)) = n /\ Len(SubSeq(b, n + 1, Len(b))) = Len(b) - n
  BY <1>1, <1>2, <1>3
<1>7. QED  BY <1>2, <1>3, <1>4, <1>5, <1>6, Zenon

LEMMA Concats ==
  ASSUME NEW s \in Seq(Nat), NEW t \in Seq(Nat)
  PROVE  s \o t \in Seq(Nat) /\ Len(s \o t) = Len(s) + Len(t)
BY ConcatProperties

LEMMA Associates ==
  ASSUME NEW s \in Seq(Nat), NEW t \in Seq(Nat), NEW u \in Seq(Nat)
  PROVE  (s \o t) \o u = s \o (t \o u)
BY ConcatAssociative

(* Units that change hands keep their order. *)
LEMMA Moves ==
  ASSUME NEW a \in Seq(Nat), NEW b \in Seq(Nat), NEW n \in 0..Len(b)
  PROVE  (a \o SubSeq(b, 1, n)) \o SubSeq(b, n + 1, Len(b)) = a \o b
<1>1. SubSeq(b, 1, n) \in Seq(Nat) /\ SubSeq(b, n + 1, Len(b)) \in Seq(Nat)
      /\ SubSeq(b, 1, n) \o SubSeq(b, n + 1, Len(b)) = b
  BY Split
<1>2. (a \o SubSeq(b, 1, n)) \o SubSeq(b, n + 1, Len(b))
      = a \o (SubSeq(b, 1, n) \o SubSeq(b, n + 1, Len(b)))
  BY <1>1, Associates
<1>3. QED  BY <1>1, <1>2

-------------------------------------------------------------------------------
(* The functions one by one *)

LEMMA GoneIsGood ==
  ASSUME NEW t, Sound(t), Holds(t),
         ~t.app.fin /\ ~t.app.dead => t.client.socksClosed /\ t.app.got = ReadOf(t)
  PROVE  Good(FreeClient(t))
<1> DEFINE u == FreeClient(t)
<1>1. t \in States
  BY DEF Sound
<1>2. /\ u.client.closed /\ u.pcb.state = "CLOSED" /\ u.app = t.app
      /\ u.client.buf = t.client.buf /\ u.client.up = t.client.up
      /\ u.sock.in = t.sock.in /\ u.sock.made = t.sock.made /\ u.sock.written = t.sock.written
      /\ u.sock.down = t.sock.down
      /\ u.client.rbuf = t.client.rbuf /\ u.client.pending = t.client.pending
      /\ u.pcb.unacked = t.pcb.unacked /\ u.pcb.rcvWnd = t.pcb.rcvWnd
  BY <1>1 DEF States, Clients, Pcbs, Socks5, Apps, FreeClient, HandleFreedClient, LetGo, Dealloc,
              BSocksClient_Free
<1>3. u \in States
  <2>1. LetGo(t) \in States
    BY <1>1 DEF States, Clients, Pcbs, LetGo
  <2>2. ASSUME NEW v \in States  PROVE Dealloc(v) \in States /\ BSocksClient_Free(v) \in States
                                       /\ [v EXCEPT !.client.closed = TRUE] \in States
    BY DEF States, Clients, Socks5, Dealloc, BSocksClient_Free
  <2>3. QED  BY <2>1, <2>2 DEF FreeClient, HandleFreedClient
<1>4. CASE t.client.socksClosed \/ t.client.buf = <<>>
  <2>1. /\ ~u.client.alive /\ u.client.socksClosed /\ u.sock.state = "FREED"
        /\ ~u.client.sending /\ ~u.client.receiving
    BY <1>1, <1>4 DEF States, Clients, Pcbs, Socks5, Apps, FreeClient, HandleFreedClient, LetGo,
       Dealloc,
                    BSocksClient_Free, Sound, Halves
  <2>2. ~t.sock.down => t.sock.written = Ids(t.app.sent)
    BY <1>1, <1>4, ConcatEmptySeq DEF Sound, Upward, Linked, Halves, Holds, States, Socks5
  <2> HIDE DEF u
  <2>3. Settled(u)
    BY <1>2, <2>2 DEF Settled, ReadOf
  <2>4. Halves(u) /\ Early(u)
    BY <1>2, <2>1 DEF Sound, Halves, Early, Holds
  <2>5. Upward(u) /\ Downward(u) /\ Waits(u) /\ Deaf(u)
    BY <1>2, <2>1 DEF Sound, Upward, Downward, Waits, Deaf, Linked, Holds
  <2>6. QED  BY <1>3, <2>3, <2>4, <2>5 DEF Good, Sound, u
<1>5. CASE ~t.client.socksClosed /\ t.client.buf # <<>>
  <2>1. /\ u.client.alive /\ ~u.client.socksClosed /\ u.sock.state = t.sock.state
        /\ u.client.sending = t.client.sending /\ u.client.receiving = t.client.receiving
    BY <1>1, <1>5 DEF States, Clients, Pcbs, Socks5, Apps, FreeClient, HandleFreedClient, LetGo,
       Sound, Holds
  <2> HIDE DEF u
  <2>2. Settled(u)
    BY <2>1 DEF Settled
  <2>3. Halves(u) /\ Early(u)
    BY <1>2, <1>5, <2>1 DEF Sound, Halves, Early, Holds
  <2>4. Upward(u) /\ Downward(u) /\ Waits(u) /\ Deaf(u)
    BY <1>2, <1>5, <2>1 DEF Sound, Upward, Downward, Waits, Deaf, Linked, Holds
  <2>5. QED  BY <1>3, <2>2, <2>3, <2>4 DEF Good, Sound, u
<1>6. QED  BY <1>4, <1>5

LEMMA AbortIsGood ==
  ASSUME NEW t, Sound(t), Holds(t)
  PROVE  Good(AbortClient(t))
<1> DEFINE v == [t EXCEPT !.app.dead = TRUE]
<1>1. t \in States
  BY DEF Sound
<1>2. /\ v \in States /\ v.client = t.client /\ v.pcb = t.pcb /\ v.sock = t.sock
      /\ v.app.dead /\ v.app.got = t.app.got /\ v.app.sent = t.app.sent /\ v.app.fin = t.app.fin
  BY <1>1 DEF States, Apps
<1>3. [LetGo(t) EXCEPT !.app.dead = TRUE] = LetGo(v)
  BY <1>1 DEF States, LetGo
<1> HIDE DEF v
<1>4. Sound(v) /\ Holds(v)
  BY <1>2 DEF Sound, Halves, Early, Upward, Downward, Settled, Holds, Linked, ReadOf
<1>5. QED  BY <1>2, <1>3, <1>4, GoneIsGood DEF AbortClient, FreeClient

LEMMA DownIsGood ==
  ASSUME NEW t, Good(t), Linked(t)
  PROVE  Good(SocksDown(t)) /\ SocksDown(t).pcb.rcvWnd = t.pcb.rcvWnd
<1> DEFINE v == [t EXCEPT !.sock.down = TRUE]
           freed == BSocksClient_Free(v)
           deaf == [freed EXCEPT !.pcb.recvCb = ~t.client.up]
           gone == Dealloc(freed)
<1>1. t \in States /\ Sound(t)
  BY DEF Good, Sound
<1>2. v \in States /\ v.client = t.client /\ v.pcb = t.pcb /\ v.app = t.app
  BY <1>1 DEF States, Socks5
<1>3. freed \in States /\ deaf \in States /\ gone \in States
  <2>1. freed \in States
    BY <1>2 DEF States, Clients, Socks5, BSocksClient_Free
  <2> HIDE DEF freed
  <2>2. QED  BY <1>1, <2>1 DEF States, Clients, Pcbs, Dealloc
<1>4. SocksDown(t) = IF t.client.closed THEN gone ELSE IF Draining(t) THEN deaf ELSE FreeClient(deaf)
  BY <1>2 DEF SocksDown, FreeSocks, Draining
<1>5. /\ deaf.client.alive /\ deaf.client.closed = t.client.closed
      /\ deaf.client.socksClosed /\ ~deaf.client.sending /\ ~deaf.client.receiving
      /\ deaf.client.up = t.client.up /\ deaf.client.pending = t.client.pending
      /\ deaf.client.buf = t.client.buf /\ deaf.client.rbuf = t.client.rbuf
      /\ deaf.sock.state = "FREED" /\ deaf.sock.down /\ deaf.sock.in = t.sock.in
      /\ deaf.sock.made = t.sock.made /\ deaf.sock.written = t.sock.written
      /\ deaf.pcb.state = t.pcb.state /\ deaf.pcb.unacked = t.pcb.unacked
      /\ deaf.pcb.recvCb = ~t.client.up /\ deaf.app = t.app
  BY <1>1 DEF States, Clients, Pcbs, Socks5, Linked, BSocksClient_Free
<1>6. /\ ~gone.client.alive /\ gone.client.closed = t.client.closed
      /\ gone.client.socksClosed /\ ~gone.client.sending /\ ~gone.client.receiving
      /\ gone.client.up = t.client.up /\ gone.client.pending = t.client.pending
      /\ gone.client.buf = t.client.buf /\ gone.client.rbuf = t.client.rbuf
      /\ gone.sock.state = "FREED" /\ gone.sock.down /\ gone.sock.in = t.sock.in
      /\ gone.sock.made = t.sock.made
      /\ gone.pcb = t.pcb /\ gone.app = t.app
  BY <1>1 DEF States, Clients, Pcbs, Socks5, BSocksClient_Free, Dealloc
<1> HIDE DEF deaf, gone, freed, v
<1>7. ASSUME t.client.closed  PROVE Good(SocksDown(t))
  <2>1. Halves(gone) /\ Early(gone) /\ Upward(gone) /\ Downward(gone)
    BY <1>1, <1>6, <1>7 DEF Sound, Halves, Early, Upward, Downward, Holds, Linked
  <2>2. Settled(gone) /\ Waits(gone) /\ Deaf(gone)
    BY <1>1, <1>6, <1>7 DEF Sound, Halves, Settled, Waits, Deaf, Holds, Linked
  <2>3. QED  BY <1>3, <1>4, <1>7, <2>1, <2>2 DEF Good, Sound
<1>8. ASSUME ~t.client.closed  PROVE Good(SocksDown(t))
  <2>1. Holds(t) /\ Holds(deaf)
    BY <1>5, <1>8 DEF Holds, Linked
  <2>2. Halves(deaf) /\ Early(deaf) /\ Upward(deaf)
    BY <1>1, <1>5, <2>1 DEF Sound, Halves, Early, Upward, Holds, Linked
  <2>3. Downward(deaf) /\ Settled(deaf)
    BY <1>1, <1>5, <2>1 DEF Sound, Downward, Settled, Holds, ReadOf
  <2>4. Sound(deaf)
    BY <1>3, <2>2, <2>3 DEF Sound
  <2>5. ASSUME Draining(t)  PROVE Good(SocksDown(t))
    <3>1. t.client.up /\ (t.client.rbuf # <<>> \/ t.client.pending > 0)
      BY <2>5 DEF Draining
    <3>2. Waits(deaf) /\ Deaf(deaf)
      BY <1>5, <2>1, <3>1 DEF Good, Waits, Deaf, Linked
    <3>3. QED  BY <1>4, <1>8, <2>4, <2>5, <3>2 DEF Good
  <2>6. ASSUME ~Draining(t)  PROVE Good(SocksDown(t))
    <3>1. ReadOf(deaf) = ReadOf(t)
      BY <1>5 DEF ReadOf
    <3>2. t.client.rbuf = <<>> /\ t.pcb.unacked = <<>>
      <4>1. CASE ~t.client.up
        BY <1>1, <4>1 DEF Sound, Early
      <4>2. CASE t.client.up
        <5>1. t.client.rbuf = <<>> /\ ~(t.client.pending > 0)
          BY <2>6, <4>2 DEF Draining
        <5>2. t.client.pending = Len(t.pcb.unacked) /\ t.pcb.unacked \in Seq(Nat)
          BY <1>1, <2>1 DEF Sound, Downward, States, Pcbs
        <5>3. QED  BY <5>1, <5>2, EmptySeq
      <4>3. QED  BY <4>1, <4>2
    <3>3. (t.app.got \o <<>>) \o <<>> = ReadOf(t) /\ t.app.got \in Seq(Nat)
      BY <1>1, <2>1, <3>2 DEF Sound, Downward, States, Apps
    <3>4. deaf.app.got = ReadOf(deaf)
      BY <1>5, <3>1, <3>3, ConcatEmptySeq
    <3>5. QED  BY <1>4, <1>5, <1>8, <2>1, <2>4, <2>6, <3>4, GoneIsGood
  <2>7. QED  BY <2>5, <2>6
<1>9. SocksDown(t).pcb.rcvWnd = t.pcb.rcvWnd
  <2>1. deaf.pcb.rcvWnd = t.pcb.rcvWnd /\ gone.pcb.rcvWnd = t.pcb.rcvWnd
    BY <1>1 DEF States, Clients, Pcbs, Socks5, deaf, gone, freed, v, BSocksClient_Free, Dealloc
  <2>2. FreeClient(deaf).pcb.rcvWnd = deaf.pcb.rcvWnd
    BY <1>3 DEF States, Clients, Pcbs, Socks5, FreeClient, HandleFreedClient, LetGo, Dealloc,
                BSocksClient_Free
  <2>3. QED  BY <1>4, <2>1, <2>2
<1>10. Good(SocksDown(t))
  BY <1>7, <1>8
<1>11. QED  BY <1>9, <1>10

LEMMA WriteIsGood ==
  ASSUME NEW t, Good(t), t.client.sending, NEW n \in 1..Len(t.client.buf)
  PROVE  Good(SendDone(t, n))
<1> DEFINE taken == SubSeq(t.client.buf, 1, n)
           rest == SubSeq(t.client.buf, n + 1, Len(t.client.buf))
           w == [t EXCEPT !.client.buf = rest, !.client.sending = rest # <<>>,
                          !.sock.written = @ \o taken,
                          !.pcb.rcvWnd = IF t.client.closed THEN @ ELSE @ + n]
           gone == Dealloc(BSocksClient_Free(w))
<1>1. t \in States /\ Sound(t) /\ t.client.buf \in Seq(Nat) /\ t.sock.written \in Seq(Nat)
      /\ t.client.alive /\ ~t.client.socksClosed /\ Len(t.client.buf) \in Nat
      /\ t.pcb.rcvWnd \in Nat /\ n \in Nat
  BY DEF Good, Sound, Halves, States, Clients, Pcbs, Socks5
<1>2. /\ taken \in Seq(Nat) /\ rest \in Seq(Nat) /\ Len(rest) = Len(t.client.buf) - n
      /\ (t.sock.written \o taken) \o rest = t.sock.written \o t.client.buf
      /\ t.sock.written \o taken \in Seq(Nat)
  <2>1. n \in 0..Len(t.client.buf)
    BY <1>1
  <2>2. taken \in Seq(Nat) /\ rest \in Seq(Nat) /\ Len(rest) = Len(t.client.buf) - n
    BY <1>1, <2>1, Split
  <2>3. (t.sock.written \o taken) \o rest = t.sock.written \o t.client.buf
    BY <1>1, <2>1, Moves
  <2> HIDE DEF taken, rest
  <2>4. t.sock.written \o taken \in Seq(Nat)
    BY <1>1, <2>2, Concats
  <2>5. QED  BY <2>2, <2>3, <2>4
<1> HIDE DEF taken, rest
<1>3. /\ w.client.buf = rest /\ w.client.sending = (rest # <<>>)
      /\ w.client.alive /\ w.client.closed = t.client.closed /\ ~w.client.socksClosed
      /\ w.client.up = t.client.up /\ w.client.rbuf = t.client.rbuf
      /\ w.client.receiving = t.client.receiving /\ w.client.pending = t.client.pending
      /\ w.sock.written = t.sock.written \o taken /\ w.sock.state = t.sock.state
      /\ w.sock.in = t.sock.in /\ w.sock.made = t.sock.made /\ w.sock.down = t.sock.down
      /\ w.pcb.rcvWnd = (IF t.client.closed THEN t.pcb.rcvWnd ELSE t.pcb.rcvWnd + n)
      /\ w.pcb.state = t.pcb.state /\ w.pcb.unacked = t.pcb.unacked
      /\ w.pcb.recvCb = t.pcb.recvCb /\ w.app = t.app
  BY <1>1 DEF States, Clients, Pcbs, Socks5
<1>4. w \in States /\ gone \in States
  <2>1. w \in States
    <3> DEFINE c == [t.client EXCEPT !.buf = rest, !.sending = rest # <<>>]
               p == [t.pcb EXCEPT !.rcvWnd = IF t.client.closed THEN @ ELSE @ + n]
               s == [t.sock EXCEPT !.written = @ \o taken]
    <3>1. w = [t EXCEPT !.client = c, !.pcb = p, !.sock = s]
      BY <1>1 DEF States
    <3>2. c \in Clients
      BY <1>1, <1>2 DEF States, Clients
    <3>3. p \in Pcbs
      <4>1. t.pcb \in Pcbs /\ t.pcb.rcvWnd + n \in Nat
        BY <1>1 DEF States
      <4>2. QED  BY <4>1 DEF Pcbs
    <3>4. s \in Socks5
      BY <1>1, <1>2 DEF States, Socks5
    <3> HIDE DEF w, c, p, s
    <3>5. QED  BY <1>1, <3>1, <3>2, <3>3, <3>4 DEF States
  <2> HIDE DEF w
  <2>2. BSocksClient_Free(w) \in States
    BY <2>1 DEF States, Clients, Socks5, BSocksClient_Free
  <2>3. QED  BY <2>1, <2>2 DEF States, Clients, Dealloc
<1>5. SendDone(t, n) = IF rest = <<>> /\ t.client.closed THEN FreeSocks(w) ELSE w
  BY DEF SendDone, rest, taken
<1> HIDE DEF w
<1>6. t.client.closed => FreeSocks(w) = gone
  BY <1>3 DEF FreeSocks
<1>7. /\ ~gone.client.alive /\ gone.client.closed = t.client.closed
      /\ gone.client.socksClosed /\ ~gone.client.sending /\ ~gone.client.receiving
      /\ gone.client.up = t.client.up /\ gone.client.pending = t.client.pending
      /\ gone.client.buf = rest /\ gone.client.rbuf = t.client.rbuf
      /\ gone.sock.state = "FREED" /\ gone.sock.down = t.sock.down /\ gone.sock.in = t.sock.in
      /\ gone.sock.made = t.sock.made /\ gone.sock.written = w.sock.written
      /\ gone.pcb = w.pcb /\ gone.app = t.app
  <2>1. /\ gone.client = [w.client EXCEPT !.socksClosed = TRUE, !.sending = FALSE,
                                          !.receiving = FALSE, !.alive = FALSE]
        /\ gone.sock = [w.sock EXCEPT !.state = "FREED"] /\ gone.pcb = w.pcb /\ gone.app = w.app
    BY <1>4 DEF States, Clients, BSocksClient_Free, Dealloc
  <2>2. w.client \in Clients /\ w.sock \in Socks5
    BY <1>4 DEF States
  <2> HIDE DEF gone
  <2>3. QED  BY <1>3, <2>1, <2>2 DEF Clients, Socks5
<1> HIDE DEF gone
<1>8. w.sock.written \o rest = Ids(t.app.sent)
  BY <1>1, <1>2, <1>3 DEF Sound, Upward, Linked
<1>9. CASE rest = <<>> /\ t.client.closed
  <2>1. w.sock.written = Ids(t.app.sent)
    BY <1>2, <1>3, <1>8, <1>9, ConcatEmptySeq
  <2>2. Halves(gone) /\ Early(gone) /\ Upward(gone) /\ Downward(gone)
    BY <1>1, <1>3, <1>7, <1>9 DEF Sound, Halves, Early, Upward, Downward, Holds, Linked
  <2>3. Settled(gone) /\ Waits(gone) /\ Deaf(gone)
    BY <1>1, <1>3, <1>7, <1>9, <2>1 DEF Sound, Halves, Settled, Waits, Deaf, Holds, Linked
  <2>4. QED  BY <1>4, <1>5, <1>6, <1>9, <2>2, <2>3 DEF Good, Sound
<1>10. CASE ~(rest = <<>> /\ t.client.closed)
  <2>1. Halves(w) /\ Early(w)
    BY <1>1, <1>3, <1>10 DEF Sound, Halves, Early, Holds
  <2>2. Upward(w)
    <3>1. Holds(w) => ~t.client.closed /\ t.pcb.rcvWnd + Len(t.client.buf) = Window
      BY <1>1, <1>3 DEF Sound, Upward, Holds
    <3>2. Holds(w) => w.pcb.rcvWnd + Len(rest) = Window
      BY <1>1, <1>2, <1>3, <3>1
    <3>3. QED  BY <1>3, <1>8, <3>2 DEF Upward, Linked
  <2>3. Downward(w) /\ Settled(w)
    BY <1>1, <1>3 DEF Sound, Downward, Settled, Holds, ReadOf
  <2>4. Waits(w) /\ Deaf(w)
    BY <1>1, <1>3 DEF Good, Waits, Deaf, Holds
  <2>5. QED  BY <1>4, <1>5, <1>10, <2>1, <2>2, <2>3, <2>4 DEF Good, Sound
<1>11. QED  BY <1>9, <1>10

(* What client_socks_recv_handler_done and client_sent_func leave to       *)
(* client_socks_recv_send_out: units to send, and nobody waiting.          *)
Ready(t) ==
  /\ Sound(t) /\ Deaf(t) /\ Holds(t)
  /\ t.client.up /\ t.client.rbuf # <<>> /\ ~t.client.receiving

LEMMA SendOutIsGood ==
  ASSUME NEW t, Ready(t), NEW n \in Writable(t)
  PROVE  /\ Good(Continue(SendOut(t, n)))
         /\ Continue(SendOut(t, n)) # SendOut(t, n) => Linked(Continue(SendOut(t, n)))
         /\ Continue(SendOut(t, n)).pcb.rcvWnd = t.pcb.rcvWnd
<1>1. t \in States /\ Sound(t) /\ Holds(t) /\ t.client.rbuf \in Seq(Nat) /\ t.client.rbuf # <<>>
      /\ t.pcb.unacked \in Seq(Nat) /\ t.app.got \in Seq(Nat) /\ t.client.pending \in Nat
  BY DEF Ready, Sound, States, Clients, Pcbs, Apps
<1>2. n \in 0..Len(t.client.rbuf) /\ n \in Nat
  BY DEF Writable
<1>3. CASE n = 0 /\ t.client.pending = 0
  <2>1. SendOut(t, n) = AbortClient(t)
    BY <1>3 DEF SendOut
  <2>2. Good(AbortClient(t))
    BY <1>1, AbortIsGood
  <2>3. AbortClient(t).client.rbuf = t.client.rbuf /\ AbortClient(t).pcb.rcvWnd = t.pcb.rcvWnd
    BY <1>1 DEF States, Clients, Pcbs, Socks5, Apps, AbortClient, HandleFreedClient, LetGo, Dealloc,
                BSocksClient_Free
  <2>4. Continue(AbortClient(t)) = AbortClient(t)
    BY <1>1, <2>3 DEF Continue
  <2>5. QED  BY <2>1, <2>2, <2>3, <2>4
<1>4. CASE ~(n = 0 /\ t.client.pending = 0)
  <2> DEFINE taken == SubSeq(t.client.rbuf, 1, n)
             rest == SubSeq(t.client.rbuf, n + 1, Len(t.client.rbuf))
             v == [t EXCEPT !.pcb.unacked = @ \o taken, !.client.pending = @ + n, !.client.rbuf = rest]
             c == IF rest = <<>> /\ ~t.client.socksClosed THEN RecvInitiate(v) ELSE v
  <2>1. SendOut(t, n) = v
    BY <1>1, <1>4 DEF SendOut, States, Clients
  <2>2. taken \in Seq(Nat) /\ rest \in Seq(Nat) /\ Len(taken) = n
    BY <1>1, <1>2, Split
  <2>3. ((t.app.got \o t.pcb.unacked) \o taken) \o rest = (t.app.got \o t.pcb.unacked) \o t.client.rbuf
    <3>1. t.app.got \o t.pcb.unacked \in Seq(Nat)
      BY <1>1, Concats
    <3>2. QED  BY <1>1, <1>2, <3>1, Moves
  <2> HIDE DEF taken, rest
  <2>4. t.pcb.unacked \o taken \in Seq(Nat) /\ Len(t.pcb.unacked \o taken) = Len(t.pcb.unacked) + n
    BY <1>1, <2>2, Concats
  <2>5. v \in States /\ v.client.rbuf = rest /\ v.client.socksClosed = t.client.socksClosed
    <3> DEFINE d == [t.client EXCEPT !.rbuf = rest, !.pending = @ + n]
               p == [t.pcb EXCEPT !.unacked = @ \o taken]
    <3>1. v = [t EXCEPT !.client = d, !.pcb = p]
      BY <1>1 DEF States
    <3>2. d \in Clients
      <4>1. t.client \in Clients /\ t.client.pending + n \in Nat
        BY <1>1, <1>2 DEF States
      <4>2. QED  BY <2>2, <4>1 DEF Clients
    <3>3. p \in Pcbs
      <4>1. t.pcb \in Pcbs
        BY <1>1 DEF States
      <4>2. QED  BY <2>4, <4>1 DEF Pcbs
    <3>4. v.client.rbuf = rest /\ v.client.socksClosed = t.client.socksClosed
      BY <1>1 DEF States, Clients
    <3>5. v \in States
      <4> HIDE DEF v, d, p
      <4>1. QED  BY <1>1, <3>1, <3>2, <3>3 DEF States
    <3>6. QED  BY <3>4, <3>5
  <2>6. Continue(v) = c /\ c \in States
    BY <2>5 DEF Continue, RecvInitiate, States, Clients
  <2>7. /\ c.client.alive /\ ~c.client.closed /\ c.client.socksClosed = t.client.socksClosed
        /\ c.client.up /\ c.client.buf = t.client.buf /\ c.client.sending = t.client.sending
        /\ c.client.rbuf = rest /\ c.client.pending = t.client.pending + n
        /\ c.client.receiving = (rest = <<>> /\ ~t.client.socksClosed)
        /\ c.sock = t.sock /\ c.app = t.app
        /\ c.pcb.state = t.pcb.state /\ c.pcb.rcvWnd = t.pcb.rcvWnd /\ c.pcb.recvCb = t.pcb.recvCb
        /\ c.pcb.unacked = t.pcb.unacked \o taken
    BY <1>1 DEF RecvInitiate, States, Clients, Pcbs, Ready, Holds
  <2> HIDE DEF c, v
  <2>8. c.client.pending > 0
    BY <1>1, <1>2, <1>4, <2>7
  <2>9. Halves(c) /\ Early(c) /\ Upward(c) /\ Settled(c)
    BY <1>1, <2>7 DEF Sound, Halves, Early, Upward, Settled, Holds, Linked
  <2>10. (t.app.got \o (t.pcb.unacked \o taken)) \o rest = (t.app.got \o t.pcb.unacked) \o t.client.rbuf
    BY <1>1, <2>2, <2>3, <2>4, Associates
  <2>11. Downward(c)
    <3>1. c.client.pending = Len(c.pcb.unacked)
      BY <1>1, <1>2, <2>4, <2>7 DEF Sound, Downward
    <3>2. QED  BY <1>1, <2>7, <2>10, <3>1 DEF Sound, Downward, ReadOf
  <2>12. Waits(c) /\ Deaf(c)
    BY <2>7, <2>8 DEF Ready, Waits, Deaf, Holds
  <2>13. v # c => Linked(c)
    BY <2>7 DEF Linked, c
  <2>14. QED
    BY <2>1, <2>6, <2>7, <2>9, <2>11, <2>12, <2>13 DEF Good, Sound
<1>5. QED  BY <1>3, <1>4

(* The units that lie in the socket, once n of them have been read.        *)
LEMMA ReadUnits ==
  ASSUME NEW t, Sound(t), NEW n \in 1..Len(t.sock.in)
  PROVE  /\ SubSeq(t.sock.in, 1, n) \in Seq(Nat) /\ SubSeq(t.sock.in, 1, n) # <<>>
         /\ ReadOf(t) \o SubSeq(t.sock.in, 1, n) = Ids(t.sock.made - (Len(t.sock.in) - n))
         /\ SubSeq(t.sock.in, n + 1, Len(t.sock.in)) \in Seq(Nat)
         /\ Len(SubSeq(t.sock.in, n + 1, Len(t.sock.in))) = Len(t.sock.in) - n
         /\ SubSeq(t.sock.in, n + 1, Len(t.sock.in))
              = Units(t.sock.made - (Len(t.sock.in) - n), Len(t.sock.in) - n)
<1> DEFINE in == t.sock.in
           k == t.sock.made - Len(in)
<1>1. in \in Seq(Nat) /\ Len(in) \in Nat /\ k \in Nat /\ t.sock.made \in Nat
      /\ in = Units(k, Len(in))
  BY DEF Sound, Downward, States, Socks5
<1> DEFINE first == SubSeq(in, 1, n)
           rest == SubSeq(in, n + 1, Len(in))
<1>2. n \in 0..Len(in) /\ n \in Nat
  BY <1>1
<1>3. first \in Seq(Nat) /\ Len(first) = n /\ rest \in Seq(Nat) /\ Len(rest) = Len(in) - n
  BY <1>1, <1>2, Split
<1>4. first = Units(k, n) /\ rest = Units(k + n, Len(in) - n)
  <2> DEFINE l == Len(in)
  <2>1. l \in Nat /\ n \in 0..l
    BY <1>1, <1>2
  <2> HIDE DEF l
  <2>2. SubSeq(Units(k, l), 1, n) = Units(k, n) /\ SubSeq(Units(k, l), n + 1, l) = Units(k + n, l - n)
    BY <1>1, <2>1, UnitsSplit
  <2>3. QED  BY <1>1, <2>2 DEF l
<1>5. Ids(k) \o Units(k, n) = Ids(k + n)
  BY <1>1, <1>2, UnitsFollow
<1>6. first # <<>>
  BY <1>3, EmptySeq
<1>7. k + n = t.sock.made - (Len(in) - n)
  BY <1>1, <1>2, SMTT(30)
<1>8. ReadOf(t) = Ids(k)
  BY DEF ReadOf
<1>9. QED  BY <1>3, <1>4, <1>5, <1>6, <1>7, <1>8

LEMMA ReadIsGood ==
  ASSUME NEW t, Good(t), t.client.receiving, NEW n \in 1..Len(t.sock.in), NEW v \in RecvDone(t, n)
  PROVE  Good(v) /\ v.pcb.rcvWnd = t.pcb.rcvWnd
<1> DEFINE data == SubSeq(t.sock.in, 1, n)
           left == SubSeq(t.sock.in, n + 1, Len(t.sock.in))
           r == [t EXCEPT !.client.receiving = FALSE, !.sock.in = left,
                          !.client.rbuf = IF t.client.closed THEN <<>> ELSE data]
<1>1. t \in States /\ Sound(t) /\ t.client.alive /\ ~t.client.socksClosed /\ t.client.up
      /\ t.sock.in \in Seq(Nat) /\ Len(t.sock.in) \in Nat /\ t.sock.made \in Nat
      /\ Len(t.sock.in) <= t.sock.made
  <2>1. t \in States /\ Sound(t)
    BY DEF Good, Sound
  <2>2. t.sock.in \in Seq(Nat) /\ Len(t.sock.in) \in Nat /\ t.sock.made \in Nat
    BY <2>1 DEF States, Socks5
  <2>3. t.client.alive /\ ~t.client.socksClosed /\ t.client.up
    BY <2>1 DEF Sound, Halves, Early
  <2>4. Len(t.sock.in) <= t.sock.made
    BY <2>1 DEF Sound, Downward
  <2>5. QED  BY <2>1, <2>2, <2>3, <2>4
<1>2. /\ data \in Seq(Nat) /\ data # <<>> /\ left \in Seq(Nat) /\ Len(left) = Len(t.sock.in) - n
      /\ ReadOf(t) \o data = Ids(t.sock.made - Len(left))
      /\ left = Units(t.sock.made - Len(left), Len(left))
      /\ Len(left) \in Nat /\ Len(left) <= t.sock.made
  <2>1. /\ data \in Seq(Nat) /\ data # <<>> /\ left \in Seq(Nat) /\ Len(left) = Len(t.sock.in) - n
        /\ ReadOf(t) \o data = Ids(t.sock.made - (Len(t.sock.in) - n))
        /\ left = Units(t.sock.made - (Len(t.sock.in) - n), Len(t.sock.in) - n)
    BY <1>1, ReadUnits
  <2> HIDE DEF data, left
  <2>2. QED  BY <1>1, <2>1
<1>3. RecvDone(t, n) = IF t.client.closed THEN {r} ELSE {Continue(SendOut(r, k)) : k \in Writable(r)}
  BY <1>1 DEF RecvDone, States, Socks5
<1> HIDE DEF data, left
<1>4. r \in States
  <2> DEFINE c == [t.client EXCEPT !.receiving = FALSE, !.rbuf = IF t.client.closed THEN <<>> ELSE data]
             s == [t.sock EXCEPT !.in = left]
  <2>1. r = [t EXCEPT !.client = c, !.sock = s]
    BY <1>1 DEF States
  <2>2. c \in Clients
    <3>1. t.client \in Clients /\ <<>> \in Seq(Nat)
      BY <1>1 DEF States
    <3>2. QED  BY <1>2, <3>1 DEF Clients
  <2>3. s \in Socks5
    <3>1. t.sock \in Socks5
      BY <1>1 DEF States
    <3>2. QED  BY <1>2, <3>1 DEF Socks5
  <2> HIDE DEF r, c, s
  <2>4. QED  BY <1>1, <2>1, <2>2, <2>3 DEF States
<1>5. /\ r.client.alive /\ r.client.closed = t.client.closed /\ ~r.client.socksClosed /\ r.client.up
      /\ r.client.buf = t.client.buf /\ r.client.sending = t.client.sending
      /\ r.client.pending = t.client.pending /\ ~r.client.receiving
      /\ r.client.rbuf = (IF t.client.closed THEN <<>> ELSE data)
      /\ r.sock.in = left /\ r.sock.state = t.sock.state /\ r.sock.written = t.sock.written
      /\ r.sock.made = t.sock.made /\ r.sock.down = t.sock.down
      /\ r.pcb = t.pcb /\ r.app = t.app
  BY <1>1 DEF States, Clients, Socks5
<1> HIDE DEF r
<1>6. Halves(r) /\ Early(r) /\ Upward(r) /\ Settled(r) /\ Deaf(r)
  BY <1>1, <1>5 DEF Good, Sound, Halves, Early, Upward, Settled, Deaf, Holds, Linked
<1>7. Downward(r)
  <2>1. CASE t.client.closed
    BY <1>2, <1>5, <2>1 DEF Downward, Holds
  <2>2. CASE ~t.client.closed
    <3>1. t.client.rbuf = <<>> /\ Holds(t)
      BY <1>1, <2>2 DEF Good, Waits, Holds
    <3>2. /\ t.client.pending = Len(t.pcb.unacked)
          /\ (t.app.got \o t.pcb.unacked) \o <<>> = ReadOf(t)
          /\ t.app.got \in Seq(Nat) /\ t.pcb.unacked \in Seq(Nat)
      BY <1>1, <3>1 DEF Sound, Downward, States, Apps, Pcbs
    <3>3. t.app.got \o t.pcb.unacked = ReadOf(t)
      <4>1. t.app.got \o t.pcb.unacked \in Seq(Nat)
        BY <3>2, Concats
      <4>2. QED  BY <3>2, <4>1, ConcatEmptySeq
    <3>4. QED  BY <1>2, <1>5, <2>2, <3>2, <3>3 DEF Downward, ReadOf
  <2>3. QED  BY <2>1, <2>2
<1>8. Sound(r)
  BY <1>4, <1>6, <1>7 DEF Sound
<1>9. CASE t.client.closed
  <2>1. Waits(r) /\ v = r
    BY <1>3, <1>5, <1>9 DEF Waits, Holds
  <2>2. QED  BY <1>5, <1>6, <1>8, <2>1 DEF Good
<1>10. CASE ~t.client.closed
  <2>1. Ready(r)
    BY <1>2, <1>5, <1>6, <1>8, <1>10 DEF Ready, Holds
  <2>2. PICK k \in Writable(r) : v = Continue(SendOut(r, k))
    BY <1>3, <1>10
  <2>3. Good(v) /\ v.pcb.rcvWnd = r.pcb.rcvWnd
    BY <2>1, <2>2, SendOutIsGood
  <2>4. QED  BY <1>5, <2>3
<1>11. QED  BY <1>9, <1>10

LEMMA WritesAreGood == \A t : Good(t) => \A v \in Writes(t) : Good(v)
BY WriteIsGood DEF Writes

LEMMA ReadsAreGood ==
  ASSUME NEW t, Good(t), NEW v \in Reads(t)
  PROVE  Good(v) /\ v.pcb.rcvWnd = t.pcb.rcvWnd
<1>1. t.client.receiving /\ Linked(t) /\ Len(t.sock.in) \in Nat
  BY DEF Reads, Good, Sound, Halves, Linked, States, Socks5
<1>2. CASE v = SocksDown(t)
  BY <1>1, <1>2, DownIsGood
<1>3. CASE v # SocksDown(t)
  <2>1. PICK n \in 1..(IF Len(t.sock.in) < RecvBuf THEN Len(t.sock.in) ELSE RecvBuf) :
           v \in RecvDone(t, n)
    BY <1>1, <1>3 DEF Reads
  <2>2. n \in 1..Len(t.sock.in)
    BY <1>1, TcpSizes
  <2>3. QED  BY <1>1, <2>1, <2>2, ReadIsGood
<1>4. QED  BY <1>2, <1>3

(* client_sent_func, once lwIP has confirmed n units.                      *)
LEMMA SentIsGood ==
  ASSUME NEW t, Good(t), Holds(t), NEW n \in 1..Len(t.pcb.unacked), NEW v \in SentFunc(Ack(t, n), n)
  PROVE  Good(v) /\ v.pcb.rcvWnd = t.pcb.rcvWnd
<1> DEFINE acked == SubSeq(t.pcb.unacked, 1, n)
           rest == SubSeq(t.pcb.unacked, n + 1, Len(t.pcb.unacked))
           a == Ack(t, n)
           u == [a EXCEPT !.client.pending = @ - n]
<1>1. t \in States /\ Sound(t) /\ t.pcb.unacked \in Seq(Nat) /\ t.app.got \in Seq(Nat)
      /\ t.client.rbuf \in Seq(Nat)
  BY DEF Good, Sound, States, Clients, Pcbs, Apps
<1>2. n \in 0..Len(t.pcb.unacked) /\ n \in Nat /\ Len(t.pcb.unacked) \in Nat
  BY <1>1
<1>3. /\ acked \in Seq(Nat) /\ rest \in Seq(Nat) /\ Len(rest) = Len(t.pcb.unacked) - n
      /\ (t.app.got \o acked) \o rest = t.app.got \o t.pcb.unacked
      /\ t.app.got \o acked \in Seq(Nat)
  <2>1. acked \in Seq(Nat) /\ rest \in Seq(Nat) /\ Len(rest) = Len(t.pcb.unacked) - n
    BY <1>1, <1>2, Split
  <2>2. (t.app.got \o acked) \o rest = t.app.got \o t.pcb.unacked
    BY <1>1, <1>2, Moves
  <2> HIDE DEF acked, rest
  <2>3. QED  BY <1>1, <2>1, <2>2, Concats
<1>4. a = [t EXCEPT !.app = [t.app EXCEPT !.got = @ \o acked], !.pcb = [t.pcb EXCEPT !.unacked = rest]]
  BY <1>1 DEF Ack, States, Pcbs
<1> HIDE DEF acked, rest, a
<1>5. a \in States /\ a.client = t.client
  <2> DEFINE g == [t.app EXCEPT !.got = @ \o acked]
             p == [t.pcb EXCEPT !.unacked = rest]
  <2>1. g \in Apps
    <3>1. t.app \in Apps
      BY <1>1 DEF States
    <3>2. QED  BY <1>3, <3>1 DEF Apps
  <2>2. p \in Pcbs
    <3>1. t.pcb \in Pcbs
      BY <1>1 DEF States
    <3>2. QED  BY <1>3, <3>1 DEF Pcbs
  <2>3. a = [t EXCEPT !.app = g, !.pcb = p]
    BY <1>4
  <2> HIDE DEF g, p
  <2>4. QED  BY <1>1, <2>1, <2>2, <2>3 DEF States
<1>6. t.client.pending = Len(t.pcb.unacked) /\ t.client.pending - n \in Nat
  BY <1>1, <1>2 DEF Sound, Downward
<1>7. u \in States
  <2>1. t.client \in Clients
    BY <1>1 DEF States
  <2>2. [t.client EXCEPT !.pending = @ - n] \in Clients
    BY <1>6, <2>1 DEF Clients
  <2>3. u = [a EXCEPT !.client = [t.client EXCEPT !.pending = @ - n]]
    BY <1>5 DEF States
  <2> HIDE DEF u
  <2>4. QED  BY <1>5, <2>2, <2>3 DEF States
<1>8. /\ u.client.alive = t.client.alive /\ u.client.closed = t.client.closed
      /\ u.client.socksClosed = t.client.socksClosed /\ u.client.up = t.client.up
      /\ u.client.buf = t.client.buf /\ u.client.sending = t.client.sending
      /\ u.client.rbuf = t.client.rbuf /\ u.client.receiving = t.client.receiving
      /\ u.client.pending = t.client.pending - n
  BY <1>1, <1>5 DEF States, Clients
<1>9. /\ u.sock = t.sock /\ u.app.sent = t.app.sent /\ u.app.fin = t.app.fin /\ u.app.dead = t.app.dead
      /\ u.app.got = t.app.got \o acked
      /\ u.pcb.unacked = rest /\ u.pcb.state = t.pcb.state /\ u.pcb.rcvWnd = t.pcb.rcvWnd
      /\ u.pcb.recvCb = t.pcb.recvCb
  <2>1. u.sock = a.sock /\ u.app = a.app /\ u.pcb = a.pcb
    BY <1>5 DEF States
  <2>2. QED  BY <1>1, <1>4, <2>1 DEF States, Apps, Pcbs
<1>10. SentFunc(a, n) =
         IF u.client.rbuf # <<>>
         THEN UNION {IF Continue(SendOut(u, k)) = SendOut(u, k) THEN {SendOut(u, k)}
                     ELSE SyncRecv(Continue(SendOut(u, k))) : k \in Writable(u)}
         ELSE IF u.client.socksClosed /\ u.client.pending = 0 THEN {FreeClient(u)} ELSE {u}
  BY DEF SentFunc
<1>11. v \in SentFunc(a, n)
  BY DEF a
<1> HIDE DEF u
<1>12. Holds(u)
  BY <1>8 DEF Holds
<1>13. Sound(u)
  <2>1. t.client.up
    BY <1>1, <1>2, EmptySeq DEF Sound, Early
  <2>2. Halves(u) /\ Early(u) /\ Upward(u) /\ Settled(u)
    BY <1>1, <1>8, <1>9, <2>1 DEF Sound, Halves, Early, Upward, Settled, Holds, Linked
  <2>3. (u.app.got \o u.pcb.unacked) \o u.client.rbuf = (t.app.got \o t.pcb.unacked) \o t.client.rbuf
    BY <1>3, <1>8, <1>9
  <2>4. Downward(u)
    BY <1>1, <1>3, <1>6, <1>8, <1>9, <2>3 DEF Sound, Downward, ReadOf
  <2>5. QED  BY <1>7, <2>2, <2>4 DEF Sound
<1>14. Deaf(u)
  BY <1>8, <1>9 DEF Good, Deaf, Holds
<1>15. CASE u.client.rbuf # <<>>
  <2>1. Ready(u)
    <3>1. t.client.up /\ ~t.client.receiving
      BY <1>1, <1>8, <1>15 DEF Good, Sound, Halves, Early, Waits
    <3>2. QED  BY <1>8, <1>12, <1>13, <1>14, <1>15, <3>1 DEF Ready
  <2>2. PICK k \in Writable(u) :
           v \in IF Continue(SendOut(u, k)) = SendOut(u, k) THEN {SendOut(u, k)}
                 ELSE SyncRecv(Continue(SendOut(u, k)))
    BY <1>10, <1>11, <1>15
  <2> DEFINE c == Continue(SendOut(u, k))
  <2>3. Good(c) /\ (c # SendOut(u, k) => Linked(c)) /\ c.pcb.rcvWnd = t.pcb.rcvWnd
    BY <1>9, <2>1, SendOutIsGood
  <2> HIDE DEF c
  <2>4. CASE v = c
    BY <2>3, <2>4
  <2>5. CASE v # c
    <3>1. c # SendOut(u, k) /\ v \in SyncRecv(c)
      BY <2>2, <2>5 DEF c
    <3>2. v = SocksDown(c) \/ v \in Reads(c)
      BY <2>5, <3>1 DEF SyncRecv
    <3>3. QED  BY <2>3, <3>1, <3>2, DownIsGood, ReadsAreGood
  <2>6. QED  BY <2>4, <2>5
<1>16. CASE u.client.rbuf = <<>> /\ u.client.socksClosed /\ u.client.pending = 0
  <2>1. v = FreeClient(u)
    BY <1>10, <1>11, <1>16
  <2>2. u.app.got = ReadOf(u)
    <3>1. /\ (u.app.got \o u.pcb.unacked) \o <<>> = ReadOf(u)
          /\ u.app.got \in Seq(Nat) /\ u.pcb.unacked = <<>>
      <4>1. Len(u.pcb.unacked) = 0 /\ u.pcb.unacked \in Seq(Nat) /\ u.app.got \in Seq(Nat)
        BY <1>12, <1>13, <1>16 DEF Sound, Downward, States, Pcbs, Apps
      <4>2. u.pcb.unacked = <<>>
        BY <4>1, EmptySeq
      <4>3. QED  BY <1>12, <1>13, <1>16, <4>1, <4>2 DEF Sound, Downward
    <3>2. QED  BY <3>1, ConcatEmptySeq
  <2>3. Good(v)
    BY <1>12, <1>13, <1>16, <2>1, <2>2, GoneIsGood
  <2>4. FreeClient(u).pcb.rcvWnd = u.pcb.rcvWnd
    BY <1>7 DEF States, Clients, Pcbs, Socks5, FreeClient, HandleFreedClient, LetGo, Dealloc,
                BSocksClient_Free
  <2>5. QED  BY <1>9, <2>1, <2>3, <2>4
<1>17. CASE u.client.rbuf = <<>> /\ ~(u.client.socksClosed /\ u.client.pending = 0)
  <2>1. v = u
    BY <1>10, <1>11, <1>17
  <2>2. Waits(u)
    <3>1. u.client.pending \in Nat
      BY <1>6, <1>8
    <3>2. QED  BY <1>8, <1>17, <3>1 DEF Good, Waits, Holds
  <2>3. QED  BY <1>9, <1>13, <1>14, <2>1, <2>2 DEF Good
<1>18. QED  BY <1>15, <1>16, <1>17

(* client_recv_func: n units from the application, for which lwIP had room. *)
LEMMA RecvIsGood ==
  ASSUME NEW t, Good(t), Holds(t), NEW n \in 1..t.pcb.rcvWnd, NEW v \in RecvFunc(t, n)
  PROVE  Good(v)
<1>1. t \in States /\ Sound(t) /\ t.client \in Clients /\ t.pcb \in Pcbs /\ t.app \in Apps
      /\ t.client.buf \in Seq(Nat) /\ t.app.sent \in Nat /\ t.pcb.rcvWnd \in Nat
      /\ t.sock.written \in Seq(Nat) /\ n \in Nat
  BY DEF Good, Sound, States, Clients, Pcbs, Socks5, Apps
<1> DEFINE sent == [t.app EXCEPT !.sent = @ + n]
<1>2. sent \in Apps /\ sent.sent = t.app.sent + n /\ sent.got = t.app.got /\ sent.fin = t.app.fin
      /\ sent.dead = t.app.dead
  <2>1. t.app.sent + n \in Nat
    BY <1>1
  <2>2. QED  BY <1>1, <2>1 DEF Apps
<1>3. CASE ~t.pcb.recvCb
  <2> DEFINE u == [t EXCEPT !.app = sent]
  <2>1. v = u
    BY <1>1, <1>3 DEF RecvFunc, States
  <2> HIDE DEF sent
  <2>2. u \in States /\ u.client = t.client /\ u.pcb = t.pcb /\ u.sock = t.sock /\ u.app = sent
    BY <1>1, <1>2 DEF States
  <2>3. t.client.socksClosed
    BY <1>1, <1>3 DEF Sound, Halves
  <2> HIDE DEF u
  <2>4. Halves(u) /\ Early(u) /\ Upward(u) /\ Downward(u)
    BY <1>1, <1>2, <2>2, <2>3 DEF Sound, Halves, Early, Upward, Downward, Holds, Linked, ReadOf
  <2>5. Settled(u) /\ Waits(u) /\ Deaf(u)
    BY <1>1, <2>2 DEF Good, Settled, Waits, Deaf, Holds
  <2>6. QED  BY <2>1, <2>2, <2>4, <2>5 DEF Good, Sound
<1>4. CASE t.pcb.recvCb
  <2> DEFINE b == t.client.buf \o [i \in 1..n |-> t.app.sent + i]
             first == t.client.buf = <<>> /\ t.client.up
             p == [t.pcb EXCEPT !.rcvWnd = @ - n]
             t2 == [[t EXCEPT !.app.sent = @ + n, !.pcb.rcvWnd = @ - n] EXCEPT !.client.buf = b]
             x == IF first THEN SendToSocks(t2) ELSE t2
             c == [t.client EXCEPT !.buf = b, !.sending = IF first THEN TRUE ELSE @]
  <2>1. ~t.client.socksClosed /\ t.pcb.rcvWnd + Len(t.client.buf) = Window /\ Len(t.client.buf) \in Nat
    BY <1>1, <1>4 DEF Good, Sound, Deaf, Upward, Holds
  <2>2. Fits(t, n)
    BY <1>1, <2>1 DEF Fits
  <2>3. t2 = [t EXCEPT !.app = sent, !.pcb = p, !.client = [t.client EXCEPT !.buf = b]]
    BY <1>1 DEF States
  <2>4. x = [t EXCEPT !.app = sent, !.pcb = p, !.client = c]
    <3> HIDE DEF t2, sent, p, b
    <3>1. CASE first
      BY <1>1, <2>3, <3>1 DEF SendToSocks, States, Clients
    <3>2. CASE ~first
      BY <1>1, <2>3, <3>2 DEF States, Clients
    <3>3. QED  BY <3>1, <3>2
  <2>5. v \in IF first THEN SyncSend(x) ELSE {x}
    BY <1>4, <2>2 DEF RecvFunc
  <2>6. /\ b \in Seq(Nat) /\ Len(b) = Len(t.client.buf) + n
        /\ t.sock.written \o b = (t.sock.written \o t.client.buf) \o Units(t.app.sent, n)
    <3>1. b = t.client.buf \o Units(t.app.sent, n)
      BY DEF Units
    <3>2. Units(t.app.sent, n) \in Seq(Nat) /\ Len(Units(t.app.sent, n)) = n
      BY <1>1, UnitsAre
    <3> HIDE DEF b
    <3>3. b \in Seq(Nat) /\ Len(b) = Len(t.client.buf) + n
      BY <1>1, <3>1, <3>2, Concats
    <3>4. t.sock.written \o b = (t.sock.written \o t.client.buf) \o Units(t.app.sent, n)
      BY <1>1, <3>1, <3>2, Associates
    <3>5. QED  BY <3>3, <3>4
  <2> HIDE DEF b
  <2>7. b # <<>>
    BY <1>1, <2>1, <2>6, EmptySeq
  <2>8. /\ c \in Clients /\ c.buf = b /\ c.sending = (IF first THEN TRUE ELSE t.client.sending)
        /\ c.alive = t.client.alive /\ c.closed = t.client.closed /\ c.up = t.client.up
        /\ c.socksClosed = t.client.socksClosed /\ c.rbuf = t.client.rbuf
        /\ c.receiving = t.client.receiving /\ c.pending = t.client.pending
    BY <1>1, <2>6 DEF Clients
  <2>9. /\ p \in Pcbs /\ p.rcvWnd = t.pcb.rcvWnd - n /\ p.state = t.pcb.state
        /\ p.unacked = t.pcb.unacked /\ p.recvCb = t.pcb.recvCb
    <3>1. t.pcb.rcvWnd - n \in Nat
      BY <1>1
    <3>2. QED  BY <1>1, <3>1 DEF Pcbs
  <2> HIDE DEF x, c, p, sent
  <2>10. x \in States /\ x.client = c /\ x.pcb = p /\ x.app = sent /\ x.sock = t.sock
    BY <1>1, <1>2, <2>4, <2>8, <2>9 DEF States
  <2>11. Good(x) /\ Linked(x)
    <3>1. Halves(x) /\ Early(x) /\ Downward(x) /\ Settled(x)
      BY <1>1, <1>2, <2>1, <2>8, <2>9, <2>10
         DEF Sound, Halves, Early, Downward, Settled, Holds, ReadOf
    <3>2. x.sock.written \o x.client.buf = Ids(x.app.sent)
      <4>1. t.sock.written \o t.client.buf = Ids(t.app.sent)
        BY <1>1, <2>1 DEF Sound, Upward, Linked, Holds
      <4>2. Ids(t.app.sent) \o Units(t.app.sent, n) = Ids(t.app.sent + n)
        BY <1>1, UnitsFollow
      <4>3. QED  BY <1>2, <2>6, <2>8, <2>10, <4>1, <4>2
    <3>3. x.pcb.rcvWnd + Len(x.client.buf) = Window
      <4>1. x.pcb.rcvWnd = t.pcb.rcvWnd - n /\ Len(x.client.buf) = Len(t.client.buf) + n
        BY <2>6, <2>8, <2>9, <2>10
      <4>2. QED  BY <1>1, <2>1, <4>1
    <3>4. x.client.up => x.client.sending
      BY <1>1, <2>1, <2>8, <2>10 DEF Sound, Upward, Linked, Holds
    <3>5. Upward(x)
      BY <2>7, <2>8, <2>10, <3>2, <3>3, <3>4 DEF Upward
    <3>6. Waits(x) /\ Deaf(x) /\ Linked(x)
      BY <2>1, <2>8, <2>9, <2>10 DEF Good, Waits, Deaf, Holds, Linked
    <3>7. QED  BY <2>10, <3>1, <3>5, <3>6 DEF Good, Sound
  <2>12. v = x \/ v = SocksDown(x) \/ v \in Writes(x)
    BY <2>5 DEF SyncSend
  <2>13. QED  BY <2>11, <2>12, DownIsGood, WritesAreGood
<1>5. QED  BY <1>3, <1>4

LEMMA FinIsGood ==
  ASSUME NEW t, Good(t), Holds(t), NEW v \in RecvFin(t)
  PROVE  Good(v)
<1> DEFINE u == [t EXCEPT !.app.fin = TRUE, !.pcb.state = "CLOSE_WAIT"]
<1>1. t \in States /\ Sound(t) /\ t.pcb \in Pcbs /\ t.app \in Apps
  BY DEF Good, Sound, States
<1>2. u \in States /\ u.client = t.client /\ u.sock = t.sock
  BY <1>1 DEF States, Pcbs, Apps
<1>3. /\ u.app.fin /\ u.app.sent = t.app.sent /\ u.app.got = t.app.got /\ u.app.dead = t.app.dead
      /\ u.pcb.state = "CLOSE_WAIT" /\ u.pcb.rcvWnd = t.pcb.rcvWnd
      /\ u.pcb.unacked = t.pcb.unacked /\ u.pcb.recvCb = t.pcb.recvCb
  BY <1>1 DEF States, Pcbs, Apps
<1>4. v = IF t.pcb.recvCb THEN FreeClient(u) ELSE u
  BY DEF RecvFin
<1> HIDE DEF u
<1>5. Sound(u) /\ Holds(u)
  <2>1. Halves(u) /\ Early(u) /\ Upward(u)
    BY <1>1, <1>2, <1>3 DEF Sound, Halves, Early, Upward, Holds, Linked
  <2>2. Downward(u) /\ Settled(u) /\ Holds(u)
    BY <1>1, <1>2, <1>3 DEF Sound, Downward, Settled, Holds, ReadOf
  <2>3. QED  BY <1>2, <2>1, <2>2 DEF Sound
<1>6. Waits(u) /\ Deaf(u)
  BY <1>2, <1>3 DEF Good, Waits, Deaf, Holds
<1>7. QED  BY <1>3, <1>4, <1>5, <1>6, GoneIsGood DEF Good

(* A segment that confirms n units and carries m units and perhaps a FIN.  *)
LEMMA InputIsGood ==
  ASSUME NEW t, Good(t), Holds(t), NEW n \in 0..Len(t.pcb.unacked), NEW m \in 0..t.pcb.rcvWnd,
         NEW fin \in BOOLEAN, NEW v \in Input(t, n, m, fin)
  PROVE  Good(v)
<1>1. t \in States /\ t.pcb.unacked \in Seq(Nat) /\ t.app.got \in Seq(Nat) /\ t.pcb.rcvWnd \in Nat
      /\ t.pcb.state # "CLOSED" /\ Len(t.pcb.unacked) \in Nat
  BY DEF Good, Sound, Halves, States, Pcbs, Apps
<1>2. \A u : Good(u) /\ u.pcb.state # "CLOSED" => Holds(u)
  BY DEF Good, Sound, Halves
<1> DEFINE acked == UNION {IF n > 0 /\ u.pcb.state # "CLOSED" THEN SentFunc(u, n) ELSE {u} : u \in {Ack(t, n)}}
           taken == UNION {IF m > 0 /\ u.pcb.state # "CLOSED" THEN RecvFunc(u, m) ELSE {u} : u \in acked}
<1>3. ASSUME NEW u \in acked  PROVE Good(u) /\ u.pcb.rcvWnd = t.pcb.rcvWnd
  <2>1. u \in IF n > 0 /\ Ack(t, n).pcb.state # "CLOSED" THEN SentFunc(Ack(t, n), n) ELSE {Ack(t, n)}
    BY <1>3
  <2>2. CASE n = 0
    <3>1. SubSeq(t.pcb.unacked, 1, 0) = <<>> /\ SubSeq(t.pcb.unacked, 0 + 1, Len(t.pcb.unacked)) = t.pcb.unacked
      BY <1>1, SubSeqFull, SubSeqEmpty
    <3>2. t.app.got \o <<>> = t.app.got
      BY <1>1, ConcatEmptySeq
    <3>3. Ack(t, 0) = [t EXCEPT !.app.got = t.app.got, !.pcb.unacked = t.pcb.unacked]
      BY <1>1, <3>1, <3>2 DEF Ack, States, Pcbs
    <3>4. Ack(t, 0) = t
      <4>1. t.app \in Apps /\ t.pcb \in Pcbs
        BY <1>1 DEF States
      <4>2. [t.app EXCEPT !.got = t.app.got] = t.app /\ [t.pcb EXCEPT !.unacked = t.pcb.unacked] = t.pcb
        BY <4>1 DEF Apps, Pcbs
      <4>3. Ack(t, 0) = [t EXCEPT !.app = [t.app EXCEPT !.got = t.app.got],
                                  !.pcb = [t.pcb EXCEPT !.unacked = t.pcb.unacked]]
        BY <1>1, <3>3 DEF States
      <4>4. [t EXCEPT !.app = t.app, !.pcb = t.pcb] = t
        BY <1>1 DEF States
      <4>5. QED  BY <4>2, <4>3, <4>4
    <3>5. QED  BY <2>1, <2>2, <3>4
  <2>3. CASE n > 0
    <3>1. Ack(t, n).pcb.state = t.pcb.state
      BY <1>1 DEF Ack, States, Pcbs
    <3>2. n \in 1..Len(t.pcb.unacked)
      BY <1>1, <2>3
    <3>3. u \in SentFunc(Ack(t, n), n)
      BY <1>1, <2>1, <2>3, <3>1
    <3>4. QED  BY <3>2, <3>3, SentIsGood
  <2>4. QED  BY <1>1, <2>2, <2>3
<1>4. ASSUME NEW w \in taken  PROVE Good(w)
  <2>1. PICK u \in acked : w \in IF m > 0 /\ u.pcb.state # "CLOSED" THEN RecvFunc(u, m) ELSE {u}
    BY <1>4
  <2> HIDE DEF acked
  <2>2. Good(u) /\ u.pcb.rcvWnd = t.pcb.rcvWnd
    BY <1>3
  <2>3. m > 0 => m \in 1..u.pcb.rcvWnd
    BY <1>1, <2>2
  <2>4. QED  BY <1>2, <2>1, <2>2, <2>3, RecvIsGood
<1>5. v \in UNION {IF fin /\ u.pcb.state # "CLOSED" THEN RecvFin(u) ELSE {u} : u \in taken}
  BY DEF Input, Then
<1> HIDE DEF taken
<1>6. PICK u \in taken : v \in IF fin /\ u.pcb.state # "CLOSED" THEN RecvFin(u) ELSE {u}
  BY <1>5
<1>7. QED  BY <1>2, <1>4, <1>6, FinIsGood

-------------------------------------------------------------------------------
(* The actions *)

LEMMA SameFields ==
  ASSUME NEW t, Good(t)
  PROVE  Good([client |-> t.client, pcb |-> t.pcb, sock |-> t.sock, app |-> t.app])
BY DEF Good, Sound, States, Halves, Early, Upward, Downward, Settled, Waits, Deaf, Holds, Linked,
   ReadOf

LEMMA BecomesGood ==
  ASSUME NEW t, Good(t), Becomes(t)
  PROVE  Good(Now)' /\ quitting' = quitting
<1>1. /\ client' = t.client /\ pcb' = t.pcb /\ sock' = t.sock /\ app' = t.app /\ quitting' = quitting
  BY DEF Becomes
<1>2. Good([client |-> client', pcb |-> pcb', sock |-> sock', app |-> app'])
  BY <1>1, SameFields
<1>3. QED  BY <1>1, <1>2 DEF Now

LEMMA TcpInvInit == TcpInit => TcpInv
BY DEF TcpInit, TcpInv, Fresh, Now

(* From a connection that exists, while tun2socks runs.                    *)
LEMMA EventIsGood ==
  ASSUME Good(Now), TcpNext
  PROVE  Good(Now)' /\ quitting' = quitting
<1> DEFINE t == Now
<1>1. /\ t \in States /\ Sound(t) /\ t.client = client /\ t.pcb = pcb /\ t.sock = sock /\ t.app = app
      /\ client \in Clients /\ pcb \in Pcbs /\ sock \in Socks5 /\ app \in Apps
  BY DEF Good, Sound, Now, States
<1> HIDE DEF t
<1>2. Good(t)
  BY DEF t
<1>3. ~Accept
  BY <1>1 DEF Accept, Sound, Halves
<1>4. CASE Segments
  <2>1. PICK n \in 0..SndBuf, m \in 0..Window, fin \in BOOLEAN : Segment(n, m, fin)
    BY <1>4 DEF Segments
  <2>2. PICK v \in Input(t, n, m, fin) : Becomes(v)
    BY <2>1 DEF Segment, t
  <2>3. Holds(t) /\ n \in 0..Len(t.pcb.unacked) /\ m \in 0..t.pcb.rcvWnd
    <3>1. Len(pcb.unacked) \in Nat /\ pcb.rcvWnd \in Nat
      BY <1>1 DEF Pcbs
    <3>2. Held /\ n <= Len(pcb.unacked) /\ m <= pcb.rcvWnd
      BY <2>1 DEF Segment
    <3>3. QED  BY <1>1, <3>1, <3>2 DEF Held, Holds
  <2>4. Good(v)
    BY <1>2, <2>2, <2>3, InputIsGood
  <2>5. QED  BY <2>2, <2>4, BecomesGood
<1>5. CASE ErrFunc
  <2>1. Becomes(AbortClient(t)) /\ Holds(t)
    BY <1>1, <1>5 DEF ErrFunc, Held, Holds, t
  <2>2. QED  BY <1>1, <2>1, AbortIsGood, BecomesGood
<1>6. CASE SocksUp
  <2> DEFINE t1 == [t EXCEPT !.client.up = TRUE, !.sock.state = "UP"]
             t2 == IF client.buf # <<>> THEN SendToSocks(t1) ELSE t1
             u == IF client.closed THEN t2 ELSE RecvInitiate(t2)
             c == [client EXCEPT !.up = TRUE, !.sending = IF client.buf # <<>> THEN TRUE ELSE @,
                                 !.receiving = IF client.closed THEN @ ELSE TRUE]
             s == [sock EXCEPT !.state = "UP"]
  <2>1. client.alive /\ sock.state = "CONNECTING" /\ Becomes(u)
    BY <1>6 DEF SocksUp, t
  <2>2. u = [t EXCEPT !.client = c, !.sock = s]
    <3>1. t1 = [t EXCEPT !.client = [client EXCEPT !.up = TRUE], !.sock = s]
      BY <1>1 DEF States
    <3> HIDE DEF t1, s
    <3>2. t2 = [t EXCEPT !.client = [client EXCEPT !.up = TRUE,
                                                   !.sending = IF client.buf # <<>> THEN TRUE ELSE @],
                         !.sock = s]
      BY <1>1, <3>1 DEF SendToSocks, States, Clients
    <3> HIDE DEF t2
    <3>3. QED  BY <1>1, <3>2 DEF RecvInitiate, States, Clients
  <2>3. /\ c \in Clients /\ c.up /\ c.sending = (IF client.buf # <<>> THEN TRUE ELSE client.sending)
        /\ c.receiving = (IF client.closed THEN client.receiving ELSE TRUE)
        /\ c.alive = client.alive /\ c.closed = client.closed /\ c.socksClosed = client.socksClosed
        /\ c.buf = client.buf /\ c.rbuf = client.rbuf /\ c.pending = client.pending
    BY <1>1 DEF Clients
  <2>4. /\ s \in Socks5 /\ s.state = "UP" /\ s.in = sock.in /\ s.made = sock.made
        /\ s.written = sock.written /\ s.down = sock.down
    BY <1>1 DEF Socks5
  <2> HIDE DEF u, c, s
  <2>5. u \in States /\ u.client = c /\ u.sock = s /\ u.pcb = pcb /\ u.app = app
    BY <1>1, <2>2, <2>3, <2>4 DEF States
  <2>6. ~client.socksClosed /\ ~client.up /\ client.rbuf = <<>> /\ ~client.receiving
    BY <1>1, <2>1 DEF Sound, Halves, Early
  <2>7. Halves(u) /\ Early(u)
    BY <1>1, <2>1, <2>3, <2>4, <2>5, <2>6 DEF Sound, Halves, Early, Holds
  <2>8. Upward(u)
    BY <1>1, <2>3, <2>4, <2>5, <2>6 DEF Sound, Early, Upward, Holds, Linked
  <2>9. Downward(u) /\ Settled(u)
    BY <1>1, <2>1, <2>3, <2>4, <2>5 DEF Sound, Downward, Settled, Holds, ReadOf
  <2>10. Waits(u) /\ Deaf(u)
    BY <1>1, <1>2, <2>3, <2>4, <2>5, <2>6 DEF Good, Waits, Deaf, Holds
  <2>11. Good(u)
    BY <2>5, <2>7, <2>8, <2>9, <2>10 DEF Good, Sound
  <2>12. QED  BY <2>1, <2>11, BecomesGood
<1>7. CASE SocksError
  <2>1. Becomes(SocksDown(t)) /\ Linked(t)
    BY <1>1, <1>7 DEF SocksError, Linked, t
  <2>2. QED  BY <1>2, <2>1, DownIsGood, BecomesGood
<1>8. CASE SocketWrites
  <2>1. PICK v \in Writes(t) : Becomes(v)
    BY <1>8 DEF SocketWrites, t
  <2>2. QED  BY <1>2, <2>1, WritesAreGood, BecomesGood
<1>9. CASE SocketReads
  <2>1. PICK v \in Reads(t) : Becomes(v)
    BY <1>9 DEF SocketReads, t
  <2>2. QED  BY <1>2, <2>1, ReadsAreGood, BecomesGood
<1>10. CASE ServerSends \/ ServerCloses
  <2> DEFINE u == [client |-> client, pcb |-> pcb, sock |-> sock', app |-> app]
  <2>1. UNCHANGED <<client, pcb, app, quitting>> /\ sock.state = "UP" /\ ~sock.eof
    BY <1>10 DEF ServerSends, ServerCloses
  <2>2. /\ sock' \in Socks5 /\ sock'.state = sock.state /\ sock'.written = sock.written
        /\ sock'.down = sock.down
        /\ sock'.made - Len(sock'.in) = sock.made - Len(sock.in)
        /\ Len(sock'.in) <= sock'.made
        /\ sock'.in = Units(sock'.made - Len(sock'.in), Len(sock'.in))
    <3>1. sock.in \in Seq(Nat) /\ sock.made \in Nat /\ Len(sock.in) \in Nat /\ Len(sock.in) <= sock.made
          /\ sock.in = Units(sock.made - Len(sock.in), Len(sock.in))
      BY <1>1 DEF Sound, Downward, Socks5
    <3>2. CASE ServerCloses
      <4>1. sock' = [sock EXCEPT !.eof = TRUE]
        BY <3>2 DEF ServerCloses
      <4>2. QED  BY <1>1, <3>1, <4>1 DEF Socks5
    <3>3. CASE ServerSends
      <4> DEFINE k == sock.made - Len(sock.in)
                 l == Len(sock.in)
                 more == Append(sock.in, sock.made + 1)
      <4>1. sock' = [sock EXCEPT !.made = @ + 1, !.in = more]
        BY <3>3 DEF ServerSends
      <4>2. more \in Seq(Nat) /\ Len(more) = l + 1 /\ more = Units(k, l + 1)
        <5>1. k \in Nat /\ l \in Nat /\ sock.made + 1 \in Nat /\ k + l = sock.made
          BY <3>1
        <5>2. /\ more \in Seq(Nat) /\ Len(more) = l + 1
              /\ \A i \in 1..l : more[i] = sock.in[i]
              /\ more[l + 1] = sock.made + 1
          BY <3>1, <5>1, AppendProperties
        <5> HIDE DEF more, k, l
        <5>3. sock.in = Units(k, l)
          BY <3>1 DEF k, l
        <5>4. \A i \in 1..l + 1 : more[i] = k + i
          <6>1. \A i \in 1..l : Units(k, l)[i] = k + i
            BY <5>1, UnitsAre
          <6>2. \A i \in 1..l : more[i] = k + i
            BY <5>2, <5>3, <6>1
          <6>3. more[l + 1] = k + (l + 1)
            BY <5>1, <5>2
          <6>4. \A i \in 1..l + 1 : i \in 1..l \/ i = l + 1
            BY <5>1
          <6>5. QED  BY <6>2, <6>3, <6>4
        <5>5. Units(k, l + 1) \in Seq(Nat) /\ Len(Units(k, l + 1)) = l + 1
              /\ \A i \in 1..l + 1 : Units(k, l + 1)[i] = k + i
          <6>1. l + 1 \in Nat
            BY <5>1
          <6>2. QED  BY <5>1, <6>1, UnitsAre
        <5>6. QED  BY <5>2, <5>4, <5>5, SeqEqual
      <4> HIDE DEF more
      <4>3. /\ sock' \in Socks5 /\ sock'.state = sock.state /\ sock'.written = sock.written
            /\ sock'.down = sock.down /\ sock'.made = sock.made + 1 /\ sock'.in = more
        <5>1. sock.made + 1 \in Nat
          BY <3>1
        <5>2. QED  BY <1>1, <4>1, <4>2, <5>1 DEF Socks5
      <4>4. sock'.made - Len(sock'.in) = k
        <5>1. Len(sock'.in) = Len(sock.in) + 1 /\ sock'.made = sock.made + 1
          BY <4>2, <4>3
        <5>2. QED  BY <3>1, <5>1
      <4>5. QED  BY <3>1, <4>2, <4>3, <4>4
    <3>4. QED  BY <1>10, <3>2, <3>3
  <2>3. u \in States /\ u.client = client /\ u.pcb = pcb /\ u.sock = sock' /\ u.app = app
    BY <1>1, <2>2 DEF States
  <2> HIDE DEF u
  <2>4. client.up /\ client.alive
    BY <1>1, <2>1 DEF Sound, Halves
  <2>5. Halves(u) /\ Early(u) /\ Upward(u)
    BY <1>1, <2>2, <2>3, <2>4 DEF Sound, Halves, Early, Upward, Holds, Linked
  <2>6. Downward(u) /\ Settled(u)
    BY <1>1, <2>2, <2>3, <2>4 DEF Sound, Downward, Settled, Holds, ReadOf
  <2>7. Waits(u) /\ Deaf(u)
    BY <1>1, <1>2, <2>3 DEF Good, Waits, Deaf, Holds
  <2>8. Good(u)
    BY <2>3, <2>5, <2>6, <2>7 DEF Good, Sound
  <2>9. QED  BY <2>1, <2>8 DEF u, Now
<1>11. QED  BY <1>3, <1>4, <1>5, <1>6, <1>7, <1>8, <1>9, <1>10 DEF TcpNext

(* Before the application connects, only Accept and Quit are possible.     *)
LEMMA FreshAccepts ==
  ASSUME Fresh(Now), ~quitting, TcpNext
  PROVE  Good(Now)' /\ quitting' = quitting
<1>1. /\ client.alive = FALSE /\ client.closed = FALSE /\ client.sending = FALSE
      /\ client.receiving = FALSE /\ sock.state = "CONNECTING"
  BY DEF Fresh, Now
<1>2. Accept
  BY <1>1 DEF TcpNext, Segments, Segment, ErrFunc, SocksUp, SocksError, SocketWrites, SocketReads,
              ServerSends, ServerCloses, Held, Writes, Reads, Now
<1> DEFINE t == [Now EXCEPT !.client.alive = TRUE, !.pcb.state = "ESTABLISHED", !.pcb.recvCb = TRUE]
<1>3. PICK u \in {t, SocksDown(t)} : Becomes(u)
  BY <1>2 DEF Accept
<1>4. Now \in States
  <2>1. <<>> \in Seq(Nat) /\ Window \in Nat
    BY TcpSizes, EmptySeq
  <2>2. Now.client \in Clients
    BY <2>1 DEF Fresh, Clients
  <2>3. Now.pcb \in Pcbs
    BY <2>1 DEF Fresh, Pcbs
  <2>4. Now.sock \in Socks5
    BY <2>1 DEF Fresh, Socks5
  <2>5. Now.app \in Apps
    BY <2>1 DEF Fresh, Apps
  <2>6. QED  BY <2>2, <2>3, <2>4, <2>5 DEF Now, States
<1>5. /\ t \in States /\ t.client = [client EXCEPT !.alive = TRUE] /\ t.sock = sock /\ t.app = app
      /\ t.pcb = [pcb EXCEPT !.state = "ESTABLISHED", !.recvCb = TRUE]
  BY <1>4 DEF Now, States, Clients, Pcbs
<1> HIDE DEF t
<1>6. /\ t.client.alive /\ ~t.client.closed /\ ~t.client.socksClosed /\ ~t.client.up
      /\ ~t.client.sending /\ ~t.client.receiving /\ t.client.buf = <<>> /\ t.client.rbuf = <<>>
      /\ t.client.pending = 0 /\ t.pcb.state = "ESTABLISHED" /\ t.pcb.recvCb
      /\ t.pcb.rcvWnd = Window /\ t.pcb.unacked = <<>>
      /\ t.sock.state = "CONNECTING" /\ t.sock.written = <<>> /\ t.sock.in = <<>>
      /\ t.sock.made = 0 /\ t.app.sent = 0 /\ t.app.got = <<>>
  BY <1>5 DEF Fresh, Now
<1>7. /\ Len(<<>>) = 0 /\ <<>> \o <<>> = <<>> /\ Ids(0) = <<>> /\ Units(0, 0) = <<>> /\ Window + 0 = Window
  <2>1. <<>> \in Seq(Nat) /\ Len(<<>>) = 0 /\ 0 \in Nat
    BY EmptySeq
  <2>2. QED  BY <2>1, ConcatEmptySeq, NoUnits, TcpSizes
<1>8. Good(t)
  <2>1. Halves(t) /\ Early(t) /\ Upward(t)
    BY <1>6, <1>7 DEF Halves, Early, Upward, Holds, Linked
  <2>2. Downward(t) /\ Settled(t) /\ Waits(t) /\ Deaf(t)
    BY <1>6, <1>7 DEF Downward, Settled, Waits, Deaf, Holds, ReadOf
  <2>3. QED  BY <1>5, <2>1, <2>2 DEF Good, Sound
<1>9. Linked(t)
  BY <1>6 DEF Linked
<1>10. QED  BY <1>3, <1>8, <1>9, DownIsGood, BecomesGood

LEMMA TcpInvNext == TcpInv /\ (TcpNext \/ Quit \/ UNCHANGED tcpVars) => TcpInv'
<1>1. ASSUME TcpInv, ~Ended, TcpNext  PROVE TcpInv'
  <2>1. ~quitting /\ (Fresh(Now) \/ Good(Now))
    BY <1>1 DEF TcpInv
  <2>2. Good(Now)' /\ quitting' = quitting
    BY <1>1, <2>1, EventIsGood, FreshAccepts
  <2>3. QED  BY <2>1, <2>2 DEF TcpInv
<1>2. ASSUME Ended, TcpNext  PROVE FALSE
  BY <1>2 DEF Ended, TcpNext, Accept, Segments, Segment, ErrFunc, SocksUp, SocksError, SocketWrites,
              SocketReads, ServerSends, ServerCloses, Held, Writes, Reads, Now
<1>3. ASSUME TcpInv, Quit  PROVE TcpInv'
  <2>1. ~quitting /\ quitting' /\ (Fresh(Now) \/ Good(Now))
    BY <1>3 DEF TcpInv, Quit, Ended
  <2>2. CASE ~client.alive
    <3>1. client' = client /\ sock' = sock
      BY <1>3, <2>2 DEF Quit, Now
    <3>2. ~client.sending /\ ~client.receiving /\ sock.state # "UP"
      BY <2>1, <2>2 DEF Fresh, Good, Sound, Halves, Now
    <3>3. QED  BY <2>1, <2>2, <3>1, <3>2 DEF TcpInv, Ended
  <2>3. CASE client.alive
    <3>1. Now \in States
      BY <2>1, <2>3 DEF Fresh, Good, Sound, Now
    <3>2. client' = Murder(Now).client /\ sock' = Murder(Now).sock
      BY <1>3, <2>3 DEF Quit
    <3>3. /\ ~Murder(Now).client.alive /\ ~Murder(Now).client.sending
          /\ ~Murder(Now).client.receiving /\ Murder(Now).sock.state = "FREED"
      BY <3>1 DEF Murder, Dealloc, BSocksClient_Free, LetGo, States, Clients, Pcbs, Socks5
    <3>4. QED  BY <2>1, <3>2, <3>3 DEF TcpInv, Ended
  <2>4. QED  BY <2>2, <2>3
<1>4. ASSUME TcpInv, UNCHANGED tcpVars  PROVE TcpInv'
  BY <1>4 DEF TcpInv, tcpVars, Ended, Now, Fresh, Good, Sound, Halves, Early, Upward, Downward,
              Settled, Waits, Deaf, Holds, Linked, ReadOf
<1>5. QED  BY <1>1, <1>2, <1>3, <1>4

LEMMA TcpInvMeans == TcpInv => Accounts /\ NothingLost /\ NoStall
<1> SUFFICES ASSUME TcpInv  PROVE Accounts /\ NothingLost /\ NoStall
  OBVIOUS
<1>1. CASE ~client.alive /\ (quitting \/ pcb.state = "LISTEN")
  BY <1>1 DEF Accounts, NothingLost, NoStall, Held, Gone
<1>2. CASE Good(Now)
  <2> DEFINE t == Now
  <2>1. t.client = client /\ t.pcb = pcb /\ t.sock = sock /\ t.app = app
    BY DEF Now
  <2> HIDE DEF t
  <2>2. Good(t)
    BY <1>2 DEF t
  <2>3. Accounts
    BY <2>1, <2>2 DEF Accounts, Good, Sound, Upward, Downward, Held, Holds, Linked, ReadOf,
       ReadSoFar
  <2>4. NothingLost
    BY <2>1, <2>2 DEF NothingLost, Gone, Good, Sound, Settled, ReadOf, ReadSoFar
  <2>5. NoStall
    BY <2>1, <2>2 DEF NoStall, Good, Sound, Upward, Waits, Held, Holds, Linked
  <2>6. QED  BY <2>3, <2>4, <2>5
<1>3. QED
  BY <1>1, <1>2 DEF TcpInv, Ended, Fresh, Now

LEMMA TcpInvariant == Spec => []TcpInv
<1>1. Init => TcpInv
  BY TcpInvInit DEF Init
<1>2. TcpInv /\ [Next]_vars => TcpInv'
  <2>1. [Next]_vars => TcpNext \/ Quit \/ UNCHANGED tcpVars
    BY DEF Next, vars, Quits
  <2>2. QED  BY <2>1, TcpInvNext
<1>3. QED  BY <1>1, <1>2, PTL DEF Spec

(* While a client holds both halves of a connection, nothing is lost,      *)
(* repeated or reordered in either direction, and the window and the       *)
(* pending count agree with the buffers (client_sent_func and              *)
(* client_recv_func of tun2socks.c), for any window, buffer and segment.   *)
THEOREM BytesAccounted == Spec => []Accounts
BY TcpInvariant, TcpInvMeans, PTL

(* A client that has gone left nothing behind that it had taken on         *)
(* (client_free_socks and client_handle_freed_client of tun2socks.c).      *)
THEOREM NothingLeftBehind == Spec => []NothingLost
BY TcpInvariant, TcpInvMeans, PTL

(* No direction of a connection waits for an event that will not come      *)
(* (client_socks_recv_send_out and client_socks_recv_initiate).            *)
THEOREM NeverStalls == Spec => []NoStall
BY TcpInvariant, TcpInvMeans, PTL
===============================================================================
