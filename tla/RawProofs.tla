------------------------------ MODULE RawProofs ------------------------------
(***************************************************************************)
(* The raw transports, for any number of packets and connections and any   *)
(* queue size: the document transport, the room of cupsonline, and the     *)
(* pool of workers of vyandex.  What is proved of one of them holds of     *)
(* whatever main.go picks, since those that were not chosen stay as they   *)
(* were constructed.                                                       *)
(***************************************************************************)
EXTENDS RawTransport, SequenceTheorems, FiniteSetTheorems, TLAPS

(* A queue holds the numbers of calls in the order of the calls.           *)
Increasing(s) == \A i, j \in DOMAIN s : i < j => s[i] < s[j]

(* Only the first session ever made its queue the one that is written:     *)
(* its number is 1, and so is that of its writer.                          *)
First == 1

(* Connections are numbered as they are opened.                            *)
Opened(n) == \A c \in Conns : conn[c] # "none" <=> c <= n

(* Calls that have returned. *)
Returned == IF spc = "idle" THEN sent ELSE sent - 1

(* Before Start, everything is as NewYandexTransport left it.              *)
Untouched ==
  ~running /\ stpc = "idle" =>
    /\ cpc = "off" /\ ~connected /\ session = None
    /\ \A w \in Conns : wpc[w] = "off"

(* Stop is called once.                                                    *)
StopOnce == running => stpc = "idle"

(* The connector: which connection it has, and which session it found.     *)
Connecting ==
  /\ \E n \in 0..MaxConns :
       /\ Opened(n) /\ session <= n
       /\ cpc = "install" => cur = n
       /\ cpc = "install" => session < n
       /\ \A c \in Conns : (c > n \/ (c = n /\ cpc = "install")) => wpc[c] = "off"
       /\ session = None => n = 0 \/ (n = 1 /\ cpc = "install") \/ stpc = "done"
       /\ cpc = "open" /\ existing = None => n = 0 \/ stpc = "done"
  /\ cpc \in {"install", "read"} => cur \in Conns
  /\ cpc = "install" /\ existing = None => cur = First \/ stpc = "done"
  /\ cpc \in {"open", "install"} /\ existing # None => queueOf[existing] = First

(* Sessions share the first queue, except one that was made after Stop.    *)
Queues ==
  /\ session # None => queueOf[session] \in Conns
  /\ session # None /\ queueOf[session] # First =>
       (stpc = "done" /\ cpc \in {"read", "off"})
  /\ \A q \in Conns : queue[q] # <<>> /\ q # First =>
       (session # None /\ queueOf[session] # First)
  /\ spc = "enqueue" =>
       /\ sq \in Conns
       /\ sq = First => \A q \in Conns : q # First => queue[q] = <<>>
       /\ sq # First => session # None /\ queueOf[session] # First

(* While it runs, the connector closes a connection before it opens one.   *)
Serving ==
  /\ stpc = "idle" =>
       /\ \A c \in Conns : conn[c] \in {"open", "broken"} => c = cur /\ cpc \in {"install", "read"}
       /\ cpc = "read" => session = cur
  /\ running /\ connected => cpc = "read" /\ session = cur /\ session # None

(* Only the writer of the first session gets beyond its start.             *)
Writers ==
  /\ \A w \in Conns :
       /\ wpc[w] \in {"top", "take", "pick", "write"} => w = First /\ wq[w] = First
       /\ wpc[w] = "capture" => w = First \/ stpc # "idle"
       /\ w # First => pending[w] = None
       /\ wpc[w] \in {"off", "capture", "take"} => pending[w] = None
       /\ wpc[w] \in {"pick", "write"} => pending[w] # None
  /\ late <= 1
  /\ late > 0 => stpc # "idle" /\ First \in Conns /\ wpc[First] \in {"top", "exit"}

(* What is held is what was accepted and not yet written, in order.        *)
Ordered ==
  /\ \A p \in accepted : p <= Returned
  /\ written = None \/ written \in accepted
  /\ spc # "idle" => sent > 0
  /\ \A q \in Conns : Increasing(queue[q])
  /\ \A q \in Conns : q # First =>
       \A p \in Elems(queue[q]), o \in Elems(queue[First]) : o < p
  /\ \A w \in Conns : pending[w] # None =>
       \A q \in Conns : \A p \in Elems(queue[q]) : pending[w] < p
  /\ HeldUntilWritten

DocInv ==
  TypeOK /\ Untouched /\ StopOnce /\ Connecting /\ Queues /\ Serving /\ Writers /\ Ordered

-------------------------------------------------------------------------------
(* Queues as increasing sequences *)

LEMMA AppendElems ==
  ASSUME NEW S, NEW s \in Seq(S), NEW e \in S
  PROVE  /\ Append(s, e) \in Seq(S) /\ Len(Append(s, e)) = Len(s) + 1
         /\ Elems(Append(s, e)) = Elems(s) \cup {e} /\ Elems(s) \subseteq S
<1>1. /\ Append(s, e) \in Seq(S) /\ Len(Append(s, e)) = Len(s) + 1 /\ Len(s) \in Nat
      /\ \A i \in 1..Len(s) : Append(s, e)[i] = s[i] /\ s[i] \in S
      /\ Append(s, e)[Len(s) + 1] = e
  BY AppendProperties, ElementOfSeq
<1>2. DOMAIN s = 1..Len(s) /\ DOMAIN Append(s, e) = 1..(Len(s) + 1)
  BY <1>1
<1>3. 1..(Len(s) + 1) = 1..Len(s) \cup {Len(s) + 1}
  BY <1>1
<1>4. QED  BY <1>1, <1>2, <1>3 DEF Elems

LEMMA AppendIncreases ==
  ASSUME NEW s \in Seq(Nat), NEW e \in Nat, Increasing(s), \A x \in Elems(s) : x < e
  PROVE  Increasing(Append(s, e))
<1>1. /\ Len(Append(s, e)) = Len(s) + 1 /\ Len(s) \in Nat
      /\ \A i \in 1..Len(s) : Append(s, e)[i] = s[i]
      /\ Append(s, e)[Len(s) + 1] = e
      /\ DOMAIN s = 1..Len(s) /\ DOMAIN Append(s, e) = 1..(Len(s) + 1)
  BY AppendProperties
<1>2. \A i \in 1..(Len(s) + 1) : i \in 1..Len(s) \/ i = Len(s) + 1
  BY <1>1
<1>3. \A i \in 1..Len(s) : s[i] < e
  BY <1>1 DEF Elems
<1>4. ASSUME NEW i \in 1..(Len(s) + 1), NEW j \in 1..(Len(s) + 1), i < j
      PROVE  Append(s, e)[i] < Append(s, e)[j]
  <2>1. i \in 1..Len(s)
    BY <1>1, <1>4
  <2>2. CASE j \in 1..Len(s)
    BY <1>1, <1>4, <2>1, <2>2 DEF Increasing
  <2>3. CASE j = Len(s) + 1
    BY <1>1, <1>3, <2>1, <2>3
  <2>4. QED  BY <1>2, <2>2, <2>3
<1>5. QED  BY <1>1, <1>4 DEF Increasing

LEMMA TailElems ==
  ASSUME NEW S, NEW s \in Seq(S), s # <<>>
  PROVE  /\ Head(s) \in S /\ Tail(s) \in Seq(S) /\ Len(Tail(s)) <= Len(s)
         /\ Elems(s) = {Head(s)} \cup Elems(Tail(s))
<1>1. /\ Head(s) \in S /\ Head(s) = s[1] /\ Tail(s) \in Seq(S)
      /\ Len(Tail(s)) = Len(s) - 1 /\ Len(s) \in Nat /\ Len(s) > 0
      /\ \A i \in 1..Len(Tail(s)) : Tail(s)[i] = s[i + 1]
  BY HeadTailProperties, EmptySeq
<1>2. DOMAIN s = 1..Len(s) /\ DOMAIN Tail(s) = 1..(Len(s) - 1)
  BY <1>1
<1>3. \A i \in 1..Len(s) : i = 1 \/ (i - 1 \in 1..(Len(s) - 1) /\ s[i] = Tail(s)[i - 1])
  BY <1>1
<1>4. \A i \in 1..(Len(s) - 1) : i + 1 \in 1..Len(s) /\ Tail(s)[i] = s[i + 1]
  BY <1>1
<1>5. ASSUME NEW x \in Elems(s)  PROVE x \in {Head(s)} \cup Elems(Tail(s))
  <2>1. PICK i \in 1..Len(s) : x = s[i]
    BY <1>2 DEF Elems
  <2>2. CASE i = 1
    BY <1>1, <2>1, <2>2
  <2>3. CASE i - 1 \in DOMAIN Tail(s) /\ s[i] = Tail(s)[i - 1]
    BY <2>1, <2>3 DEF Elems
  <2>4. QED  BY <1>2, <1>3, <2>1, <2>2, <2>3
<1>6. {Head(s)} \cup Elems(Tail(s)) \subseteq Elems(s)
  BY <1>1, <1>2, <1>4 DEF Elems
<1>7. Elems(s) = {Head(s)} \cup Elems(Tail(s))
  BY <1>5, <1>6
<1>8. QED  BY <1>1, <1>7

LEMMA TailIncreases ==
  ASSUME NEW s \in Seq(Nat), s # <<>>, Increasing(s)
  PROVE  Increasing(Tail(s)) /\ \A x \in Elems(Tail(s)) : Head(s) < x
<1>1. /\ Head(s) = s[1] /\ Len(Tail(s)) = Len(s) - 1 /\ Len(s) \in Nat /\ Len(s) > 0
      /\ \A i \in 1..Len(Tail(s)) : Tail(s)[i] = s[i + 1]
      /\ Tail(s) \in Seq(Nat)
  BY HeadTailProperties, EmptySeq
<1>2. DOMAIN s = 1..Len(s) /\ DOMAIN Tail(s) = 1..(Len(s) - 1)
  BY <1>1
<1>3. \A i \in DOMAIN Tail(s) : i + 1 \in DOMAIN s /\ 1 < i + 1 /\ Tail(s)[i] = s[i + 1]
  BY <1>1, <1>2
<1>4. \A i, j \in DOMAIN Tail(s) : i < j => i + 1 < j + 1
  BY <1>2
<1>5. 1 \in DOMAIN s
  BY <1>1, <1>2
<1>6. QED  BY <1>1, <1>3, <1>4, <1>5 DEF Elems, Increasing

-------------------------------------------------------------------------------
(* Types *)

LEMMA DocTypesInit == Init => TypeOK
<1> SUFFICES ASSUME Init  PROVE TypeOK
  OBVIOUS
<1>1. <<>> \in Seq(Packets) /\ Len(<<>>) = 0 /\ 0 <= MaxQueueSize
  BY DocAssumption
<1>2. queue \in [Conns -> Seq(Packets)] /\ \A c \in Conns : Len(queue[c]) <= MaxQueueSize
  BY <1>1 DEF Init
<1>3. /\ running \in BOOLEAN /\ connected \in BOOLEAN /\ session \in Conns \cup {None}
      /\ conn \in [Conns -> {"none", "open", "broken", "closed"}]
      /\ queueOf \in [Conns -> Conns \cup {None}]
  BY DEF Init
<1>4. /\ cpc = "off" /\ existing = None /\ cur = None /\ attempt \in 0..AttemptBound
      /\ kpc = "off" /\ ksnap = None /\ spc = "idle" /\ sq = None /\ stpc = "idle"
      /\ sent \in 0..MaxPackets /\ accepted = {}
      /\ written = None /\ count \in Nat /\ late \in Nat
  BY DocAssumption DEF Init
<1>5. /\ wpc \in [Conns -> {"off", "capture", "top", "take", "pick", "write", "exit"}]
      /\ wq \in [Conns -> Conns \cup {None}]
      /\ pending \in [Conns -> Packets \cup {None}]
      /\ wsnap \in [Conns -> Conns \cup {None}]
  BY DEF Init
<1>6. QED  BY <1>2, <1>3, <1>4, <1>5 DEF TypeOK

LEMMA NextConnIs ==
  ASSUME TypeOK, NEW n \in 0..MaxConns, Opened(n)
  PROVE  NextConn = n + 1
<1>1. {c \in Conns : conn[c] # "none"} = 1..n
  BY DocAssumption DEF Opened, Conns
<1>2. Cardinality(1..n) = n
  <2>1. n \in Nat /\ 1 \in Nat
    BY DocAssumption
  <2>2. Cardinality(1..n) = IF 1 > n THEN 0 ELSE n - 1 + 1
    BY <2>1, FS_Interval
  <2>3. QED  BY <2>1, <2>2
<1>3. QED  BY <1>1, <1>2 DEF NextConn

(* Who changes what. *)
LEMMA Touched ==
  ASSUME [Next]_vars
  PROVE  /\ UNCHANGED <<running, stpc>> \/ Start \/ StopFlags \/ StopSession
         /\ UNCHANGED keepalive \/ Start \/ Tick \/ \E ok \in BOOLEAN : KeepAlive(ok)
         /\ UNCHANGED connector \/ Start \/ Connector
         /\ UNCHANGED connected \/ StopFlags \/ Install \/ (\E lasted \in BOOLEAN : ReadFails(lasted))
                               \/ \E ok \in BOOLEAN : KeepAlive(ok)
         /\ UNCHANGED conn \/ StopSession \/ OpenSucceeds \/ (\E c \in Conns : Break(c))
                          \/ \E lasted \in BOOLEAN : ReadFails(lasted)
         /\ UNCHANGED <<session, queueOf>> \/ StopSession \/ Install
         /\ UNCHANGED queue \/ SendEnqueues \/ \E w \in Conns : WriterTakes(w)
         /\ UNCHANGED writer \/ Install \/ \E w \in Conns : Writer(w)
         /\ UNCHANGED sending \/ Sender
         /\ UNCHANGED output \/ \E w \in Conns : WriteSucceeds(w)
<1> USE DEF flags, connector, writer, keepalive, sending, output
<1>1. CASE Start \/ StopFlags \/ StopSession \/ UNCHANGED vars
  BY <1>1 DEF Start, StopFlags, StopSession, vars
<1>2. CASE Sender
  BY <1>2 DEF Sender, SendChecks, SendReadsSession, SendEnqueues
<1>3. CASE Connector
  BY <1>3 DEF Connector, ConnectBegins, OpenFails, OpenSucceeds, ReadFails, ReadEnds,
     BackoffEnds, Install
<1>4. CASE \E w \in Conns : Writer(w)
  BY <1>4 DEF Writer, WriterCaptures, WriterLoops, WriterTakes, WriterPicks, WriteSucceeds,
     WriteFails
<1>5. CASE Tick \/ (\E ok \in BOOLEAN : KeepAlive(ok)) \/ \E c \in Conns : Break(c)
  BY <1>5 DEF Tick, KeepAlive, Break
<1>6. QED  BY <1>1, <1>2, <1>3, <1>4, <1>5 DEF Next

FlagTypes ==
  /\ running \in BOOLEAN /\ connected \in BOOLEAN /\ stpc \in {"idle", "clear", "done"}
  /\ kpc \in {"off", "wait", "write"} /\ ksnap \in Conns \cup {None}
SessionTypes ==
  /\ session \in Conns \cup {None}
  /\ conn \in [Conns -> {"none", "open", "broken", "closed"}]
  /\ queueOf \in [Conns -> Conns \cup {None}]
QueueTypes ==
  /\ queue \in [Conns -> Seq(Packets)]
  /\ \A c \in Conns : Len(queue[c]) <= MaxQueueSize
ConnectorTypes ==
  /\ cpc \in {"off", "begin", "open", "install", "read", "backoff"}
  /\ existing \in Conns \cup {None} /\ cur \in Conns \cup {None}
  /\ attempt \in 0..AttemptBound
WriterTypes ==
  /\ wpc \in [Conns -> {"off", "capture", "top", "take", "pick", "write", "exit"}]
  /\ wq \in [Conns -> Conns \cup {None}]
  /\ pending \in [Conns -> Packets \cup {None}]
  /\ wsnap \in [Conns -> Conns \cup {None}]
SendTypes ==
  /\ spc \in {"idle", "session", "enqueue"} /\ sq \in Conns \cup {None}
  /\ sent \in 0..MaxPackets /\ accepted \in SUBSET Packets
WriteTypes == written \in Packets \cup {None} /\ count \in Nat /\ late \in Nat

LEMMA TypeParts ==
  TypeOK <=> FlagTypes /\ SessionTypes /\ QueueTypes /\ ConnectorTypes /\ WriterTypes
             /\ SendTypes /\ WriteTypes
BY DEF TypeOK, FlagTypes, SessionTypes, QueueTypes, ConnectorTypes, WriterTypes, SendTypes,
       WriteTypes

LEMMA DocTypesNext == DocInv /\ [Next]_vars => TypeOK'
<1> SUFFICES ASSUME DocInv, [Next]_vars  PROVE TypeOK'
  OBVIOUS
<1>1. /\ FlagTypes /\ SessionTypes /\ QueueTypes /\ ConnectorTypes /\ WriterTypes
      /\ SendTypes /\ WriteTypes
  BY TypeParts DEF DocInv
<1>2. FlagTypes'
  <2>1. CASE Start \/ StopFlags \/ StopSession
    BY <1>1, <2>1 DEF FlagTypes, Start, StopFlags, StopSession, flags, keepalive
  <2>2. CASE Tick \/ \E ok \in BOOLEAN : KeepAlive(ok)
    BY <1>1, <2>2 DEF FlagTypes, SessionTypes, Tick, KeepAlive, AfterTick, flags
  <2>3. CASE Install \/ \E lasted \in BOOLEAN : ReadFails(lasted)
    BY <1>1, <2>3 DEF FlagTypes, Install, ReadFails, keepalive
  <2>4. CASE UNCHANGED <<flags, stpc, keepalive>>
    BY <1>1, <2>4 DEF FlagTypes, flags, keepalive
  <2>5. QED  BY <2>1, <2>2, <2>3, <2>4, Touched DEF flags, keepalive
<1>3. SessionTypes'
  <2>1. CASE StopSession \/ OpenSucceeds \/ (\E lasted \in BOOLEAN : ReadFails(lasted))
             \/ \E c \in Conns : Break(c)
    BY <1>1, <2>1 DEF SessionTypes, StopSession, OpenSucceeds, ReadFails, Break, CloseConn
  <2>2. CASE Install
    <3>1. cur \in Conns
      BY <2>2 DEF Install, DocInv, Connecting
    <3>2. QueueFor(existing) \in Conns \cup {None}
      BY <1>1, <3>1 DEF QueueFor, SessionTypes, ConnectorTypes
    <3>3. QED  BY <1>1, <2>2, <3>1, <3>2 DEF Install, SessionTypes
  <2>3. CASE UNCHANGED <<session, queueOf, conn>>
    BY <1>1, <2>3 DEF SessionTypes
  <2>4. QED  BY <2>1, <2>2, <2>3, Touched
<1>4. QueueTypes'
  <2>1. CASE SendEnqueues
    <3>1. sent \in Packets /\ sq \in Conns
      BY <1>1, <2>1, DocAssumption DEF SendEnqueues, DocInv, Ordered, Queues, Packets, SendTypes
    <3>2. queue[sq] \in Seq(Packets)
      BY <1>1, <3>1 DEF QueueTypes
    <3>3. /\ Append(queue[sq], sent) \in Seq(Packets)
          /\ Len(Append(queue[sq], sent)) = Len(queue[sq]) + 1 /\ Len(queue[sq]) \in Nat
      BY <3>1, <3>2, AppendElems
    <3>4. CASE ~HasRoom(sq)
      BY <1>1, <2>1, <3>4 DEF SendEnqueues, QueueTypes
    <3>5. CASE HasRoom(sq)
      <4>1. queue' = [queue EXCEPT ![sq] = Append(queue[sq], sent)]
        BY <2>1, <3>5 DEF SendEnqueues
      <4>2. Len(Append(queue[sq], sent)) <= MaxQueueSize
        BY <3>3, <3>5, DocAssumption DEF HasRoom
      <4>3. QED  BY <1>1, <3>1, <3>3, <4>1, <4>2 DEF QueueTypes
    <3>6. QED  BY <3>4, <3>5
  <2>2. ASSUME NEW w \in Conns, WriterTakes(w)  PROVE QueueTypes'
    <3>1. wq[w] \in Conns
      BY <1>1, <2>2 DEF WriterTakes, DocInv, Writers
    <3>2. queue[wq[w]] \in Seq(Packets) /\ queue[wq[w]] # <<>>
      BY <1>1, <2>2, <3>1 DEF WriterTakes, QueueTypes
    <3>3. /\ Tail(queue[wq[w]]) \in Seq(Packets)
          /\ Len(Tail(queue[wq[w]])) <= Len(queue[wq[w]])
      BY <3>2, TailElems
    <3>4. Len(queue[wq[w]]) \in Nat /\ Len(Tail(queue[wq[w]])) \in Nat
      BY <3>2, <3>3
    <3>5. queue' = [queue EXCEPT ![wq[w]] = Tail(queue[wq[w]])]
      BY <2>2 DEF WriterTakes
    <3>6. Len(Tail(queue[wq[w]])) <= MaxQueueSize
      BY <1>1, <3>1, <3>3, <3>4, DocAssumption DEF QueueTypes
    <3>7. QED  BY <1>1, <3>1, <3>3, <3>5, <3>6 DEF QueueTypes
  <2>3. CASE UNCHANGED queue
    BY <1>1, <2>3 DEF QueueTypes
  <2>4. QED  BY <2>1, <2>2, <2>3, Touched
<1>5. ConnectorTypes'
  <2>1. ASSUME NEW a \in {-1, attempt}, ScheduleReconnect(a)
        PROVE  cpc' \in {"off", "backoff"} /\ attempt' \in 0..AttemptBound
    BY <1>1, <2>1, DocAssumption DEF ScheduleReconnect, SaturatingInc, ConnectorTypes
  <2>2. CASE OpenFails
    BY <1>1, <2>1, <2>2 DEF OpenFails, ConnectorTypes
  <2>3. CASE \E lasted \in BOOLEAN : ReadFails(lasted)
    BY <1>1, <2>1, <2>3 DEF ReadFails, ConnectorTypes
  <2>4. CASE Start \/ ConnectBegins \/ OpenSucceeds \/ Install \/ ReadEnds \/ BackoffEnds
    BY <1>1, <2>4, DocAssumption
       DEF Start, ConnectBegins, OpenSucceeds, Install, ReadEnds, BackoffEnds, ConnectorTypes,
           SessionTypes
  <2>5. CASE UNCHANGED connector
    BY <1>1, <2>5 DEF ConnectorTypes, connector
  <2>6. QED  BY <2>2, <2>3, <2>4, <2>5, Touched DEF Connector
<1>6. WriterTypes'
  <2>1. CASE Install
    BY <1>1, <2>1 DEF Install, WriterTypes
  <2>2. ASSUME NEW w \in Conns, Writer(w)  PROVE WriterTypes'
    <3>1. CASE WriterTakes(w)
      <4>1. queue[wq[w]] \in Seq(Packets) /\ queue[wq[w]] # <<>>
        BY <1>1, <3>1 DEF WriterTakes, DocInv, Writers, QueueTypes
      <4>2. Head(queue[wq[w]]) \in Packets
        BY <4>1, TailElems
      <4>3. QED  BY <1>1, <3>1, <4>2 DEF WriterTakes, WriterTypes
    <3>2. CASE WriterCaptures(w) \/ WriterLoops(w) \/ WriterPicks(w) \/ WriteSucceeds(w)
               \/ WriteFails(w)
      BY <1>1, <3>2 DEF WriterCaptures, WriterLoops, WriterPicks, WriteSucceeds, WriteFails,
                        WriterTypes, SessionTypes
    <3>3. QED  BY <2>2, <3>1, <3>2 DEF Writer
  <2>3. CASE UNCHANGED writer
    BY <1>1, <2>3 DEF WriterTypes, writer
  <2>4. QED  BY <2>1, <2>2, <2>3, Touched
<1>7. SendTypes'
  <2>1. CASE SendEnqueues
    <3>1. sent \in Packets
      BY <1>1, <2>1, DocAssumption DEF SendEnqueues, DocInv, Ordered, Packets, SendTypes
    <3>2. QED  BY <1>1, <2>1, <3>1 DEF SendEnqueues, SendTypes
  <2>2. CASE SendChecks \/ SendReadsSession
    BY <1>1, <2>2, DocAssumption DEF SendChecks, SendReadsSession, SendTypes, SessionTypes
  <2>3. CASE UNCHANGED sending
    BY <1>1, <2>3 DEF SendTypes, sending
  <2>4. QED  BY <2>1, <2>2, <2>3, Touched DEF Sender
<1>8. WriteTypes'
  BY <1>1, Touched DEF WriteTypes, WriterTypes, output, WriteSucceeds
<1>9. QED
  <2>1. TypeOK' <=> (FlagTypes /\ SessionTypes /\ QueueTypes /\ ConnectorTypes /\ WriterTypes
                     /\ SendTypes /\ WriteTypes)'
    BY DEF TypeOK, FlagTypes, SessionTypes, QueueTypes, ConnectorTypes, WriterTypes, SendTypes,
           WriteTypes
  <2>2. QED  BY <1>2, <1>3, <1>4, <1>5, <1>6, <1>7, <1>8, <2>1

-------------------------------------------------------------------------------
(* Each part of the invariant is kept by every step. *)

LEMMA StopOnceNext == DocInv /\ [Next]_vars => (Untouched /\ StopOnce)'
<1> SUFFICES ASSUME DocInv, [Next]_vars  PROVE (Untouched /\ StopOnce)'
  OBVIOUS
<1>1. Untouched /\ StopOnce /\ FlagTypes
  BY TypeParts DEF DocInv
<1>2. CASE Start \/ StopFlags \/ StopSession
  BY <1>1, <1>2 DEF Start, StopFlags, StopSession, Untouched, StopOnce, FlagTypes, flags,
     connector, writer
<1>3. CASE UNCHANGED <<running, stpc>>
  <2>1. CASE ~running /\ stpc = "idle"
    <3>1. cpc = "off" /\ ~connected /\ session = None /\ \A w \in Conns : wpc[w] = "off"
      BY <1>1, <2>1 DEF Untouched
    <3>2. ~Connector /\ ~Install /\ \A lasted \in BOOLEAN : ~ReadFails(lasted)
      BY <3>1 DEF Connector, ConnectBegins, OpenFails, OpenSucceeds, ReadFails, ReadEnds,
                  BackoffEnds, Install
    <3>3. \A w \in Conns : ~Writer(w)
      BY <3>1 DEF Writer, WriterCaptures, WriterLoops, WriterTakes, WriterPicks, WriteSucceeds,
         WriteFails
    <3>4. ~Start /\ ~StopFlags /\ ~StopSession
      BY <1>3, <2>1 DEF Start, StopFlags, StopSession
    <3>5. ~connected'
      BY <3>1, <3>2, <3>4, Touched DEF KeepAlive
    <3>6. UNCHANGED <<cpc, session, wpc>>
      BY <3>2, <3>3, <3>4, Touched DEF connector, writer
    <3>7. QED  BY <1>1, <1>3, <3>1, <3>5, <3>6 DEF Untouched, StopOnce
  <2>2. CASE ~(~running /\ stpc = "idle")
    BY <1>1, <1>3, <2>2 DEF Untouched, StopOnce
  <2>3. QED  BY <2>1, <2>2
<1>4. QED  BY <1>2, <1>3, Touched

LEMMA ConnectingNext == DocInv /\ [Next]_vars => Connecting'
<1> SUFFICES ASSUME DocInv, [Next]_vars  PROVE Connecting'
  OBVIOUS
<1>1. FlagTypes /\ SessionTypes /\ ConnectorTypes /\ WriterTypes
  BY TypeParts DEF DocInv
<1>2. Connecting
  BY DEF DocInv
<1>3. PICK n \in 0..MaxConns :
        /\ Opened(n) /\ session <= n
        /\ cpc = "install" => cur = n
        /\ cpc = "install" => session < n
        /\ \A c \in Conns : (c > n \/ (c = n /\ cpc = "install")) => wpc[c] = "off"
        /\ session = None => n = 0 \/ (n = 1 /\ cpc = "install") \/ stpc = "done"
        /\ cpc = "open" /\ existing = None => n = 0 \/ stpc = "done"
  BY <1>2 DEF Connecting
<1>4. n \in Nat /\ session \in Nat /\ Conns \subseteq Nat
  BY <1>1, DocAssumption DEF Conns, SessionTypes, None
<1>5. CASE Start
  <2>1. cpc = "off"
    BY <1>5 DEF Start, DocInv, Untouched
  <2>2. QED  BY <1>2, <1>3, <1>5, <2>1 DEF Start, Connecting, Opened, writer
<1>6. CASE StopFlags \/ UNCHANGED <<conn, session, queueOf, connector, wpc, stpc>>
  <2>1. /\ UNCHANGED <<conn, session, queueOf, cpc, existing, cur, wpc>>
        /\ stpc = "done" => stpc' = "done"
    BY <1>6 DEF StopFlags, connector, writer, DocInv, StopOnce
  <2>2. QED  BY <1>2, <1>3, <2>1 DEF Connecting, Opened
<1>7. CASE StopSession
  <2>1. \A c \in Conns : conn'[c] # "none" <=> c <= n
    <3>1. session \in Conns => session <= n
      BY <1>3
    <3>2. QED  BY <1>1, <1>3, <1>7, <3>1 DEF StopSession, CloseConn, Opened, SessionTypes
  <2>2. QED  BY <1>2, <1>3, <1>4, <1>7, <2>1 DEF StopSession, Connecting, Opened, connector,
                writer, None
<1>8. CASE \E c \in Conns : Break(c)
  <2>1. \A c \in Conns : conn'[c] # "none" <=> c <= n
    BY <1>1, <1>3, <1>8 DEF Break, Opened, SessionTypes
  <2>2. QED  BY <1>2, <1>3, <1>8, <2>1 DEF Break, Connecting, Opened, connector, writer
<1>9. CASE ConnectBegins
  <2>1. cpc = "begin" /\ cpc' = "open" /\ existing' = session
        /\ UNCHANGED <<conn, session, queueOf, cur, wpc, stpc>>
    BY <1>9 DEF ConnectBegins, writer
  <2>2. session # None => queueOf[session] = First
    BY <2>1 DEF DocInv, Queues
  <2>3. QED  BY <1>2, <1>3, <2>1, <2>2 DEF Connecting, Opened
<1>10. CASE OpenFails
  <2>1. cpc = "open" /\ cpc' \in {"off", "backoff"} /\ UNCHANGED <<conn, session, queueOf, wpc, stpc>>
    BY <1>10 DEF OpenFails, ScheduleReconnect, writer
  <2>2. QED  BY <1>2, <1>3, <2>1 DEF Connecting, Opened
<1>11. CASE OpenSucceeds
  <2>1. NextConn = n + 1
    BY <1>3, NextConnIs DEF DocInv
  <2>2. /\ cpc = "open" /\ cpc' = "install" /\ cur' = n + 1 /\ n + 1 \in Conns
        /\ conn' = [conn EXCEPT ![n + 1] = "open"]
        /\ UNCHANGED <<existing, session, queueOf, wpc, stpc>>
    BY <1>11, <2>1 DEF OpenSucceeds, writer
  <2>3. \A c \in Conns : conn'[c] # "none" <=> c <= n + 1
    BY <1>1, <1>3, <1>4, <2>2 DEF Opened, SessionTypes
  <2>4. n + 1 \in 0..MaxConns
    BY <1>4, <2>2 DEF Conns
  <2>5. \A c \in Conns : (c > n + 1 \/ c = n + 1) => wpc[c] = "off"
    BY <1>3, <1>4
  <2>6. session = None => n = 0 \/ stpc = "done"
    BY <1>3, <2>2
  <2>7. session <= n + 1 /\ session < n + 1
    BY <1>3, <1>4
  <2>8. existing = None => n + 1 = First \/ stpc = "done"
    BY <1>3, <1>4, <2>2 DEF First
  <2>9. existing # None => queueOf[existing] = First
    BY <1>2, <2>2 DEF Connecting
  <2>10. \E m \in 0..MaxConns :
          /\ Opened(m)' /\ session' <= m
          /\ cpc' = "install" => cur' = m
          /\ cpc' = "install" => session' < m
          /\ \A c \in Conns : (c > m \/ (c = m /\ cpc' = "install")) => wpc'[c] = "off"
          /\ session' = None => m = 0 \/ (m = 1 /\ cpc' = "install") \/ stpc' = "done"
          /\ cpc' = "open" /\ existing' = None => m = 0 \/ stpc' = "done"
    <3> WITNESS n + 1 \in 0..MaxConns
    <3>1. QED  BY <1>4, <2>2, <2>3, <2>5, <2>6, <2>7 DEF Opened
  <2>11. QED  BY <2>2, <2>8, <2>9, <2>10 DEF Connecting
<1>12. CASE Install
  <2>1. /\ cpc = "install" /\ cpc' = "read" /\ session' = cur /\ cur = n /\ cur \in Conns
        /\ UNCHANGED <<conn, existing, cur, stpc>>
        /\ \A c \in Conns : c # cur => wpc'[c] = wpc[c]
    BY <1>1, <1>2, <1>3, <1>12 DEF Install, Connecting, WriterTypes
  <2>2. n > 0
    BY <1>4, <2>1 DEF Conns
  <2>3. \A c \in Conns : c > n => wpc'[c] = "off"
    BY <1>3, <1>4, <2>1
  <2>4. QED  BY <1>3, <1>4, <2>1, <2>2, <2>3 DEF Connecting, Opened, None
<1>13. CASE \E lasted \in BOOLEAN : ReadFails(lasted)
  <2>1. cpc = "read" /\ cpc' \in {"off", "backoff"} /\ UNCHANGED <<session, queueOf, wpc, stpc>>
        /\ conn[cur] # "none" /\ CloseConn(cur)
    BY <1>13 DEF ReadFails, ScheduleReconnect, writer
  <2>2. \A c \in Conns : conn'[c] # "none" <=> c <= n
    BY <1>1, <1>2, <1>3, <2>1 DEF CloseConn, Opened, SessionTypes, Connecting
  <2>3. QED  BY <1>2, <1>3, <2>1, <2>2 DEF Connecting, Opened
<1>14. CASE ReadEnds \/ BackoffEnds
  <2>1. cpc \in {"read", "backoff"} /\ cpc' \in {"off", "begin"} /\ UNCHANGED <<conn, session, queueOf, wpc, stpc>>
    BY <1>14 DEF ReadEnds, BackoffEnds, writer
  <2>2. QED  BY <1>2, <1>3, <2>1 DEF Connecting, Opened
<1>15. ASSUME NEW w \in Conns, Writer(w)  PROVE Connecting'
  <2>1. /\ UNCHANGED <<conn, session, queueOf, connector, stpc>>
        /\ wpc[w] # "off" /\ \A c \in Conns : c # w => wpc'[c] = wpc[c]
    BY <1>1, <1>15 DEF Writer, WriterCaptures, WriterLoops, WriterTakes, WriterPicks, WriteSucceeds,
                       WriteFails, WriterTypes
  <2>2. QED  BY <1>2, <1>3, <2>1 DEF Connecting, Opened, connector
<1>16. QED
  BY <1>5, <1>6, <1>7, <1>8, <1>9, <1>10, <1>11, <1>12, <1>13, <1>14, <1>15, Touched
     DEF Connector, writer

LEMMA QueuesNext == DocInv /\ [Next]_vars => Queues'
<1> SUFFICES ASSUME DocInv, [Next]_vars  PROVE Queues'
  OBVIOUS
<1>1. /\ FlagTypes /\ SessionTypes /\ ConnectorTypes /\ QueueTypes /\ SendTypes
      /\ Queues /\ StopOnce
  BY TypeParts DEF DocInv
<1>2. CASE StopSession
  <2>1. session # None => queueOf[session] = First
    BY <1>2 DEF StopSession, DocInv, Queues
  <2>2. QED  BY <1>1, <1>2, <2>1 DEF StopSession, Queues, connector, sending
<1>3. CASE Install
  <2>1. /\ cpc = "install" /\ cpc' = "read" /\ session' = cur /\ cur \in Conns
        /\ queueOf'[cur] = QueueFor(existing)
        /\ UNCHANGED <<queue, spc, sq, stpc>>
    BY <1>1, <1>3 DEF Install, sending, DocInv, Connecting, SessionTypes
  <2>2. session # None => queueOf[session] = First
    BY <1>1, <2>1 DEF Queues
  <2>3. QueueFor(existing) \in Conns /\ (QueueFor(existing) # First => stpc = "done")
    <3>1. CASE existing = None
      BY <2>1, <3>1 DEF QueueFor, DocInv, Connecting
    <3>2. CASE existing # None
      <4>1. First \in Conns
        BY <2>1, DocAssumption DEF Conns, First
      <4>2. QED  BY <2>1, <3>2, <4>1 DEF QueueFor, DocInv, Connecting
    <3>3. QED  BY <3>1, <3>2
  <2>4. QED  BY <1>1, <2>1, <2>2, <2>3 DEF Queues, None, Conns
<1>4. CASE SendEnqueues
  <2>1. spc = "enqueue" /\ spc' = "idle" /\ sq \in Conns
        /\ UNCHANGED <<session, queueOf, stpc, cpc>>
        /\ \A q \in Conns : q # sq => queue'[q] = queue[q]
    BY <1>1, <1>4 DEF SendEnqueues, connector, Queues, QueueTypes
  <2>2. QED  BY <1>1, <2>1 DEF Queues
<1>5. CASE SendReadsSession
  BY <1>1, <1>5 DEF SendReadsSession, Queues, connector
<1>6. CASE SendChecks
  BY <1>1, <1>6 DEF SendChecks, Queues, connector
<1>7. ASSUME NEW w \in Conns, WriterTakes(w)  PROVE Queues'
  <2>1. \A q \in Conns : q # First => queue'[q] = queue[q]
    BY <1>1, <1>7 DEF WriterTakes, DocInv, Writers, QueueTypes
  <2>2. QED  BY <1>1, <1>7, <2>1 DEF WriterTakes, Queues, connector, sending
<1>8. CASE UNCHANGED <<session, queueOf, queue, sending>>
  <2>1. stpc = "done" => stpc' = "done"
    BY <1>1, Touched DEF Start, StopFlags, StopSession, StopOnce
  <2>2. cpc \in {"read", "off"} => cpc' \in {"read", "off"} \/ stpc # "done"
    <3>1. CASE UNCHANGED connector
      BY <3>1 DEF connector
    <3>2. CASE Start
      BY <3>2 DEF Start
    <3>3. CASE Connector
      <4>1. stpc = "done" => ~running
        BY <1>1 DEF StopOnce
      <4>2. QED
        BY <3>3, <4>1 DEF Connector, ConnectBegins, OpenFails, OpenSucceeds, Install, ReadFails,
           ReadEnds,
                          BackoffEnds, ScheduleReconnect
    <3>4. QED  BY <3>1, <3>2, <3>3, Touched
  <2>3. QED  BY <1>1, <1>8, <2>1, <2>2 DEF Queues, sending
<1>9. QED  BY <1>2, <1>3, <1>4, <1>5, <1>6, <1>7, <1>8, Touched DEF Sender

LEMMA ServingNext == DocInv /\ [Next]_vars => Serving'
<1> SUFFICES ASSUME DocInv, [Next]_vars  PROVE Serving'
  OBVIOUS
<1>1. FlagTypes /\ SessionTypes /\ ConnectorTypes /\ Serving /\ StopOnce /\ Untouched
  BY TypeParts DEF DocInv
<1>2. CASE Start
  <2>1. cpc = "off" /\ ~connected /\ UNCHANGED <<connected, conn, cur, session, stpc>> /\ cpc' = "begin"
    BY <1>1, <1>2 DEF Start, Untouched
  <2>2. QED  BY <1>1, <2>1 DEF Serving
<1>3. CASE StopFlags \/ StopSession
  BY <1>1, <1>3 DEF StopFlags, StopSession, Serving, StopOnce, flags
<1>4. CASE OpenSucceeds
  <2>1. PICK n \in 0..MaxConns : Opened(n)
    BY DEF DocInv, Connecting
  <2>2. NextConn = n + 1
    BY <2>1, NextConnIs DEF DocInv
  <2>3. /\ cpc = "open" /\ cpc' = "install" /\ cur' = n + 1 /\ n + 1 \in Conns
        /\ conn' = [conn EXCEPT ![n + 1] = "open"]
        /\ UNCHANGED <<running, connected, stpc, session>>
    BY <1>4, <2>2 DEF OpenSucceeds, flags
  <2>4. QED  BY <1>1, <2>3 DEF Serving, SessionTypes
<1>5. CASE Install
  BY <1>1, <1>5 DEF Install, Serving, DocInv, Connecting, Conns, None
<1>6. CASE \E lasted \in BOOLEAN : ReadFails(lasted)
  <2>1. /\ cpc = "read" /\ ~connected' /\ CloseConn(cur) /\ UNCHANGED <<cur, stpc>>
        /\ cpc' \in {"off", "backoff"}
    BY <1>6 DEF ReadFails, ScheduleReconnect
  <2>2. QED  BY <1>1, <2>1 DEF Serving, CloseConn, SessionTypes
<1>7. CASE ConnectBegins \/ OpenFails \/ BackoffEnds
  <2>1. /\ cpc \notin {"install", "read"} /\ cpc' \notin {"install", "read"}
        /\ UNCHANGED <<flags, conn, stpc>>
    BY <1>7 DEF ConnectBegins, OpenFails, BackoffEnds, ScheduleReconnect
  <2>2. QED  BY <1>1, <2>1 DEF Serving, flags
<1>8. CASE ReadEnds
  BY <1>1, <1>8 DEF ReadEnds, Serving, Untouched, flags
<1>9. CASE \E c \in Conns : Break(c)
  BY <1>1, <1>9 DEF Break, Serving, SessionTypes, flags, connector
<1>10. CASE \E ok \in BOOLEAN : KeepAlive(ok)
  <2>1. connected' => connected
    BY <1>1, <1>10 DEF KeepAlive, FlagTypes
  <2>2. QED  BY <1>1, <1>10, <2>1 DEF KeepAlive, Serving, connector
<1>11. CASE UNCHANGED <<running, connected, stpc, session, conn, connector>>
  BY <1>1, <1>11 DEF Serving, connector
<1>12. QED
  BY <1>2, <1>3, <1>4, <1>5, <1>6, <1>7, <1>8, <1>9, <1>10, <1>11, Touched DEF Connector

LEMMA WritersNext == DocInv /\ [Next]_vars => Writers'
<1> SUFFICES ASSUME DocInv, [Next]_vars  PROVE Writers'
  OBVIOUS
<1>1. FlagTypes /\ SessionTypes /\ WriterTypes /\ WriteTypes /\ QueueTypes /\ Writers /\ StopOnce
  BY TypeParts DEF DocInv
<1>2. stpc # "idle" => stpc' # "idle"
  BY Touched DEF Start, StopFlags, StopSession
<1>3. CASE Install
  <2>1. cur \in Conns /\ wpc[cur] = "off" /\ (existing = None => cur = First \/ stpc = "done")
    BY <1>3 DEF Install, DocInv, Connecting
  <2>2. late > 0 => cur # First
    BY <1>1, <2>1 DEF Writers
  <2>3. QED  BY <1>1, <1>3, <2>1, <2>2 DEF Install, Writers, WriterTypes, output, StartsWriter
<1>4. ASSUME NEW w \in Conns, WriterCaptures(w)  PROVE Writers'
  <2>1. running /\ session # None => w = First /\ queueOf[session] = First
    BY <1>1, <1>4 DEF WriterCaptures, StopOnce, Writers, DocInv, Queues
  <2>2. late > 0 => w # First
    BY <1>1, <1>4 DEF WriterCaptures, Writers
  <2>3. QED  BY <1>1, <1>4, <2>1, <2>2 DEF WriterCaptures, Writers, WriterTypes, output
<1>5. ASSUME NEW w \in Conns, WriterLoops(w)  PROVE Writers'
  <2>1. late > 0 => ~running
    BY <1>1 DEF Writers, StopOnce
  <2>2. QED  BY <1>1, <1>5, <2>1 DEF WriterLoops, Writers, WriterTypes, output
<1>6. ASSUME NEW w \in Conns, WriterTakes(w)  PROVE Writers'
  <2>1. queue[wq[w]] \in Seq(Packets) /\ queue[wq[w]] # <<>>
    BY <1>1, <1>6 DEF WriterTakes, Writers, QueueTypes
  <2>2. Head(queue[wq[w]]) \in Packets /\ Head(queue[wq[w]]) # None
    <3>1. Head(queue[wq[w]]) \in Packets
      BY <2>1, TailElems
    <3>2. QED  BY <3>1 DEF Packets, None
  <2>3. late > 0 => w # First
    BY <1>1, <1>6 DEF WriterTakes, Writers
  <2>4. QED  BY <1>1, <1>6, <2>2, <2>3 DEF WriterTakes, Writers, WriterTypes, output
<1>7. ASSUME NEW w \in Conns, WriterPicks(w) \/ WriteFails(w)  PROVE Writers'
  BY <1>1, <1>7 DEF WriterPicks, WriteFails, Writers, WriterTypes, output
<1>8. ASSUME NEW w \in Conns, WriteSucceeds(w)  PROVE Writers'
  <2>1. w = First /\ wpc[w] = "write" /\ late = 0
    BY <1>1, <1>8 DEF WriteSucceeds, Writers, WriteTypes
  <2>2. ~running => stpc # "idle"
    BY <2>1 DEF DocInv, Untouched
  <2>3. QED  BY <1>1, <1>8, <2>1, <2>2 DEF WriteSucceeds, Writers, WriterTypes
<1>9. CASE UNCHANGED <<writer, output>>
  BY <1>1, <1>2, <1>9 DEF Writers, writer, output
<1>10. QED  BY <1>3, <1>4, <1>5, <1>6, <1>7, <1>8, <1>9, Touched DEF Writer

InQueue(p) == \E c \in Conns : p \in Elems(queue[c])
InHand(p) == p # None /\ \E w \in Conns : pending[w] = p
Kept == \A p : p \in accepted /\ p > written <=> InQueue(p) \/ InHand(p)

LEMMA HeldIs == (HeldUntilWritten <=> Kept) /\ (HeldUntilWritten' <=> Kept')
<1>1. ASSUME NEW p
      PROVE  p \in UNION {Elems(queue[c]) : c \in Conns} <=> InQueue(p)
  BY DEF InQueue
<1>2. ASSUME NEW p
      PROVE  p \in {pending[w] : w \in Conns} \ {None} <=> InHand(p)
  BY DEF InHand
<1>3. ASSUME NEW p
      PROVE  p \in UNION {Elems(queue'[c]) : c \in Conns} <=> InQueue(p)'
  BY DEF InQueue
<1>4. ASSUME NEW p
      PROVE  p \in {pending'[w] : w \in Conns} \ {None} <=> InHand(p)'
  BY DEF InHand
<1>5. ASSUME NEW p  PROVE p \in Held <=> InQueue(p) \/ InHand(p)
  <2>1. p \in Held <=> \/ p \in UNION {Elems(queue[c]) : c \in Conns}
                       \/ p \in {pending[w] : w \in Conns} \ {None}
    BY Zenon DEF Held
  <2>2. QED  BY <1>1, <1>2, <2>1
<1>6. ASSUME NEW p  PROVE p \in Held' <=> InQueue(p)' \/ InHand(p)'
  <2>1. p \in Held' <=> \/ p \in UNION {Elems(queue'[c]) : c \in Conns}
                        \/ p \in {pending'[w] : w \in Conns} \ {None}
    BY Zenon DEF Held, Elems
  <2>2. QED  BY <1>3, <1>4, <2>1
<1>7. HeldUntilWritten <=> Kept
  <2>1. HeldUntilWritten <=> \A p : p \in {q \in accepted : q > written} <=> p \in Held
    BY DEF HeldUntilWritten
  <2>2. QED  BY <1>5, <2>1 DEF Kept
<1>8. HeldUntilWritten' <=> Kept'
  <2>1. HeldUntilWritten' <=> \A p : p \in {q \in accepted' : q > written'} <=> p \in Held'
    BY DEF HeldUntilWritten
  <2>2. QED  BY <1>6, <2>1 DEF Kept
<1>9. QED  BY <1>7, <1>8

(* What is on the way are numbers of calls that have returned, above the   *)
(* number written last.                                                    *)
LEMMA OnTheWay ==
  ASSUME DocInv
  PROVE  /\ Kept /\ written \in Nat /\ sent \in Nat /\ accepted \subseteq Nat
         /\ \A q \in Conns : queue[q] \in Seq(Packets) /\ queue[q] \in Seq(Nat)
         /\ \A q \in Conns : \A p \in Elems(queue[q]) :
              p \in accepted /\ p \in Nat /\ written < p /\ p <= Returned
         /\ \A w \in Conns : pending[w] # None =>
              pending[w] \in accepted /\ pending[w] \in Nat /\ written < pending[w] /\ pending[w] <= Returned
         /\ written <= Returned
<1>1. QueueTypes /\ SendTypes /\ WriteTypes /\ Ordered
  BY TypeParts DEF DocInv
<1>2. Kept
  BY <1>1, HeldIs DEF Ordered
<1>3. written \in Nat /\ sent \in Nat /\ accepted \subseteq Nat
  BY <1>1, DocAssumption DEF SendTypes, WriteTypes, Packets, None
<1>4. \A q \in Conns : queue[q] \in Seq(Packets) /\ queue[q] \in Seq(Nat)
  <2>1. \A q \in Conns : queue[q] \in Seq(Packets)
    BY <1>1 DEF QueueTypes
  <2>2. Packets \subseteq Nat
    BY DEF Packets
  <2>3. \A q \in Conns : \A i \in 1..Len(queue[q]) : queue[q][i] \in Nat
    BY <2>1, <2>2, ElementOfSeq
  <2>4. QED  BY <2>1, <2>3, SeqMonotonic
<1>5. \A q \in Conns : \A p \in Elems(queue[q]) :
         p \in accepted /\ p \in Nat /\ written < p /\ p <= Returned
  BY <1>1, <1>2, <1>3 DEF Kept, InQueue, Ordered
<1>6. \A w \in Conns : pending[w] # None =>
         pending[w] \in accepted /\ pending[w] \in Nat /\ written < pending[w] /\ pending[w] <= Returned
  BY <1>1, <1>2, <1>3 DEF Kept, InHand, Ordered
<1>7. written <= Returned
  BY <1>1, <1>3 DEF Ordered, Returned, None
<1>8. QED  BY <1>2, <1>3, <1>4, <1>5, <1>6, <1>7

LEMMA EnqueuesOrdered ==
  ASSUME DocInv, SendEnqueues
  PROVE  Ordered'
<1>1. /\ QueueTypes /\ Ordered /\ Queues
  BY TypeParts DEF DocInv
<1>2. /\ spc = "enqueue" /\ spc' = "idle" /\ sent' = sent /\ written' = written /\ pending' = pending
      /\ sq \in Conns
  BY <1>1 DEF SendEnqueues, output, writer, Queues
<1>3. Returned = sent - 1 /\ Returned' = sent /\ sent \in Nat /\ sent > 0
  BY <1>1, <1>2, OnTheWay DEF Returned, Ordered
<1>4. CASE ~HasRoom(sq)
  <2>1. UNCHANGED <<queue, accepted>>
    BY <1>4 DEF SendEnqueues
  <2>2. Kept'
    BY <1>2, <2>1, OnTheWay DEF Kept, InQueue, InHand
  <2>3. \A p \in accepted : p <= sent
    BY <1>1, <1>3, OnTheWay DEF Ordered
  <2>4. QED  BY <1>1, <1>2, <1>3, <2>1, <2>2, <2>3, HeldIs DEF Ordered
<1>5. CASE HasRoom(sq)
  <2>1. accepted' = accepted \cup {sent} /\ queue' = [queue EXCEPT ![sq] = Append(queue[sq], sent)]
    BY <1>5 DEF SendEnqueues
  <2>2. /\ queue'[sq] = Append(queue[sq], sent) /\ \A q \in Conns : q # sq => queue'[q] = queue[q]
    BY <1>1, <1>2, <2>1 DEF QueueTypes
  <2>3. ASSUME NEW q \in Conns, NEW p \in Elems(queue[q])  PROVE p < sent
    <3>1. p \in Nat /\ p <= Returned
      BY OnTheWay
    <3>2. QED  BY <1>3, <3>1
  <2>4. queue[sq] \in Seq(Nat) /\ Increasing(queue[sq])
    BY <1>1, <1>2, OnTheWay DEF Ordered
  <2>5. Elems(queue'[sq]) = Elems(queue[sq]) \cup {sent}
    BY <1>3, <2>2, <2>4, AppendElems
  <2>6. Increasing(queue'[sq])
    BY <1>2, <1>3, <2>2, <2>3, <2>4, AppendIncreases
  <2>7. written < sent /\ \A w \in Conns : pending[w] # None => pending[w] < sent
    BY <1>3, OnTheWay
  <2>8. Kept'
    BY <1>2, <2>1, <2>2, <2>5, <2>7, OnTheWay DEF Kept, InQueue, InHand
  <2>9. \A q \in Conns : q # First =>
           \A p \in Elems(queue'[q]), o \in Elems(queue'[First]) : o < p
    <3>1. Elems(<<>>) = {}
      BY DEF Elems
    <3>2. CASE sq = First
      <4>1. \A q \in Conns : q # First => Elems(queue'[q]) = {}
        BY <1>1, <1>2, <2>2, <3>1, <3>2 DEF Queues
      <4>2. QED  BY <4>1
    <3>3. CASE sq # First
      <4>1. First \in Conns
        BY <1>2, DocAssumption DEF First, Conns
      <4>2. queue'[First] = queue[First]
        BY <2>2, <3>3, <4>1
      <4>3. QED
        <5> SUFFICES ASSUME NEW q \in Conns, q # First, NEW p \in Elems(queue'[q]),
                            NEW o \in Elems(queue[First])
                     PROVE  o < p
          BY <4>2
        <5>1. CASE p \in Elems(queue[q])
          BY <1>1, <5>1 DEF Ordered
        <5>2. CASE p = sent
          <6>1. o < sent
            BY <2>3, <4>1
          <6>2. QED  BY <5>2, <6>1
        <5>3. QED  BY <2>2, <2>5, <5>1, <5>2
    <3>4. QED  BY <3>2, <3>3
  <2>10. \A p \in accepted' : p <= sent
    BY <1>1, <1>3, <2>1, OnTheWay DEF Ordered
  <2>11. \A q \in Conns : Increasing(queue'[q])
    BY <1>1, <2>2, <2>6 DEF Ordered
  <2>12. \A w \in Conns : pending[w] # None => \A q \in Conns : \A p \in Elems(queue'[q]) : pending[w] < p
    BY <1>1, <2>2, <2>5, <2>7 DEF Ordered
  <2>13. QED
    BY <1>1, <1>2, <1>3, <2>1, <2>8, <2>9, <2>10, <2>11, <2>12, HeldIs DEF Ordered
<1>6. QED  BY <1>4, <1>5

LEMMA TakesOrdered ==
  ASSUME DocInv, NEW w \in Conns, WriterTakes(w)
  PROVE  Ordered'
<1>1. QueueTypes /\ WriterTypes /\ Ordered /\ Writers
  BY TypeParts DEF DocInv
<1> DEFINE s == queue[First]
<1>2. /\ w = First /\ wq[w] = First /\ First \in Conns /\ s # <<>>
      /\ UNCHANGED <<accepted, spc, sent, written>>
      /\ \A v \in Conns : pending[v] = None
      /\ pending' = [pending EXCEPT ![First] = Head(s)] /\ queue' = [queue EXCEPT ![First] = Tail(s)]
  BY <1>1 DEF WriterTakes, Writers, sending, output
<1>3. s \in Seq(Nat) /\ s \in Seq(Packets) /\ Increasing(s)
  BY <1>1, <1>2, OnTheWay DEF Ordered
<1>4. /\ queue'[First] = Tail(s) /\ \A q \in Conns : q # First => queue'[q] = queue[q]
      /\ pending'[First] = Head(s) /\ \A v \in Conns : v # First => pending'[v] = None
  BY <1>1, <1>2 DEF QueueTypes, WriterTypes
<1>5. Head(s) \in Packets /\ Elems(s) = {Head(s)} \cup Elems(Tail(s))
  BY <1>2, <1>3, TailElems
<1>6. Increasing(Tail(s)) /\ \A x \in Elems(Tail(s)) : Head(s) < x
  BY <1>2, <1>3, TailIncreases
<1>7. Head(s) # None
  BY <1>5 DEF Packets, None
<1> HIDE DEF s
<1>8. \A p : InQueue(p) <=> p = Head(s) \/ InQueue(p)'
  BY <1>2, <1>4, <1>5 DEF InQueue, s
<1>9. \A p : ~InHand(p) /\ (InHand(p)' <=> p = Head(s))
  BY <1>2, <1>4, <1>7 DEF InHand
<1>10. Kept'
  BY <1>2, <1>8, <1>9, OnTheWay DEF Kept
<1>11. \A q \in Conns : Increasing(queue'[q])
  BY <1>1, <1>4, <1>6 DEF Ordered
<1>12. \A q \in Conns : q # First =>
          \A p \in Elems(queue'[q]), o \in Elems(queue'[First]) : o < p
  BY <1>1, <1>2, <1>4, <1>5 DEF Ordered, s
<1>13. \A q \in Conns : \A p \in Elems(queue'[q]) : Head(s) < p
  BY <1>1, <1>2, <1>4, <1>5, <1>6 DEF Ordered, s
<1>14. \A v \in Conns : pending'[v] # None => \A q \in Conns : \A p \in Elems(queue'[q]) : pending'[v] < p
  BY <1>4, <1>13
<1>15. Returned' = Returned
  BY <1>2 DEF Returned
<1>16. QED
  BY <1>1, <1>2, <1>10, <1>11, <1>12, <1>14, <1>15, HeldIs DEF Ordered

LEMMA WritesOrdered ==
  ASSUME DocInv, NEW w \in Conns, WriteSucceeds(w)
  PROVE  /\ Ordered'
         /\ written' \in (written + 1)..sent /\ count' = count + 1 /\ sent' = sent
<1>1. QueueTypes /\ WriterTypes /\ Ordered /\ Writers
  BY TypeParts DEF DocInv
<1> DEFINE p == pending[First]
<1>2. /\ w = First /\ First \in Conns /\ written' = p /\ p # None /\ count' = count + 1
      /\ UNCHANGED <<accepted, spc, sent, queue>>
      /\ \A v \in Conns : v # First => pending[v] = None
      /\ pending' = [pending EXCEPT ![First] = None]
  BY <1>1 DEF WriteSucceeds, Writers, sending
<1>3. p \in accepted /\ p \in Nat /\ written < p /\ p <= Returned /\ written \in Nat /\ sent \in Nat
  BY <1>2, OnTheWay
<1>4. \A v \in Conns : pending'[v] = None
  BY <1>1, <1>2 DEF WriterTypes
<1>5. \A q \in Conns : \A e \in Elems(queue[q]) : p < e
  BY <1>1, <1>2 DEF Ordered
<1> HIDE DEF p
<1>6. \A e : InQueue(e) <=> InQueue(e)'
  BY <1>2 DEF InQueue
<1>7. \A e : (InHand(e) <=> e = p) /\ ~InHand(e)'
  BY <1>2, <1>4 DEF InHand, p
<1>8. Kept'
  <2>1. \A e \in accepted : e > p => e > written
    BY <1>3, OnTheWay
  <2>2. \A e : InQueue(e) => e > p /\ e # p
    BY <1>3, <1>5, OnTheWay DEF InQueue
  <2>3. ~(p > p)
    BY <1>3
  <2>4. QED  BY <1>2, <1>6, <1>7, <2>1, <2>2, <2>3, OnTheWay DEF Kept
<1>9. Returned' = Returned /\ Returned <= sent
  BY <1>2, <1>3 DEF Returned
<1>10. Ordered'
  BY <1>1, <1>2, <1>3, <1>4, <1>8, <1>9, HeldIs DEF Ordered
<1>11. p <= sent
  BY <1>3, <1>9 DEF Returned
<1>12. QED  BY <1>2, <1>3, <1>10, <1>11

LEMMA OrderedNext == DocInv /\ [Next]_vars => Ordered'
<1> SUFFICES ASSUME DocInv, [Next]_vars  PROVE Ordered'
  OBVIOUS
<1>1. WriterTypes /\ Ordered
  BY TypeParts DEF DocInv
<1>2. CASE SendChecks
  <2>1. /\ spc = "idle" /\ sent' = sent + 1 /\ spc' \in {"session", "idle"}
        /\ UNCHANGED <<accepted, written, queue, pending>>
    BY <1>2 DEF SendChecks, writer, output
  <2>2. Returned = sent /\ Returned' \in {sent, sent + 1} /\ sent \in Nat
    BY <2>1, OnTheWay DEF Returned
  <2>3. \A p \in accepted : p <= Returned'
    BY <1>1, <2>2, OnTheWay DEF Ordered
  <2>4. Kept'
    BY <2>1, OnTheWay DEF Kept, InQueue, InHand
  <2>5. QED  BY <1>1, <2>1, <2>2, <2>3, <2>4, HeldIs DEF Ordered
<1>3. CASE SendReadsSession
  <2>1. /\ spc = "session" /\ spc' \in {"enqueue", "idle"}
        /\ UNCHANGED <<accepted, sent, written, queue, pending>>
    BY <1>3 DEF SendReadsSession, writer, output
  <2>2. Returned = sent - 1 /\ Returned' \in {sent, sent - 1} /\ sent \in Nat
    BY <2>1, OnTheWay DEF Returned
  <2>3. \A p \in accepted : p <= Returned'
    BY <1>1, <2>2, OnTheWay DEF Ordered
  <2>4. Kept'
    BY <2>1, OnTheWay DEF Kept, InQueue, InHand
  <2>5. QED  BY <1>1, <2>1, <2>2, <2>3, <2>4, HeldIs DEF Ordered
<1>4. CASE UNCHANGED <<accepted, spc, sent, written, queue, pending>>
  <2>1. Kept' /\ Returned' = Returned
    BY <1>4, OnTheWay DEF Kept, InQueue, InHand, Returned
  <2>2. QED  BY <1>1, <1>4, <2>1, HeldIs DEF Ordered
<1>5. UNCHANGED <<accepted, spc, sent, written, queue, pending>>
      \/ Sender \/ (\E w \in Conns : WriterTakes(w)) \/ \E w \in Conns : WriteSucceeds(w)
  <2>1. CASE \E w \in Conns : WriterCaptures(w) \/ WriterLoops(w) \/ WriterPicks(w) \/ WriteFails(w)
    BY <2>1 DEF WriterCaptures, WriterLoops, WriterPicks, WriteFails, sending, output
  <2>2. CASE Install
    BY <2>2 DEF Install, sending, output
  <2>3. CASE UNCHANGED <<queue, writer, sending, output>>
    BY <2>3 DEF writer, sending, output
  <2>4. QED
    <3>1. UNCHANGED writer \/ Install \/ \E w \in Conns : Writer(w)
      BY Touched
    <3>2. UNCHANGED sending \/ Sender
      BY Touched
    <3>3. UNCHANGED queue \/ SendEnqueues \/ \E w \in Conns : WriterTakes(w)
      BY Touched
    <3>4. UNCHANGED output \/ \E w \in Conns : WriteSucceeds(w)
      BY Touched
    <3>5. QED  BY <2>1, <2>2, <2>3, <3>1, <3>2, <3>3, <3>4 DEF Writer, Sender
<1>6. QED  BY <1>2, <1>3, <1>4, <1>5, EnqueuesOrdered, TakesOrdered, WritesOrdered DEF Sender

-------------------------------------------------------------------------------
(* The document transport *)

LEMMA DocInvInit == Init => DocInv
<1> SUFFICES ASSUME Init  PROVE DocInv
  OBVIOUS
<1>1. TypeOK
  BY DocTypesInit
<1>2. Untouched /\ StopOnce /\ Queues /\ Serving /\ Writers
  BY DocAssumption DEF Init, Untouched, StopOnce, Queues, Serving, Writers, None
<1>3. Connecting
  <2>1. Opened(0)
    BY DocAssumption DEF Init, Opened, Conns
  <2>2. QED  BY <2>1, DocAssumption DEF Init, Connecting, None, Conns
<1>4. Ordered
  <2>1. \A c \in Conns : queue[c] = <<>> /\ pending[c] = None
    BY DEF Init
  <2>2. DOMAIN <<>> = {} /\ Elems(<<>>) = {}
    BY DEF Elems
  <2>3. Kept
    BY <2>1, <2>2 DEF Init, Kept, InQueue, InHand
  <2>4. QED  BY <2>1, <2>2, <2>3, HeldIs DEF Init, Ordered, Increasing
<1>5. QED  BY <1>1, <1>2, <1>3, <1>4 DEF DocInv

LEMMA DocInvNext == DocInv /\ [Next]_vars => DocInv'
BY DocTypesNext, StopOnceNext, ConnectingNext, QueuesNext, ServingNext, WritersNext, OrderedNext
   DEF DocInv

(* The inductive invariant of the document transport. *)
LEMMA DocInvariant == Spec => []DocInv
BY DocInvInit, DocInvNext, PTL DEF Spec

(* Every variable of the document transport keeps its type: the session,   *)
(* its queue and the writer name connections that exist (yandex.go:41-64). *)
THEOREM DocTypeOK == Spec => []TypeOK
BY DocInvariant, PTL DEF DocInv

(* A packet that Send accepted waits in a queue or in the writer's hand    *)
(* until it has been written, through every reconnect and Stop, for any    *)
(* number of packets and connections and any queue size (yandex.go:249-275,*)
(* mailru.go:309).                                                         *)
THEOREM PacketsAreHeld == Spec => []HeldUntilWritten
BY DocInvariant, PTL DEF DocInv, Ordered

(* While it runs, the transport holds at most one connection, however      *)
(* often it reconnects (yandex.go:215-225).                                *)
THEOREM OneConnectionAtATime == Spec => []OneConnection
<1>1. DocInv => OneConnection
  <2> SUFFICES ASSUME DocInv, running
               PROVE  Cardinality({c \in Conns : conn[c] \in {"open", "broken"}}) <= 1
    BY DEF OneConnection
  <2> DEFINE up == {c \in Conns : conn[c] \in {"open", "broken"}}
  <2>1. up \subseteq {cur}
    BY DEF DocInv, Serving, StopOnce
  <2>2. IsFiniteSet({cur}) /\ Cardinality({cur}) = 1
    BY FS_Singleton
  <2>3. Cardinality(up) <= Cardinality({cur})
    BY <2>1, <2>2, FS_Subset
  <2>4. QED  BY <2>2, <2>3
<1>2. QED  BY <1>1, DocInvariant, PTL

(* While connected is set, the read loop serves the session Send will use  *)
(* (yandex.go:192-195 and 218).                                            *)
THEOREM ConnectedMeansServed == Spec => []ConnectedIsServed
BY DocInvariant, PTL DEF DocInv, Serving, ConnectedIsServed

(* At most one packet is written after Stop (yandex.go:250).               *)
THEOREM OnePacketAfterStop == Spec => []OneLatePacket
BY DocInvariant, PTL DEF DocInv, Writers, OneLatePacket

(* Up to the socket the document transport implements the lossy FIFO:      *)
(* nothing is repeated or reordered by reconnects (yandex.go:99-119 and    *)
(* 233-276).                                                               *)
THEOREM SocketIsLossyFifo == Spec => FifoToSocket
<1>1. Init => Socket!Init
  BY DEF Init, Socket!Init, None
<1>2. DocInv /\ [Next]_vars => [Socket!Next]_Socket!vars
  <2> SUFFICES ASSUME DocInv, [Next]_vars
               PROVE  Socket!Next \/ UNCHANGED <<sent, written, count>>
    BY DEF Socket!vars
  <2>1. CASE SendChecks
    BY <2>1 DEF SendChecks, output, Socket!Next, Socket!Accept
  <2>2. CASE \E w \in Conns : WriteSucceeds(w)
    BY <2>2, WritesOrdered DEF Socket!Next, Socket!Deliver
  <2>3. CASE SendReadsSession \/ SendEnqueues
    BY <2>3 DEF SendReadsSession, SendEnqueues, output
  <2>4. CASE UNCHANGED <<sending, output>>
    BY <2>4 DEF sending, output
  <2>5. (UNCHANGED sending \/ Sender) /\ (UNCHANGED output \/ \E w \in Conns : WriteSucceeds(w))
    BY Touched
  <2>6. CASE Sender
    BY <2>1, <2>3, <2>6 DEF Sender
  <2>7. QED  BY <2>2, <2>4, <2>5, <2>6
<1>3. QED
  BY <1>1, <1>2, DocInvariant, PTL DEF Spec, FifoToSocket, Socket!Spec

(* The document transport of the process behaves as it does alone, whether *)
(* or not it is the one main.go picked: the theorems above hold of it.     *)
THEOREM DocumentIsOne == RawSpec => Spec
<1>1. ResolveTransport => Init
  BY DEF ResolveTransport
<1>2. [Step]_all => [Next]_vars
  BY DEF Step, all
<1>3. QED  BY <1>1, <1>2, PTL DEF RawSpec, Spec

-------------------------------------------------------------------------------
(* The room of cupsonline *)

(* The numbers in a sequence rise, from above lo up to hi at most.         *)
Rising(s, lo, hi) ==
  /\ \A i \in DOMAIN s : lo < s[i] /\ s[i] <= hi
  /\ \A i, j \in DOMAIN s : i < j => s[i] < s[j]

Before(s, t) == \A i \in DOMAIN s, j \in DOMAIN t : s[i] < t[j]

LoopState == [pc : {"select", "waiting", "sending", "done"}, batch : Seq(Nat),
              timer : BOOLEAN, exits : BOOLEAN]

RoomTypes ==
  /\ enqueued \in Nat /\ arrived \in 0..enqueued /\ arrivals \in 0..arrived
  /\ sendQueue \in Seq(Nat) /\ room \in Seq(Nat)
  /\ loop \in LoopState

(* Read from the peer back to the callers of Send, the numbers rise: the   *)
(* packet handed up last, the room, the batch, the queue.                  *)
RoomOrder ==
  /\ \A s \in {room, loop.batch, sendQueue} : Rising(s, arrived, enqueued)
  /\ Before(room, loop.batch) /\ Before(room, sendQueue) /\ Before(loop.batch, sendQueue)

RoomInv == RoomTypes /\ RoomOrder

-------------------------------------------------------------------------------
(* Sequences of numbers *)

LEMMA EmptyFacts == \A s, lo, hi : Rising(<<>>, lo, hi) /\ Before(<<>>, s) /\ Before(s, <<>>)
<1>1. DOMAIN <<>> = {}
  OBVIOUS
<1>2. QED  BY <1>1 DEF Rising, Before

(* What comes after the head lies above it.                                *)
LEMMA TailFacts ==
  ASSUME NEW s \in Seq(Nat), s # <<>>, NEW lo \in Nat, NEW hi \in Nat, Rising(s, lo, hi)
  PROVE  /\ Head(s) \in Nat /\ Tail(s) \in Seq(Nat)
         /\ lo < Head(s) /\ Head(s) <= hi
         /\ Rising(Tail(s), Head(s), hi) /\ Rising(Tail(s), lo, hi)
         /\ \E i \in DOMAIN s : Head(s) = s[i]
         /\ \A i \in DOMAIN Tail(s) : \E j \in DOMAIN s : Tail(s)[i] = s[j]
<1>1. /\ Head(s) \in Nat /\ Head(s) = s[1] /\ Tail(s) \in Seq(Nat)
      /\ Len(Tail(s)) = Len(s) - 1 /\ Len(s) \in Nat
      /\ \A i \in 1..Len(Tail(s)) : Tail(s)[i] = s[i + 1]
  BY HeadTailProperties
<1>2. DOMAIN s = 1..Len(s) /\ DOMAIN Tail(s) = 1..Len(Tail(s)) /\ 1 \in DOMAIN s
  BY <1>1
<1>3. \A i \in DOMAIN Tail(s) : i + 1 \in DOMAIN s /\ 1 < i + 1 /\ Tail(s)[i] = s[i + 1]
  BY <1>1, <1>2
<1>4. lo < Head(s) /\ Head(s) <= hi
  BY <1>1, <1>2 DEF Rising
<1>5. \A i \in DOMAIN Tail(s) : lo < Tail(s)[i] /\ Tail(s)[i] <= hi /\ Head(s) < Tail(s)[i]
  BY <1>1, <1>2, <1>3 DEF Rising
<1>6. \A i, j \in DOMAIN Tail(s) : i < j => Tail(s)[i] < Tail(s)[j]
  <2>1. \A i, j \in DOMAIN Tail(s) : i < j => i + 1 < j + 1
    BY <1>1, <1>2
  <2>2. QED  BY <1>3, <2>1 DEF Rising
<1>7. Rising(Tail(s), Head(s), hi) /\ Rising(Tail(s), lo, hi)
  BY <1>5, <1>6 DEF Rising
<1>8. QED  BY <1>1, <1>2, <1>3, <1>4, <1>7

(* Sequences one after the other, the first below the second.              *)
LEMMA ConcatFacts ==
  ASSUME NEW s \in Seq(Nat), NEW t \in Seq(Nat), NEW lo \in Nat, NEW hi \in Nat,
         Rising(s, lo, hi), Rising(t, lo, hi), Before(s, t)
  PROVE  /\ s \o t \in Seq(Nat) /\ Rising(s \o t, lo, hi)
         /\ \A u : Before(s, u) /\ Before(t, u) => Before(s \o t, u)
<1>1. /\ s \o t \in Seq(Nat) /\ Len(s \o t) = Len(s) + Len(t)
      /\ Len(s) \in Nat /\ Len(t) \in Nat
      /\ \A i \in 1..(Len(s) + Len(t)) : (s \o t)[i] = IF i <= Len(s) THEN s[i] ELSE t[i - Len(s)]
  BY ConcatProperties
<1>2. DOMAIN s = 1..Len(s) /\ DOMAIN t = 1..Len(t) /\ DOMAIN (s \o t) = 1..(Len(s) + Len(t))
  BY <1>1
<1>3. \A i \in DOMAIN (s \o t) :
        \/ i \in DOMAIN s /\ (s \o t)[i] = s[i]
        \/ i > Len(s) /\ i - Len(s) \in DOMAIN t /\ (s \o t)[i] = t[i - Len(s)]
  BY <1>1, <1>2
<1>4. \A i \in DOMAIN (s \o t) : lo < (s \o t)[i] /\ (s \o t)[i] <= hi
  BY <1>3 DEF Rising
<1>5. \A i, j \in DOMAIN (s \o t) : i < j => (s \o t)[i] < (s \o t)[j]
  <2> SUFFICES ASSUME NEW i \in DOMAIN (s \o t), NEW j \in DOMAIN (s \o t), i < j
               PROVE  (s \o t)[i] < (s \o t)[j]
    OBVIOUS
  <2>1. CASE i \in DOMAIN s /\ j \in DOMAIN s
    BY <1>1, <1>2, <2>1 DEF Rising
  <2>2. CASE i \in DOMAIN s /\ j > Len(s)
    BY <1>1, <1>2, <1>3, <2>2 DEF Before
  <2>3. CASE i > Len(s) /\ j > Len(s)
    <3>1. i - Len(s) \in DOMAIN t /\ j - Len(s) \in DOMAIN t /\ i - Len(s) < j - Len(s)
      BY <1>1, <1>2, <2>3
    <3>2. (s \o t)[i] = t[i - Len(s)] /\ (s \o t)[j] = t[j - Len(s)]
      BY <1>1, <1>2, <2>3
    <3>3. QED  BY <3>1, <3>2 DEF Rising
  <2>4. QED  BY <1>1, <1>2, <2>1, <2>2, <2>3
<1>6. \A u : Before(s, u) /\ Before(t, u) => Before(s \o t, u)
  BY <1>3 DEF Before
<1>7. QED  BY <1>1, <1>4, <1>5, <1>6 DEF Rising

(* A sequence of one packet.                                               *)
LEMMA SingleFacts ==
  ASSUME NEW p \in Nat
  PROVE  /\ <<p>> \in Seq(Nat)
         /\ \A lo, hi \in Nat : lo < p /\ p <= hi => Rising(<<p>>, lo, hi)
         /\ \A s \in Seq(Nat) : Append(s, p) = s \o <<p>>
<1>1. <<p>> \in Seq(Nat) /\ DOMAIN <<p>> = {1} /\ <<p>>[1] = p
  OBVIOUS
<1>2. \A s \in Seq(Nat) : Append(s, p) = s \o <<p>>
  BY AppendIsConcat
<1>3. QED  BY <1>1, <1>2 DEF Rising

(* What lies below two sequences lies below the two one after the other.   *)
LEMMA AppendedAbove ==
  ASSUME NEW s \in Seq(Nat), NEW t \in Seq(Nat), NEW r, Before(r, s), Before(r, t)
  PROVE  Before(r, s \o t)
<1>1. /\ Len(s \o t) = Len(s) + Len(t) /\ Len(s) \in Nat /\ Len(t) \in Nat
      /\ \A i \in 1..(Len(s) + Len(t)) : (s \o t)[i] = IF i <= Len(s) THEN s[i] ELSE t[i - Len(s)]
      /\ s \o t \in Seq(Nat)
  BY ConcatProperties
<1>2. DOMAIN s = 1..Len(s) /\ DOMAIN t = 1..Len(t) /\ DOMAIN (s \o t) = 1..(Len(s) + Len(t))
  BY <1>1
<1>3. \A i \in DOMAIN (s \o t) :
        \/ i \in DOMAIN s /\ (s \o t)[i] = s[i]
        \/ i - Len(s) \in DOMAIN t /\ (s \o t)[i] = t[i - Len(s)]
  BY <1>1, <1>2
<1>4. QED  BY <1>3 DEF Before

(* A higher bound for a sequence is still one.                             *)
LEMMA WeakerBounds ==
  ASSUME NEW s \in Seq(Nat), NEW lo \in Nat, NEW hi \in Nat, NEW top \in Nat,
         Rising(s, lo, hi), hi <= top
  PROVE  Rising(s, lo, top)
<1>1. \A i \in DOMAIN s : s[i] \in Nat
  BY ElementOfSeq
<1>2. QED  BY <1>1 DEF Rising

-------------------------------------------------------------------------------
(* The invariant holds at first and is kept by every step.                 *)

LEMMA RoomInitInv == Cups!Init => RoomInv
<1> SUFFICES ASSUME Cups!Init  PROVE RoomInv
  OBVIOUS
<1>1. RoomTypes
  BY DEF Cups!Init, RoomTypes, LoopState
<1>2. room = <<>> /\ sendQueue = <<>> /\ loop.batch = <<>>
  BY DEF Cups!Init
<1>3. RoomOrder
  BY <1>2, EmptyFacts DEF RoomOrder
<1>4. QED  BY <1>1, <1>3 DEF RoomInv

(* The connection, Stop, waiting callers and the timer move no packet.     *)
LEMMA IdleInv ==
  ASSUME RoomInv, UNCHANGED <<sendQueue, enqueued, loop.batch, Cups!room>>,
         loop' \in LoopState
  PROVE  RoomInv'
<1>1. RoomTypes'
  BY DEF RoomInv, RoomTypes, Cups!room
<1>2. RoomOrder'
  BY DEF RoomInv, RoomOrder, Rising, Before, Cups!room
<1>3. QED  BY <1>1, <1>2 DEF RoomInv

LEMMA EnqueuedInv ==
  ASSUME RoomInv, Cups!Enqueued
  PROVE  RoomInv'
<1> DEFINE p == enqueued + 1
<1>1. /\ enqueued' = p /\ sendQueue' = Append(sendQueue, p)
      /\ UNCHANGED <<loop, room, arrived, arrivals>>
  BY DEF Cups!Enqueued, Cups!room
<1>2. /\ enqueued \in Nat /\ p \in Nat /\ arrived \in 0..enqueued /\ arrived \in Nat
      /\ arrived < p /\ enqueued <= p
      /\ sendQueue \in Seq(Nat) /\ room \in Seq(Nat) /\ loop.batch \in Seq(Nat)
  BY DEF RoomInv, RoomTypes, LoopState
<1>3. \A s \in {room, loop.batch, sendQueue} : Rising(s, arrived, enqueued) /\ Rising(s, arrived, p)
  BY <1>2, WeakerBounds DEF RoomInv, RoomOrder
<1>4. \A s \in {room, loop.batch, sendQueue} : Before(s, <<p>>)
  <2>1. \A s \in {room, loop.batch, sendQueue} : \A i \in DOMAIN s : s[i] \in Nat
    BY <1>2, ElementOfSeq
  <2>2. \A s \in {room, loop.batch, sendQueue} : \A i \in DOMAIN s : s[i] < p
    BY <1>2, <1>3, <2>1 DEF Rising
  <2>3. DOMAIN <<p>> = {1} /\ <<p>>[1] = p
    OBVIOUS
  <2>4. QED  BY <2>2, <2>3 DEF Before
<1>5. /\ <<p>> \in Seq(Nat) /\ Rising(<<p>>, arrived, p) /\ sendQueue' = sendQueue \o <<p>>
  BY <1>1, <1>2, SingleFacts
<1>6. sendQueue' \in Seq(Nat) /\ Rising(sendQueue', arrived, p)
  BY <1>2, <1>3, <1>4, <1>5, ConcatFacts
<1>7. Before(room, sendQueue') /\ Before(loop.batch, sendQueue')
  BY <1>2, <1>3, <1>4, <1>5, AppendedAbove DEF RoomInv, RoomOrder
<1>8. RoomTypes'
  BY <1>1, <1>2, <1>6 DEF RoomInv, RoomTypes
<1>9. RoomOrder'
  BY <1>1, <1>3, <1>6, <1>7 DEF RoomInv, RoomOrder
<1>10. QED  BY <1>8, <1>9 DEF RoomInv

(* The head of the queue becomes the last packet of the batch.             *)
LEMMA TakeInv ==
  ASSUME RoomInv, Cups!Take
  PROVE  RoomInv'
<1> DEFINE p == Head(sendQueue)
<1>1. /\ enqueued \in Nat /\ arrived \in Nat /\ sendQueue # <<>>
      /\ sendQueue \in Seq(Nat) /\ room \in Seq(Nat) /\ loop.batch \in Seq(Nat)
      /\ Rising(sendQueue, arrived, enqueued) /\ Rising(loop.batch, arrived, enqueued)
  BY DEF RoomInv, RoomTypes, LoopState, RoomOrder, Cups!Take
<1>2. /\ sendQueue' = Tail(sendQueue) /\ UNCHANGED <<enqueued, room, arrived, arrivals>>
      /\ loop'.batch = Append(loop.batch, p)
      /\ loop' \in LoopState
  <2>1. p \in Nat /\ Append(loop.batch, p) \in Seq(Nat)
    <3>1. p \in Nat
      BY <1>1, TailFacts
    <3>2. QED  BY <1>1, <3>1, AppendProperties
  <2>2. Len(Append(loop.batch, p)) \in Nat
    BY <2>1
  <2>3. loop \in LoopState
    BY DEF RoomInv, RoomTypes, LoopState
  <2>4. QED
    BY <2>1, <2>2, <2>3 DEF Cups!Take, Cups!Becomes, Cups!Taken, Cups!Flush, Cups!Returns, LoopState
<1>3. /\ p \in Nat /\ Tail(sendQueue) \in Seq(Nat) /\ arrived < p /\ p <= enqueued
      /\ Rising(Tail(sendQueue), p, enqueued) /\ Rising(Tail(sendQueue), arrived, enqueued)
      /\ \E i \in DOMAIN sendQueue : p = sendQueue[i]
      /\ \A i \in DOMAIN Tail(sendQueue) : \E j \in DOMAIN sendQueue : Tail(sendQueue)[i] = sendQueue[j]
  BY <1>1, TailFacts
<1>4. /\ <<p>> \in Seq(Nat) /\ Rising(<<p>>, arrived, enqueued)
      /\ Append(loop.batch, p) = loop.batch \o <<p>>
      /\ DOMAIN <<p>> = {1} /\ <<p>>[1] = p
  BY <1>1, <1>3, SingleFacts
<1>5. Before(room, <<p>>) /\ Before(loop.batch, <<p>>) /\ Before(<<p>>, Tail(sendQueue))
  BY <1>3, <1>4 DEF RoomInv, RoomOrder, Before, Rising
<1>6. Before(room, Tail(sendQueue)) /\ Before(loop.batch, Tail(sendQueue))
  BY <1>3 DEF RoomInv, RoomOrder, Before
<1>7. /\ Append(loop.batch, p) \in Seq(Nat) /\ Rising(Append(loop.batch, p), arrived, enqueued)
      /\ Before(Append(loop.batch, p), Tail(sendQueue))
  <2>1. loop.batch \o <<p>> \in Seq(Nat) /\ Rising(loop.batch \o <<p>>, arrived, enqueued)
    BY <1>1, <1>4, <1>5, ConcatFacts
  <2>2. Before(loop.batch \o <<p>>, Tail(sendQueue))
    <3>1. \A u : Before(loop.batch, u) /\ Before(<<p>>, u) => Before(loop.batch \o <<p>>, u)
      BY <1>1, <1>4, <1>5, ConcatFacts
    <3>2. QED  BY <1>5, <1>6, <3>1
  <2>3. QED  BY <1>4, <2>1, <2>2
<1>8. Before(room, Append(loop.batch, p))
  BY <1>1, <1>4, <1>5, AppendedAbove DEF RoomInv, RoomOrder
<1>9. RoomTypes'
  BY <1>2, <1>3 DEF RoomInv, RoomTypes
<1>10. RoomOrder'
  BY <1>2, <1>3, <1>6, <1>7, <1>8 DEF RoomInv, RoomOrder
<1>11. QED  BY <1>9, <1>10 DEF RoomInv

(* A batch joins the end of the room, or is dropped.                       *)
LEMMA SendBatchInv ==
  ASSUME RoomInv, Cups!SendBatch
  PROVE  RoomInv'
<1>1. /\ enqueued \in Nat /\ arrived \in Nat
      /\ sendQueue \in Seq(Nat) /\ room \in Seq(Nat) /\ loop.batch \in Seq(Nat)
      /\ Rising(room, arrived, enqueued) /\ Rising(loop.batch, arrived, enqueued)
      /\ Before(room, loop.batch) /\ Before(room, sendQueue) /\ Before(loop.batch, sendQueue)
  BY DEF RoomInv, RoomTypes, LoopState, RoomOrder
<1>2. /\ UNCHANGED <<enqueued, sendQueue, arrived, arrivals>>
      /\ loop'.batch = <<>> /\ loop' \in LoopState
      /\ room' = room \/ room' = room \o loop.batch
  <2>1. <<>> \in Seq(Nat) /\ loop \in LoopState
    BY DEF RoomInv, RoomTypes
  <2>2. Cups!Sent(loop).batch = <<>> /\ Cups!Sent(loop) \in LoopState
    BY <2>1 DEF LoopState, Cups!Sent, Cups!Returns
  <2>3. QED  BY <2>2 DEF Cups!SendBatch, Cups!Becomes
<1>3. room' \in Seq(Nat) /\ Rising(room', arrived, enqueued) /\ Before(room', sendQueue)
  <2>1. CASE room' = room
    BY <1>1, <2>1
  <2>2. CASE room' = room \o loop.batch
    BY <1>1, <2>2, ConcatFacts
  <2>3. QED  BY <1>2, <2>1, <2>2
<1>4. RoomTypes'
  BY <1>2, <1>3 DEF RoomInv, RoomTypes
<1>5. RoomOrder'
  BY <1>2, <1>3, EmptyFacts DEF RoomInv, RoomOrder
<1>6. QED  BY <1>4, <1>5 DEF RoomInv

(* What arrives lies between what arrived before and all that follows.     *)
LEMMA ArrivalFacts ==
  ASSUME RoomInv, room # <<>>
  PROVE  /\ Head(room) \in (arrived + 1)..enqueued /\ Tail(room) \in Seq(Nat)
         /\ \A s \in {Tail(room), loop.batch, sendQueue} :
              Rising(s, arrived, enqueued) /\ Rising(s, Head(room), enqueued)
         /\ Before(Tail(room), loop.batch) /\ Before(Tail(room), sendQueue)
<1>1. /\ enqueued \in Nat /\ arrived \in Nat /\ room \in Seq(Nat)
      /\ \A s \in {room, loop.batch, sendQueue} : Rising(s, arrived, enqueued)
  BY DEF RoomInv, RoomTypes, RoomOrder
<1>2. /\ Head(room) \in Nat /\ arrived < Head(room) /\ Head(room) <= enqueued
      /\ Tail(room) \in Seq(Nat)
      /\ Rising(Tail(room), Head(room), enqueued) /\ Rising(Tail(room), arrived, enqueued)
      /\ \E i \in DOMAIN room : Head(room) = room[i]
      /\ \A i \in DOMAIN Tail(room) : \E j \in DOMAIN room : Tail(room)[i] = room[j]
  BY <1>1, TailFacts
<1>3. Before(Tail(room), loop.batch) /\ Before(Tail(room), sendQueue)
  BY <1>2 DEF RoomInv, RoomOrder, Before
<1>4. Rising(loop.batch, Head(room), enqueued) /\ Rising(sendQueue, Head(room), enqueued)
  BY <1>1, <1>2 DEF RoomInv, RoomOrder, Before, Rising
<1>5. QED  BY <1>1, <1>2, <1>3, <1>4

LEMMA HandleMessageInv ==
  ASSUME RoomInv, Cups!HandleMessage
  PROVE  RoomInv'
<1>1. /\ room # <<>> /\ room' = Tail(room) /\ UNCHANGED <<enqueued, sendQueue, loop>>
      /\ \/ arrived' = Head(room) /\ arrivals' = arrivals + 1
         \/ arrived' = arrived /\ arrivals' = arrivals
  BY DEF Cups!HandleMessage
<1>2. enqueued \in Nat /\ arrived \in 0..enqueued /\ arrivals \in 0..arrived
  BY DEF RoomInv, RoomTypes
<1>3. arrived' \in 0..enqueued /\ arrivals' \in 0..arrived'
  BY <1>1, <1>2, ArrivalFacts
<1>4. RoomTypes'
  BY <1>1, <1>3, ArrivalFacts DEF RoomInv, RoomTypes
<1>5. RoomOrder'
  BY <1>1, ArrivalFacts DEF RoomInv, RoomOrder
<1>6. QED  BY <1>4, <1>5 DEF RoomInv

(* A step that moves no packet; sendLoop may change its position.          *)
Idle ==
  \/ Cups!Run \/ Cups!Break \/ Cups!Call \/ Cups!Refused \/ Cups!Stop
  \/ Cups!ContextDone \/ Cups!TimerFires \/ Cups!SeesConnected \/ Cups!GivesUp
  \/ UNCHANGED Cups!vars

LEMMA NoPacketMoves ==
  ASSUME RoomInv, Idle
  PROVE  UNCHANGED <<sendQueue, enqueued, loop.batch, Cups!room>> /\ loop' \in LoopState
<1>1. loop \in LoopState
  BY DEF RoomInv, RoomTypes
<1>2. CASE Cups!Run
  BY <1>1, <1>2 DEF Cups!Run, Cups!DialFails, Cups!DialSucceeds, Cups!Handshake, Cups!Leaves,
     Cups!Left, Cups!BackoffEnds, Cups!Goes
<1>3. CASE Cups!Break \/ Cups!Call \/ Cups!Refused \/ Cups!Stop \/ UNCHANGED Cups!vars
  BY <1>1, <1>3 DEF Cups!Break, Cups!Call, Cups!Refused, Cups!Stop, Cups!vars, Cups!room
<1>4. CASE Cups!ContextDone \/ Cups!TimerFires \/ Cups!SeesConnected \/ Cups!GivesUp
  BY <1>1, <1>4 DEF Cups!ContextDone, Cups!TimerFires, Cups!SeesConnected, Cups!GivesUp,
     Cups!Becomes, Cups!Flush, Cups!Returns,
                    LoopState, Cups!room
<1>5. QED  BY <1>2, <1>3, <1>4 DEF Idle

LEMMA RoomNextInv == RoomInv /\ [Cups!Next]_(Cups!vars) => RoomInv'
<1> SUFFICES ASSUME RoomInv, [Cups!Next]_(Cups!vars)  PROVE RoomInv'
  OBVIOUS
<1>1. CASE Cups!Enqueued
  BY <1>1, EnqueuedInv
<1>2. CASE Cups!Take
  BY <1>2, TakeInv
<1>3. CASE Cups!SendBatch
  BY <1>3, SendBatchInv
<1>4. CASE Cups!HandleMessage
  BY <1>4, HandleMessageInv
<1>5. CASE Idle
  BY <1>5, NoPacketMoves, IdleInv
<1>6. QED  BY <1>1, <1>2, <1>3, <1>4, <1>5 DEF Idle, Cups!Next, Cups!SendLoop

-------------------------------------------------------------------------------
(* What is on the way through the room of the CUPS transport, from the     *)
(* peer back to the queue of Send, carries rising numbers above the number *)
(* handed up last: nothing in the queue, the batch or the room was         *)
(* overtaken or is there twice, through reconnects and Stop.               *)
THEOREM RoomOrdered == Cups!Spec => [](RoomTypes /\ RoomOrder)
<1>1. RoomInv => RoomTypes /\ RoomOrder
  BY DEF RoomInv
<1>2. QED  BY RoomInitInv, RoomNextInv, <1>1, PTL DEF Cups!Spec

(* sendLoop, which reuses its batch and outlives its connections, promises *)
(* the lossy FIFO to the layer above, for any queue and batch size.        *)
THEOREM RoomImplementsLossyFifo == Cups!Spec => Cups!OrderedRoom
<1>1. Cups!Init => Cups!Room!Init
  BY DEF Cups!Init, Cups!Room!Init
<1>2. RoomInv /\ [Cups!Next]_(Cups!vars) => [Cups!Room!Next]_(Cups!Room!vars)
  <2> SUFFICES ASSUME RoomInv, [Cups!Next]_(Cups!vars)  PROVE [Cups!Room!Next]_(Cups!Room!vars)
    OBVIOUS
  <2>1. CASE Cups!Enqueued
    BY <2>1 DEF Cups!Enqueued, Cups!room, Cups!Room!Next, Cups!Room!Accept
  <2>2. CASE Cups!HandleMessage
    <3>1. /\ UNCHANGED enqueued
          /\ \/ arrived' = Head(room) /\ arrivals' = arrivals + 1
             \/ UNCHANGED <<arrived, arrivals>>
      BY <2>2 DEF Cups!HandleMessage
    <3>2. Head(room) \in (arrived + 1)..enqueued
      BY <2>2, ArrivalFacts DEF Cups!HandleMessage
    <3>3. QED  BY <3>1, <3>2 DEF Cups!Room!Next, Cups!Room!Deliver, Cups!Room!vars
  <2>3. CASE Cups!Take \/ Cups!SendBatch
    BY <2>3 DEF Cups!Take, Cups!SendBatch, Cups!Becomes, Cups!Room!vars
  <2>4. CASE Idle
    BY <2>4, NoPacketMoves DEF Cups!room, Cups!Room!vars
  <2>5. QED  BY <2>1, <2>2, <2>3, <2>4 DEF Idle, Cups!Next, Cups!SendLoop
<1>3. QED  BY RoomInitInv, RoomNextInv, <1>1, <1>2, PTL DEF Cups!Spec, Cups!OrderedRoom,
              Cups!Room!Spec

(* When main.go picks this transport, its room keeps that promise.         *)
THEOREM RoomInOrder == RawSpec => OrderedRoom
<1>1. ResolveTransport => Cups!Init
  BY DEF ResolveTransport
<1>2. [Step]_all => [Cups!Next]_(Cups!vars)
  BY DEF Step, all, cups, Cups!vars
<1>3. QED
  BY <1>1, <1>2, RoomImplementsLossyFifo, PTL DEF RawSpec, OrderedRoom, Cups!Spec

-------------------------------------------------------------------------------
(* The pool of vyandex *)

(* No packet is twice in a sequence. *)
Distinct(s) == \A i, j \in DOMAIN s : i # j => s[i] # s[j]
Batch(w) == worker[w].batch

WorkerState == [pc : {"select", "posting", "done"}, batch : Seq(Nat), timer : BOOLEAN,
                exits : BOOLEAN, doomed : BOOLEAN]

VolgaTypes ==
  /\ taken \in Nat /\ batchQueue \in Seq(Nat) /\ handed \in Seq(Nat)
  /\ worker \in [Workers -> WorkerState] /\ wire \in SUBSET Seq(Nat)

(* All that is on the way was accepted; batches that are posted are not    *)
(* empty.                                                                  *)
AllAccepted ==
  /\ Elems(batchQueue) \subseteq 1..taken /\ Elems(handed) \subseteq 1..taken
  /\ \A w \in Workers : Elems(Batch(w)) \subseteq 1..taken
  /\ \A m \in wire : Elems(m) \subseteq 1..taken /\ m # <<>>
  /\ \A w \in Workers : worker[w].pc = "posting" => Batch(w) # <<>>

(* A packet is in one place only: the queue, the batch of one worker, one  *)
(* message, or the hands of the peer; and there once.                      *)
InOnePlace ==
  /\ Distinct(batchQueue)
  /\ \A w \in Workers : Distinct(Batch(w)) /\ Elems(Batch(w)) \cap Elems(batchQueue) = {}
  /\ \A m \in wire : Distinct(m) /\ Elems(m) \cap Elems(batchQueue) = {}
  /\ \A v, w \in Workers : v # w => Elems(Batch(v)) \cap Elems(Batch(w)) = {}
  /\ \A m, n \in wire : m # n => Elems(m) \cap Elems(n) = {}
  /\ \A m \in wire, w \in Workers : Elems(m) \cap Elems(Batch(w)) = {}
  /\ Elems(handed) \cap Elems(batchQueue) = {}
  /\ \A w \in Workers : Elems(handed) \cap Elems(Batch(w)) = {}
  /\ \A m \in wire : Elems(handed) \cap Elems(m) = {}

VolgaInv == VolgaTypes /\ AllAccepted /\ InOnePlace

LEMMA EmptyDistinct == Elems(<<>>) = {} /\ Distinct(<<>>) /\ \A S : <<>> \in Seq(S)
<1>1. DOMAIN <<>> = {}
  OBVIOUS
<1>2. \A S : <<>> \in Seq(S)
  OBVIOUS
<1>3. QED  BY <1>1, <1>2 DEF Elems, Distinct

LEMMA AppendDistinct ==
  ASSUME NEW s \in Seq(Nat), NEW e \in Nat, Distinct(s), e \notin Elems(s)
  PROVE  Distinct(Append(s, e)) /\ Append(s, e) # <<>>
<1>1. /\ Len(s) \in Nat /\ DOMAIN s = 1..Len(s) /\ DOMAIN Append(s, e) = 1..(Len(s) + 1)
      /\ \A i \in 1..Len(s) : Append(s, e)[i] = s[i]
      /\ Append(s, e)[Len(s) + 1] = e
  BY AppendProperties
<1>2. \A i \in DOMAIN Append(s, e) :
        \/ i \in DOMAIN s /\ Append(s, e)[i] = s[i] /\ s[i] # e
        \/ i = Len(s) + 1 /\ Append(s, e)[i] = e
  BY <1>1 DEF Elems
<1>3. Append(s, e) # <<>>
  BY <1>1
<1>4. QED  BY <1>2, <1>3 DEF Distinct

LEMMA TailDistinct ==
  ASSUME NEW s \in Seq(Nat), s # <<>>, Distinct(s)
  PROVE  Distinct(Tail(s)) /\ Head(s) \notin Elems(Tail(s))
<1>1. /\ Head(s) = s[1] /\ Len(Tail(s)) = Len(s) - 1 /\ Len(s) \in Nat /\ Len(s) > 0
      /\ \A i \in 1..Len(Tail(s)) : Tail(s)[i] = s[i + 1]
      /\ Tail(s) \in Seq(Nat)
  BY HeadTailProperties, EmptySeq
<1>2. DOMAIN s = 1..Len(s) /\ DOMAIN Tail(s) = 1..(Len(s) - 1)
  BY <1>1
<1>3. 1 \in DOMAIN s /\ \A i \in DOMAIN Tail(s) : i + 1 \in DOMAIN s /\ 1 # i + 1 /\ Tail(s)[i] = s[i + 1]
  BY <1>1, <1>2
<1>4. \A i, j \in DOMAIN Tail(s) : i # j => i + 1 # j + 1
  BY <1>2
<1>5. Head(s) \notin Elems(Tail(s))
  BY <1>1, <1>3 DEF Elems, Distinct
<1>6. QED  BY <1>3, <1>4, <1>5 DEF Distinct

LEMMA ConcatElems ==
  ASSUME NEW s \in Seq(Nat), NEW t \in Seq(Nat)
  PROVE  /\ s \o t \in Seq(Nat) /\ Len(s \o t) = Len(s) + Len(t)
         /\ Elems(s \o t) = Elems(s) \cup Elems(t)
<1>1. /\ s \o t \in Seq(Nat) /\ Len(s \o t) = Len(s) + Len(t) /\ Len(s) \in Nat /\ Len(t) \in Nat
      /\ \A i \in 1..(Len(s) + Len(t)) : (s \o t)[i] = IF i <= Len(s) THEN s[i] ELSE t[i - Len(s)]
  BY ConcatProperties
<1>2. DOMAIN s = 1..Len(s) /\ DOMAIN t = 1..Len(t) /\ DOMAIN (s \o t) = 1..(Len(s) + Len(t))
  BY <1>1
<1>3. \A i \in DOMAIN (s \o t) :
        \/ i \in DOMAIN s /\ (s \o t)[i] = s[i]
        \/ i - Len(s) \in DOMAIN t /\ (s \o t)[i] = t[i - Len(s)]
  BY <1>1, <1>2
<1>4. \A i \in DOMAIN s : i \in DOMAIN (s \o t) /\ (s \o t)[i] = s[i]
  BY <1>1, <1>2
<1>5. \A i \in DOMAIN t : i + Len(s) \in DOMAIN (s \o t) /\ (s \o t)[i + Len(s)] = t[i]
  <2>1. \A i \in 1..Len(t) : /\ i + Len(s) \in 1..(Len(s) + Len(t))
                             /\ ~(i + Len(s) <= Len(s)) /\ (i + Len(s)) - Len(s) = i
    BY <1>1
  <2>2. QED  BY <1>1, <1>2, <2>1
<1>6. Elems(s \o t) \subseteq Elems(s) \cup Elems(t)
  BY <1>3 DEF Elems
<1>7. Elems(s) \subseteq Elems(s \o t) /\ Elems(t) \subseteq Elems(s \o t)
  BY <1>4, <1>5 DEF Elems
<1>8. QED  BY <1>1, <1>6, <1>7

(* A message that repeats nothing holds as many packets as it is long.     *)
LEMMA DistinctCardinality ==
  ASSUME NEW s \in Seq(Nat), Distinct(s)
  PROVE  Cardinality(Elems(s)) = Len(s) /\ (s # <<>> => Elems(s) # {})
<1>1. Len(s) \in Nat /\ DOMAIN s = 1..Len(s) /\ s \in [1..Len(s) -> Elems(s)]
  <2>1. Len(s) \in Nat /\ DOMAIN s = 1..Len(s) /\ s = [i \in 1..Len(s) |-> s[i]]
    OBVIOUS
  <2>2. QED  BY <2>1 DEF Elems
<1>2. s \in Bijection(1..Len(s), Elems(s))
  BY <1>1 DEF Distinct, Elems, Bijection, Injection, Surjection, IsInjective
<1>3. ExistsBijection(1..Len(s), Elems(s))
  BY <1>2 DEF ExistsBijection
<1>4. Cardinality(Elems(s)) = Len(s)
  BY <1>1, <1>3, FS_CountingElements
<1>5. s # <<>> => 1 \in DOMAIN s
  BY <1>1, EmptySeq
<1>6. QED  BY <1>4, <1>5 DEF Elems

LEMMA VolgaInitInv == Volga!Init => VolgaInv
<1> SUFFICES ASSUME Volga!Init  PROVE VolgaInv
  OBVIOUS
<1>1. VolgaTypes
  BY EmptyDistinct DEF Volga!Init, VolgaTypes, WorkerState
<1>2. /\ batchQueue = <<>> /\ handed = <<>> /\ wire = {} /\ taken = 0
      /\ \A w \in Workers : Batch(w) = <<>> /\ worker[w].pc = "select"
  BY DEF Volga!Init, Batch
<1>3. AllAccepted /\ InOnePlace
  BY <1>2, EmptyDistinct DEF AllAccepted, InOnePlace
<1>4. QED  BY <1>1, <1>3 DEF VolgaInv

(* A step that moves no packet. *)
LEMMA VolgaIdle ==
  ASSUME VolgaInv, UNCHANGED <<batchQueue, taken, wire, handed>>,
         worker' \in [Workers -> WorkerState],
         \A w \in Workers : Batch(w)' = Batch(w),
         \A w \in Workers : worker'[w].pc = "posting" => Batch(w) # <<>>
  PROVE  VolgaInv'
<1>1. VolgaTypes'
  BY DEF VolgaInv, VolgaTypes
<1>2. AllAccepted'
  BY DEF VolgaInv, AllAccepted
<1>3. InOnePlace'
  BY DEF VolgaInv, InOnePlace
<1>4. QED  BY <1>1, <1>2, <1>3 DEF VolgaInv

(* A packet that is accepted gets a new number. *)
LEMMA OfferInv ==
  ASSUME VolgaInv, Volga!Offer
  PROVE  VolgaInv'
<1>1. UNCHANGED <<worker, wire, handed>>
  BY DEF Volga!Offer
<1>2. CASE UNCHANGED <<batchQueue, taken>>
  <2>1. /\ worker' \in [Workers -> WorkerState] /\ \A w \in Workers : Batch(w)' = Batch(w)
        /\ \A w \in Workers : worker'[w].pc = "posting" => Batch(w) # <<>>
    BY <1>1 DEF VolgaInv, VolgaTypes, AllAccepted, Batch
  <2>2. QED  BY <1>1, <1>2, <2>1, VolgaIdle
<1>3. CASE batchQueue' = Append(batchQueue, taken + 1) /\ taken' = taken + 1
  <2>1. taken \in Nat /\ taken + 1 \in Nat /\ batchQueue \in Seq(Nat)
    BY DEF VolgaInv, VolgaTypes
  <2>2. /\ 1..taken \subseteq 1..(taken + 1) /\ taken + 1 \in 1..(taken + 1)
        /\ taken + 1 \notin 1..taken
    BY <2>1
  <2>3. /\ batchQueue' \in Seq(Nat) /\ Elems(batchQueue)' = Elems(batchQueue) \cup {taken + 1}
        /\ Distinct(batchQueue)'
    <3>1. taken + 1 \notin Elems(batchQueue) /\ Distinct(batchQueue)
      BY <2>2 DEF VolgaInv, AllAccepted, InOnePlace
    <3>2. QED  BY <1>3, <2>1, <3>1, AppendElems, AppendDistinct
  <2>4. /\ \A w \in Workers : Batch(w)' = Batch(w) /\ worker'[w] = worker[w]
        /\ \A w \in Workers : taken + 1 \notin Elems(Batch(w))
        /\ \A m \in wire : taken + 1 \notin Elems(m)
        /\ taken + 1 \notin Elems(handed)
    BY <1>1, <2>2 DEF VolgaInv, AllAccepted, Batch
  <2>5. VolgaTypes'
    BY <1>1, <1>3, <2>1, <2>3 DEF VolgaInv, VolgaTypes
  <2>6. AllAccepted'
    BY <1>1, <1>3, <2>2, <2>3, <2>4 DEF VolgaInv, AllAccepted
  <2>7. InOnePlace'
    BY <1>1, <2>3, <2>4 DEF VolgaInv, InOnePlace
  <2>8. QED  BY <2>5, <2>6, <2>7 DEF VolgaInv
<1>4. QED  BY <1>2, <1>3 DEF Volga!Offer

(* A worker that changes what it does but not its batch.                   *)
LEMMA WorkerIdle ==
  ASSUME VolgaInv, NEW w \in Workers, NEW self, self \in WorkerState,
         self.batch = Batch(w), self.pc = "posting" => Batch(w) # <<>>,
         worker' = [worker EXCEPT ![w] = self],
         UNCHANGED <<batchQueue, taken, wire, handed>>
  PROVE  VolgaInv'
<1>1. worker \in [Workers -> WorkerState] /\ worker' \in [Workers -> WorkerState]
  BY DEF VolgaInv, VolgaTypes
<1>2. \A v \in Workers : worker'[v] = IF v = w THEN self ELSE worker[v]
  BY <1>1
<1>3. \A v \in Workers : Batch(v)' = Batch(v)
  BY <1>2 DEF Batch
<1>4. \A v \in Workers : worker'[v].pc = "posting" => Batch(v) # <<>>
  BY <1>2 DEF VolgaInv, AllAccepted
<1>5. QED  BY <1>1, <1>3, <1>4, VolgaIdle

(* flush leaves the batch as it is. *)
LEMMA FlushFacts ==
  ASSUME VolgaInv, NEW w \in Workers, NEW exits \in BOOLEAN
  PROVE  /\ Volga!Flushed(w, exits) \in WorkerState
         /\ Volga!Flushed(w, exits).batch = Batch(w)
         /\ Volga!Flushed(w, exits).pc = "posting" => Batch(w) # <<>>
         /\ [Volga!Flushed(w, exits) EXCEPT !.timer = FALSE] \in WorkerState
         /\ [Volga!Flushed(w, exits) EXCEPT !.timer = FALSE].batch = Batch(w)
         /\ [Volga!Flushed(w, exits) EXCEPT !.timer = FALSE].pc = Volga!Flushed(w, exits).pc
<1>1. worker[w] \in WorkerState
  BY DEF VolgaInv, VolgaTypes
<1>2. Volga!Cancelled \in BOOLEAN
  BY DEF Volga!Cancelled
<1>3. /\ Volga!Flushed(w, exits) \in WorkerState
      /\ Volga!Flushed(w, exits).batch = Batch(w)
      /\ Volga!Flushed(w, exits).pc = "posting" => Batch(w) # <<>>
  BY <1>1, <1>2 DEF Volga!Flushed, WorkerState, Batch
<1>4. QED  BY <1>3 DEF WorkerState

(* A packet goes from the head of the queue to the end of a batch. *)
LEMMA VolgaTakeInv ==
  ASSUME VolgaInv, NEW w \in Workers, Volga!Take(w)
  PROVE  VolgaInv'
<1> DEFINE p == Head(batchQueue)
<1>1. /\ batchQueue # <<>> /\ batchQueue' = Tail(batchQueue)
      /\ worker' = [worker EXCEPT ![w] = Volga!Taken(w, p)]
      /\ UNCHANGED <<taken, wire, handed>>
  BY DEF Volga!Take, Volga!Becomes
<1>2. /\ batchQueue \in Seq(Nat) /\ worker \in [Workers -> WorkerState] /\ Batch(w) \in Seq(Nat)
      /\ Distinct(batchQueue) /\ Distinct(Batch(w)) /\ worker[w] \in WorkerState
  BY DEF VolgaInv, VolgaTypes, InOnePlace, WorkerState, Batch
<1>3. /\ p \in Nat /\ Tail(batchQueue) \in Seq(Nat)
      /\ Elems(batchQueue) = {p} \cup Elems(Tail(batchQueue))
      /\ Distinct(Tail(batchQueue)) /\ p \notin Elems(Tail(batchQueue))
  BY <1>1, <1>2, TailElems, TailDistinct
<1>4. p \notin Elems(Batch(w))
  BY <1>3 DEF VolgaInv, InOnePlace
<1>5. /\ Append(Batch(w), p) \in Seq(Nat) /\ Append(Batch(w), p) # <<>>
      /\ Elems(Append(Batch(w), p)) = Elems(Batch(w)) \cup {p}
      /\ Distinct(Append(Batch(w), p))
  BY <1>2, <1>3, <1>4, AppendElems, AppendDistinct
<1>6. Volga!Taken(w, p) \in WorkerState /\ Volga!Taken(w, p).batch = Append(Batch(w), p)
  <2>1. Volga!Cancelled \in BOOLEAN
    BY DEF Volga!Cancelled
  <2>2. QED  BY <1>2, <1>5, <2>1 DEF Volga!Taken, WorkerState, Batch
<1>7. /\ worker' \in [Workers -> WorkerState]
      /\ \A v \in Workers : Batch(v)' = IF v = w THEN Append(Batch(w), p) ELSE Batch(v)
      /\ \A v \in Workers : v # w => worker'[v] = worker[v]
  <2>1. worker' \in [Workers -> WorkerState]
    BY <1>1, <1>2, <1>6
  <2>2. \A v \in Workers : worker'[v] = IF v = w THEN Volga!Taken(w, p) ELSE worker[v]
    BY <1>1, <1>2
  <2>3. QED  BY <1>6, <2>1, <2>2 DEF Batch
<1>8. VolgaTypes'
  BY <1>1, <1>3, <1>7 DEF VolgaInv, VolgaTypes
<1>9. AllAccepted'
  BY <1>1, <1>3, <1>5, <1>7 DEF VolgaInv, AllAccepted
<1>10. InOnePlace'
  <2>1. /\ Distinct(batchQueue)' /\ \A v \in Workers : Distinct(Batch(v))'
        /\ Elems(batchQueue)' \cup {p} = Elems(batchQueue) /\ p \notin Elems(batchQueue)'
    BY <1>1, <1>3, <1>5, <1>7 DEF VolgaInv, InOnePlace
  <2>2. \A v \in Workers : Elems(Batch(v))' = IF v = w THEN Elems(Batch(w)) \cup {p}
                                              ELSE Elems(Batch(v))
    BY <1>5, <1>7
  <2>3. \A v \in Workers : Elems(Batch(v))' \cap Elems(batchQueue)' = {}
    BY <2>1, <2>2 DEF VolgaInv, InOnePlace
  <2>4. \A u, v \in Workers : u # v => Elems(Batch(u))' \cap Elems(Batch(v))' = {}
    BY <2>1, <2>2 DEF VolgaInv, InOnePlace
  <2>5. /\ \A m \in wire, v \in Workers : Elems(m) \cap Elems(Batch(v))' = {}
        /\ \A v \in Workers : Elems(handed) \cap Elems(Batch(v))' = {}
    BY <2>1, <2>2 DEF VolgaInv, InOnePlace
  <2>6. /\ \A m \in wire : Elems(m) \cap Elems(batchQueue)' = {}
        /\ Elems(handed) \cap Elems(batchQueue)' = {}
    BY <2>1 DEF VolgaInv, InOnePlace
  <2>7. QED  BY <1>1, <2>1, <2>3, <2>4, <2>5, <2>6 DEF VolgaInv, InOnePlace
<1>11. QED  BY <1>8, <1>9, <1>10 DEF VolgaInv

(* A batch becomes a message, or is dropped. *)
LEMMA VolgaSendInv ==
  ASSUME VolgaInv, NEW w \in Workers, Volga!SendBatch(w)
  PROVE  VolgaInv'
<1>1. /\ UNCHANGED <<batchQueue, taken, handed>>
      /\ worker' = [worker EXCEPT ![w] = Volga!Posted(w)]
      /\ wire' = wire \cup {Batch(w)} \/ wire' = wire
      /\ Batch(w) # <<>>
  BY DEF Volga!SendBatch, Volga!Becomes, Batch, VolgaInv, AllAccepted
<1>2. worker \in [Workers -> WorkerState] /\ worker[w] \in WorkerState /\ Batch(w) \in Seq(Nat)
  BY DEF VolgaInv, VolgaTypes, WorkerState, Batch
<1>3. /\ Volga!Posted(w) \in WorkerState /\ Volga!Posted(w).batch = <<>>
      /\ Volga!Posted(w).pc # "posting"
  BY <1>2, EmptyDistinct DEF Volga!Posted, WorkerState
<1>4. /\ worker' \in [Workers -> WorkerState]
      /\ \A v \in Workers : Batch(v)' = IF v = w THEN <<>> ELSE Batch(v)
      /\ \A v \in Workers : v # w => worker'[v] = worker[v]
      /\ worker'[w].pc # "posting"
  <2>1. worker' \in [Workers -> WorkerState]
    BY <1>1, <1>2, <1>3
  <2>2. \A v \in Workers : worker'[v] = IF v = w THEN Volga!Posted(w) ELSE worker[v]
    BY <1>1, <1>2
  <2>3. QED  BY <1>3, <2>1, <2>2 DEF Batch
<1>5. VolgaTypes'
  BY <1>1, <1>2, <1>4 DEF VolgaInv, VolgaTypes
<1>6. AllAccepted'
  BY <1>1, <1>4, EmptyDistinct DEF VolgaInv, AllAccepted
<1>7. InOnePlace'
  BY <1>1, <1>4, EmptyDistinct DEF VolgaInv, InOnePlace
<1>8. QED  BY <1>5, <1>6, <1>7 DEF VolgaInv

(* A message that arrives is on its way no longer, and neither is one that *)
(* is lost.                                                                *)
LEMMA ArrivesInv ==
  ASSUME VolgaInv, NEW m \in wire, Volga!HandleMessage(m) \/ Volga!LoseMessage(m)
  PROVE  VolgaInv'
<1>1. /\ UNCHANGED <<batchQueue, taken, worker>> /\ wire' = wire \ {m}
      /\ handed' = handed \o m \/ handed' = handed
  BY DEF Volga!HandleMessage, Volga!LoseMessage
<1>2. m \in Seq(Nat) /\ handed \in Seq(Nat)
  BY DEF VolgaInv, VolgaTypes
<1>3. /\ handed' \in Seq(Nat)
      /\ Elems(handed') = Elems(handed) \cup Elems(m) \/ Elems(handed') = Elems(handed)
  BY <1>1, <1>2, ConcatElems
<1>4. \A w \in Workers : Batch(w)' = Batch(w) /\ worker'[w] = worker[w]
  BY <1>1 DEF Batch
<1>5. VolgaTypes'
  BY <1>1, <1>3 DEF VolgaInv, VolgaTypes
<1>6. AllAccepted'
  BY <1>1, <1>3, <1>4 DEF VolgaInv, AllAccepted
<1>7. InOnePlace'
  BY <1>1, <1>3, <1>4 DEF VolgaInv, InOnePlace
<1>8. QED  BY <1>5, <1>6, <1>7 DEF VolgaInv

LEMMA VolgaNextInv == VolgaInv /\ [Volga!Next]_(Volga!vars) => VolgaInv'
<1> SUFFICES ASSUME VolgaInv, [Volga!Next]_(Volga!vars)  PROVE VolgaInv'
  OBVIOUS
<1>1. ASSUME UNCHANGED <<batchQueue, taken, worker, wire, handed>>  PROVE VolgaInv'
  <2>1. worker' \in [Workers -> WorkerState] /\ \A w \in Workers : Batch(w)' = Batch(w)
    BY <1>1 DEF VolgaInv, VolgaTypes, Batch
  <2>2. \A w \in Workers : worker'[w].pc = "posting" => Batch(w) # <<>>
    BY <1>1 DEF VolgaInv, AllAccepted
  <2>3. QED  BY <1>1, <2>1, <2>2, VolgaIdle
<1>2. CASE Volga!Send \/ Volga!KeepAlive
  BY <1>1, <1>2, OfferInv DEF Volga!Send, Volga!KeepAlive
<1>3. CASE Volga!Stop \/ UNCHANGED Volga!vars
  BY <1>1, <1>3 DEF Volga!Stop, Volga!vars
<1>4. ASSUME NEW w \in Workers, Volga!ContextDone(w) \/ Volga!QueueClosed(w) \/ Volga!TimerFires(w)
      PROVE  VolgaInv'
  <2>1. UNCHANGED <<batchQueue, taken, wire, handed>>
    BY <1>4 DEF Volga!ContextDone, Volga!QueueClosed, Volga!TimerFires, Volga!Becomes
  <2>2. \/ worker' = [worker EXCEPT ![w] = Volga!Flushed(w, TRUE)]
        \/ worker' = [worker EXCEPT ![w] = [Volga!Flushed(w, FALSE) EXCEPT !.timer = FALSE]]
    BY <1>4 DEF Volga!ContextDone, Volga!QueueClosed, Volga!TimerFires, Volga!Becomes
  <2>3. CASE worker' = [worker EXCEPT ![w] = Volga!Flushed(w, TRUE)]
    BY <2>1, <2>3, FlushFacts, WorkerIdle
  <2>4. CASE worker' = [worker EXCEPT ![w] = [Volga!Flushed(w, FALSE) EXCEPT !.timer = FALSE]]
    <3> DEFINE self == [Volga!Flushed(w, FALSE) EXCEPT !.timer = FALSE]
    <3>1. self \in WorkerState /\ self.batch = Batch(w) /\ (self.pc = "posting" => Batch(w) # <<>>)
      BY FlushFacts
    <3> HIDE DEF self
    <3>2. worker' = [worker EXCEPT ![w] = self]
      BY <2>4 DEF self
    <3>3. QED  BY <2>1, <3>1, <3>2, WorkerIdle
  <2>5. QED  BY <2>2, <2>3, <2>4
<1>5. QED
  BY <1>2, <1>3, <1>4, VolgaTakeInv, VolgaSendInv, ArrivesInv DEF Volga!Next, Volga!Worker

(* The pool of workers of vyandex promises a channel that may lose packets *)
(* and change their order, but neither invents nor repeats one, for any    *)
(* number of workers and any sizes of the queue and the batches: no packet *)
(* gets into two batches, and no batch is posted twice.                    *)
THEOREM PoolImplementsLossyBag == Volga!Spec => Volga!UnorderedChannel
<1>1. Volga!Init => Volga!Bag!Init
  BY EmptyDistinct DEF Volga!Init, Volga!Bag!Init, Volga!Range, Elems
<1>2. VolgaInv /\ [Volga!Next]_(Volga!vars) => [Volga!Bag!Next]_(Volga!Bag!vars)
  <2> SUFFICES ASSUME VolgaInv, [Volga!Next]_(Volga!vars)
               PROVE  [Volga!Bag!Next]_(Volga!Bag!vars)
    OBVIOUS
  <2>1. ASSUME UNCHANGED <<taken, handed>>  PROVE UNCHANGED Volga!Bag!vars
    BY <2>1 DEF Volga!Bag!vars
  <2>2. ASSUME Volga!Offer  PROVE [Volga!Bag!Next]_(Volga!Bag!vars)
    BY <2>2 DEF Volga!Offer, Volga!Bag!Next, Volga!Bag!Accept, Volga!Bag!vars
  <2>3. ASSUME NEW m \in wire, Volga!HandleMessage(m)  PROVE Volga!Bag!Next
    <3>1. /\ m \in Seq(Nat) /\ handed \in Seq(Nat) /\ m # <<>> /\ Distinct(m)
          /\ Elems(m) \subseteq 1..taken /\ Elems(handed) \cap Elems(m) = {}
      BY DEF VolgaInv, VolgaTypes, AllAccepted, InOnePlace
    <3>2. handed' = handed \o m /\ UNCHANGED taken
      BY <2>3 DEF Volga!HandleMessage
    <3>3. Elems(handed)' = Elems(handed) \cup Elems(m) /\ Len(handed') = Len(handed) + Len(m)
      BY <3>1, <3>2, ConcatElems
    <3>4. Cardinality(Elems(m)) = Len(m) /\ Elems(m) # {}
      BY <3>1, DistinctCardinality
    <3>5. Volga!Bag!Arrive(Elems(m))
      <4>1. Volga!Range(handed) = Elems(handed) /\ Volga!Range(handed)' = Elems(handed)'
        BY DEF Volga!Range, Elems
      <4>2. Volga!Bag!Cardinality(Elems(m)) = Cardinality(Elems(m))
        BY DEF Volga!Bag!Cardinality, Cardinality
      <4>3. Len(handed)' = Len(handed) + Volga!Bag!Cardinality(Elems(m))
        BY <3>3, <3>4, <4>2
      <4>4. QED  BY <3>1, <3>2, <3>3, <3>4, <4>1, <4>3 DEF Volga!Bag!Arrive
    <3>6. QED  BY <3>1, <3>5 DEF Volga!Bag!Next
  <2>4. CASE Volga!Send \/ Volga!KeepAlive
    BY <2>1, <2>2, <2>4 DEF Volga!Send, Volga!KeepAlive
  <2>5. CASE Volga!Stop \/ (\E m \in wire : Volga!LoseMessage(m)) \/ UNCHANGED Volga!vars
    BY <2>1, <2>5 DEF Volga!Stop, Volga!LoseMessage, Volga!vars
  <2>6. CASE \E w \in Workers : Volga!Worker(w)
    BY <2>1, <2>6 DEF Volga!Worker, Volga!ContextDone, Volga!Take, Volga!QueueClosed,
                      Volga!TimerFires, Volga!SendBatch, Volga!Becomes
  <2>7. QED  BY <2>3, <2>4, <2>5, <2>6 DEF Volga!Next
<1>3. QED
  BY VolgaInitInv, VolgaNextInv, <1>1, <1>2, PTL
     DEF Volga!Spec, Volga!UnorderedChannel, Volga!Bag!Spec

(* When main.go picks this transport, its pool keeps that promise.         *)
THEOREM PoolLosesAndReorders == RawSpec => UnorderedChannel
<1>1. ResolveTransport => Volga!Init
  BY DEF ResolveTransport
<1>2. [Step]_all => [Volga!Next]_(Volga!vars)
  BY DEF Step, all, volga, Volga!vars
<1>3. QED
  BY <1>1, <1>2, PoolImplementsLossyBag, PTL DEF RawSpec, UnorderedChannel, Volga!Spec
=============================================================================
