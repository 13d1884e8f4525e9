--------------------------- MODULE BatchedTransport ---------------------------
(***************************************************************************)
(* The coalescing layer (server/transport/batched.go).  One end queues the *)
(* packets of the tunnel and its flushLoop goroutine groups them into      *)
(* frames for the inner transport; the other end splits each frame back    *)
(* into packets and hands them to the tunnel one by one.                   *)
(*                                                                         *)
(* The module holds the sending half of one host, the receiving half of    *)
(* its peer, and between them the inner transport, which is only assumed   *)
(* to be a lossy FIFO of frames (see LossyFifo and DocTransport).          *)
(***************************************************************************)
EXTENDS Naturals, Sequences, SequencesExt

CONSTANTS
  MaxPackets,     \* bound: number of Send calls of a behaviour
  Lens,           \* packet lengths the tunnel produces
  QueueDepth,     \* batchQueueDepth
  MaxBatchBytes,  \* maxBatchBytes
  MaxBatchCount,  \* maxBatchCount
  Linger          \* lingerMs > 0

ASSUME BatchedAssumption ==
  /\ MaxPackets \in Nat
  /\ Lens \subseteq Nat
  /\ QueueDepth \in Nat \ {0}
  /\ MaxBatchBytes \in Nat \ {0}
  /\ MaxBatchCount \in Nat \ {0}
  /\ Linger \in BOOLEAN

Packet == [id : 1..MaxPackets, len : Lens]

VARIABLES
  sent,        \* number of Send calls so far
  accepted,    \* ids of the packets Send answered with nil
  queue,       \* b.queue
  running,     \* b.running
  pc,          \* where flushLoop is
  batch,       \* the batch flushLoop is building
  size,        \* its running size
  handed,      \* id of the last packet given to the inner transport
  late,        \* number of frames given to the inner transport after Stop
  wire,        \* frames inside the inner transport
  registered,  \* the peer has called Receive
  rx,          \* packets of the frame the peer is handing to its callback
  last,        \* id of the packet delivered last
  count        \* number of packets delivered

sender == <<sent, accepted, queue, running, pc, batch, size, handed, late>>
receiver == <<registered, rx, last, count>>
vars == <<sender, wire, receiver>>

PC == {"idle", "top", "first", "drain", "linger", "flush", "exit"}

TypeOK ==
  /\ sent \in 0..MaxPackets
  /\ accepted \in SUBSET (1..MaxPackets)
  /\ queue \in Seq(Packet) /\ Len(queue) <= QueueDepth
  /\ running \in BOOLEAN
  /\ pc \in PC
  /\ batch \in Seq(Packet)
  /\ size \in Nat
  /\ handed \in 0..MaxPackets
  /\ late \in Nat
  /\ wire \in Seq(Seq(Packet))
  /\ registered \in BOOLEAN
  /\ rx \in Seq(Packet)
  /\ last \in 0..MaxPackets
  /\ count \in Nat

Init ==
  /\ sent = 0 /\ accepted = {} /\ queue = <<>>
  /\ running = FALSE /\ pc = "idle"
  /\ batch = <<>> /\ size = 0 /\ handed = 0 /\ late = 0
  /\ wire = <<>>
  /\ registered = FALSE /\ rx = <<>> /\ last = 0 /\ count = 0

-------------------------------------------------------------------------------
(* Calls of the layer above *)

Start ==
  /\ pc = "idle"
  /\ running' = TRUE
  /\ pc' = "top"
  /\ UNCHANGED <<sent, accepted, queue, batch, size, handed, late, wire, receiver>>

(* Stop does not close the queue: a flushLoop blocked on it stays there.   *)
Stop ==
  /\ running
  /\ running' = FALSE
  /\ UNCHANGED <<sent, accepted, queue, pc, batch, size, handed, late, wire, receiver>>

HasSlot == Len(queue) < QueueDepth

(* Send neither waits nor looks at running: a full queue drops the packet. *)
Send(n) ==
  /\ sent < MaxPackets
  /\ sent' = sent + 1
  /\ IF HasSlot
     THEN /\ queue' = Append(queue, [id |-> sent + 1, len |-> n])
          /\ accepted' = accepted \cup {sent + 1}
     ELSE UNCHANGED <<queue, accepted>>
  /\ UNCHANGED <<running, pc, batch, size, handed, late, wire, receiver>>

-------------------------------------------------------------------------------
(* flushLoop *)

RecordSize(p) == 2 + p.len

(* The condition of both inner loops. *)
Room == size < MaxBatchBytes /\ Len(batch) < MaxBatchCount

LoopTop_Unchecked ==
  /\ pc = "top"
  /\ pc' = "first"
  /\ UNCHANGED <<sent, accepted, queue, running, batch, size, handed, late, wire, receiver>>

LoopTop ==
  /\ pc = "top"
  /\ pc' = IF running THEN "first" ELSE "exit"
  /\ UNCHANGED <<sent, accepted, queue, running, batch, size, handed, late, wire, receiver>>

TakeFirst ==
  /\ pc = "first"
  /\ queue # <<>>
  /\ batch' = <<Head(queue)>>
  /\ size' = RecordSize(Head(queue))
  /\ queue' = Tail(queue)
  /\ pc' = "drain"
  /\ UNCHANGED <<sent, accepted, running, handed, late, wire, receiver>>

Absorb_Prepends ==
  /\ pc \in {"drain", "linger"}
  /\ Room
  /\ queue # <<>>
  /\ batch' = <<Head(queue)>> \o batch
  /\ size' = size + RecordSize(Head(queue))
  /\ queue' = Tail(queue)
  /\ UNCHANGED <<sent, accepted, running, pc, handed, late, wire, receiver>>

Absorb_Overwrites ==
  /\ pc \in {"drain", "linger"}
  /\ Room
  /\ queue # <<>>
  /\ batch' = <<Head(queue)>>
  /\ size' = size + RecordSize(Head(queue))
  /\ queue' = Tail(queue)
  /\ UNCHANGED <<sent, accepted, running, pc, handed, late, wire, receiver>>

Absorb ==
  /\ pc \in {"drain", "linger"}
  /\ Room
  /\ queue # <<>>
  /\ batch' = Append(batch, Head(queue))
  /\ size' = size + RecordSize(Head(queue))
  /\ queue' = Tail(queue)
  /\ UNCHANGED <<sent, accepted, running, pc, handed, late, wire, receiver>>

DrainEnds ==
  /\ pc = "drain"
  /\ queue = <<>> \/ ~Room
  /\ pc' = IF Linger /\ Room THEN "linger" ELSE "flush"
  /\ UNCHANGED <<sent, accepted, queue, running, batch, size, handed, late, wire, receiver>>

LingerEnds_Untimed ==
  /\ pc = "linger"
  /\ ~Room
  /\ pc' = "flush"
  /\ UNCHANGED <<sent, accepted, queue, running, batch, size, handed, late, wire, receiver>>

(* The timer fires, possibly with packets still queued, or the batch is    *)
(* full.                                                                   *)
LingerEnds ==
  /\ pc = "linger"
  /\ pc' = "flush"
  /\ UNCHANGED <<sent, accepted, queue, running, batch, size, handed, late, wire, receiver>>

(* The error of the inner Send is ignored: the frame is taken or dropped.  *)
Flush(taken) ==
  /\ pc = "flush"
  /\ wire' = IF taken THEN Append(wire, batch) ELSE wire
  /\ handed' = Last(batch).id
  /\ late' = IF running THEN late ELSE late + 1
  /\ batch' = <<>>
  /\ size' = 0
  /\ pc' = "top"
  /\ UNCHANGED <<sent, accepted, queue, running, receiver>>

-------------------------------------------------------------------------------
(* Inner transport and peer *)

LoseFrame ==
  /\ wire # <<>>
  /\ wire' = Tail(wire)
  /\ UNCHANGED <<sender, receiver>>

Register ==
  /\ ~registered
  /\ registered' = TRUE
  /\ UNCHANGED <<sender, wire, rx, last, count>>

(* The callback the peer gave to the inner transport decodes the frame;    *)
(* before it is registered the inner transport discards the frame.         *)
Arrive ==
  /\ wire # <<>>
  /\ rx = <<>>
  /\ wire' = Tail(wire)
  /\ rx' = IF registered THEN Head(wire) ELSE <<>>
  /\ UNCHANGED <<sender, registered, last, count>>

Callback ==
  /\ rx # <<>>
  /\ last' = Head(rx).id
  /\ count' = count + 1
  /\ rx' = Tail(rx)
  /\ UNCHANGED <<sender, wire, registered>>

-------------------------------------------------------------------------------

FlushLoop ==
  LoopTop \/ TakeFirst \/ Absorb \/ DrainEnds \/ LingerEnds \/ \E taken \in BOOLEAN : Flush(taken)

Next ==
  \/ Start \/ Stop \/ \E n \in Lens : Send(n)
  \/ FlushLoop
  \/ LoseFrame \/ Register \/ Arrive \/ Callback

Spec == Init /\ [][Next]_vars

(* The goroutine is scheduled and the linger timer fires. *)
FairSpec == Spec /\ WF_vars(FlushLoop)

-------------------------------------------------------------------------------
(* Properties *)

Ids(s) == {s[i].id : i \in DOMAIN s}

(* A packet Send accepted is never misplaced: until flushLoop hands it to  *)
(* the inner transport it is in the queue or in the batch being built      *)
(* (batched.go:80-89 and 114-165), and nothing else is there.              *)
NothingForgotten ==
  {p \in accepted : p > handed} = Ids(batch) \cup Ids(queue)

(* A batch never holds more than maxBatchCount packets and outgrows        *)
(* maxBatchBytes by at most its last record, so the frames stay within     *)
(* what the channel takes (batched.go:125 and 142).                        *)
BatchBounded ==
  batch # <<>> =>
    /\ Len(batch) <= MaxBatchCount
    /\ size < MaxBatchBytes + RecordSize(Last(batch))

(* Stop does not wake a flushLoop that waits for a packet, but whatever it *)
(* is doing, at most one more frame reaches the inner transport after Stop *)
(* (batched.go:72-75 and 115).                                             *)
OneLateFrame == late <= 1

(* Batching keeps the order of the packets, delivers none twice and        *)
(* invents none, although whole frames get lost: seen from the tunnel the  *)
(* layer is a lossy FIFO (batched.go:17-22; batched_test.go:57 tests one   *)
(* lossless run of it).                                                    *)
Channel == INSTANCE LossyFifo
FifoChannel == Channel!Spec

(* While the transport runs, an accepted packet does not linger forever:   *)
(* it is handed to the inner transport even when no other packet follows   *)
(* (batched.go:136-160).                                                   *)
EventuallyHanded ==
  \A p \in 1..MaxPackets :
    (running /\ p \in accepted) ~> (~running \/ handed >= p)

-------------------------------------------------------------------------------
(* The inductive strengthening of the properties: the packets in transit,  *)
(* from the callback of the peer back to the queue, carry strictly         *)
(* increasing numbers.  Each stage is delimited by counters, which spares  *)
(* a concatenation of all stages.                                          *)

Increasing(s) == \A i, j \in DOMAIN s : i < j => s[i].id < s[j].id

Within(s, lo, hi) == \A i \in DOMAIN s : lo < s[i].id /\ s[i].id <= hi

Below(s, t) == \A i \in DOMAIN s, j \in DOMAIN t : s[i].id < t[j].id

SendingOrder ==
  /\ handed <= sent
  /\ Increasing(batch) /\ Within(batch, handed, sent)
  /\ Increasing(queue) /\ Within(queue, handed, sent)
  /\ Below(batch, queue)
  /\ pc \in {"drain", "linger", "flush"} <=> batch # <<>>

ReceivingOrder ==
  /\ last <= handed
  /\ Increasing(rx) /\ Within(rx, last, handed)
  /\ \A k \in DOMAIN wire :
       Increasing(wire[k]) /\ Within(wire[k], last, handed) /\ Below(rx, wire[k])
  /\ \A k, l \in DOMAIN wire : k < l => Below(wire[k], wire[l])

StopOrder ==
  /\ running => late = 0
  /\ pc = "idle" => late = 0
  /\ late <= 1
  /\ late = 1 => pc \in {"top", "exit"}

IInv == TypeOK /\ SendingOrder /\ ReceivingOrder /\ StopOrder
=============================================================================
