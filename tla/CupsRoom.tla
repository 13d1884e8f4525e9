------------------------------ MODULE CupsRoom ------------------------------
(***************************************************************************)
(* The CUPS transport (cupsonline.go) keeps a WebSocket for each of several *)
(* rooms and gives each flow of IP packets to one of them.  What the layers *)
(* above hand to Send is no IP packet, though, but a message of the codec,  *)
(* whose first byte (framing.go:79, compressor.go:16 and 33) never says     *)
(* "version 4": extractFlowKey finds the empty key in all of them, and one  *)
(* room carries everything.  This module is that room: the goroutine that   *)
(* keeps it connected (run), the one that gathers and writes batches        *)
(* (sendLoop), and the callers of Send and Stop.                            *)
(*                                                                         *)
(* Packets are numbered in the order they got into the queue.               *)
(***************************************************************************)
EXTENDS Naturals, SequencesExt

CONSTANTS QueueSize, BatchSize,
          MaxPackets,           \* bound: calls of Send
          MaxConns              \* bound: connections; the last one stays up

VARIABLES
  run,        \* where run() is; w.conn is set while it is in Attached
  broken,     \* the connection it has is dead
  conns,      \* number of connections so far
  connected,  \* w.connected
  stop,       \* how far Stop has come: the closed flag first, then ctx
  caller,     \* Send: "blocked" while it waits for room in the queue
  queue,      \* sendQueue
  accepted,   \* number of packets put into the queue
  loop,       \* sendLoop: what it does, its batch, its timer, and whether it
              \* ends after the flush it is in
  wire,       \* packets in the room, on the way to the peer
  last, count \* packet the peer handed up last, and how many

vars == <<run, broken, conns, connected, stop, caller, queue, accepted, loop, wire, last, count>>
link == <<run, broken, conns, connected>>
room == <<wire, last, count>>

Attached == {"dialled", "serving"}
Closed == stop = "closed"

TypeOK ==
  /\ run \in {"top", "dialled", "serving", "left", "backoff", "ended"}
  /\ broken \in BOOLEAN /\ connected \in BOOLEAN /\ conns \in 0..MaxConns
  /\ stop \in {"no", "marked", "closed"} /\ caller \in {"idle", "blocked"}
  /\ queue \in Seq(1..MaxPackets) /\ wire \in Seq(1..MaxPackets) /\ Len(queue) <= QueueSize
  /\ {accepted, last, count} \subseteq 0..MaxPackets
  /\ loop \in [pc : {"select", "waiting", "sending", "done"}, batch : Seq(1..MaxPackets),
               timer : BOOLEAN, exits : BOOLEAN]

(* A transport that Start has started. *)
Init ==
  /\ run = "top" /\ broken = FALSE /\ conns = 0 /\ connected = FALSE
  /\ stop = "no" /\ caller = "idle" /\ queue = <<>> /\ accepted = 0
  /\ loop = [pc |-> "select", batch |-> <<>>, timer |-> FALSE, exits |-> FALSE]
  /\ wire = <<>> /\ last = 0 /\ count = 0

-----------------------------------------------------------------------------
(* run and connectAndServe *)

Goes(to) == run' = to /\ UNCHANGED <<stop, caller, queue, accepted, loop, room>>

(* ctx is looked at before a dial, which may fail. *)
DialFails ==
  /\ run = "top"
  /\ Goes(IF Closed THEN "ended" ELSE "left")
  /\ UNCHANGED <<broken, conns, connected>>

DialSucceeds ==
  /\ run = "top" /\ ~Closed /\ conns < MaxConns
  /\ Goes("dialled") /\ conns' = conns + 1 /\ broken' = FALSE /\ UNCHANGED connected

(* The replies to connect and subscribe are awaited but not looked at. *)
Handshake ==
  /\ run = "dialled" /\ ~broken
  /\ Goes("serving") /\ connected' = TRUE /\ UNCHANGED <<broken, conns>>

(* The connection is given up; connected still says that it is there.  A    *)
(* transport that was stopped leaves when the next message comes.           *)
Leaves ==
  /\ run \in Attached /\ (broken \/ (run = "serving" /\ Closed))
  /\ Goes("left") /\ UNCHANGED <<broken, conns, connected>>

Left ==
  /\ run = "left"
  /\ Goes(IF stop # "no" THEN "ended" ELSE "backoff")
  /\ connected' = FALSE /\ UNCHANGED <<broken, conns>>

BackoffEnds ==
  /\ run = "backoff"
  /\ \/ Goes("top")
     \/ Closed /\ Goes("ended")
  /\ UNCHANGED <<broken, conns, connected>>

Run == DialFails \/ DialSucceeds \/ Handshake \/ Leaves \/ Left \/ BackoffEnds

(* The network drops the connection. *)
Break ==
  /\ run \in Attached /\ ~broken /\ conns < MaxConns
  /\ broken' = TRUE
  /\ UNCHANGED <<run, conns, connected, stop, caller, queue, accepted, loop, room>>

-----------------------------------------------------------------------------
(* Send waits for room; so does the layer above, which calls it. *)

Call ==
  /\ caller = "idle" /\ accepted < MaxPackets
  /\ caller' = "blocked"
  /\ UNCHANGED <<link, stop, queue, accepted, loop, room>>

Enqueued ==
  /\ caller = "blocked" /\ Len(queue) < QueueSize
  /\ caller' = "idle" /\ accepted' = accepted + 1 /\ queue' = Append(queue, accepted + 1)
  /\ UNCHANGED <<link, stop, loop, room>>

Refused_Never == FALSE /\ UNCHANGED vars

Refused ==
  /\ caller = "blocked" /\ Closed
  /\ caller' = "idle"
  /\ UNCHANGED <<link, stop, queue, accepted, loop, room>>

Stop ==
  /\ ~Closed
  /\ stop' = IF stop = "no" THEN "marked" ELSE "closed"
  /\ UNCHANGED <<link, caller, queue, accepted, loop, room>>

-----------------------------------------------------------------------------
(* sendLoop *)

Becomes(l) == loop' = l /\ UNCHANGED <<link, stop, caller, accepted, last, count>>

(* The end of flush, sent or not. *)
Returns(l) == [l EXCEPT !.pc = IF l.exits THEN "done" ELSE "select"]

Flush(l, exits) ==
  LET flushing == [l EXCEPT !.pc = "waiting", !.exits = exits]
  IN IF l.batch = <<>> THEN Returns(flushing) ELSE flushing

ContextDone ==
  /\ loop.pc = "select" /\ Closed
  /\ Becomes(Flush(loop, TRUE)) /\ UNCHANGED <<queue, wire>>

(* A full batch stops the timer; the first packet of a batch starts it. *)
Taken(p) ==
  LET l == [loop EXCEPT !.batch = Append(@, p)]
  IN IF Len(l.batch) >= BatchSize THEN Flush([l EXCEPT !.timer = FALSE], FALSE)
     ELSE [l EXCEPT !.timer = (Len(l.batch) = 1) \/ @]

Take ==
  /\ loop.pc = "select" /\ queue # <<>>
  /\ Becomes(Taken(Head(queue))) /\ queue' = Tail(queue) /\ UNCHANGED wire

TimerFires ==
  /\ loop.pc = "select" /\ loop.timer
  /\ Becomes(Flush([loop EXCEPT !.timer = FALSE], FALSE)) /\ UNCHANGED <<queue, wire>>

(* connected is looked at, and the connection used later. *)
SeesConnected ==
  /\ loop.pc = "waiting" /\ connected
  /\ Becomes([loop EXCEPT !.pc = "sending"]) /\ UNCHANGED <<queue, wire>>

GivesUp ==
  /\ loop.pc = "waiting" /\ ~connected /\ Closed
  /\ Becomes(Returns(loop)) /\ UNCHANGED <<queue, wire>>

Sent_KeepsBatch(l) == Returns(l)

Sent(l) == Returns([l EXCEPT !.batch = <<>>])

(* The batch is dropped also when it could not be written: w.conn is nil    *)
(* before connected is cleared.  It may go out on a connection that has not *)
(* been through its handshake, or is dead; the service may take it or not.  *)
SendBatch ==
  /\ loop.pc = "sending"
  /\ Becomes(Sent(loop))
  /\ \/ run \in Attached /\ wire' = wire \o loop.batch
     \/ UNCHANGED wire
  /\ UNCHANGED queue

SendLoop == ContextDone \/ Take \/ TimerFires \/ SeesConnected \/ GivesUp \/ SendBatch

-----------------------------------------------------------------------------
(* The service keeps the order of a room (cupsonline.go:762) and may lose   *)
(* messages; the peer hands up the packets of a message one by one, and     *)
(* none after an empty one.                                                 *)
HandleMessage ==
  /\ wire # <<>>
  /\ wire' = Tail(wire)
  /\ \/ last' = Head(wire) /\ count' = count + 1
     \/ UNCHANGED <<last, count>>
  /\ UNCHANGED <<link, stop, caller, queue, accepted, loop>>

Next ==
  \/ Run \/ Break
  \/ Call \/ Enqueued \/ Refused \/ Stop
  \/ SendLoop \/ HandleMessage

Spec == Init /\ [][Next]_vars

(* Goroutines run, a dead connection is noticed (the read deadline), an     *)
(* endpoint that is dialled again and again is reached, and Stop goes on    *)
(* once it was called.                                                      *)
StopGoesOn == stop = "marked" /\ Stop

Fairness ==
  /\ WF_vars(Run) /\ SF_vars(DialSucceeds) /\ WF_vars(SendLoop)
  /\ WF_vars(Enqueued \/ Refused) /\ WF_vars(StopGoesOn)

-----------------------------------------------------------------------------
(* The room is a lossy FIFO, across reconnects and Stop: batches leave in   *)
(* the order of the queue and none is written twice, though the connection  *)
(* may be replaced between the look at connected and the write.             *)
Room == INSTANCE LossyFifo WITH sent <- accepted
OrderedRoom == Room!Spec

(* Send waits while the queue is full, so nothing below it may wait for     *)
(* ever: every packet leaves the queue and the batch, unless the transport  *)
(* is stopped, and a caller of Send returns in any case.                    *)
Waiting == Range(queue) \cup Range(loop.batch)
RoomMoves ==
  /\ \A p \in 1..MaxPackets : p \in Waiting ~> p \notin Waiting \/ Closed
  /\ caller = "blocked" ~> caller = "idle"
=============================================================================
