---------------------------- MODULE RawTransport ----------------------------
(***************************************************************************)
(* The raw transport below the codec and the encryption: main.go starts one *)
(* of them per process, here one that writes a document in order            *)
(* (DocTransport, for "yandex" and "mailru"), one that posts through a pool *)
(* of workers (VolgaRelay, for "vyandex"), or one that writes to a room     *)
(* (CupsRoom, for "cupsonline").  The transports that were not chosen stay  *)
(* as they were constructed.                                                *)
(***************************************************************************)
EXTENDS DocTransport

CONSTANTS
  Workers,              \* of VolgaRelay
  QueueSize, BatchSize, \* of VolgaRelay and CupsRoom
  MaxPosted             \* bound: packets that these accept

VARIABLES
  resolved,    \* resolvedTransport
  vrunning, ticker, vstop, batchQueue, taken, worker, wire, handed, crashed,  \* of VolgaRelay
  run, broken, conns, ready, cstop, caller, sendQueue, enqueued, loop, room,
  arrived, arrivals                                                          \* of CupsRoom

volga == <<vrunning, ticker, vstop, batchQueue, taken, worker, wire, handed, crashed>>
cups == <<run, broken, conns, ready, cstop, caller, sendQueue, enqueued, loop, room, arrived,
          arrivals>>

Volga == INSTANCE VolgaRelay WITH MaxPackets <- MaxPosted,
  running <- vrunning, keepAlive <- ticker, stop <- vstop, queue <- batchQueue, accepted <- taken

Cups == INSTANCE CupsRoom WITH MaxPackets <- MaxPosted,
  connected <- ready, stop <- cstop, queue <- sendQueue, accepted <- enqueued, wire <- room,
  last <- arrived, count <- arrivals

ResolveTransport ==
  /\ resolved \in {"document", "vyandex", "cupsonline"}
  /\ Init /\ Volga!Init /\ Cups!Init

Step ==
  /\ \/ resolved = "document" /\ Next /\ UNCHANGED <<volga, cups>>
     \/ resolved = "vyandex" /\ Volga!Next /\ UNCHANGED <<vars, cups>>
     \/ resolved = "cupsonline" /\ Cups!Next /\ UNCHANGED <<vars, volga>>
  /\ UNCHANGED resolved

all == <<resolved, vars, volga, cups>>

(* The fairness of each transport, when it is the one that was chosen. *)
Document(A) == resolved = "document" /\ A
Posting(A) == resolved = "vyandex" /\ A
InRoom(A) == resolved = "cupsonline" /\ A

RawSpec ==
  /\ ResolveTransport /\ [][Step]_all
  /\ WF_vars(Document(Connector)) /\ SF_vars(Document(OpenSucceeds))
  /\ \A w \in Conns : WF_vars(Document(Writer(w)))
  /\ WF_volga(Posting(Volga!StopGoesOn))
  /\ \A w \in Workers : WF_volga(Posting(~crashed /\ Volga!Worker(w)))
  /\ WF_cups(InRoom(Cups!Run)) /\ SF_cups(InRoom(Cups!DialSucceeds))
  /\ WF_cups(InRoom(Cups!SendLoop)) /\ WF_cups(InRoom(Cups!Enqueued \/ Cups!Refused))
  /\ WF_cups(InRoom(Cups!StopGoesOn))

-----------------------------------------------------------------------------
(* What VolgaRelay promises: a channel that loses and reorders packets but  *)
(* never repeats one, no packet forgotten in a batch, and a Stop that       *)
(* returns (vyandex.go:509-562 and 482-487).                                *)
UnorderedChannel == Volga!UnorderedChannel
EventuallyPosted == Volga!EventuallyPosted
StopReturns == Volga!StopReturns

(* What CupsRoom promises: the order of the queue across reconnects, and a  *)
(* Send, which waits for room, that returns (cupsonline.go:437-491 and      *)
(* 597-607).                                                                *)
OrderedRoom == Cups!OrderedRoom
RoomMoves == Cups!RoomMoves
=============================================================================
