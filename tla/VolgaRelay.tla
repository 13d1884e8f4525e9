----------------------------- MODULE VolgaRelay -----------------------------
(***************************************************************************)
(* The Yandex Volga transport (vyandex.go): Send puts a packet into one     *)
(* queue; a pool of workers takes packets from it, each worker gathers its  *)
(* own batch and posts it over HTTP when it is full or two milliseconds     *)
(* old; the peer's listener hands the packets of a message to the tunnel.   *)
(* A keep-alive goroutine sends through the same queue.                     *)
(*                                                                         *)
(* Packets are numbered in the order in which they were accepted.  The      *)
(* limit of 4 MiB on a batch is left out: twenty packets of the layers      *)
(* above never reach it.                                                    *)
(***************************************************************************)
EXTENDS Naturals, FiniteSets, SequencesExt

CONSTANTS Workers,
          QueueSize, BatchSize,
          MaxPackets             \* bound: packets that are accepted

VARIABLES
  running,    \* BaseTransport.running
  keepAlive,  \* the keep-alive goroutine is there
  stop,       \* how far Stop has come
  queue,      \* batchQueue
  accepted,   \* number of packets that Send took
  worker,     \* the workers: batch, timer, and what they are doing
  wire,       \* messages on the way to the peer
  handed,     \* packets the peer handed to its callback, in order
  crashed     \* a send on the closed channel has ended the process

vars == <<running, keepAlive, stop, queue, accepted, worker, wire, handed, crashed>>

Stages == <<"no", "quiet", "cancelled", "closed", "returned">>
Stage == CHOOSE i \in DOMAIN Stages : Stages[i] = stop
Quiet == Stage >= 2        \* keepAliveStop is closed
Cancelled == Stage >= 3    \* the context of the workers is cancelled
Closed == Stage >= 4       \* batchQueue is closed

TypeOK ==
  /\ {running, keepAlive, crashed} \subseteq BOOLEAN /\ stop \in Range(Stages)
  /\ queue \in Seq(1..MaxPackets) /\ Len(queue) <= QueueSize /\ accepted \in 0..MaxPackets
  /\ worker \in [Workers -> [pc : {"select", "posting", "done"}, batch : Seq(1..MaxPackets),
                             timer : BOOLEAN, exits : BOOLEAN, doomed : BOOLEAN]]
  /\ \A w \in Workers : Len(worker[w].batch) <= BatchSize

(* A transport that Start has started. *)
Init ==
  /\ running = TRUE /\ keepAlive = TRUE /\ stop = "no" /\ crashed = FALSE
  /\ queue = <<>> /\ accepted = 0 /\ wire = {} /\ handed = <<>>
  /\ worker = [w \in Workers |-> [pc |-> "select", batch |-> <<>>, timer |-> FALSE,
                                  exits |-> FALSE, doomed |-> FALSE]]

-----------------------------------------------------------------------------
(* relayClient.Send.  Sending on the closed channel panics; nothing between *)
(* the caller and the channel recovers.                                     *)
Offer ==
  /\ accepted < MaxPackets
  /\ crashed' = Closed
  /\ \/ ~Closed /\ Len(queue) < QueueSize
        /\ queue' = Append(queue, accepted + 1) /\ accepted' = accepted + 1
     \/ (Closed \/ Len(queue) >= QueueSize) /\ UNCHANGED <<queue, accepted>>
  /\ UNCHANGED <<running, stop, worker, wire, handed>>

Send == Offer /\ UNCHANGED keepAlive

(* The ticker and keepAliveStop may both be ready: either is taken. *)
KeepAlive ==
  /\ keepAlive
  /\ \/ (Quiet \/ ~running)
        /\ keepAlive' = FALSE
        /\ UNCHANGED <<running, stop, queue, accepted, worker, wire, handed, crashed>>
     \/ running /\ Offer /\ UNCHANGED keepAlive

(* flush: an empty batch is nothing to do.  The request is made with the    *)
(* context of the relay, so that it fails at once when that is cancelled.   *)
Flushed_BreaksSelect(w, exits) ==
  LET self == worker[w]
  IN IF self.batch = <<>> THEN self
     ELSE [self EXCEPT !.pc = "posting", !.exits = FALSE, !.doomed = Cancelled]

Flushed(w, exits) ==
  LET self == worker[w]
  IN IF self.batch = <<>>
     THEN [self EXCEPT !.pc = IF exits THEN "done" ELSE "select"]
     ELSE [self EXCEPT !.pc = "posting", !.exits = exits, !.doomed = Cancelled]

Becomes(w, self) ==
  /\ worker' = [worker EXCEPT ![w] = self]
  /\ UNCHANGED <<running, keepAlive, stop, accepted, handed, crashed>>

ContextDone(w) ==
  /\ worker[w].pc = "select" /\ Cancelled
  /\ Becomes(w, Flushed(w, TRUE)) /\ UNCHANGED <<queue, wire>>

(* timer.Reset is called for the first packet of a batch only. *)
Taken_NoTimer(w, p) ==
  LET batch == Append(worker[w].batch, p)
  IN [worker[w] EXCEPT !.batch = batch, !.doomed = Cancelled,
        !.pc = IF Len(batch) >= BatchSize THEN "posting" ELSE @]

Taken(w, p) ==
  LET batch == Append(worker[w].batch, p)
  IN [worker[w] EXCEPT !.batch = batch,
        !.pc = IF Len(batch) >= BatchSize THEN "posting" ELSE @,
        !.doomed = Cancelled,
        !.timer = (Len(batch) = 1 /\ Len(batch) < BatchSize) \/ @]

Take(w) ==
  /\ worker[w].pc = "select" /\ queue # <<>>
  /\ Becomes(w, Taken(w, Head(queue)))
  /\ queue' = Tail(queue) /\ UNCHANGED wire

QueueClosed(w) ==
  /\ worker[w].pc = "select" /\ queue = <<>> /\ Closed
  /\ Becomes(w, Flushed(w, TRUE)) /\ UNCHANGED <<queue, wire>>

(* The timer may be that of a batch that was full before it fired. *)
TimerFires(w) ==
  /\ worker[w].pc = "select" /\ worker[w].timer
  /\ Becomes(w, [Flushed(w, FALSE) EXCEPT !.timer = FALSE])
  /\ UNCHANGED <<queue, wire>>

(* sendBatch and the end of flush: the request reached the service or not,  *)
(* whatever the worker is told, and the batch is dropped.                   *)
Posted_KeepsBatch(w) == [worker[w] EXCEPT !.pc = IF worker[w].exits THEN "done" ELSE "select"]

Posted(w) == [worker[w] EXCEPT !.batch = <<>>, !.pc = IF worker[w].exits THEN "done" ELSE "select"]

SendBatch(w) ==
  /\ worker[w].pc = "posting"
  /\ Becomes(w, Posted(w))
  /\ \/ ~worker[w].doomed /\ wire' = wire \cup {worker[w].batch}
     \/ UNCHANGED wire
  /\ UNCHANGED queue

(* The WebSocket brings messages in any order, or not at all.  decodeBatch  *)
(* is the inverse of sendBatch for packets of less than 64 KiB.  A listener *)
(* asks for the last message when it connects (fetch_history): that the     *)
(* service does not repeat one which was handed up is assumed of it.        *)
HandleMessage(m) ==
  /\ wire' = wire \ {m}
  /\ handed' = handed \o m
  /\ UNCHANGED <<running, keepAlive, stop, queue, accepted, worker, crashed>>

LoseMessage(m) ==
  /\ wire' = wire \ {m}
  /\ UNCHANGED <<running, keepAlive, stop, queue, accepted, worker, handed, crashed>>

(* Stop closes keepAliveStop, cancels the context, closes the queues, waits *)
(* for the workers and clears running at last.                              *)
Exited == \A w \in Workers : worker[w].pc = "done"

Stop ==
  /\ Stage < Len(Stages) /\ (Closed => Exited)
  /\ stop' = Stages[Stage + 1]
  /\ running' = ~Closed
  /\ UNCHANGED <<keepAlive, queue, accepted, worker, wire, handed, crashed>>

Worker(w) ==
  ContextDone(w) \/ Take(w) \/ QueueClosed(w) \/ TimerFires(w) \/ SendBatch(w)

Next ==
  /\ ~crashed
  /\ \/ Send \/ KeepAlive \/ Stop
     \/ \E w \in Workers : Worker(w)
     \/ \E m \in wire : HandleMessage(m) \/ LoseMessage(m)

Spec == Init /\ [][Next]_vars

(* Workers run, requests end (RelayTimeout), and Stop goes on once called.  *)
StopGoesOn == ~crashed /\ stop # "no" /\ Stop
FairSpec ==
  /\ Spec /\ WF_vars(StopGoesOn)
  /\ \A w \in Workers : WF_vars(~crashed /\ Worker(w))

-----------------------------------------------------------------------------
Bag == INSTANCE LossyBag WITH arrived <- Range(handed), count <- Len(handed)

(* The pool implements a channel that may lose and reorder, but neither     *)
(* invents nor repeats: no packet is in two batches.                        *)
UnorderedChannel == Bag!Spec

(* Every packet is posted or given up in the end: when the transport is     *)
(* stopped, packets that no worker has taken stay in the queue, but batches *)
(* are emptied.  The timer is set for the first packet of a batch only, and *)
(* a full batch leaves its timer running for the batch after it.            *)
Queued == Range(queue)
Batched == UNION {Range(worker[w].batch) : w \in Workers}
EventuallyPosted == \A p \in 1..MaxPackets :
  p \in Queued \cup Batched ~>
     \/ p \notin Queued \cup Batched \/ crashed
     \/ stop # "no" /\ p \in Queued

(* Stop returns unless the process crashes: wg.Wait waits for workers that  *)
(* all find the cancelled context or the closed queue.                      *)
StopReturns == stop # "no" ~> stop = "returned" \/ crashed
=============================================================================
