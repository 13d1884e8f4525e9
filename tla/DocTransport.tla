----------------------------- MODULE DocTransport -----------------------------
(***************************************************************************)
(* The document transports (server/transport/yandex/yandex.go and, with    *)
(* the same structure, server/transport/mailru/mailru.go): packets are     *)
(* written as cursor messages on the WebSocket of a shared document.       *)
(*                                                                         *)
(* Five goroutines share t.session and the connected flag: the caller of   *)
(* Send, the connector (connectToDoc, its read loop and scheduleReconnect, *)
(* one chain of goroutines of which one is alive at a time), the writer,   *)
(* the keep-alive ticker and the caller of Stop.                           *)
(*                                                                         *)
(* A DocSession is named by the number of its connection; its WriteQueue   *)
(* by the session that made it.                                            *)
(***************************************************************************)
EXTENDS Integers, Sequences, FiniteSets

CONSTANTS
  MaxPackets,            \* bound: Send calls of a behaviour
  MaxConns,              \* bound: connections opened; the last one stays up
  MaxQueueSize,          \* config.MaxQueueSize
  MaxReconnectAttempts,  \* config.MaxReconnectAttempts
  AttemptBound           \* bound: the attempt counter saturates here

ASSUME DocAssumption ==
  /\ MaxPackets \in Nat
  /\ MaxConns \in Nat
  /\ MaxQueueSize \in Nat \ {0}
  /\ MaxReconnectAttempts \in Nat
  /\ AttemptBound \in Nat

Conns == 1..MaxConns
Packets == 1..MaxPackets
None == 0          \* nil session, nil queue, no packet pending

VARIABLES
  running, connected,  \* the flags of BaseTransport
  session,             \* t.session
  conn,                \* state of each connection
  queueOf,             \* session.WriteQueue
  queue,               \* contents of each WriteQueue
  cpc, existing, cur, attempt,  \* connector: position, existingSession, conn, attempt
  wpc, wq, pending, wsnap,      \* writers, named by the session that started them
  kpc, ksnap,          \* keep-alive goroutine and the session it read
  spc, sq,             \* Send and the queue it read
  stpc,                \* Stop
  sent, accepted,      \* Send calls, and those that returned nil
  written, count,      \* packet written to a connection last, and number of writes
  late                 \* packets written after Stop

flags == <<running, connected>>
connector == <<cpc, existing, cur, attempt>>
writer == <<wpc, wq, pending, wsnap>>
keepalive == <<kpc, ksnap>>
sending == <<spc, sq, sent, accepted>>
output == <<written, count, late>>
vars == <<flags, session, conn, queueOf, queue, connector, writer, keepalive, sending,
          stpc, output>>

TypeOK ==
  /\ running \in BOOLEAN /\ connected \in BOOLEAN
  /\ session \in Conns \cup {None}
  /\ conn \in [Conns -> {"none", "open", "broken", "closed"}]
  /\ queueOf \in [Conns -> Conns \cup {None}]
  /\ queue \in [Conns -> Seq(Packets)]
  /\ \A c \in Conns : Len(queue[c]) <= MaxQueueSize
  /\ cpc \in {"off", "begin", "open", "install", "read", "backoff"}
  /\ existing \in Conns \cup {None} /\ cur \in Conns \cup {None}
  /\ attempt \in 0..AttemptBound
  /\ wpc \in [Conns -> {"off", "capture", "top", "take", "pick", "write", "exit"}]
  /\ wq \in [Conns -> Conns \cup {None}]
  /\ pending \in [Conns -> Packets \cup {None}]
  /\ wsnap \in [Conns -> Conns \cup {None}]
  /\ kpc \in {"off", "wait", "write"} /\ ksnap \in Conns \cup {None}
  /\ spc \in {"idle", "session", "enqueue"} /\ sq \in Conns \cup {None}
  /\ stpc \in {"idle", "clear", "done"}
  /\ sent \in 0..MaxPackets /\ accepted \in SUBSET Packets
  /\ written \in Packets \cup {None} /\ count \in Nat /\ late \in Nat

Init ==
  /\ running = FALSE /\ connected = FALSE /\ session = None
  /\ conn = [c \in Conns |-> "none"]
  /\ queueOf = [c \in Conns |-> None] /\ queue = [c \in Conns |-> <<>>]
  /\ cpc = "off" /\ existing = None /\ cur = None /\ attempt = 0
  /\ wpc = [c \in Conns |-> "off"] /\ wq = [c \in Conns |-> None]
  /\ pending = [c \in Conns |-> None] /\ wsnap = [c \in Conns |-> None]
  /\ kpc = "off" /\ ksnap = None
  /\ spc = "idle" /\ sq = None
  /\ stpc = "idle"
  /\ sent = 0 /\ accepted = {} /\ written = None /\ count = 0 /\ late = 0

-------------------------------------------------------------------------------
(* Start and Stop.  Start is called once: main.go never restarts a         *)
(* transport.                                                              *)

Start ==
  /\ stpc = "idle" /\ ~running
  /\ running' = TRUE
  /\ kpc' = "wait"
  /\ cpc' = "begin" /\ attempt' = 0
  /\ UNCHANGED <<connected, session, conn, queueOf, queue, existing, cur, writer, ksnap,
                 sending, stpc, output>>

(* BaseTransport.Stop clears both flags before the session is looked at.   *)
StopFlags ==
  /\ running
  /\ running' = FALSE /\ connected' = FALSE
  /\ stpc' = "clear"
  /\ UNCHANGED <<session, conn, queueOf, queue, connector, writer, keepalive, sending, output>>

CloseConn_Leaves(c) == conn' = conn

CloseConn(c) == conn' = [d \in Conns |-> IF d = c THEN "closed" ELSE conn[d]]

(* Yandex only: Mail.ru inherits BaseTransport.Stop, and the execution goes *)
(* on without this step.                                                   *)
StopSession ==
  /\ stpc = "clear"
  /\ stpc' = "done"
  /\ session' = None
  /\ CloseConn(session)
  /\ UNCHANGED <<flags, queueOf, queue, connector, writer, keepalive, sending, output>>

-------------------------------------------------------------------------------
(* Send *)

(* Without a connection the packet is refused.                             *)
SendChecks ==
  /\ spc = "idle" /\ sent < MaxPackets
  /\ sent' = sent + 1
  /\ spc' = IF connected THEN "session" ELSE "idle"
  /\ UNCHANGED <<flags, session, conn, queueOf, queue, connector, writer, keepalive, sq,
                 accepted, stpc, output>>

SendReadsSession ==
  /\ spc = "session"
  /\ IF session = None
     THEN spc' = "idle" /\ UNCHANGED sq
     ELSE spc' = "enqueue" /\ sq' = queueOf[session]
  /\ UNCHANGED <<flags, session, conn, queueOf, queue, connector, writer, keepalive, sent,
                 accepted, stpc, output>>

HasRoom(q) == Len(queue[q]) < MaxQueueSize

(* A full queue refuses the packet; Send never waits.                      *)
SendEnqueues ==
  /\ spc = "enqueue"
  /\ spc' = "idle"
  /\ IF HasRoom(sq)
     THEN /\ queue' = [queue EXCEPT ![sq] = Append(@, sent)]
          /\ accepted' = accepted \cup {sent}
     ELSE UNCHANGED <<queue, accepted>>
  /\ UNCHANGED <<flags, session, conn, queueOf, connector, writer, keepalive, sq, sent,
                 stpc, output>>

-------------------------------------------------------------------------------
(* Connector *)

SaturatingInc(n) == IF n < AttemptBound THEN n + 1 ELSE n

ScheduleReconnect_Inverted(a) ==
  LET next == IF a < 0 THEN 0 ELSE SaturatingInc(a)
      giveUp == running \/ a + 1 >= MaxReconnectAttempts
  IN  /\ cpc' = IF giveUp THEN "off" ELSE "backoff"
      /\ attempt' = IF giveUp THEN attempt ELSE next

(* scheduleReconnect(a), a = -1 after a connection that lasted             *)
ScheduleReconnect(a) ==
  LET next == IF a < 0 THEN 0 ELSE SaturatingInc(a)
      giveUp == ~running \/ a + 1 >= MaxReconnectAttempts
  IN  /\ cpc' = IF giveUp THEN "off" ELSE "backoff"
      /\ attempt' = IF giveUp THEN attempt ELSE next

ConnectBegins ==
  /\ cpc = "begin"
  /\ existing' = session
  /\ cpc' = "open"
  /\ UNCHANGED <<flags, session, conn, queueOf, queue, cur, attempt, writer, keepalive,
                 sending, stpc, output>>

(* fetchDocInfo or the WebSocket dial fails.                               *)
OpenFails ==
  /\ cpc = "open"
  /\ ScheduleReconnect(attempt)
  /\ UNCHANGED <<flags, session, conn, queueOf, queue, existing, cur, writer, keepalive,
                 sending, stpc, output>>

NextConn == Cardinality({c \in Conns : conn[c] # "none"}) + 1

OpenSucceeds ==
  /\ cpc = "open"
  /\ NextConn \in Conns
  /\ conn' = [conn EXCEPT ![NextConn] = "open"]
  /\ cur' = NextConn
  /\ cpc' = "install"
  /\ UNCHANGED <<flags, session, queueOf, queue, existing, attempt, writer, keepalive,
                 sending, stpc, output>>

QueueFor_Fresh(old) == cur

(* The write queue of a session that replaces old.                         *)
QueueFor(old) == IF old = None THEN cur ELSE queueOf[old]

StartsWriter(old) == old = None

(* The new session inherits the queue of the one it replaces; only the     *)
(* first session starts a writer.  running is not looked at again.         *)
Install ==
  /\ cpc = "install"
  /\ session' = cur
  /\ connected' = TRUE
  /\ queueOf' = [queueOf EXCEPT ![cur] = QueueFor(existing)]
  /\ wpc' = IF StartsWriter(existing) THEN [wpc EXCEPT ![cur] = "capture"] ELSE wpc
  /\ cpc' = "read"
  /\ UNCHANGED <<running, conn, queue, existing, cur, attempt, wq, pending, wsnap, keepalive,
                 sending, stpc, output>>

ReadFails_StaysConnected(lasted) ==
  /\ cpc = "read"
  /\ conn[cur] \in {"broken", "closed"}
  /\ CloseConn(cur)
  /\ ScheduleReconnect(IF lasted THEN -1 ELSE attempt)
  /\ UNCHANGED <<flags, session, queueOf, queue, existing, cur, writer, keepalive, sending,
                 stpc, output>>

(* The read fails; lasted: the connection had been up for 15 s.  A panic    *)
(* in the read loop, which would end it without a reconnect (the recover at *)
(* its top), is left out: nothing the model speaks of raises one.           *)
ReadFails(lasted) ==
  /\ cpc = "read"
  /\ conn[cur] \in {"broken", "closed"}
  /\ connected' = FALSE
  /\ CloseConn(cur)
  /\ ScheduleReconnect(IF lasted THEN -1 ELSE attempt)
  /\ UNCHANGED <<running, session, queueOf, queue, existing, cur, writer, keepalive, sending,
                 stpc, output>>

(* The loop condition ends the reader without closing its connection.      *)
ReadEnds ==
  /\ cpc = "read" /\ ~running
  /\ cpc' = "off"
  /\ UNCHANGED <<flags, session, conn, queueOf, queue, existing, cur, attempt, writer,
                 keepalive, sending, stpc, output>>

BackoffEnds ==
  /\ cpc = "backoff"
  /\ cpc' = IF running THEN "begin" ELSE "off"
  /\ UNCHANGED <<flags, session, conn, queueOf, queue, existing, cur, attempt, writer,
                 keepalive, sending, stpc, output>>

-------------------------------------------------------------------------------
(* Writer started by session w *)

WriterCaptures(w) ==
  /\ wpc[w] = "capture"
  /\ \/ /\ ~running
        /\ wpc' = [wpc EXCEPT ![w] = "exit"] /\ UNCHANGED wq
     \/ /\ running /\ session # None
        /\ wpc' = [wpc EXCEPT ![w] = "top"]
        /\ wq' = [wq EXCEPT ![w] = queueOf[session]]
  /\ UNCHANGED <<flags, session, conn, queueOf, queue, connector, pending, wsnap, keepalive,
                 sending, stpc, output>>

WriterLoops_Unchecked(w) ==
  /\ wpc[w] = "top"
  /\ wpc' = [wpc EXCEPT ![w] = IF pending[w] = None THEN "take" ELSE "pick"]
  /\ UNCHANGED <<flags, session, conn, queueOf, queue, connector, wq, pending, wsnap,
                 keepalive, sending, stpc, output>>

WriterLoops(w) ==
  /\ wpc[w] = "top"
  /\ wpc' = [wpc EXCEPT ![w] = IF ~running THEN "exit"
                               ELSE IF pending[w] = None THEN "take" ELSE "pick"]
  /\ UNCHANGED <<flags, session, conn, queueOf, queue, connector, wq, pending, wsnap,
                 keepalive, sending, stpc, output>>

WriterTakes(w) ==
  /\ wpc[w] = "take"
  /\ queue[wq[w]] # <<>>
  /\ pending' = [pending EXCEPT ![w] = Head(queue[wq[w]])]
  /\ queue' = [queue EXCEPT ![wq[w]] = Tail(@)]
  /\ wpc' = [wpc EXCEPT ![w] = "pick"]
  /\ UNCHANGED <<flags, session, conn, queueOf, connector, wq, wsnap, keepalive, sending,
                 stpc, output>>

(* Without a session the packet is held back.                              *)
WriterPicks(w) ==
  /\ wpc[w] = "pick"
  /\ wsnap' = [wsnap EXCEPT ![w] = session]
  /\ wpc' = [wpc EXCEPT ![w] = IF session = None THEN "top" ELSE "write"]
  /\ UNCHANGED <<flags, session, conn, queueOf, queue, connector, wq, pending, keepalive,
                 sending, stpc, output>>

(* A write on a connection whose peer is gone may still succeed.           *)
CanWrite(c) == conn[c] \in {"open", "broken"}
CanFail(c) == conn[c] \in {"broken", "closed"}

WriteSucceeds_Repeats(w) ==
  /\ wpc[w] = "write" /\ CanWrite(wsnap[w])
  /\ written' = pending[w] /\ count' = count + 1
  /\ late' = IF running THEN late ELSE late + 1
  /\ wpc' = [wpc EXCEPT ![w] = "top"]
  /\ UNCHANGED <<flags, session, conn, queueOf, queue, connector, wq, pending, wsnap,
                 keepalive, sending, stpc>>

WriteSucceeds(w) ==
  /\ wpc[w] = "write" /\ CanWrite(wsnap[w])
  /\ written' = pending[w] /\ count' = count + 1
  /\ late' = IF running THEN late ELSE late + 1
  /\ pending' = [pending EXCEPT ![w] = None]
  /\ wpc' = [wpc EXCEPT ![w] = "top"]
  /\ UNCHANGED <<flags, session, conn, queueOf, queue, connector, wq, wsnap, keepalive,
                 sending, stpc>>

WriteFails_Drops(w) ==
  /\ wpc[w] = "write" /\ CanFail(wsnap[w])
  /\ pending' = [pending EXCEPT ![w] = None]
  /\ wpc' = [wpc EXCEPT ![w] = "top"]
  /\ UNCHANGED <<flags, session, conn, queueOf, queue, connector, wq, wsnap, keepalive,
                 sending, stpc, output>>

(* The packet stays pending for the next connection.                       *)
WriteFails(w) ==
  /\ wpc[w] = "write" /\ CanFail(wsnap[w])
  /\ wpc' = [wpc EXCEPT ![w] = "top"]
  /\ UNCHANGED <<flags, session, conn, queueOf, queue, connector, wq, pending, wsnap,
                 keepalive, sending, stpc, output>>

-------------------------------------------------------------------------------
(* Keep-alive *)

AfterTick == IF running THEN "wait" ELSE "off"

Tick ==
  /\ kpc = "wait"
  /\ ksnap' = session
  /\ kpc' = IF session = None THEN AfterTick ELSE "write"
  /\ UNCHANGED <<flags, session, conn, queueOf, queue, connector, writer, sending, stpc, output>>

(* A failed write clears connected, whatever session is current by then.   *)
KeepAlive(ok) ==
  /\ kpc = "write"
  /\ IF ok THEN CanWrite(ksnap) ELSE CanFail(ksnap)
  /\ connected' = (connected /\ ok)
  /\ kpc' = AfterTick
  /\ UNCHANGED <<running, session, conn, queueOf, queue, connector, writer, ksnap, sending,
                 stpc, output>>

-------------------------------------------------------------------------------
(* The network drops a connection; the last one the bound allows stays up. *)
Break(c) ==
  /\ conn[c] = "open" /\ c < MaxConns
  /\ conn' = [conn EXCEPT ![c] = "broken"]
  /\ UNCHANGED <<flags, session, queueOf, queue, connector, writer, keepalive, sending, stpc,
                 output>>

Connector ==
  \/ ConnectBegins \/ OpenFails \/ OpenSucceeds \/ Install
  \/ \E lasted \in BOOLEAN : ReadFails(lasted)
  \/ ReadEnds \/ BackoffEnds

Writer(w) ==
  \/ WriterCaptures(w) \/ WriterLoops(w) \/ WriterTakes(w) \/ WriterPicks(w)
  \/ WriteSucceeds(w) \/ WriteFails(w)

Sender == SendChecks \/ SendReadsSession \/ SendEnqueues

Next ==
  \/ Start \/ StopFlags \/ StopSession
  \/ Sender
  \/ Connector
  \/ \E w \in Conns : Writer(w)
  \/ Tick \/ \E ok \in BOOLEAN : KeepAlive(ok)
  \/ \E c \in Conns : Break(c)

Spec == Init /\ [][Next]_vars

(* Goroutines are scheduled, sleeps end, a broken connection is noticed by *)
(* a read (deadline of 60 s or TCP keep-alive), and an endpoint that is    *)
(* dialled again and again is reached.                                     *)
FairSpec ==
  /\ Spec
  /\ WF_vars(Connector) /\ SF_vars(OpenSucceeds)
  /\ \A w \in Conns : WF_vars(Writer(w))

-------------------------------------------------------------------------------
(* Properties *)

Elems(s) == {s[i] : i \in DOMAIN s}

Held == (UNION {Elems(queue[c]) : c \in Conns}) \cup ({pending[w] : w \in Conns} \ {None})

(* An accepted packet waits in a queue or in the writer's hand until it    *)
(* has been written, through every reconnect and through Stop              *)
(* (yandex.go:249-275: "keep pending; the reconnect will bring up a new    *)
(* conn"; mailru.go:309: "hold the packet and retry rather than drop it"). *)
HeldUntilWritten == {p \in accepted : p > written} = Held

(* Packets reach the connections in the order of the Send calls and none   *)
(* is written twice, whatever connections break in between: the transport  *)
(* is a lossy FIFO up to the socket (yandex.go:99-119 and 233-276).        *)
Socket == INSTANCE LossyFifo WITH last <- written
FifoToSocket == Socket!Spec

(* While the transport runs it holds at most one connection: the read loop *)
(* closes the old one before a new one is dialled (yandex.go:215-225).     *)
OneConnection ==
  running => Cardinality({c \in Conns : conn[c] \in {"open", "broken"}}) <= 1

(* connected is true only while the read loop serves the session that Send *)
(* will use (yandex.go:192-195 and 218).                                   *)
ConnectedIsServed ==
  running /\ connected => cpc = "read" /\ session = cur /\ session # None

(* Stop does not interrupt the writer, but at most one packet is written   *)
(* after it (yandex.go:250).                                               *)
OneLatePacket == late <= 1

(* As long as the transport is not stopped and reconnecting is allowed to  *)
(* go on, an accepted packet is written in the end.                        *)
EventuallyWritten ==
  \A p \in Packets : (running /\ p \in accepted) ~> (~running \/ written >= p)

(* A lost connection is replaced by a later one that works                 *)
(* (yandex.go:353-368).                                                    *)
Recovers ==
  \A c \in Conns : (running /\ session = c /\ conn[c] = "broken")
                     ~> (~running \/ \E d \in Conns : d > c /\ session = d /\ conn[d] = "open")
=============================================================================
