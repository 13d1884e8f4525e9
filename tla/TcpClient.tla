------------------------------ MODULE TcpClient ------------------------------
(***************************************************************************)
(* struct tcp_client of tun2socks.c: one TCP connection of an application,  *)
(* terminated in the tunnel by lwIP, and the SOCKS connection that carries  *)
(* its bytes on.  Everything runs on one reactor thread, so that an action  *)
(* is one event (a segment from the device, an event of the socket, a       *)
(* timer of lwIP) together with every callback and every job it causes.     *)
(*                                                                         *)
(* A unit of data stands for any number of bytes; the units of a direction  *)
(* are numbered 1, 2, ... in the order they were sent.                      *)
(***************************************************************************)
EXTENDS Naturals, SequencesExt

CONSTANTS Window,     \* TCP_WND: the receive window and the size of buf
          SndBuf,     \* TCP_SND_BUF
          RecvBuf,    \* CLIENT_SOCKS_RECV_BUF_SIZE
          MaxUp,      \* bound: units the application sends
          MaxDown     \* bound: units the server sends

ASSUME TcpSizes == {Window, SndBuf, RecvBuf} \subseteq Nat \ {0}

VARIABLES client,     \* the struct tcp_client
          pcb,        \* lwIP's side of the application's connection
          sock,       \* the SOCKS connection
          app,        \* what the application did and got
          quitting    \* terminate was called

tcpVars == <<client, pcb, sock, app, quitting>>

Ids(n) == [i \in 1..n |-> i]

TcpTypeOK ==
  /\ client \in [alive : BOOLEAN, closed : BOOLEAN, up : BOOLEAN, socksClosed : BOOLEAN,
                 buf : Seq(1..MaxUp), sending : BOOLEAN,
                 rbuf : Seq(1..MaxDown), receiving : BOOLEAN, pending : 0..MaxDown]
  /\ pcb \in [state : {"LISTEN", "ESTABLISHED", "CLOSE_WAIT", "CLOSED"}, rcvWnd : 0..Window,
              unacked : Seq(1..MaxDown), recvCb : BOOLEAN]
  /\ sock \in [state : {"CONNECTING", "UP", "FREED"}, written : Seq(1..MaxUp),
               in : Seq(1..MaxDown), made : 0..MaxDown, eof : BOOLEAN, down : BOOLEAN]
  /\ app \in [sent : 0..MaxUp, got : Seq(1..MaxDown), fin : BOOLEAN, dead : BOOLEAN]
  /\ quitting \in BOOLEAN

TcpInit ==
  /\ client = [alive |-> FALSE, closed |-> FALSE, up |-> FALSE, socksClosed |-> FALSE,
               buf |-> <<>>, sending |-> FALSE, rbuf |-> <<>>, receiving |-> FALSE, pending |-> 0]
  /\ pcb = [state |-> "LISTEN", rcvWnd |-> Window, unacked |-> <<>>, recvCb |-> FALSE]
  /\ sock = [state |-> "CONNECTING", written |-> <<>>, in |-> <<>>, made |-> 0,
             eof |-> FALSE, down |-> FALSE]
  /\ app = [sent |-> 0, got |-> <<>>, fin |-> FALSE, dead |-> FALSE]
  /\ quitting = FALSE

-----------------------------------------------------------------------------
(* The functions of tun2socks.c, which call each other, as functions of the *)
(* whole state t.                                                           *)

Now == [client |-> client, pcb |-> pcb, sock |-> sock, app |-> app]

Becomes(t) ==
  /\ client' = t.client /\ pcb' = t.pcb /\ sock' = t.sock /\ app' = t.app
  /\ UNCHANGED quitting

Dealloc(t) == [t EXCEPT !.client.alive = FALSE]

BSocksClient_Free(t) ==
  [t EXCEPT !.client.socksClosed = TRUE, !.client.sending = FALSE,
            !.client.receiving = FALSE, !.sock.state = "FREED"]

HandleFreedClient_Drops(t) ==
  LET closed == [t EXCEPT !.client.closed = TRUE]
  IN Dealloc(IF closed.client.socksClosed THEN closed ELSE BSocksClient_Free(closed))

(* The client is closed already: the remaining half of the connection goes  *)
(* at once unless the buffer holds data that SOCKS can still take.          *)
HandleFreedClient(t) ==
  LET closed == [t EXCEPT !.client.closed = TRUE]
  IN IF closed.client.socksClosed THEN Dealloc(closed)
     ELSE IF closed.client.buf # <<>> THEN closed
     ELSE Dealloc(BSocksClient_Free(closed))

(* tcp_close and tcp_abort: from here on the pcb belongs to lwIP alone. *)
LetGo(t) == [t EXCEPT !.pcb.state = "CLOSED"]

FreeClient(t) == HandleFreedClient(LetGo(t))

(* Is there data for the application that can still be sent? *)
Draining(t) ==
  t.client.up /\ (t.client.rbuf # <<>> \/ t.client.pending > 0)

FreeSocks(t) ==
  LET freed == BSocksClient_Free(t)
  IN IF t.client.closed THEN Dealloc(freed)
     ELSE LET deaf == [freed EXCEPT !.pcb.recvCb = ~t.client.up]
          IN IF Draining(t) THEN deaf ELSE FreeClient(deaf)

(* StreamPassInterface_Sender_Send and StreamRecvInterface_Receiver_Recv    *)
(* start an operation that a job or an event of the socket completes.       *)
SendToSocks(t) == [t EXCEPT !.client.sending = TRUE]
RecvInitiate(t) == [t EXCEPT !.client.receiving = TRUE]

SendDone_NoCredit(t, n) ==
  LET rest == SubSeq(t.client.buf, n + 1, Len(t.client.buf))
      sent == [t EXCEPT !.client.buf = rest, !.client.sending = rest # <<>>,
                        !.sock.written = @ \o SubSeq(t.client.buf, 1, n)]
  IN IF rest = <<>> /\ t.client.closed THEN FreeSocks(sent) ELSE sent

SendDone_Leaves(t, n) ==
  LET rest == SubSeq(t.client.buf, n + 1, Len(t.client.buf))
  IN [t EXCEPT !.client.buf = rest, !.client.sending = rest # <<>>,
               !.sock.written = @ \o SubSeq(t.client.buf, 1, n),
               !.pcb.rcvWnd = IF t.client.closed THEN @ ELSE @ + n]

(* client_socks_send_handler_done: the socket took n units of the buffer. *)
SendDone(t, n) ==
  LET rest == SubSeq(t.client.buf, n + 1, Len(t.client.buf))
      sent == [t EXCEPT !.client.buf = rest, !.client.sending = rest # <<>>,
                        !.sock.written = @ \o SubSeq(t.client.buf, 1, n),
                        !.pcb.rcvWnd = IF t.client.closed THEN @ ELSE @ + n]
  IN IF rest = <<>> /\ t.client.closed THEN FreeSocks(sent) ELSE sent

(* A connection that lwIP cannot serve is reset. *)
AbortClient(t) == HandleFreedClient([LetGo(t) EXCEPT !.app.dead = TRUE])

(* client_socks_recv_send_out: lwIP queues n units of the receive buffer,   *)
(* at most as many as its send buffer has room for, and fewer when it is    *)
(* short of memory.  The rest waits for a confirmation, if one is due.      *)
Writable(t) ==
  LET room == SndBuf - Len(t.pcb.unacked)
  IN {n \in 0..Len(t.client.rbuf) : n <= room}

SendOut(t, n) ==
  IF n = 0 /\ t.client.pending = 0 THEN AbortClient(t)
  ELSE [t EXCEPT !.pcb.unacked = @ \o SubSeq(t.client.rbuf, 1, n),
                 !.client.pending = @ + n,
                 !.client.rbuf = SubSeq(@, n + 1, Len(@))]

Continue(t) ==
  IF t.client.rbuf = <<>> /\ ~t.client.socksClosed THEN RecvInitiate(t) ELSE t

(* client_socks_recv_handler_done: n units came from the socket. *)
RecvDone(t, n) ==
  LET data == SubSeq(t.sock.in, 1, n)
      read == [t EXCEPT !.client.receiving = FALSE,
                        !.sock.in = SubSeq(@, n + 1, Len(@)),
                        !.client.rbuf = IF t.client.closed THEN <<>> ELSE data]
  IN IF t.client.closed THEN {read}
     ELSE {Continue(SendOut(read, k)) : k \in Writable(read)}

(* client_socks_handler, ERROR and ERROR_CLOSED: an orderly end of SOCKS    *)
(* comes here as well, and sets down like a failure.                        *)
SocksDown(t) == FreeSocks([t EXCEPT !.sock.down = TRUE])

(* What BConnection does with an operation when it gets to it. *)
Writes(t) ==
  IF ~t.client.sending THEN {} ELSE {SendDone(t, n) : n \in 1..Len(t.client.buf)}
Reads(t) ==
  IF ~t.client.receiving THEN {}
  ELSE (UNION {RecvDone(t, n) : n \in 1..(IF Len(t.sock.in) < RecvBuf
                                          THEN Len(t.sock.in) ELSE RecvBuf)})
       \cup (IF t.sock.eof /\ t.sock.in = <<>> THEN {SocksDown(t)} ELSE {})

(* SYNC_COMMIT runs the jobs at once: the operation is done, fails or waits. *)
SyncSend(t) == {t, SocksDown(t)} \cup Writes(t)
SyncRecv(t) == {t, SocksDown(t)} \cup Reads(t)
-----------------------------------------------------------------------------
(* The callbacks of lwIP. *)

Ack(t, n) == [t EXCEPT !.app.got = @ \o SubSeq(t.pcb.unacked, 1, n),
                       !.pcb.unacked = SubSeq(@, n + 1, Len(@))]

SentFunc(t, n) ==
  LET t1 == [t EXCEPT !.client.pending = @ - n]
  IN IF t1.client.rbuf # <<>>
     THEN UNION {LET t2 == SendOut(t1, k)
                 IN IF Continue(t2) = t2 THEN {t2} ELSE SyncRecv(Continue(t2))
                 : k \in Writable(t1)}
     ELSE IF t1.client.socksClosed /\ t1.client.pending = 0 THEN {FreeClient(t1)}
     ELSE {t1}

Fits(t, n) == n <= Window - Len(t.client.buf)

(* Without a callback (tcp_recv_null) the data is confirmed and dropped.    *)
RecvFunc(t, n) ==
  LET t1 == [t EXCEPT !.app.sent = @ + n, !.pcb.rcvWnd = @ - n]
      t2 == [t1 EXCEPT !.client.buf = @ \o [i \in 1..n |-> t.app.sent + i]]
  IN IF ~t.pcb.recvCb THEN {[t EXCEPT !.app.sent = @ + n]}
     ELSE IF ~Fits(t, n) THEN {t1}
     ELSE IF t.client.buf = <<>> /\ t.client.up THEN SyncSend(SendToSocks(t2))
     ELSE {t2}

RecvFin(t) ==
  LET t1 == [t EXCEPT !.app.fin = TRUE, !.pcb.state = "CLOSE_WAIT"]
  IN IF t.pcb.recvCb THEN {FreeClient(t1)} ELSE {t1}

(* tcp_input: one segment may confirm n units, carry m units and the FIN.   *)
(* A callback that returned ERR_ABRT ends its processing.                   *)
Then(T, wanted, F(_)) ==
  UNION {IF wanted /\ t.pcb.state # "CLOSED" THEN F(t) ELSE {t} : t \in T}

Input(t, n, m, fin) ==
  LET acked == Then({Ack(t, n)}, n > 0, LAMBDA u : SentFunc(u, n))
      taken == Then(acked, m > 0, LAMBDA u : RecvFunc(u, m))
  IN Then(taken, fin, RecvFin)

-----------------------------------------------------------------------------
Held == client.alive /\ ~client.closed

Accept ==
  /\ pcb.state = "LISTEN" /\ ~quitting
  /\ LET t == [Now EXCEPT !.client.alive = TRUE, !.pcb.state = "ESTABLISHED",
                          !.pcb.recvCb = TRUE]
     IN \E u \in {t, SocksDown(t)} : Becomes(u)

Segment(n, m, fin) ==
  /\ Held /\ (n + m > 0 \/ fin)
  /\ n <= Len(pcb.unacked) /\ m <= pcb.rcvWnd /\ app.sent + m <= MaxUp
  /\ (m > 0 \/ fin) => ~app.fin
  /\ \E t \in Input(Now, n, m, fin) : Becomes(t)

(* A reset, or lwIP gave up: the pcb is gone already. *)
ErrFunc ==
  /\ Held
  /\ Becomes(AbortClient(Now))

SocksUp_OnlyReceives ==
  /\ client.alive /\ sock.state = "CONNECTING"
  /\ LET t == [Now EXCEPT !.client.up = TRUE, !.sock.state = "UP"]
     IN Becomes(IF client.closed THEN t ELSE RecvInitiate(t))

SocksUp ==
  /\ client.alive /\ sock.state = "CONNECTING"
  /\ LET t1 == [Now EXCEPT !.client.up = TRUE, !.sock.state = "UP"]
         t2 == IF client.buf # <<>> THEN SendToSocks(t1) ELSE t1
     IN Becomes(IF client.closed THEN t2 ELSE RecvInitiate(t2))

SocksError == client.alive /\ ~client.socksClosed /\ Becomes(SocksDown(Now))

SocketWrites == \E t \in Writes(Now) : Becomes(t)
SocketReads == \E t \in Reads(Now) : Becomes(t)

ServerSends ==
  /\ sock.state = "UP" /\ ~sock.eof /\ sock.made < MaxDown
  /\ sock' = [sock EXCEPT !.made = @ + 1, !.in = Append(@, sock.made + 1)]
  /\ UNCHANGED <<client, pcb, app, quitting>>

ServerCloses ==
  /\ sock.state = "UP" /\ ~sock.eof
  /\ sock' = [sock EXCEPT !.eof = TRUE]
  /\ UNCHANGED <<client, pcb, app, quitting>>

(* terminate, and client_murder for every client when the loop has ended. *)
Murder(t) == Dealloc(BSocksClient_Free([LetGo(t) EXCEPT !.client.closed = TRUE]))

Quit ==
  /\ ~quitting /\ quitting' = TRUE
  /\ LET t == IF client.alive THEN Murder(Now) ELSE Now
     IN client' = t.client /\ pcb' = t.pcb /\ sock' = t.sock /\ app' = t.app

Segments == \E n \in 0..SndBuf, m \in 0..Window, fin \in BOOLEAN : Segment(n, m, fin)

TcpNext ==
  \/ Accept \/ Segments \/ ErrFunc \/ SocksUp \/ SocksError \/ SocketWrites \/ SocketReads
  \/ ServerSends \/ ServerCloses

(* The peers make progress or the connection to them is found broken, as    *)
(* long as something is under way: connecting ends, a socket that is        *)
(* written to becomes writable or fails, and the application confirms what  *)
(* it was sent, or its side breaks.  For a connection that answers nothing, *)
(* lwIP sees to that: it retransmits a bounded number of times.  It is an   *)
(* assumption about an application that stops reading, for lwIP's probes of *)
(* a closed window never end (tcp.c:897-907), and about a SOCKS server that *)
(* accepts and stays silent, for the handshake has no timeout.  An idle     *)
(* connection owes nothing.                                                 *)
Connects == SocksUp \/ (sock.state = "CONNECTING" /\ SocksError)
Progresses == SocketWrites \/ (client.sending /\ SocksError)
Confirms == pcb.unacked # <<>> /\ (ErrFunc \/ \E n \in 1..SndBuf : Segment(n, 0, FALSE))

TcpFairness == WF_tcpVars(Connects) /\ WF_tcpVars(Progresses) /\ WF_tcpVars(Confirms)

-----------------------------------------------------------------------------
Gone == ~client.alive /\ pcb.state # "LISTEN" /\ ~quitting
ReadSoFar == Ids(sock.made - Len(sock.in))

(* Nothing is lost, repeated or reordered in either direction while the     *)
(* client holds both halves, and the two counters that two sets of          *)
(* callbacks keep agree: what lwIP may still receive is what the buffer has  *)
(* room for ("no buffer for data" never happens), and the pending count is  *)
(* what lwIP has not confirmed (the assertions of client_sent_func).        *)
Accounts ==
  Held =>
    /\ client.pending = Len(pcb.unacked)
    /\ app.got \o pcb.unacked \o client.rbuf = ReadSoFar
    /\ ~client.socksClosed => /\ pcb.rcvWnd + Len(client.buf) = Window
                              /\ sock.written \o client.buf = Ids(app.sent)

(* When the client has gone, nothing it took on from either side is missing *)
(* on the other.  If SOCKS did not fail, everything the application sent    *)
(* has been written to SOCKS, also when the application closed or reset its *)
(* connection while SOCKS was still connecting or slow; if the application  *)
(* neither closed nor broke its half, it has confirmed everything that was  *)
(* read from SOCKS: the end of the SOCKS connection does not overtake the   *)
(* data before it.                                                          *)
NothingLost ==
  Gone => /\ ~sock.down => sock.written = Ids(app.sent)
          /\ ~app.fin /\ ~app.dead => app.got = ReadSoFar

(* No direction waits for an event that will not come: an operation is      *)
(* outstanding exactly when there is something to do, and a receive buffer  *)
(* that could not be emptied waits for a confirmation that is due.          *)
NoStall ==
  client.alive =>
    /\ client.up /\ ~client.socksClosed => (client.sending <=> client.buf # <<>>)
    /\ Held /\ client.up /\ ~client.socksClosed =>
         (client.receiving <=> client.rbuf = <<>>) /\ (client.rbuf # <<>> => client.pending > 0)
    /\ Held /\ client.socksClosed => client.pending > 0

(* A client one half of which has gone is removed. *)
Removed == (client.alive /\ (client.closed \/ client.socksClosed)) ~> ~client.alive
=============================================================================
