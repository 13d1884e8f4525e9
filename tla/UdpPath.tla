------------------------------- MODULE UdpPath -------------------------------
(***************************************************************************)
(* UDP on the phone.  tun2socks takes a datagram from the device: a query   *)
(* to port 53 goes to the local resolver (pdnsd) and its answer comes back  *)
(* over the device; any other datagram goes to a UDP socket of              *)
(* SocksUdpGwClient.c (built with ANDROID_UDP), whose peer is the relay of  *)
(* HysteriaUdpRelay.kt, which keeps one SOCKS association, a flow, for each *)
(* socket it hears from.                                                    *)
(***************************************************************************)
EXTENDS Naturals, FiniteSets, SequencesExt

CONSTANTS Locals,         \* addresses of applications
          Remotes,        \* addresses they talk to
          MaxConnections, \* max_connections of the client: sockets to the relay
          MaxFlows,       \* MAX_FLOWS of the relay
          Ports, Servers, \* source ports of queries, name servers they are sent to
          MaxPackets      \* bound: packets the device takes from applications

ASSUME UdpSizes == MaxConnections \in Nat \ {0} /\ MaxFlows \in Nat

VARIABLES
  connections,  \* connections_list: the least recently used first
  working,      \* datagrams in the relay's workers, in no order
  flows,        \* the sockets that have a flow in the relay
  inbox,        \* datagrams the relay has sent back to a socket
  delivered,    \* <<local, remote>> of what the last datagram wrote to the device
  used,         \* history: the pairs that were given a socket, most recent last
  entries,      \* connections_tree: a port, the server of its answers and a count
  queries       \* history: the queries, and what became of them

relayVars == <<connections, working, flows, inbox, delivered, used>>
dnsVars == <<entries, queries>>
udpVars == <<connections, working, flows, inbox, delivered, used, entries, queries>>

Socks == 1..MaxConnections

UdpTypeOK ==
  /\ connections \in Seq([local : Locals, remote : Remotes, sock : Socks])
  /\ working \in SUBSET [sock : Socks, to : Remotes]
  /\ inbox \in SUBSET [sock : Socks, from : Remotes]
  /\ flows \in SUBSET Socks /\ delivered \in SUBSET (Locals \X Remotes)
  /\ used \in Seq(Locals \X Remotes)
  /\ entries \in SUBSET [port : Ports, server : Servers, count : 1..MaxPackets]

UdpInit ==
  /\ connections = <<>> /\ working = {} /\ flows = {} /\ inbox = {}
  /\ delivered = {} /\ used = <<>>
  /\ entries = {} /\ queries = {}

-----------------------------------------------------------------------------
(* SocksUdpGwClient.c *)

Pair(c) == <<c.local, c.remote>>
Find(l, r) == {i \in DOMAIN connections : Pair(connections[i]) = <<l, r>>}

Serve_NoTouch(l, r) ==
  LET rebound == [Head(connections) EXCEPT !.local = l, !.remote = r]
      fresh == [local |-> l, remote |-> r, sock |-> Len(connections) + 1]
  IN IF Find(l, r) # {} THEN connections
     ELSE IF Len(connections) = MaxConnections THEN Append(Tail(connections), rebound)
     ELSE Append(connections, fresh)

(* The connection that serves the pair from now on, and the list after it:  *)
(* the one that is bound to it, or, when there is no room for another, the  *)
(* least recently used one with its address changed and its socket kept, or *)
(* a new one.                                                               *)
Serve(l, r) ==
  LET i == CHOOSE i \in Find(l, r) : TRUE
      rebound == [Head(connections) EXCEPT !.local = l, !.remote = r]
      fresh == [local |-> l, remote |-> r, sock |-> Len(connections) + 1]
  IN IF Find(l, r) # {} THEN Append(RemoveAt(connections, i), connections[i])
     ELSE IF Len(connections) = MaxConnections THEN Append(Tail(connections), rebound)
     ELSE Append(connections, fresh)

Room == Cardinality(queries) + Len(used) < MaxPackets

(* The datagram is queued to the socket or dropped ("out of UDP buffer").   *)
(* When a new socket cannot be had it is lost and nothing changes: that is  *)
(* a step that stutters, and no disjunct here.                              *)
SubmitPacket(l, r) ==
  /\ Room
  /\ connections' = Serve(l, r)
  /\ used' = Append(used, <<l, r>>)
  /\ \E sent \in SUBSET {[sock |-> Last(connections').sock, to |-> r]} :
       working' = working \cup sent
  /\ UNCHANGED <<flows, inbox, delivered, dnsVars>>

Matches_AnySender(c, d) == c.sock = d.sock

Matches(c, d) == c.sock = d.sock /\ c.remote = d.from

HandlerReceived(d) ==
  /\ inbox' = inbox \ {d}
  /\ delivered' = {<<c.local, d.from>> : c \in {c \in Range(connections) : Matches(c, d)}}
  /\ UNCHANGED <<connections, working, flows, used, dnsVars>>

(* HysteriaUdpRelay.kt: a worker finds or opens the flow of the source and  *)
(* sends; when the table is full, the association cannot be opened or the   *)
(* flow was closed in between, the datagram is lost.                        *)
CanOpen(s) == s \in flows \/ Cardinality(flows) < MaxFlows

Forward(d) ==
  /\ working' = working \ {d}
  /\ \/ CanOpen(d.sock) /\ flows' = flows \cup {d.sock}
     \/ UNCHANGED flows
  /\ UNCHANGED <<connections, inbox, delivered, used, dnsVars>>

(* startReceiver: the association takes a datagram from the destination of  *)
(* an earlier one or from anybody else who learns its address, as long as   *)
(* the flow is open.                                                        *)
Reply(s, r) ==
  /\ s \in flows
  /\ inbox' = inbox \cup {[sock |-> s, from |-> r]}
  /\ UNCHANGED <<connections, working, flows, delivered, used, dnsVars>>

(* An idle flow is closed; the association and what comes for it are lost.  *)
CloseExpired(s) ==
  /\ flows' = flows \ {s}
  /\ UNCHANGED <<connections, working, inbox, delivered, used, dnsVars>>

-----------------------------------------------------------------------------
(* The DNS gateway of tun2socks.c. *)

Unanswered(p) == {q \in queries : q.port = p /\ q.state # "answered"}

FindConnection(p) == {e \in entries : e.port = p}
Recount(e, n) == (entries \ {e}) \cup {[e EXCEPT !.count = n]}

InsertConnection_NoCount(p, server) ==
  IF FindConnection(p) = {}
  THEN entries' = entries \cup {[port |-> p, server |-> server, count |-> 1]}
  ELSE UNCHANGED entries

InsertConnection(p, server) ==
  IF FindConnection(p) = {}
  THEN entries' = entries \cup {[port |-> p, server |-> server, count |-> 1]}
  ELSE \E e \in FindConnection(p) : entries' = Recount(e, e.count + 1)

RemoveConnection(e) ==
  entries' = IF e.count - 1 <= 0 THEN entries \ {e} ELSE Recount(e, e.count - 1)

ToDns(p, server) ==
  /\ Room
  /\ InsertConnection(p, server)
  /\ queries' = queries \cup
       {[id |-> Cardinality(queries), port |-> p, asked |-> server, state |-> "asked",
         overlaps |-> Unanswered(p) # {}, as |-> server]}
  /\ UNCHANGED relayVars

(* The resolver's answer is written to the device with the server of the    *)
(* entry as its source; without an entry it is not taken for an answer.     *)
FromDns(q) ==
  /\ q.state = "asked"
  /\ \E e \in FindConnection(q.port) :
       /\ queries' = (queries \ {q}) \cup
            {[q EXCEPT !.state = "answered", !.as = e.server]}
       /\ RemoveConnection(e)
  /\ UNCHANGED relayVars

(* The resolver gives up on a query without an answer. *)
ResolverDrops(q) ==
  /\ q.state = "asked"
  /\ queries' = (queries \ {q}) \cup {[q EXCEPT !.state = "lost"]}
  /\ UNCHANGED <<relayVars, entries>>

RelayNext ==
  \/ \E l \in Locals, r \in Remotes : SubmitPacket(l, r)
  \/ \E d \in inbox : HandlerReceived(d)
  \/ \E d \in working : Forward(d)
  \/ \E s \in flows, r \in Remotes : Reply(s, r)
  \/ \E s \in flows : CloseExpired(s)

DnsNext ==
  \/ \E p \in Ports, server \in Servers : ToDns(p, server)
  \/ \E q \in queries : FromDns(q) \/ ResolverDrops(q)

-----------------------------------------------------------------------------
(* An application only gets datagrams from addresses it has sent to, though *)
(* sockets change owners while replies are under way and a flow of the      *)
(* relay takes datagrams from anybody.                                      *)
Solicited == delivered \subseteq Range(used)

(* The pairs that have a socket are the ones used last, as many as there    *)
(* are sockets, and no two of them share one: a busy flow never loses its   *)
(* socket to a new one while an idler flow keeps its own.                   *)
LastUse(f) == CHOOSE i \in DOMAIN used : used[i] = f /\ \A j \in i + 1..Len(used) : used[j] # f

RecentKept ==
  LET bound == {Pair(c) : c \in Range(connections)}
  IN /\ \A f \in bound, g \in Range(used) \ bound : LastUse(g) < LastUse(f)
     /\ Cardinality(bound) = Len(connections)
     /\ Cardinality({c.sock : c \in Range(connections)}) = Len(connections)

(* The entry of a port counts exactly the queries nobody has answered, so   *)
(* that an answer always finds it, and a query that was alone on its port   *)
(* when it was sent is answered in the name of the server it was sent to.   *)
DnsAttributed ==
  /\ \A p \in Ports :
       {e.count : e \in FindConnection(p)} = {Cardinality(Unanswered(p))} \ {0}
  /\ \A q \in queries : q.overlaps \/ q.as = q.asked
=============================================================================
