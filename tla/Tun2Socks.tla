------------------------------ MODULE Tun2Socks ------------------------------
(***************************************************************************)
(* The tun2socks process: one reactor, one device.  A packet of the device  *)
(* belongs to a TCP connection (TcpClient), to the DNS gateway or to the    *)
(* UDP client (UdpPath).  The three share the reactor's thread and no       *)
(* state, so that a behaviour with all of them is an interleaving of one of *)
(* each; "traffic" says which of them the device carries in a behaviour,    *)
(* which keeps the instance as large as the sum of the three and not as     *)
(* their product.  terminate ends them all.                                 *)
(***************************************************************************)
EXTENDS TcpClient, UdpPath

VARIABLE traffic

vars == <<tcpVars, udpVars, traffic>>

Init ==
  /\ TcpInit /\ UdpInit
  /\ traffic \in {"tcp", "udp", "dns"}

Quits == Quit /\ UNCHANGED udpVars

Next ==
  /\ UNCHANGED traffic
  /\ \/ traffic = "tcp" /\ TcpNext /\ UNCHANGED udpVars
     \/ traffic = "udp" /\ ~quitting /\ RelayNext /\ UNCHANGED tcpVars
     \/ traffic = "dns" /\ ~quitting /\ DnsNext /\ UNCHANGED tcpVars
     \/ Quits

TypeOK == TcpTypeOK /\ UdpTypeOK /\ traffic \in {"tcp", "udp", "dns"}

Spec == Init /\ [][Next]_vars
FairSpec == Spec /\ TcpFairness
=============================================================================
