----------------------------- MODULE DeviceProofs -----------------------------
(***************************************************************************)
(* The two programs that take over the traffic of the device they run on,  *)
(* and must give it back: the client on macOS, which overrides the default *)
(* route (MacRoutes), and the VPN service on Android (VpnSession).         *)
(***************************************************************************)
EXTENDS MacRoutes, VpnSession, SequenceTheorems, TLAPS

-----------------------------------------------------------------------------
(* MacRoutes.  Only the client's shutdown and its start change what an    *)
(* override may be there for, so each part ties a route to where main and  *)
(* the watcher are.                                                        *)

(* The watcher lives between the setup and the moment main has seen it end. *)
WatchedOnly == watcher # "off" => main \in {"run", "stop"}

(* Whoever comes past SaveDefault has saved a route.                       *)
SavedFirst == main \notin {"off", "save", "done"} => saved

(* The overrides of earlier runs are purged before the watcher starts.     *)
Purged == main = "setup" => High \notin routes

(* The watcher takes the default route once, after it was stable.          *)
TakenWhenStable == watcher \in {"take low", "take high", "start"} => fired

(* The second override is there from TakeHigh on, and forwarding follows.  *)
HighIsServed ==
  main \in {"run", "stop"} /\ High \in routes => fired /\ (forwarding \/ watcher = "start")

(* RestoreDefault works its way through the overrides.                     *)
LowGone == main \in {"restore high", "restore"} => Low \notin routes
HighGone == main = "restore" => High \notin routes

RoutesInv ==
  /\ RoutesTypeOK /\ WatchedOnly /\ SavedFirst /\ Purged /\ TakenWhenStable /\ HighIsServed
  /\ LowGone /\ HighGone

-----------------------------------------------------------------------------

(* An override is no bypass route.                                         *)
LEMMA RouteNames ==
  /\ MaxRuns \in Nat
  /\ Overrides = {Low, High} /\ Low # High
  /\ Low \notin Hosts /\ High \notin Hosts
BY RoutesAssumption DEF Overrides, Low, High

(* The two counters stay within their bounds.                               *)
LEMMA CountersKept ==
  ASSUME runs \in 0..MaxRuns, stable \in 0..3, [RoutesNext]_routeVars
  PROVE  runs' \in 0..MaxRuns /\ stable' \in 0..3
<1> USE DEF watch
<1>1. Main => (Launch \/ UNCHANGED runs) /\ (stable' = 0 \/ UNCHANGED stable)
  BY DEF Main, Shutdown, Launch, SaveDefault, Dies, PurgeLow, PurgeHigh, Deletes,
     SetupInterface, Signal, Close, CloseLow, CloseHigh, Down, RestoreLow, RestoreHigh, Restore
<1>2. Watcher => UNCHANGED runs /\ stable' \in {0, 1, stable, Aged(stable)}
  BY DEF Watcher, Snapshot, SnapshotFails, TakeLow, TakeHigh, StartForwarding, WatcherExits
<1>3. SocketsChange \/ DefaultChanges \/ Kill \/ UNCHANGED routeVars => UNCHANGED <<runs, stable>>
  BY DEF SocketsChange, DefaultChanges, Kill, Dies, routeVars
<1>4. Launch => runs' \in 0..MaxRuns
  BY RouteNames DEF Launch
<1>5. Aged(stable) \in 0..3
  BY DEF Aged
<1>6. (Launch \/ UNCHANGED runs) /\ stable' \in {0, 1, stable, Aged(stable)}
  BY <1>1, <1>2, <1>3 DEF RoutesNext
<1>7. QED  BY <1>4, <1>5, <1>6

(* From the launch of a process to the signal that ends it.                *)
LEMMA StartKeeps == ASSUME RoutesInv, \/ Launch \/ SaveDefault \/ PurgeLow \/ PurgeHigh \/ SetupInterface \/ Signal PROVE RoutesInv'
<1>0. runs' \in 0..MaxRuns /\ stable' \in 0..3
  BY CountersKept DEF RoutesInv, RoutesTypeOK, RoutesNext, Main
<1> USE <1>0, RouteNames DEF RoutesInv, RoutesTypeOK, WatchedOnly, SavedFirst, Purged, TakenWhenStable,
            HighIsServed, LowGone, HighGone, kernel, client, watch
<1>1. CASE Launch
  BY <1>1 DEF Launch
<1>2. CASE SaveDefault
  BY <1>2 DEF SaveDefault, Dies
<1>3. CASE PurgeLow
  BY <1>3 DEF PurgeLow, Deletes
<1>4. CASE PurgeHigh
  BY <1>4 DEF PurgeHigh, Deletes
<1>5. CASE SetupInterface
  BY <1>5 DEF SetupInterface, Dies
<1>6. CASE Signal
  BY <1>6 DEF Signal
<1> QED  BY <1>1, <1>2, <1>3, <1>4, <1>5, <1>6

(* Close and RestoreDefault.                                               *)
LEMMA ShutdownKeeps == ASSUME RoutesInv, Shutdown PROVE RoutesInv'
<1>0. runs' \in 0..MaxRuns /\ stable' \in 0..3
  BY CountersKept DEF RoutesInv, RoutesTypeOK, RoutesNext, Main
<1> USE <1>0, RouteNames DEF RoutesInv, RoutesTypeOK, WatchedOnly, SavedFirst, Purged, TakenWhenStable,
            HighIsServed, LowGone, HighGone, kernel, client, watch
<1>1. CASE Close
  BY <1>1 DEF Close, WatcherGone
<1>2. CASE CloseLow
  BY <1>2 DEF CloseLow, Deletes
<1>3. CASE CloseHigh
  BY <1>3 DEF CloseHigh, Deletes
<1>4. CASE Down
  BY <1>4 DEF Down
<1>5. CASE RestoreLow
  BY <1>5 DEF RestoreLow, Deletes, NeedsRestore
<1>6. CASE RestoreHigh
  BY <1>6 DEF RestoreHigh, Deletes, NeedsRestore
<1>7. CASE Restore
  BY <1>7 DEF Restore, NeedsRestore
<1> QED  BY <1>1, <1>2, <1>3, <1>4, <1>5, <1>6, <1>7 DEF Shutdown

(* The watcher, with ConfigureDefault.                                     *)
LEMMA WatcherKeeps == ASSUME RoutesInv, Watcher PROVE RoutesInv'
<1>0. runs' \in 0..MaxRuns /\ stable' \in 0..3
  BY CountersKept DEF RoutesInv, RoutesTypeOK, RoutesNext, Main
<1> USE <1>0, RouteNames DEF RoutesInv, RoutesTypeOK, WatchedOnly, SavedFirst, Purged, TakenWhenStable,
            HighIsServed, LowGone, HighGone, kernel, client, watch
<1>1. CASE Snapshot
  <2>1. fired' \in BOOLEAN /\ watcher' \in {"wait", "take low"}
    BY <1>1 DEF Snapshot
  <2>2. routes' \subseteq Overrides \cup Hosts /\ known' \subseteq Hosts /\ lastSet' \subseteq Hosts
    BY <1>1 DEF Snapshot
  <2>3. High \in routes' <=> High \in routes
    BY <1>1 DEF Snapshot
  <2>4. (fired => fired') /\ (watcher' = "take low" => fired')
    BY <1>1 DEF Snapshot
  <2>5. /\ watcher = "wait" /\ main \in {"run", "stop"}
        /\ UNCHANGED <<default, sockets, main, runs, client>>
    BY <1>1 DEF Snapshot
  <2>6. RoutesTypeOK'
    BY <2>1, <2>2, <2>5
  <2>7. WatchedOnly' /\ SavedFirst' /\ Purged' /\ TakenWhenStable'
    BY <2>1, <2>3, <2>4, <2>5
  <2>8. HighIsServed'
    <3>1. High \in routes => fired /\ forwarding
      BY <2>5
    <3>2. High \in routes' => fired' /\ forwarding'
      BY ONLY <3>1, <2>3, <2>4, <2>5 DEF client
    <3>3. QED  BY ONLY <3>2 DEF HighIsServed
  <2>9. LowGone' /\ HighGone'
    BY <2>5
  <2>10. QED  BY <2>6, <2>7, <2>8, <2>9
<1>2. CASE SnapshotFails
  BY <1>2 DEF SnapshotFails
<1>3. CASE TakeLow
  BY <1>3 DEF TakeLow
<1>4. CASE TakeHigh
  BY <1>4 DEF TakeHigh
<1>5. CASE StartForwarding
  BY <1>5 DEF StartForwarding
<1>6. CASE WatcherExits
  BY <1>6 DEF WatcherExits
<1> QED  BY <1>1, <1>2, <1>3, <1>4, <1>5, <1>6 DEF Watcher

(* Sockets, networks and signals that kill; or nothing happens.            *)
LEMMA WorldKeeps == ASSUME RoutesInv, SocketsChange \/ DefaultChanges \/ Kill \/ UNCHANGED routeVars PROVE RoutesInv'
<1>0. runs' \in 0..MaxRuns /\ stable' \in 0..3
  BY CountersKept DEF RoutesInv, RoutesTypeOK, RoutesNext, Main
<1> USE <1>0, RouteNames DEF RoutesInv, RoutesTypeOK, WatchedOnly, SavedFirst, Purged, TakenWhenStable,
            HighIsServed, LowGone, HighGone, kernel, client, watch
<1>1. CASE SocketsChange
  BY <1>1 DEF SocketsChange
<1>2. CASE DefaultChanges
  BY <1>2 DEF DefaultChanges
<1>3. CASE Kill
  BY <1>3 DEF Kill, Dies
<1>4. CASE UNCHANGED routeVars
  <2>1. RoutesTypeOK'
    BY <1>4 DEF routeVars
  <2>2. WatchedOnly' /\ SavedFirst' /\ Purged' /\ TakenWhenStable'
    BY <1>4 DEF routeVars
  <2>3. HighIsServed' /\ LowGone' /\ HighGone'
    BY <1>4 DEF routeVars
  <2>4. QED  BY <2>1, <2>2, <2>3
<1> QED  BY <1>1, <1>2, <1>3, <1>4

LEMMA RoutesInduction == RoutesSpec => []RoutesInv
<1>1. RoutesInit => RoutesInv
  <2>1. RoutesInit => RoutesTypeOK
    <3>1. RoutesInit => runs \in 0..MaxRuns /\ stable \in 0..3
      BY RouteNames DEF RoutesInit
    <3>2. QED  BY <3>1 DEF RoutesInit, RoutesTypeOK
  <2>2. RoutesInit => WatchedOnly /\ SavedFirst /\ Purged /\ TakenWhenStable
    BY DEF RoutesInit, WatchedOnly, SavedFirst, Purged, TakenWhenStable
  <2>3. RoutesInit => HighIsServed /\ LowGone /\ HighGone
    BY DEF RoutesInit, HighIsServed, LowGone, HighGone
  <2>4. QED  BY <2>1, <2>2, <2>3 DEF RoutesInv
<1>2. RoutesInv /\ [RoutesNext]_routeVars => RoutesInv'
  BY StartKeeps, ShutdownKeeps, WatcherKeeps, WorldKeeps DEF RoutesNext, Main
<1>3. QED  BY <1>1, <1>2, PTL DEF RoutesSpec

(* Routes, hosts and the places of the two goroutines have their types.    *)
THEOREM RoutesTypes == RoutesSpec => []RoutesTypeOK
<1>1. RoutesInv => RoutesTypeOK
  BY DEF RoutesInv
<1>2. QED  BY <1>1, RoutesInduction, PTL

(* While both overrides are in the table and the client is neither         *)
(* installing nor removing them, it forwards packets, and has seen its     *)
(* sockets to be stable: for any hosts and any number of runs, killed      *)
(* anywhere (tun_watch.go:119-134, main.go:430-440).                       *)
THEOREM TakenTrafficIsServed == RoutesSpec => []TakenIsServed
<1>1. RoutesInv => TakenIsServed
  BY RouteNames DEF RoutesInv, HighIsServed, TakenIsServed
<1>2. QED  BY <1>1, RoutesInduction, PTL

(* A shutdown that comes to its end leaves no override and a default       *)
(* route, also when this run installed only the first one, or none at all  *)
(* (tun_darwin.go:426-444).                                                *)
THEOREM ShutdownRestores == RoutesSpec => Restored
<1> DEFINE Clean == main' = "done" /\ main # "done" => routes' \cap Overrides = {} /\ default'
<1>1. ASSUME RoutesInv, [RoutesNext]_routeVars PROVE [Clean]_routeVars
  <2>1. SUFFICES ASSUME main' = "done", main # "done" PROVE Clean
    OBVIOUS
  <2>2. CASE Restore
    BY <2>2, RouteNames, <1>1
       DEF Restore, NeedsRestore, RoutesInv, RoutesTypeOK, SavedFirst, LowGone, HighGone
  <2>3. ~Restore => FALSE
    BY <2>1, <1>1
       DEF RoutesNext, Main, Shutdown, Watcher, Launch, SaveDefault, Dies, PurgeLow, PurgeHigh,
           Deletes, SetupInterface, Signal, Close, CloseLow, CloseHigh, Down, RestoreLow,
           RestoreHigh, Snapshot, SnapshotFails, TakeLow, TakeHigh, StartForwarding, WatcherExits,
           SocketsChange, DefaultChanges, Kill, routeVars, client, kernel, watch
  <2>4. QED  BY <2>2, <2>3
<1>2. QED  BY <1>1, RoutesInduction, PTL DEF RoutesSpec, Restored

-----------------------------------------------------------------------------
(* VpnSession.  The steps a thread has still to take, and what they are    *)
(* called.                                                                 *)
Steps(s) == {s[i] : i \in 1..Len(s)}
Ops(s) == {s[i][1] : i \in 1..Len(s)}
Has(t, op) == op \in Ops(todo[t])

(* What a thread may be at ...                                             *)
Recovery == {"enter", "enterIf", "claim", "attempt", "delay", "start", "spawn", "wait", "tun",
             "tunning", "restored", "settle", "finally", "surrender", "stop", "destroy", "halt",
             "halted"}
Alphabet(t) ==
  CASE t = "main" -> {"configure", "stop", "destroy", "start", "spawn", "halt", "halted",
                      "exited", "revoked", "destroyed"}
    [] t = "job" -> {"connect", "request", "bind", "native", "stop", "destroy", "start", "spawn",
                     "await", "fallback", "tun", "tunning", "halt", "halted", "awaitVpn"}
    [] t = "tear" -> {"teardown", "stop", "destroy", "halt", "halted", "unbind", "clear"}
    [] t = "health" -> {"monitor"} \cup Recovery
    [] t = "net" -> {"network"} \cup Recovery

(* ... and what may come, at once or later, after what.  Nothing comes     *)
(* after the last steps; the steps that are not named here may be followed *)
(* by all but "tunning".                                                   *)
LastSteps == {"configure", "connect", "request", "bind", "native", "await", "fallback", "awaitVpn",
              "teardown", "unbind", "clear", "exited", "revoked", "destroyed", "monitor", "network"}
MayFollow(a, b) ==
  /\ b # "tunning"
  /\ b = "halted" => a \in {"stop", "destroy"}
  /\ a \in {"halt", "halted", "tun", "tunning"} =>
       b \in {"unbind", "exited", "revoked", "destroyed", "awaitVpn", "restored", "finally",
              "monitor"}
  /\ a \in {"start", "spawn"} => b \in {"await", "wait", "monitor"}
  /\ a = "surrender" => b \in {"halt", "finally", "monitor"}
  /\ a \in {"enter", "enterIf", "claim", "attempt", "delay", "wait", "restored", "settle",
            "finally"} => b = "monitor"
  /\ a \notin LastSteps

Ordered(s) == \A i, j \in 1..Len(s) : i < j => MayFollow(s[i][1], s[j][1])

Shape ==
  /\ DOMAIN todo = Threads
  /\ \A t \in Threads :
       todo[t] \in Seq(Steps(todo[t])) /\ Ops(todo[t]) \subseteq Alphabet(t) /\ Ordered(todo[t])

Service == [stopping: BOOLEAN, reconnecting: BOOLEAN, shutdownComplete: BOOLEAN,
            generation: Nat, activeBackend: Backends, allowFallback: BOOLEAN,
            lastIntent: BOOLEAN, configured: BOOLEAN, isRunning: BOOLEAN,
            started: BOOLEAN, bound: BOOLEAN, doomed: BOOLEAN, destroyed: BOOLEAN]
Fields == svc \in Service /\ tun \in BOOLEAN /\ raced \in BOOLEAN

(* The lock is held by who is inside, and by nobody else.                  *)
Halting == \E t \in Threads : Has(t, "halted")
Locking ==
  /\ \A t \in Threads : Has(t, "tunning") \/ Has(t, "halted") => lock = t
  /\ lock # NoOne =>
       \E t \in Threads : t = lock /\ (Has(t, "tunning") \/ Has(t, "halted") \/ Has(t, "halt"))

(* tun2socks is started in a session, and that ends with the lock held.    *)
InSession == \A t \in Threads : Has(t, "tunning") => svc.configured /\ svc.lastIntent

(* stopEverything has forgotten the session when it lets go of the lock,   *)
(* and what it cancelled stays cancelled until a session is started.       *)
Coroutines == {"health", "net"}
Stopped ==
  svc.stopping => (Halting \/ ~svc.lastIntent) /\ Coroutines \subseteq cancelled

(* Nothing starts a helper while the service is stopping, unless a start   *)
(* was under way; then what stopEverything killed stays dead.              *)
Unraced ==
  svc.stopping /\ ~raced =>
    /\ \A t \in Threads : ~Has(t, "start") /\ ~Has(t, "spawn")
    /\ Halting \/ live = {}

VpnInv ==
  /\ Shape /\ Fields /\ Locking /\ InSession /\ TunnelHasSession /\ Stopped /\ Unraced

-----------------------------------------------------------------------------
(* Sequences of steps.                                                     *)
Script(s) == s \in Seq(Steps(s)) /\ Ordered(s)

LEMMA EmptyScript == Script(<<>>) /\ Steps(<<>>) = {} /\ Ops(<<>>) = {}
BY DEF Script, Steps, Ops, Ordered

LEMMA SingleScript ==
  ASSUME NEW a
  PROVE  Script(<<a>>) /\ Steps(<<a>>) = {a} /\ Ops(<<a>>) = {a[1]}
<1>1. Len(<<a>>) = 1 /\ 1..Len(<<a>>) = {1} /\ <<a>>[1] = a /\ <<a>> \in Seq({a})
  OBVIOUS
<1>2. Steps(<<a>>) = {a} /\ Ops(<<a>>) = {a[1]}
  BY <1>1 DEF Steps, Ops
<1>3. Ordered(<<a>>)
  BY <1>1 DEF Ordered
<1>4. QED  BY <1>1, <1>2, <1>3 DEF Script

LEMMA PairScript ==
  ASSUME NEW a, NEW b, MayFollow(a[1], b[1])
  PROVE  Script(<<a, b>>) /\ Steps(<<a, b>>) = {a, b} /\ Ops(<<a, b>>) = {a[1], b[1]}
<1>1. /\ Len(<<a, b>>) = 2 /\ 1..Len(<<a, b>>) = {1, 2} /\ <<a, b>>[1] = a /\ <<a, b>>[2] = b
      /\ <<a, b>> \in Seq({a, b})
  OBVIOUS
<1>2. Steps(<<a, b>>) = {a, b} /\ Ops(<<a, b>>) = {a[1], b[1]}
  BY <1>1 DEF Steps, Ops
<1>3. Ordered(<<a, b>>)
  BY <1>1 DEF Ordered
<1>4. QED  BY <1>1, <1>2, <1>3 DEF Script

(* One sequence of steps after another.                                    *)
LEMMA JoinSteps ==
  ASSUME NEW s, NEW r, s \in Seq(Steps(s)), r \in Seq(Steps(r))
  PROVE  s \o r \in Seq(Steps(s \o r)) /\ Steps(s \o r) = Steps(s) \cup Steps(r)
<1> DEFINE S == Steps(s) \cup Steps(r)
<1>1. s \in Seq(S) /\ r \in Seq(S)
  BY SeqMonotonic
<1> HIDE DEF S
<1>2. /\ s \o r \in Seq(S) /\ Len(s \o r) = Len(s) + Len(r) /\ Len(s) \in Nat /\ Len(r) \in Nat
      /\ \A i \in 1..Len(s) : (s \o r)[i] = s[i]
      /\ \A i \in 1..Len(r) : (s \o r)[Len(s) + i] = r[i]
  BY <1>1
<1>3. \A i \in 1..Len(s \o r) : i \in 1..Len(s) \/ (i - Len(s) \in 1..Len(r) /\ i = Len(s) + (i - Len(s)))
  BY <1>2
<1>4. \A i \in 1..Len(s) : i \in 1..Len(s \o r)
  BY <1>2
<1>5. \A i \in 1..Len(r) : Len(s) + i \in 1..Len(s \o r)
  BY <1>2
<1>6. \A i \in 1..Len(s \o r) : (s \o r)[i] \in Steps(s) \cup Steps(r)
  BY <1>2, <1>3 DEF Steps
<1>7. \A i \in 1..Len(s) : s[i] \in Steps(s \o r)
  BY <1>2, <1>4 DEF Steps
<1>8. \A i \in 1..Len(r) : r[i] \in Steps(s \o r)
  BY <1>2, <1>5 DEF Steps
<1>9. Steps(s \o r) = Steps(s) \cup Steps(r)
  BY <1>6, <1>7, <1>8 DEF Steps
<1>10. QED  BY <1>2, <1>9 DEF S

(* One script after another.                                               *)
LEMMA JoinScripts ==
  ASSUME NEW s, NEW r, Script(s), Script(r),
         \A a \in Ops(s), b \in Ops(r) : MayFollow(a, b)
  PROVE  /\ Script(s \o r)
         /\ Steps(s \o r) = Steps(s) \cup Steps(r) /\ Ops(s \o r) = Ops(s) \cup Ops(r)
<1> DEFINE S == Steps(s) \cup Steps(r)
<1>1. s \in Seq(S) /\ r \in Seq(S)
  <2>1. \A i \in 1..Len(s) : s[i] \in S
    BY DEF Steps
  <2>2. \A i \in 1..Len(r) : r[i] \in S
    BY DEF Steps
  <2>3. s \in Seq(Steps(s)) /\ r \in Seq(Steps(r))
    BY DEF Script
  <2>4. QED  BY <2>3, SeqMonotonic
<1> HIDE DEF S
<1>2. /\ s \o r \in Seq(S) /\ Len(s \o r) = Len(s) + Len(r) /\ Len(s) \in Nat /\ Len(r) \in Nat
      /\ \A i \in 1..Len(s) : (s \o r)[i] = s[i]
      /\ \A i \in 1..Len(r) : (s \o r)[Len(s) + i] = r[i]
  BY <1>1
<1>3. \A i \in 1..Len(s \o r) : i \in 1..Len(s) \/ (i - Len(s) \in 1..Len(r) /\ i = Len(s) + (i - Len(s)))
  BY <1>2
<1>4. \A i \in 1..Len(s) : i \in 1..Len(s \o r)
  BY <1>2
<1>5. \A i \in 1..Len(r) : Len(s) + i \in 1..Len(s \o r)
  BY <1>2
<1>6. Steps(s \o r) = Steps(s) \cup Steps(r)
  BY JoinSteps DEF Script
<1>7. Ops(s \o r) = Ops(s) \cup Ops(r)
  <2>1. \A i \in 1..Len(s \o r) : (s \o r)[i][1] \in Ops(s) \cup Ops(r)
    BY <1>2, <1>3 DEF Ops
  <2>2. \A i \in 1..Len(s) : s[i][1] \in Ops(s \o r)
    BY <1>2, <1>4 DEF Ops
  <2>3. \A i \in 1..Len(r) : r[i][1] \in Ops(s \o r)
    BY <1>2, <1>5 DEF Ops
  <2>4. QED  BY <2>1, <2>2, <2>3 DEF Ops
<1>8. Ordered(s \o r)
  <2>1. SUFFICES ASSUME NEW i \in 1..Len(s \o r), NEW j \in 1..Len(s \o r), i < j
                 PROVE  MayFollow((s \o r)[i][1], (s \o r)[j][1])
    BY DEF Ordered
  <2>2. CASE i \in 1..Len(s) /\ j \in 1..Len(s)
    BY <2>1, <2>2, <1>2 DEF Script, Ordered
  <2>3. CASE i \in 1..Len(s) /\ j - Len(s) \in 1..Len(r)
    <3>1. (s \o r)[i] = s[i] /\ (s \o r)[j] = r[j - Len(s)]
      BY <2>3, <1>2, <1>3
    <3>2. s[i][1] \in Ops(s) /\ r[j - Len(s)][1] \in Ops(r)
      BY <2>3 DEF Ops
    <3>3. QED  BY <3>1, <3>2
  <2>4. CASE i - Len(s) \in 1..Len(r) /\ j - Len(s) \in 1..Len(r)
    <3>1. (s \o r)[i] = r[i - Len(s)] /\ (s \o r)[j] = r[j - Len(s)]
      BY <2>4, <1>2, <1>3
    <3>2. i - Len(s) < j - Len(s)
      BY <2>1, <1>2
    <3>3. QED  BY <2>4, <3>1, <3>2 DEF Script, Ordered
  <2>5. i \in 1..Len(s) \/ (i - Len(s) \in 1..Len(r) /\ j - Len(s) \in 1..Len(r))
    BY <2>1, <1>2, <1>3
  <2>6. QED  BY <1>3, <2>2, <2>3, <2>4, <2>5
<1>9. s \o r \in Seq(Steps(s \o r))
  BY <1>2, <1>6 DEF S
<1>10. QED  BY <1>6, <1>7, <1>8, <1>9 DEF Script

(* A sequence is one over any set that has its elements.                   *)
LEMMA Retyped ==
  ASSUME NEW S, NEW T, NEW q \in Seq(S), \A i \in 1..Len(q) : q[i] \in T
  PROVE  q \in Seq(T)
OBVIOUS

(* What is left of a sequence, and of a script.                            *)
LEMMA RestOfSteps ==
  ASSUME NEW s, s \in Seq(Steps(s)), s # <<>>
  PROVE  /\ Tail(s) \in Seq(Steps(Tail(s)))
         /\ Steps(s) = {Head(s)} \cup Steps(Tail(s)) /\ Ops(s) = {Head(s)[1]} \cup Ops(Tail(s))
<1>1. /\ Head(s) = s[1] /\ Len(s) \in Nat /\ Len(s) >= 1 /\ Len(Tail(s)) = Len(s) - 1
      /\ Tail(s) \in Seq(Steps(s))
      /\ \A i \in 1..Len(Tail(s)) : Tail(s)[i] = s[i + 1]
  BY HeadTailProperties, EmptySeq
<1>2. \A i \in 1..Len(Tail(s)) : i + 1 \in 1..Len(s)
  BY <1>1
<1>3. 1 \in 1..Len(s) /\ \A i \in 1..Len(s) : i = 1 \/ (i - 1 \in 1..Len(Tail(s)) /\ i = (i - 1) + 1)
  BY <1>1
<1>4. Steps(s) = {Head(s)} \cup Steps(Tail(s))
  <2>1. \A i \in 1..Len(s) : s[i] \in {Head(s)} \cup Steps(Tail(s))
    BY <1>1, <1>3 DEF Steps
  <2>2. Head(s) \in Steps(s) /\ \A i \in 1..Len(Tail(s)) : Tail(s)[i] \in Steps(s)
    BY <1>1, <1>2, <1>3 DEF Steps
  <2>3. QED  BY <2>1, <2>2 DEF Steps
<1>5. Ops(s) = {Head(s)[1]} \cup Ops(Tail(s))
  BY <1>1, <1>2, <1>3 DEF Ops
<1>6. Tail(s) \in Seq(Steps(Tail(s)))
  <2>1. \A i \in 1..Len(Tail(s)) : Tail(s)[i] \in Steps(Tail(s))
    BY DEF Steps
  <2>2. QED  BY <1>1, <2>1, Retyped
<1>7. QED  BY <1>4, <1>5, <1>6

LEMMA RestOfScript ==
  ASSUME NEW s, Script(s), s # <<>>
  PROVE  /\ Script(Tail(s))
         /\ Steps(s) = {Head(s)} \cup Steps(Tail(s)) /\ Ops(s) = {Head(s)[1]} \cup Ops(Tail(s))
         /\ \A b \in Ops(Tail(s)) : MayFollow(Head(s)[1], b)
<1>1. /\ Head(s) = s[1] /\ Len(s) \in Nat /\ Len(s) >= 1 /\ Len(Tail(s)) = Len(s) - 1
      /\ \A i \in 1..Len(Tail(s)) : Tail(s)[i] = s[i + 1]
  BY HeadTailProperties, EmptySeq DEF Script
<1>2. 1 \in 1..Len(s) /\ \A i \in 1..Len(Tail(s)) : i + 1 \in 1..Len(s) /\ 1 < i + 1
  BY <1>1
<1>3. \A b \in Ops(Tail(s)) : MayFollow(Head(s)[1], b)
  <2>1. SUFFICES ASSUME NEW i \in 1..Len(Tail(s)) PROVE MayFollow(Head(s)[1], Tail(s)[i][1])
    BY DEF Ops
  <2>2. MayFollow(s[1][1], s[i + 1][1])
    BY <1>2 DEF Script, Ordered
  <2>3. QED  BY <2>2, <1>1
<1>4. Ordered(Tail(s))
  <2>1. SUFFICES ASSUME NEW i \in 1..Len(Tail(s)), NEW j \in 1..Len(Tail(s)), i < j
                 PROVE  MayFollow(Tail(s)[i][1], Tail(s)[j][1])
    BY DEF Ordered
  <2>2. i + 1 \in 1..Len(s) /\ j + 1 \in 1..Len(s) /\ i + 1 < j + 1
    BY <1>1, <1>2, <2>1
  <2>3. MayFollow(s[i + 1][1], s[j + 1][1])
    BY <2>2 DEF Script, Ordered
  <2>4. QED  BY <2>3, <1>1
<1>5. QED  BY <1>3, <1>4, RestOfSteps DEF Script

LEMMA NothingAfter ==
  ASSUME NEW s, Script(s)
  PROVE  s \o <<>> = s
BY DEF Script

(* An empty script is one without steps.                                   *)
LEMMA NoSteps ==
  ASSUME NEW s, Script(s)
  PROVE  /\ s = <<>> <=> Ops(s) = {}
         /\ s = <<>> <=> Steps(s) = {}
<1>1. ASSUME s # <<>> PROVE Ops(s) # {} /\ Steps(s) # {}
  <2>1. /\ Steps(s) = {Head(s)} \cup Steps(Tail(s))
        /\ Ops(s) = {Head(s)[1]} \cup Ops(Tail(s))
    BY <1>1, RestOfScript
  <2>2. QED  BY <2>1
<1>2. QED  BY <1>1, EmptyScript

-----------------------------------------------------------------------------
(* A thread moves on.                                                      *)
Rest(t) == Ops(Tail(todo[t]))

(* Thread t was at op, and takes the steps called new instead.             *)
Turns(t, op, new) ==
  /\ \A u \in Threads \ {t} : todo'[u] = todo[u]
  /\ Ops(todo[t]) = {op} \cup Rest(t) /\ Ops(todo'[t]) = new \cup Rest(t)
  /\ \A b \in Rest(t) : MayFollow(op, b)
  /\ \A m \in Steps(todo[t]) : m[1] # op => m \in Steps(todo'[t])

LEMMA ShapeGives ==
  ASSUME Shape, NEW t \in Threads
  PROVE  Script(todo[t]) /\ Ops(todo[t]) \subseteq Alphabet(t) /\ Ordered(todo[t])
BY DEF Shape, Script

(* Where a thread is says what may be left to it.                          *)
LEMMA Present ==
  ASSUME Shape, NEW t \in Threads, NEW op, At(t, op)
  PROVE  /\ todo[t] # <<>> /\ Ops(todo[t]) = {op} \cup Rest(t) /\ op \in Alphabet(t)
         /\ Rest(t) \subseteq Alphabet(t) /\ \A b \in Rest(t) : MayFollow(op, b)
         /\ Script(Tail(todo[t]))
         /\ Steps(todo[t]) = {Head(todo[t])} \cup Steps(Tail(todo[t])) /\ Head(todo[t])[1] = op
BY ShapeGives, RestOfScript DEF At, Rest

(* Only t moves, to a script of its alphabet.                              *)
LEMMA ShapeKept ==
  ASSUME Shape, NEW t \in Threads, NEW r, Script(r), Ops(r) \subseteq Alphabet(t),
         todo' = [todo EXCEPT ![t] = r]
  PROVE  Shape' /\ todo'[t] = r /\ \A u \in Threads \ {t} : todo'[u] = todo[u]
<1>1. DOMAIN todo = Threads
  BY DEF Shape
<1>2. DOMAIN todo' = Threads /\ todo'[t] = r /\ \A u \in Threads \ {t} : todo'[u] = todo[u]
  BY <1>1
<1>3. ASSUME NEW u \in Threads
      PROVE  /\ todo'[u] \in Seq(Steps(todo'[u])) /\ Ops(todo'[u]) \subseteq Alphabet(u)
             /\ Ordered(todo'[u])
  <2>1. CASE u = t
    BY <1>2, <2>1 DEF Script
  <2>2. CASE u # t
    BY <1>2, <2>2 DEF Shape
  <2>3. QED  BY <2>1, <2>2
<1>4. Shape'
  BY <1>2, <1>3 DEF Shape
<1>5. QED  BY <1>2, <1>4

LEMMA MovesOn ==
  ASSUME Shape, NEW t \in Threads, NEW op, At(t, op), NEW s, Script(s), Then(t, s),
         Ops(s) \subseteq Alphabet(t),
         \A a \in Ops(s), b \in Alphabet(t) : MayFollow(op, b) => MayFollow(a, b)
  PROVE  Shape' /\ Turns(t, op, Ops(s))
<1> DEFINE r == s \o Tail(todo[t])
<1>1. /\ Ops(todo[t]) = {op} \cup Rest(t) /\ Rest(t) \subseteq Alphabet(t)
      /\ \A b \in Rest(t) : MayFollow(op, b)
      /\ Script(Tail(todo[t])) /\ Head(todo[t])[1] = op
      /\ Steps(todo[t]) = {Head(todo[t])} \cup Steps(Tail(todo[t]))
  BY Present
<1>2. \A a \in Ops(s), b \in Ops(Tail(todo[t])) : MayFollow(a, b)
  BY <1>1 DEF Rest
<1>3. Script(r) /\ Steps(r) = Steps(s) \cup Steps(Tail(todo[t])) /\ Ops(r) = Ops(s) \cup Rest(t)
  BY <1>1, <1>2, JoinScripts DEF Rest
<1>4. todo' = [todo EXCEPT ![t] = r]
  BY DEF Then, Instead, Shape
<1> HIDE DEF r
<1>5. Shape' /\ todo'[t] = r /\ \A u \in Threads \ {t} : todo'[u] = todo[u]
  BY <1>1, <1>3, <1>4, ShapeKept
<1>6. \A m \in Steps(todo[t]) : m[1] # op => m \in Steps(todo'[t])
  BY <1>1, <1>3, <1>5
<1>7. QED  BY <1>1, <1>3, <1>5, <1>6 DEF Turns

(* The steps that stop a helper, or both.                                  *)
LEMMA StopScripts ==
  /\ \A b : Script(StopOf(b)) /\ Ops(StopOf(b)) = {"stop", "destroy"}
  /\ Script(stopClients) /\ Ops(stopClients) = {"stop", "destroy"}
<1>1. MayFollow("stop", "destroy") /\ MayFollow("destroy", "stop") /\ MayFollow("stop", "stop")
      /\ MayFollow("destroy", "destroy")
  BY DEF MayFollow, LastSteps
<1>2. ASSUME NEW b PROVE Script(StopOf(b)) /\ Ops(StopOf(b)) = {"stop", "destroy"}
  BY <1>1, PairScript DEF StopOf
<1>3. \A a, b \in {"stop", "destroy"} : MayFollow(a, b)
  BY <1>1
<1>4. Script(stopClients) /\ Ops(stopClients) = {"stop", "destroy"}
  BY <1>2, <1>3, JoinScripts DEF stopClients
<1>5. QED  BY <1>2, <1>4

(* They may be put in front of any script but that of a thread inside.     *)
LEMMA StopFirst ==
  ASSUME NEW s, Script(s), "tunning" \notin Ops(s), NEW p,
         Script(p), Ops(p) = {"stop", "destroy"}
  PROVE  Script(p \o s) /\ Ops(p \o s) = {"stop", "destroy"} \cup Ops(s)
<1>1. \A a \in Ops(p), b \in Ops(s) : MayFollow(a, b)
  BY DEF MayFollow, LastSteps
<1>2. QED  BY <1>1, JoinScripts

(* What the alphabets allow.                                               *)
LEMMA Alphabets ==
  ASSUME NEW t \in Threads
  PROVE  /\ {"stop", "destroy", "halt", "halted"} \subseteq Alphabet(t)
         /\ "start" \in Alphabet(t) => "spawn" \in Alphabet(t)
         /\ "tun" \in Alphabet(t) => "tunning" \in Alphabet(t)
         /\ \A op \in {"enter", "enterIf", "claim", "attempt", "delay", "wait", "restored", "settle",
                       "finally"} :
              op \in Alphabet(t) => t \in {"health", "net"} /\ Recovery \subseteq Alphabet(t)
BY DEF Alphabet, Recovery, Threads

(* Steps after which a thread has come to its end.                         *)
LEMMA LastStep ==
  ASSUME Shape, NEW t \in Threads, NEW op, At(t, op),
         op \in LastSteps
  PROVE  /\ Tail(todo[t]) = <<>> /\ Rest(t) = {}
         /\ Steps(todo[t]) = {Head(todo[t])} /\ Ops(todo[t]) = {op} /\ Head(todo[t])[1] = op
<1>1. /\ Ops(todo[t]) = {op} \cup Rest(t) /\ \A b \in Rest(t) : MayFollow(op, b)
      /\ Script(Tail(todo[t])) /\ Head(todo[t])[1] = op
      /\ Steps(todo[t]) = {Head(todo[t])} \cup Steps(Tail(todo[t]))
  BY Present
<1>2. Rest(t) = {}
  BY <1>1 DEF MayFollow, LastSteps
<1>3. Tail(todo[t]) = <<>> /\ Steps(Tail(todo[t])) = {}
  BY <1>1, <1>2, NoSteps DEF Rest
<1>4. QED  BY <1>1, <1>2, <1>3

(* Inside the lock.                                                        *)
LEMMA TurnsHas ==
  ASSUME NEW t \in Threads, NEW op, NEW new, Turns(t, op, new)
  PROVE  /\ \A u \in Threads : \A x : Has(u, x)' => Has(u, x) \/ (u = t /\ x \in new)
         /\ \A u \in Threads : \A x : Has(u, x) => Has(u, x)' \/ (u = t /\ x = op)
         /\ \A x \in new : Has(t, x)'
         /\ Has(t, op) /\ \A x : Has(t, x)' => x \in new \/ MayFollow(op, x)
         /\ \A x : Has(t, x) => x = op \/ MayFollow(op, x)
         /\ todo[t] # <<>> /\ \A u \in Threads : u # t => todo'[u] = todo[u]
         /\ \A u \in Threads : \A x : Has(u, x)' => todo'[u] # <<>>
         /\ \A u \in Threads : \A x : Has(u, x) => todo[u] # <<>>
BY EmptyScript DEF Turns, Has

(* startHealthMonitor replaces a monitor that waits, or none.              *)
LEMMA MonitoredTodo ==
  ASSUME NEW td, DOMAIN td = Threads, Script(td["health"])
  PROVE  /\ DOMAIN Monitored(td) = Threads
         /\ \A u \in Threads \ {"health"} : Monitored(td)[u] = td[u]
         /\ \/ /\ Monitored(td)["health"] = << <<"monitor", svc.generation>> >>
               /\ Ops(td["health"]) \subseteq {"monitor"}
            \/ Monitored(td)["health"] = td["health"] /\ td["health"] # <<>>
<1>1. CASE td["health"] = <<>> \/ Head(td["health"])[1] = "monitor"
  <2>1. Monitored(td) = [td EXCEPT !["health"] = << <<"monitor", svc.generation>> >>]
    BY <1>1 DEF Monitored
  <2>2. Ops(td["health"]) \subseteq {"monitor"}
    <3>1. CASE td["health"] = <<>>
      BY <3>1, EmptyScript
    <3>2. CASE td["health"] # <<>> /\ Head(td["health"])[1] = "monitor"
      <4>1. /\ Ops(td["health"]) = {"monitor"} \cup Ops(Tail(td["health"]))
            /\ \A b \in Ops(Tail(td["health"])) : MayFollow("monitor", b)
        BY <3>2, RestOfScript
      <4>2. QED  BY <4>1 DEF MayFollow, LastSteps
    <3>3. QED  BY <1>1, <3>1, <3>2
  <2>3. QED  BY <2>1, <2>2 DEF Threads
<1>2. CASE ~(td["health"] = <<>> \/ Head(td["health"])[1] = "monitor")
  BY <1>2 DEF Monitored
<1>3. QED  BY <1>1, <1>2

(* A cancelled monitor that waits is gone, and nothing else.               *)
LEMMA UnmonitoredTodo ==
  ASSUME NEW td, DOMAIN td = Threads, Script(td["health"])
  PROVE  /\ DOMAIN Unmonitored(td) = Threads
         /\ \A u \in Threads \ {"health"} : Unmonitored(td)[u] = td[u]
         /\ \/ Unmonitored(td)["health"] = <<>> /\ Ops(td["health"]) = {"monitor"}
            \/ Unmonitored(td)["health"] = td["health"]
<1>1. CASE td["health"] # <<>> /\ Head(td["health"])[1] = "monitor"
  <2>1. Unmonitored(td) = [td EXCEPT !["health"] = <<>>]
    BY <1>1 DEF Unmonitored
  <2>2. /\ Ops(td["health"]) = {"monitor"} \cup Ops(Tail(td["health"]))
        /\ \A b \in Ops(Tail(td["health"])) : MayFollow("monitor", b)
    BY <1>1, RestOfScript
  <2>3. Ops(td["health"]) = {"monitor"}
    BY <2>2 DEF MayFollow, LastSteps
  <2>4. QED  BY <2>1, <2>3 DEF Threads
<1>2. CASE ~(td["health"] # <<>> /\ Head(td["health"])[1] = "monitor")
  BY <1>2 DEF Unmonitored
<1>3. QED  BY <1>1, <1>2

(* The start job.                                                          *)
LEMMA NativeScript ==
  ASSUME NEW b, NEW c, NEW x
  PROVE  /\ Script(StopOf(c) \o StartOf(b) \o << <<"await", x>> >>)
         /\ Ops(StopOf(c) \o StartOf(b) \o << <<"await", x>> >>) =
              {"stop", "destroy", "start", "await"}
<1> DEFINE r == StartOf(b) \o << <<"await", x>> >>
<1>1. /\ Script(StartOf(b)) /\ Ops(StartOf(b)) = {"start"}
      /\ Script(<< <<"await", x>> >>) /\ Ops(<< <<"await", x>> >>) = {"await"}
  BY SingleScript DEF StartOf
<1>2. Script(r) /\ Ops(r) = {"start", "await"}
  <2>1. \A a \in Ops(StartOf(b)), d \in Ops(<< <<"await", x>> >>) : MayFollow(a, d)
    BY <1>1 DEF MayFollow, LastSteps
  <2>2. QED  BY <1>1, <2>1, JoinScripts
<1>3. StopOf(c) \o StartOf(b) \o << <<"await", x>> >> = StopOf(c) \o r
  BY DEF StopOf, StartOf
<1> HIDE DEF r
<1>4. Script(StopOf(c) \o r) /\ Ops(StopOf(c) \o r) = {"stop", "destroy"} \cup Ops(r)
  <2>1. Script(StopOf(c)) /\ Ops(StopOf(c)) = {"stop", "destroy"}
    BY StopScripts
  <2>2. "tunning" \notin Ops(r)
    BY <1>2
  <2>3. QED  BY <1>2, <2>1, <2>2, StopFirst
<1>5. QED  BY <1>2, <1>3, <1>4


-----------------------------------------------------------------------------
(* Most steps only take something away from a session, or let a thread go  *)
(* on; they keep the invariant whatever they do besides.                   *)
Steady ==
  /\ UNCHANGED <<lock, raced>>
  /\ svc'.stopping => svc.stopping
  /\ svc'.stopping /\ Coroutines \subseteq cancelled => Coroutines \subseteq cancelled'
  /\ svc.configured => svc'.configured
  /\ svc.lastIntent => svc'.lastIntent
  /\ svc'.stopping /\ svc'.lastIntent => svc.lastIntent
  /\ svc'.isRunning => svc.isRunning
  /\ tun' => tun

LEMMA Keeps ==
  ASSUME VpnInv, Shape', Fields', Steady,
         \A u \in Threads : \A x \in {"tunning", "halted"} : Has(u, x)' <=> Has(u, x),
         \A u \in Threads : Has(u, "halt") => Has(u, "halt")',
         svc'.stopping => \A u \in Threads :
           /\ Has(u, "start")' => Has(u, "start")
           /\ Has(u, "spawn")' => Has(u, "spawn") \/ Has(u, "start"),
         live' \subseteq live \/ (\E u \in Threads : Has(u, "spawn"))
  PROVE  VpnInv'
<1>1. Halting' <=> Halting
  BY DEF Halting
<1>2. Locking'
  <2>1. lock' = lock
    BY DEF Steady
  <2>2. QED  BY <2>1 DEF VpnInv, Locking
<1>3. InSession'
  BY DEF VpnInv, InSession, Steady
<1>4. TunnelHasSession'
  BY DEF VpnInv, TunnelHasSession, Steady
<1>5. Stopped'
  BY <1>1 DEF VpnInv, Stopped, Steady
<1>6. Unraced'
  <2>1. SUFFICES ASSUME svc'.stopping, ~raced'
                 PROVE  /\ \A u \in Threads : ~Has(u, "start")' /\ ~Has(u, "spawn")'
                        /\ Halting' \/ live' = {}
    BY DEF Unraced
  <2>2. svc.stopping /\ ~raced
    BY <2>1 DEF Steady
  <2>3. (\A u \in Threads : ~Has(u, "start") /\ ~Has(u, "spawn")) /\ (Halting \/ live = {})
    BY <2>2 DEF VpnInv, Unraced
  <2>4. QED  BY <1>1, <2>1, <2>3
<1>7. QED  BY <1>2, <1>3, <1>4, <1>5, <1>6 DEF VpnInv

(* Nothing happens to the service, but that tun2socks may end.             *)
LEMMA TunIs ==
  ASSUME Fields, tun' \in {tun, FALSE}
  PROVE  tun' \in BOOLEAN /\ (tun' => tun)
<1>1. CASE tun' = tun
  BY <1>1 DEF Fields
<1>2. CASE tun' = FALSE
  BY <1>2
<1>3. QED  BY <1>1, <1>2

LEMMA Unchanging ==
  ASSUME Fields, UNCHANGED <<svc, lock, cancelled, raced>>, tun' \in {tun, FALSE}
  PROVE  Fields' /\ Steady
<1>1. tun' \in BOOLEAN /\ (tun' => tun)
  BY TunIs
<1>2. Fields'
  BY <1>1 DEF Fields
<1>3. Steady
  BY <1>1 DEF Steady
<1>4. QED  BY <1>2, <1>3

(* Nobody moves.                                                           *)
LEMMA StandsStill ==
  ASSUME VpnInv, UNCHANGED todo, Fields', Steady, live' \subseteq live
  PROVE  VpnInv'
<1>1. Shape'
  BY DEF VpnInv, Shape
<1>2. \A u \in Threads : \A x : Has(u, x)' <=> Has(u, x)
  BY DEF Has
<1>3. QED  BY <1>1, <1>2, Keeps

(* Thread t takes its next step, outside the lock.                         *)
LEMMA GoesOn ==
  ASSUME VpnInv, Fields', Steady, NEW t \in Threads, NEW op, At(t, op),
         op \notin {"halt", "halted", "tunning"},
         NEW s, Script(s), Then(t, s), Ops(s) \subseteq Alphabet(t),
         \A a \in Ops(s), b \in Alphabet(t) : MayFollow(op, b) => MayFollow(a, b),
         "tunning" \notin Ops(s), "halted" \notin Ops(s),
         "start" \in Ops(s) => ~svc'.stopping, "spawn" \in Ops(s) => op = "start",
         live' \subseteq live \/ op = "spawn"
  PROVE  VpnInv'
<1>1. Shape' /\ Turns(t, op, Ops(s))
  BY MovesOn DEF VpnInv
<1>2. /\ \A u \in Threads : \A x : Has(u, x)' => Has(u, x) \/ (u = t /\ x \in Ops(s))
      /\ \A u \in Threads : \A x : Has(u, x) => Has(u, x)' \/ (u = t /\ x = op)
      /\ Has(t, op)
  BY <1>1, TurnsHas
<1>3. \A u \in Threads : \A x \in {"tunning", "halted"} : Has(u, x)' <=> Has(u, x)
  BY <1>2
<1>4. \A u \in Threads : Has(u, "halt") => Has(u, "halt")'
  BY <1>2
<1>5. svc'.stopping => \A u \in Threads :
        /\ Has(u, "start")' => Has(u, "start")
        /\ Has(u, "spawn")' => Has(u, "spawn") \/ Has(u, "start")
  BY <1>2
<1>6. live' \subseteq live \/ (\E u \in Threads : Has(u, "spawn"))
  BY <1>2
<1>7. QED  BY <1>1, <1>3, <1>4, <1>5, <1>6, Keeps

(* Thread t, which has nothing left to do but what it is at, or nothing at *)
(* all, gets another script.                                               *)
Idle(t) == todo[t] = <<>> \/ \E op \in LastSteps : At(t, op)

LEMMA IdleHas ==
  ASSUME Shape, NEW t \in Threads, Idle(t)
  PROVE  \A x : Has(t, x) => x \in LastSteps
<1>1. CASE todo[t] = <<>>
  BY <1>1, EmptyScript DEF Has
<1>2. ASSUME NEW op \in LastSteps, At(t, op)
      PROVE  \A x : Has(t, x) => x \in LastSteps
  BY <1>2, LastStep DEF Has
<1>3. QED  BY <1>1, <1>2 DEF Idle

LEMMA TakesUp ==
  ASSUME VpnInv, Fields', Steady, NEW t \in Threads, Idle(t), NEW s, Script(s),
         todo' = [todo EXCEPT ![t] = s], Ops(s) \subseteq Alphabet(t),
         "tunning" \notin Ops(s), "halted" \notin Ops(s), "spawn" \notin Ops(s),
         "start" \in Ops(s) => ~svc'.stopping,
         live' \subseteq live
  PROVE  VpnInv'
<1>1. Shape' /\ todo'[t] = s /\ \A u \in Threads \ {t} : todo'[u] = todo[u]
  BY ShapeKept DEF VpnInv
<1>2. \A u \in Threads \ {t} : \A x : Has(u, x)' <=> Has(u, x)
  BY <1>1 DEF Has
<1>3. \A x : Has(t, x)' <=> x \in Ops(s)
  BY <1>1 DEF Has
<1>4. ~Has(t, "tunning") /\ ~Has(t, "halted") /\ ~Has(t, "halt")
  BY IdleHas DEF VpnInv, LastSteps
<1>5. \A u \in Threads : \A x \in {"tunning", "halted"} : Has(u, x)' <=> Has(u, x)
  BY <1>2, <1>3, <1>4
<1>6. \A u \in Threads : Has(u, "halt") => Has(u, "halt")'
  BY <1>2, <1>4
<1>7. svc'.stopping => \A u \in Threads :
        /\ Has(u, "start")' => Has(u, "start")
        /\ Has(u, "spawn")' => Has(u, "spawn") \/ Has(u, "start")
  BY <1>2, <1>3
<1>8. QED  BY <1>1, <1>5, <1>6, <1>7, Keeps

-----------------------------------------------------------------------------
(* The supervisors and the environment.                                    *)
LEMMA SupervisorKeeps ==
  ASSUME VpnInv, NEW t \in Threads, Start(t) \/ Spawn(t) \/ Stop(t) \/ Destroy(t)
  PROVE  VpnInv'
<1>0. Shape /\ Fields
  BY DEF VpnInv
<1>1. Script(<<>>) /\ Ops(<<>>) = {}
  BY EmptyScript
<1>2. UNCHANGED <<svc, raced, lock, cancelled>> /\ tun' \in {tun, FALSE}
  BY DEF Start, Spawn, Stop, Destroy
<1>3. Fields' /\ Steady
  BY <1>0, <1>2, Unchanging
<1>4. CASE Start(t)
  <2>1. At(t, "start") /\ live' \subseteq live
    BY <1>4 DEF Start
  <2>2. CASE Then(t, <<>>)
    BY <1>1, <1>3, <2>1, <2>2, GoesOn
  <2>3. ASSUME NEW b, NEW n, Then(t, << <<"spawn", b, n>> >>)
        PROVE  VpnInv'
    <3>1. Script(<< <<"spawn", b, n>> >>) /\ Ops(<< <<"spawn", b, n>> >>) = {"spawn"}
      BY SingleScript
    <3>2. "spawn" \in Alphabet(t)
      BY <1>0, <2>1, Present, Alphabets
    <3>3. \A x : MayFollow("start", x) => MayFollow("spawn", x)
      BY DEF MayFollow, LastSteps
    <3>4. QED  BY <1>3, <2>1, <2>3, <3>1, <3>2, <3>3, GoesOn
  <2>4. QED  BY <1>4, <2>2, <2>3 DEF Start
<1>5. CASE Spawn(t)
  <2>1. At(t, "spawn") /\ Then(t, <<>>)
    BY <1>5 DEF Spawn
  <2>2. QED  BY <1>1, <1>3, <2>1, GoesOn
<1>6. CASE Stop(t)
  <2>1. At(t, "stop") /\ Then(t, <<>>) /\ live' \subseteq live
    BY <1>6 DEF Stop
  <2>2. QED  BY <1>1, <1>3, <2>1, GoesOn
<1>7. CASE Destroy(t)
  <2>1. At(t, "destroy") /\ Then(t, <<>>) /\ live' \subseteq live
    BY <1>7 DEF Destroy
  <2>2. QED  BY <1>1, <1>3, <2>1, GoesOn
<1>8. QED  BY <1>4, <1>5, <1>6, <1>7

LEMMA EnvironmentKeeps ==
  ASSUME VpnInv,
         \/ \E p \in watching : Connected(p) \/ TimedOut(p) \/ Exited(p)
         \/ Revoked \/ HelperDies \/ UNCHANGED vars
  PROVE  VpnInv'
<1>1. /\ UNCHANGED <<svc, todo, cancelled, lock, raced>> /\ tun' \in {tun, FALSE}
      /\ live' \subseteq live
  BY DEF Connected, TimedOut, Exited, Revoked, HelperDies, vars
<1>2. Fields' /\ Steady
  BY <1>1, Unchanging DEF VpnInv
<1>3. QED  BY <1>1, <1>2, StandsStill

-----------------------------------------------------------------------------
(* Recovery.                                                               *)
LEMMA Recovers ==
  ASSUME VpnInv, Fields', Steady, NEW t \in Threads, NEW op, At(t, op),
         op \in {"enter", "enterIf", "claim", "attempt", "delay", "wait", "restored", "settle",
                 "finally"},
         NEW s, Script(s), Then(t, s),
         Ops(s) \subseteq Recovery \ {"tunning", "halted", "spawn"},
         "start" \in Ops(s) => ~svc'.stopping,
         live' \subseteq live
  PROVE  VpnInv'
<1>1. Recovery \subseteq Alphabet(t)
  BY Present, Alphabets DEF VpnInv
<1>2. \A a \in Ops(s), b \in Alphabet(t) : MayFollow(op, b) => MayFollow(a, b)
  BY DEF MayFollow, LastSteps, Recovery
<1>3. QED  BY <1>1, <1>2, GoesOn

LEMMA RecoveryKeeps ==
  ASSUME VpnInv, NEW t \in Threads,
         \/ Enter(t) \/ Claim(t) \/ Attempt(t) \/ Restart(t) \/ Wait(t) \/ TunRestored(t)
         \/ Finally(t)
  PROVE  VpnInv'
<1> USE DEF Recovery
<1>0. Shape /\ Fields /\ Stopped
  BY DEF VpnInv
<1>1. Script(<< <<"finally">> >>) /\ Ops(<< <<"finally">> >>) = {"finally"}
  BY SingleScript
<1>2. Script(<<>>) /\ Ops(<<>>) = {}
  BY EmptyScript
<1>3. /\ UNCHANGED <<live, cancelled, lock, raced>> /\ tun' \in {tun, FALSE}
      /\ \/ UNCHANGED svc \/ \E r \in BOOLEAN : svc' = [svc EXCEPT !.reconnecting = r]
         \/ \E b \in Backends : svc' = [svc EXCEPT !.activeBackend = b]
         \/ svc' = [svc EXCEPT !.isRunning = FALSE]
  BY DEF Enter, Claim, Attempt, Restart, Wait, TunRestored, Finally, Backends
<1>4. Fields' /\ Steady /\ svc'.stopping = svc.stopping /\ live' \subseteq live
  <2>1. tun' \in BOOLEAN /\ (tun' => tun)
    BY <1>0, <1>3, TunIs
  <2>2. svc' \in Service /\ svc'.stopping = svc.stopping /\ svc'.configured = svc.configured
        /\ svc'.lastIntent = svc.lastIntent /\ (svc'.isRunning => svc.isRunning)
    BY <1>0, <1>3 DEF Fields, Service
  <2>3. Fields'
    BY <1>0, <1>3, <2>1, <2>2 DEF Fields
  <2>4. Steady
    BY <1>3, <2>1, <2>2 DEF Steady
  <2>5. QED  BY <1>3, <2>2, <2>3, <2>4
<1>5. CASE Enter(t)
  <2>1. \A g : Script(<< <<"claim", g>> >>) /\ Ops(<< <<"claim", g>> >>) = {"claim"}
    BY SingleScript
  <2>2. \/ At(t, "enter") /\ Then(t, << <<"claim", svc.generation>> >>)
        \/ At(t, "enterIf") /\ Then(t, << <<"claim", Arg(t)>> >>)
        \/ At(t, "enterIf") /\ Then(t, <<>>)
    BY <1>5 DEF Enter
  <2>3. QED  BY <1>2, <1>4, <2>1, <2>2, Recovers
<1>6. CASE Claim(t)
  <2>1. /\ Script(<< <<"attempt", 1, Arg(t)>> >>)
        /\ Ops(<< <<"attempt", 1, Arg(t)>> >>) = {"attempt"}
    BY SingleScript
  <2>2. At(t, "claim") /\ (Then(t, <<>>) \/ Then(t, << <<"attempt", 1, Arg(t)>> >>))
    BY <1>6 DEF Claim
  <2>3. QED  BY <1>2, <1>4, <2>1, <2>2, Recovers
<1>7. CASE Attempt(t)
  <2>1. At(t, "attempt")
    BY <1>7 DEF Attempt
  <2>2. ASSUME NEW k, NEW g, Then(t, stopClients \o << <<"delay", k, g>> >>)
        PROVE  VpnInv'
    <3>1. /\ Script(<< <<"delay", k, g>> >>) /\ Ops(<< <<"delay", k, g>> >>) = {"delay"}
          /\ "tunning" \notin {"delay"}
      BY SingleScript
    <3>2. /\ Script(stopClients \o << <<"delay", k, g>> >>)
          /\ Ops(stopClients \o << <<"delay", k, g>> >>) = {"stop", "destroy", "delay"}
      <4>1. Script(stopClients) /\ Ops(stopClients) = {"stop", "destroy"}
        BY StopScripts
      <4>2. QED  BY <3>1, <4>1, StopFirst
    <3>3. QED  BY <1>4, <2>1, <2>2, <3>2, Recovers
  <2>3. ASSUME Then(t, << <<"surrender">> >> \o stopEverything \o << <<"finally">> >>)
        PROVE  VpnInv'
    <3>1. /\ MayFollow("surrender", "halt") /\ MayFollow("surrender", "finally")
          /\ MayFollow("halt", "finally")
      BY DEF MayFollow, LastSteps
    <3>2. /\ Script(<< <<"surrender">> >>) /\ Ops(<< <<"surrender">> >>) = {"surrender"}
          /\ Script(stopEverything) /\ Ops(stopEverything) = {"halt"}
      BY SingleScript DEF stopEverything
    <3>3. /\ Script(stopEverything \o << <<"finally">> >>)
          /\ Ops(stopEverything \o << <<"finally">> >>) = {"halt", "finally"}
      <4>1. \A a \in Ops(stopEverything), b \in Ops(<< <<"finally">> >>) : MayFollow(a, b)
        BY <1>1, <3>1, <3>2
      <4>2. QED  BY <1>1, <3>2, <4>1, JoinScripts
    <3>4. << <<"surrender">> >> \o stopEverything \o << <<"finally">> >> =
            << <<"surrender">> >> \o (stopEverything \o << <<"finally">> >>)
      BY DEF stopEverything
    <3>5. /\ Script(<< <<"surrender">> >> \o stopEverything \o << <<"finally">> >>)
          /\ Ops(<< <<"surrender">> >> \o stopEverything \o << <<"finally">> >>) =
               {"surrender", "halt", "finally"}
      <4>1. \A a \in Ops(<< <<"surrender">> >>), b \in Ops(stopEverything \o << <<"finally">> >>) :
              MayFollow(a, b)
        BY <3>1, <3>2, <3>3
      <4>2. /\ Script(<< <<"surrender">> >> \o (stopEverything \o << <<"finally">> >>))
            /\ Ops(<< <<"surrender">> >> \o (stopEverything \o << <<"finally">> >>)) =
                 {"surrender"} \cup {"halt", "finally"}
        BY <3>2, <3>3, <4>1, JoinScripts
      <4>3. QED  BY <3>4, <4>2
    <3>6. QED  BY <1>4, <2>1, <2>3, <3>5, Recovers
  <2>4. ASSUME Then(t, << <<"finally">> >>)
        PROVE  VpnInv'
    BY <1>1, <1>4, <2>1, <2>4, Recovers
  <2>5. QED  BY <1>7, <2>2, <2>3, <2>4 DEF Attempt
<1>8. CASE Restart(t)
  <2>1. At(t, "delay")
    BY <1>8 DEF Restart
  <2>2. CASE Then(t, << <<"finally">> >>)
    BY <1>1, <1>4, <2>1, <2>2, Recovers
  <2>3. ASSUME NEW b, NEW k, NEW g, Running(t), Then(t, StartOf(b) \o << <<"wait", k, g>> >>)
        PROVE  VpnInv'
    <3>1. /\ Script(StartOf(b)) /\ Ops(StartOf(b)) = {"start"}
          /\ Script(<< <<"wait", k, g>> >>) /\ Ops(<< <<"wait", k, g>> >>) = {"wait"}
      BY SingleScript DEF StartOf
    <3>2. MayFollow("start", "wait")
      BY DEF MayFollow, LastSteps
    <3>3. \A x \in Ops(StartOf(b)), y \in Ops(<< <<"wait", k, g>> >>) : MayFollow(x, y)
      BY <3>1, <3>2
    <3>4. /\ Script(StartOf(b) \o << <<"wait", k, g>> >>)
          /\ Ops(StartOf(b) \o << <<"wait", k, g>> >>) = {"start", "wait"}
      BY <3>1, <3>3, JoinScripts
    <3>5. t \in {"health", "net"}
      BY <1>0, <2>1, Present, Alphabets
    <3>6. ~svc.stopping
      BY <1>0, <2>3, <3>5 DEF Stopped, Running, Coroutines
    <3>7. QED  BY <1>4, <2>1, <2>3, <3>4, <3>6, Recovers
  <2>4. QED  BY <1>8, <2>2, <2>3 DEF Restart
<1>9. CASE Wait(t)
  <2>1. At(t, "wait")
    BY <1>9 DEF Wait
  <2>2. CASE Then(t, << <<"finally">> >>)
    BY <1>1, <1>4, <2>1, <2>2, Recovers
  <2>3. ASSUME NEW k, NEW g, Then(t, << <<"tun">>, <<"restored", k, g>> >>)
        PROVE  VpnInv'
    <3>1. MayFollow("tun", "restored")
      BY DEF MayFollow, LastSteps
    <3>2. /\ Script(<< <<"tun">>, <<"restored", k, g>> >>)
          /\ Ops(<< <<"tun">>, <<"restored", k, g>> >>) = {"tun", "restored"}
      BY <3>1, PairScript
    <3>3. QED  BY <1>4, <2>1, <2>3, <3>2, Recovers
  <2>4. ASSUME NEW k, NEW g, Then(t, << <<"attempt", k, g>> >>)
        PROVE  VpnInv'
    <3>1. Script(<< <<"attempt", k, g>> >>) /\ Ops(<< <<"attempt", k, g>> >>) = {"attempt"}
      BY SingleScript
    <3>2. QED  BY <1>4, <2>1, <2>4, <3>1, Recovers
  <2>5. QED  BY <1>9, <2>2, <2>3, <2>4 DEF Wait
<1>10. CASE TunRestored(t)
  <2>1. At(t, "restored")
    BY <1>10 DEF TunRestored
  <2>2. \A k, g : /\ Script(<< <<"settle", g>> >>) /\ Ops(<< <<"settle", g>> >>) = {"settle"}
                  /\ Script(<< <<"attempt", k, g>> >>)
                  /\ Ops(<< <<"attempt", k, g>> >>) = {"attempt"}
    BY SingleScript
  <2>3. \E k, g : Then(t, << <<"settle", g>> >>) \/ Then(t, << <<"attempt", k, g>> >>)
    BY <1>10 DEF TunRestored
  <2>4. QED  BY <1>4, <2>1, <2>2, <2>3, Recovers
<1>11. CASE Finally(t)
  <2>1. At(t, "finally") /\ Then(t, <<>>)
    BY <1>11 DEF Finally
  <2>2. QED  BY <1>2, <1>4, <2>1, Recovers
<1>12. QED  BY <1>5, <1>6, <1>7, <1>8, <1>9, <1>10, <1>11

LEMMA CoroutinesKeep ==
  ASSUME VpnInv, Monitor \/ NetworkJob \/ OnAvailable
  PROVE  VpnInv'
<1>0. Shape /\ Fields /\ {"health", "net"} \subseteq Threads
  BY DEF VpnInv, Threads
<1>1. UNCHANGED <<svc, raced, lock, live, tun>>
  BY DEF Monitor, NetworkJob, OnAvailable
<1>2. Fields'
  BY <1>0, <1>1 DEF Fields
<1>3. UNCHANGED cancelled => Steady
  BY <1>1 DEF Steady
<1>4. Script(<<>>) /\ Ops(<<>>) = {}
  BY EmptyScript
<1>5. ASSUME NEW t \in {"health", "net"}, NEW op \in {"monitor", "network"}, At(t, op),
             NEW s, Script(s), Then(t, s), Ops(s) \subseteq {"enter", "enterIf", "monitor"},
             Ops(s) \subseteq Alphabet(t), UNCHANGED cancelled
      PROVE  VpnInv'
  <2>1. ~MayFollow(op, op) /\ \A b : ~MayFollow(op, b)
    BY DEF MayFollow, LastSteps
  <2>2. QED  BY <1>0, <1>1, <1>2, <1>3, <1>5, <2>1, GoesOn
<1>6. {"enter", "enterIf", "monitor"} \subseteq Alphabet("health") /\ "enterIf" \in Alphabet("net")
      /\ "network" \in Alphabet("net")
  BY DEF Alphabet, Recovery
<1>7. CASE Monitor
  <2> DEFINE h == Head(todo["health"])
  <2>1. At("health", "monitor") /\ UNCHANGED cancelled /\ h[1] = "monitor"
    BY <1>7 DEF Monitor, At
  <2>2. CASE Then("health", <<>>)
    BY <1>4, <1>5, <2>1, <2>2
  <2>3. ASSUME NEW e, e[1] \in {"enter", "enterIf"}, Then("health", <<e, h>>)
        PROVE  VpnInv'
    <3>1. MayFollow(e[1], h[1])
      BY <2>1, <2>3 DEF MayFollow, LastSteps
    <3>2. Script(<<e, h>>) /\ Ops(<<e, h>>) = {e[1], h[1]}
      BY <3>1, PairScript
    <3>3. QED  BY <1>5, <1>6, <2>1, <2>3, <3>2
  <2>4. <<"enter">>[1] = "enter" /\ <<"enterIf", Arg("health")>>[1] = "enterIf"
    OBVIOUS
  <2>5. QED  BY <1>7, <2>2, <2>3, <2>4 DEF Monitor
<1>8. CASE NetworkJob
  <2>1. At("net", "network") /\ UNCHANGED cancelled
    BY <1>8 DEF NetworkJob
  <2>2. Then("net", <<>>) \/ Then("net", << <<"enterIf", Arg("net")>> >>)
    BY <1>8 DEF NetworkJob
  <2>3. /\ Script(<< <<"enterIf", Arg("net")>> >>)
        /\ Ops(<< <<"enterIf", Arg("net")>> >>) = {"enterIf"}
    BY SingleScript
  <2>4. QED  BY <1>4, <1>5, <1>6, <2>1, <2>2, <2>3
<1>9. CASE OnAvailable
  <2> DEFINE n == <<"network", svc.generation>>
  <2>1. /\ todo' = [todo EXCEPT !["net"] = <<n>>] /\ ~svc.stopping /\ ~svc'.stopping
        /\ todo["net"] = <<>> \/ At("net", "network")
    BY <1>1, <1>9 DEF OnAvailable
  <2>2. Script(<<n>>) /\ Ops(<<n>>) = {"network"}
    BY SingleScript
  <2>3. Idle("net")
    BY <2>1 DEF Idle, LastSteps
  <2>4. Steady
    BY <1>1, <2>1 DEF Steady
  <2> HIDE DEF n
  <2>5. QED  BY <1>0, <1>1, <1>2, <1>6, <2>1, <2>2, <2>3, <2>4, TakesUp
<1>10. QED  BY <1>7, <1>8, <1>9

LEMMA SettleKeeps ==
  ASSUME VpnInv, NEW t \in Threads, Settle(t)
  PROVE  VpnInv'
<1> DEFINE m == <<"monitor", svc.generation>>
           f == <<"finally">>
<1>0. /\ Shape /\ Fields /\ At(t, "settle") /\ todo[t] # <<>>
      /\ UNCHANGED <<svc, live, tun, lock, raced>>
  BY DEF VpnInv, Settle, At
<1>1. t \in {"health", "net"}
  BY <1>0, Present, Alphabets
<1>2. Script(<<f>>) /\ Ops(<<f>>) = {"finally"}
  BY SingleScript
<1>3. Fields'
  BY <1>0 DEF Fields
<1>4. /\ Ops(todo[t]) = {"settle"} \cup Rest(t) /\ Rest(t) \subseteq {"monitor"}
      /\ Rest(t) \subseteq Alphabet(t) /\ Script(Tail(todo[t]))
  <2>1. /\ Ops(todo[t]) = {"settle"} \cup Rest(t) /\ Rest(t) \subseteq Alphabet(t)
        /\ \A b \in Rest(t) : MayFollow("settle", b)
        /\ Script(Tail(todo[t]))
    BY <1>0, Present
  <2>2. Rest(t) \subseteq {"monitor"}
    BY <2>1 DEF MayFollow, LastSteps
  <2>3. QED  BY <2>1, <2>2
<1>5. CASE Then(t, <<f>>) /\ UNCHANGED cancelled
  <2>1. Steady
    BY <1>0, <1>5 DEF Steady
  <2>2. QED  BY <1>0, <1>2, <1>3, <1>5, <2>1, Recovers DEF Recovery
<1>6. ASSUME ~svc.stopping, Shape',
             \A u \in Threads, x \in {"tunning", "halted", "halt"} :
               x \in Ops(todo'[u]) <=> x \in Ops(todo[u])
      PROVE  VpnInv'
  <2>1. Steady /\ ~svc'.stopping
    BY <1>0, <1>6 DEF Steady
  <2>2. QED  BY <1>0, <1>3, <1>6, <2>1, Keeps DEF Has
<1>7. CASE /\ Current(Arg(t)) /\ t = "health"
           /\ todo' = [Monitored(Instead(t, <<f>>)) EXCEPT !["health"] = <<f, m>>]
  <2>1. todo' = [todo EXCEPT !["health"] = <<f, m>>]
    <3>1. Instead(t, <<f>>) = [todo EXCEPT !["health"] = <<f>> \o Tail(todo["health"])]
      BY <1>0, <1>7 DEF Instead, Shape
    <3>2. \E s : Monitored(Instead(t, <<f>>)) = [todo EXCEPT !["health"] = s]
      BY <1>0, <3>1 DEF Monitored, Shape, Threads
    <3>3. QED  BY <1>0, <1>7, <3>2 DEF Shape, Threads
  <2>2. f[1] = "finally" /\ m[1] = "monitor" /\ MayFollow("finally", "monitor")
    BY DEF MayFollow, LastSteps
  <2>3. Script(<<f, m>>) /\ Steps(<<f, m>>) = {f, m} /\ Ops(<<f, m>>) = {"finally", "monitor"}
    BY <2>2, PairScript
  <2>4. {"finally", "monitor"} \subseteq Alphabet("health")
    BY DEF Alphabet, Recovery
  <2>5. Shape' /\ todo'["health"] = <<f, m>> /\ \A u \in Threads \ {"health"} : todo'[u] = todo[u]
    BY <1>0, <2>1, <2>3, <2>4, ShapeKept DEF Threads
  <2>6. \A u \in Threads, x \in {"tunning", "halted", "halt"} :
          x \in Ops(todo'[u]) <=> x \in Ops(todo[u])
    BY <1>4, <1>7, <2>3, <2>5 DEF Threads
  <2>7. ~svc.stopping
    BY <1>7 DEF Current
  <2>8. QED  BY <1>6, <2>5, <2>6, <2>7
<1>8. CASE /\ Current(Arg(t)) /\ t = "net"
           /\ todo' = [Monitored(Instead(t, <<f>>)) EXCEPT !["health"] = @]
  <2>1. Tail(todo[t]) = <<>>
    <3>1. Rest(t) = {}
      BY <1>4, <1>8 DEF Alphabet, Recovery
    <3>2. QED  BY <1>4, <3>1, NoSteps DEF Rest
  <2>2. /\ DOMAIN Instead(t, <<f>>) = Threads /\ Instead(t, <<f>>)["net"] = <<f>>
        /\ \A u \in Threads \ {"net"} : Instead(t, <<f>>)[u] = todo[u]
    <3>1. <<f>> \o Tail(todo[t]) = <<f>>
      BY <1>2, <2>1, NothingAfter
    <3>2. Instead(t, <<f>>) = [todo EXCEPT !["net"] = <<f>>]
      BY <1>8, <3>1 DEF Instead
    <3>3. QED  BY <1>0, <3>2 DEF Shape, Threads
  <2>3. /\ DOMAIN Monitored(Instead(t, <<f>>)) = Threads
        /\ \A u \in Threads \ {"health"} : Monitored(Instead(t, <<f>>))[u] = Instead(t, <<f>>)[u]
        /\ \/ /\ Monitored(Instead(t, <<f>>))["health"] = <<m>>
              /\ Ops(todo["health"]) \subseteq {"monitor"}
           \/ Monitored(Instead(t, <<f>>))["health"] = todo["health"]
    <3>1. Instead(t, <<f>>)["health"] = todo["health"] /\ Script(todo["health"])
      BY <1>0, <2>2, ShapeGives DEF Threads
    <3>2. QED  BY <2>2, <3>1, MonitoredTodo
  <2>4. /\ DOMAIN todo' = Threads /\ \A u \in Threads \ {"health", "net"} : todo'[u] = todo[u]
        /\ todo'["net"] = <<f>>
        /\ \/ todo'["health"] = <<m>> /\ Ops(todo["health"]) \subseteq {"monitor"}
           \/ todo'["health"] = todo["health"]
    BY <1>8, <2>2, <2>3 DEF Threads
  <2>5. Script(<<m>>) /\ Steps(<<m>>) = {m} /\ Ops(<<m>>) = {"monitor"}
    BY SingleScript
  <2>6. Shape'
    <3>1. ASSUME NEW u \in Threads
          PROVE  /\ todo'[u] \in Seq(Steps(todo'[u])) /\ Ops(todo'[u]) \subseteq Alphabet(u)
                 /\ Ordered(todo'[u])
      <4>1. CASE todo'[u] = todo[u]
        BY <1>0, <4>1 DEF Shape
      <4>2. CASE u = "net"
        BY <1>2, <2>4, <4>2 DEF Script, Alphabet, Recovery
      <4>3. CASE u = "health" /\ todo'["health"] = <<m>>
        BY <2>5, <4>3 DEF Script, Alphabet, Recovery
      <4>4. QED  BY <2>4, <4>1, <4>2, <4>3
    <3>2. QED  BY <2>4, <3>1 DEF Shape
  <2>7. \A u \in Threads, x \in {"tunning", "halted", "halt"} :
          x \in Ops(todo'[u]) <=> x \in Ops(todo[u])
    BY <1>2, <1>4, <1>8, <2>4, <2>5
  <2>8. ~svc.stopping
    BY <1>8 DEF Current
  <2>9. QED  BY <1>6, <2>6, <2>7, <2>8
<1>9. QED  BY <1>1, <1>5, <1>7, <1>8 DEF Settle

-----------------------------------------------------------------------------
(* Inside the lock.  A thread that is refused there changes nothing that   *)
(* the others depend on.                                                   *)
LEMMA HaltTwiceKeeps ==
  ASSUME VpnInv, NEW t \in Threads, Halt(t), svc.stopping
  PROVE  VpnInv'
<1>0. /\ Shape /\ Fields /\ At(t, "halt") /\ lock \in {NoOne, t} /\ lock' = NoOne /\ Then(t, <<>>)
      /\ UNCHANGED <<svc, tun, cancelled, raced, live>>
  BY DEF VpnInv, Halt
<1>1. Shape' /\ Turns(t, "halt", {})
  BY <1>0, EmptyScript, MovesOn
<1>2. /\ \A u \in Threads : \A x : Has(u, x)' => Has(u, x)
      /\ \A u \in Threads : \A x : Has(u, x) => Has(u, x)' \/ (u = t /\ x = "halt")
      /\ Has(t, "halt") /\ \A x : Has(t, x) => x = "halt" \/ MayFollow("halt", x)
  BY <1>1, TurnsHas
<1>3. \A u \in Threads : ~Has(u, "tunning") /\ ~Has(u, "halted")
  BY <1>0, <1>2 DEF VpnInv, Locking, NoOne, Threads, MayFollow, LastSteps
<1>4. \A u \in Threads : \A x : x # "halt" => (Has(u, x)' <=> Has(u, x))
  BY <1>2
<1>5. Fields' /\ Locking'
  BY <1>0, <1>2, <1>3 DEF Fields, Locking
<1>6. InSession' /\ TunnelHasSession'
  BY <1>0, <1>4 DEF VpnInv, InSession, TunnelHasSession
<1>7. Stopped' /\ Unraced'
  BY <1>0, <1>4 DEF VpnInv, Stopped, Unraced, Halting
<1>8. QED  BY <1>1, <1>5, <1>6, <1>7 DEF VpnInv

LEMMA HaltKeeps ==
  ASSUME VpnInv, NEW t \in Threads, Halt(t), ~svc.stopping
  PROVE  VpnInv'
<1> DEFINE h == stopClients \o << <<"halted">> >>
           td == Instead(t, h)
<1>0. /\ Shape /\ Fields /\ At(t, "halt") /\ lock \in {NoOne, t} /\ lock' = t
      /\ svc' = [svc EXCEPT !.stopping = TRUE, !.reconnecting = FALSE,
                            !.generation = @ + 1]
      /\ cancelled' = cancelled \cup {"health", "net"} /\ tun' = FALSE
      /\ raced' = \E u \in Threads \ {t} : Starting(u)
      /\ todo' = Unmonitored(td)
      /\ UNCHANGED live
  BY DEF VpnInv, Halt
<1>1. Script(h) /\ Ops(h) = {"stop", "destroy", "halted"}
  <2>1. /\ Script(<< <<"halted">> >>) /\ Ops(<< <<"halted">> >>) = {"halted"}
        /\ "tunning" \notin {"halted"}
    BY SingleScript
  <2>2. QED  BY <2>1, StopScripts, StopFirst
<1> HIDE DEF h
<1>2. /\ Ops(todo[t]) = {"halt"} \cup Rest(t) /\ Rest(t) \subseteq Alphabet(t)
      /\ \A b \in Rest(t) : MayFollow("halt", b)
      /\ Script(Tail(todo[t]))
  BY <1>0, Present
<1>a. Script(h \o Tail(todo[t])) /\ Ops(h \o Tail(todo[t])) = Ops(h) \cup Rest(t)
  <2>1. \A a \in Ops(h), b \in Ops(Tail(todo[t])) : MayFollow(a, b)
    BY <1>1, <1>2 DEF Rest, MayFollow, LastSteps
  <2>2. QED  BY <1>1, <1>2, <2>1, JoinScripts DEF Rest
<1>b. /\ DOMAIN td = Threads /\ td[t] = h \o Tail(todo[t])
      /\ \A u \in Threads \ {t} : td[u] = todo[u]
  BY <1>0 DEF Instead, Shape
<1> HIDE DEF td
<1>c. \A u \in Threads : Script(td[u]) /\ Ops(td[u]) \subseteq Alphabet(u)
  <2>1. Ops(h) \subseteq Alphabet(t)
    BY <1>1, Alphabets
  <2>2. ASSUME NEW u \in Threads PROVE Script(td[u]) /\ Ops(td[u]) \subseteq Alphabet(u)
    <3>1. CASE u = t
      BY <1>2, <1>a, <1>b, <2>1, <3>1
    <3>2. CASE u # t
      BY <1>0, <1>b, <3>2, ShapeGives
    <3>3. QED  BY <3>1, <3>2
  <2>3. QED  BY <2>2
<1>d. /\ DOMAIN todo' = Threads /\ \A u \in Threads \ {"health"} : todo'[u] = td[u]
      /\ \/ todo'["health"] = <<>> /\ Ops(td["health"]) = {"monitor"}
         \/ todo'["health"] = td["health"]
  <2>1. Script(td["health"])
    BY <1>c DEF Threads
  <2>2. QED  BY <1>0, <1>b, <2>1, UnmonitoredTodo
<1>e. \A u \in Threads : Script(todo'[u]) /\ Ops(todo'[u]) \subseteq Ops(td[u])
  BY <1>c, <1>d, EmptyScript
<1>f. Shape'
  <2>1. \A u \in Threads : Ops(todo'[u]) \subseteq Alphabet(u)
    BY <1>c, <1>e
  <2>2. QED  BY <1>d, <1>e, <2>1 DEF Shape, Script
<1>g. \A u \in Threads : \A x \in Ops(td[u]) : x \in Ops(todo'[u]) \/ x = "monitor"
  BY <1>d
<1>3. /\ \A u \in Threads : \A x : Has(u, x)' => Has(u, x) \/ (u = t /\ x \in {"stop", "destroy", "halted"})
      /\ Has(t, "halted")'
      /\ Has(t, "halt") /\ \A x : Has(t, x) => x = "halt" \/ MayFollow("halt", x)
  <2>1. \A u \in Threads \ {t} : Ops(td[u]) = Ops(todo[u])
    BY <1>b
  <2>2. Ops(td[t]) = {"stop", "destroy", "halted"} \cup Rest(t)
    BY <1>1, <1>a, <1>b
  <2>3. \A u \in Threads : \A x \in Ops(todo'[u]) :
          x \in Ops(todo[u]) \/ (u = t /\ x \in {"stop", "destroy", "halted"})
    BY <1>2, <1>e, <2>1, <2>2
  <2>4. "halted" \in Ops(todo'[t])
    BY <1>g, <2>2
  <2>5. QED  BY <1>2, <2>3, <2>4 DEF Has
<1>4. \A u \in Threads : ~Has(u, "tunning") /\ ~Has(u, "halted")
  BY <1>0, <1>3 DEF VpnInv, Locking, NoOne, Threads, MayFollow, LastSteps
<1>5. Halting'
  BY <1>3 DEF Halting
<1>6. svc' \in Service /\ svc'.configured = svc.configured /\ svc'.lastIntent = svc.lastIntent
      /\ svc'.isRunning = svc.isRunning /\ svc'.stopping
  <2> DEFINE n == svc.generation + 1
  <2>1. svc' = [svc EXCEPT !.stopping = TRUE, !.reconnecting = FALSE, !.generation = n]
    BY <1>0
  <2>2. n \in Nat
    BY <1>0 DEF Fields, Service
  <2> HIDE DEF n
  <2>3. QED  BY <1>0, <2>1, <2>2 DEF Fields, Service
<1>7. Fields'
  <2>1. raced' \in BOOLEAN
    <3> DEFINE R == \E u \in Threads \ {t} : Starting(u)
    <3>1. R \in BOOLEAN
      OBVIOUS
    <3>2. raced' = R
      BY <1>0
    <3> HIDE DEF R
    <3>3. QED  BY <3>1, <3>2
  <2>2. QED  BY <1>0, <1>6, <2>1 DEF Fields
<1>8. Locking'
  BY <1>0, <1>3, <1>4 DEF Locking
<1>9. InSession' /\ TunnelHasSession'
  <2>1. \A u \in Threads : ~Has(u, "tunning")'
    BY <1>3, <1>4
  <2>2. QED  BY <1>0, <1>6, <2>1 DEF VpnInv, InSession, TunnelHasSession
<1>10. Stopped'
  BY <1>0, <1>5 DEF Stopped, Coroutines
<1>11. Unraced'
  <2>1. \A u \in Threads : Has(u, "start") \/ Has(u, "spawn") => Starting(u)
    BY DEF Has, Ops, Starting
  <2>2. ~Has(t, "start") /\ ~Has(t, "spawn")
    BY <1>3 DEF MayFollow, LastSteps
  <2>3. ~raced' => \A u \in Threads : ~Has(u, "start") /\ ~Has(u, "spawn")
    BY <1>0, <2>1, <2>2
  <2>4. QED  BY <1>3, <1>5, <2>3 DEF Unraced
<1>12. QED  BY <1>f, <1>7, <1>8, <1>9, <1>10, <1>11 DEF VpnInv

(* The service is let go, in whatever state: only doomed may change.       *)
LEMMA LetsGo ==
  ASSUME NEW s \in Service, NEW q, LetGo(s, q)
  PROVE  \E d \in BOOLEAN : svc' = [s EXCEPT !.doomed = d]
<1> DEFINE over == (svc.started \/ svc.bound) /\ ~s.started /\ ~s.bound
           d == s.doomed \/ over
<1>1. d \in BOOLEAN
  OBVIOUS
<1>2. svc' = [s EXCEPT !.doomed = d]
  BY DEF LetGo
<1> HIDE DEF d
<1>3. QED  BY <1>1, <1>2

LEMMA HaltedKeeps ==
  ASSUME VpnInv, NEW t \in Threads, Halted(t)
  PROVE  VpnInv'
<1> DEFINE s == [svc EXCEPT !.configured = FALSE, !.isRunning = FALSE, !.lastIntent = FALSE,
                            !.shutdownComplete = TRUE, !.started = FALSE]
<1>0. /\ Shape /\ Fields /\ At(t, "halted") /\ Then(t, <<>>) /\ LetGo(s, posted)
      /\ live' = {} /\ tun' = FALSE /\ lock' = NoOne
      /\ UNCHANGED <<cancelled, raced>>
  BY DEF VpnInv, Halted
<1>1. Shape' /\ Turns(t, "halted", {})
  BY <1>0, EmptyScript, MovesOn
<1>2. /\ \A u \in Threads : \A x : Has(u, x)' => Has(u, x)
      /\ \A u \in Threads : \A x : Has(u, x) => Has(u, x)' \/ (u = t /\ x = "halted")
      /\ Has(t, "halted") /\ \A x : Has(t, x)' => MayFollow("halted", x)
  BY <1>1, TurnsHas
<1>3. \A u \in Threads : ~Has(u, "tunning")' /\ ~Has(u, "halted")'
  <2>1. ~Has(t, "tunning")' /\ ~Has(t, "halted")'
    BY <1>2 DEF MayFollow, LastSteps
  <2>2. lock = t
    BY <1>2 DEF VpnInv, Locking
  <2>3. QED  BY <1>2, <2>1, <2>2 DEF VpnInv, Locking
<1>4. \A u \in Threads : \A x : x # "halted" => (Has(u, x)' <=> Has(u, x))
  BY <1>2
<1>5. /\ svc' \in Service /\ svc'.stopping = svc.stopping /\ ~svc'.isRunning
      /\ ~svc'.lastIntent
  <2>1. s \in Service /\ s.stopping = svc.stopping /\ ~s.isRunning /\ ~s.lastIntent
    BY <1>0 DEF Fields, Service
  <2> HIDE DEF s
  <2>2. PICK d \in BOOLEAN : svc' = [s EXCEPT !.doomed = d]
    BY <1>0, <2>1, LetsGo
  <2>3. QED  BY <2>1, <2>2 DEF Service
<1>6. Fields' /\ Locking'
  BY <1>0, <1>3, <1>5 DEF Fields, Locking
<1>7. InSession' /\ TunnelHasSession'
  BY <1>0, <1>3, <1>5 DEF InSession, TunnelHasSession
<1>8. Stopped' /\ Unraced'
  BY <1>0, <1>4, <1>5 DEF VpnInv, Stopped, Unraced
<1>9. QED  BY <1>1, <1>6, <1>7, <1>8 DEF VpnInv

(* startTun2Socks takes the lock, if there is a session.                   *)
LEMMA TunBeginKeeps ==
  ASSUME VpnInv, NEW t \in Threads, TunBegin(t)
  PROVE  VpnInv'
<1>0. /\ Shape /\ Fields /\ At(t, "tun") /\ lock = NoOne
      /\ UNCHANGED <<svc, live, tun, cancelled, raced>>
  BY DEF VpnInv, TunBegin
<1>1. CASE Then(t, <<>>) /\ UNCHANGED lock
  <2>1. Fields' /\ Steady
    BY <1>0, <1>1, Unchanging
  <2>2. QED  BY <1>0, <1>1, <2>1, EmptyScript, GoesOn
<1>2. CASE svc.configured /\ svc.lastIntent /\ lock' = t /\ Then(t, << <<"tunning">> >>)
  <2>1. Script(<< <<"tunning">> >>) /\ Ops(<< <<"tunning">> >>) = {"tunning"}
    BY SingleScript
  <2>2. {"tunning"} \subseteq Alphabet(t)
    BY <1>0, Present, Alphabets
  <2>3. \A a \in {"tunning"}, b \in Alphabet(t) : MayFollow("tun", b) => MayFollow(a, b)
    BY DEF MayFollow, LastSteps
  <2>4. Shape' /\ Turns(t, "tun", {"tunning"})
    BY <1>0, <1>2, <2>1, <2>2, <2>3, MovesOn
  <2>5. /\ \A u \in Threads : \A x : Has(u, x)' => Has(u, x) \/ (u = t /\ x = "tunning")
        /\ \A u \in Threads : \A x : Has(u, x) => Has(u, x)' \/ (u = t /\ x = "tun")
        /\ Has(t, "tunning")'
    BY <2>4, TurnsHas
  <2>6. \A u \in Threads : ~Has(u, "tunning") /\ ~Has(u, "halted")
    BY <1>0 DEF VpnInv, Locking, NoOne, Threads
  <2>7. /\ \A u \in Threads : \A x : x \notin {"tun", "tunning"} => (Has(u, x)' <=> Has(u, x))
        /\ Halting' <=> Halting
    BY <2>5 DEF Halting
  <2>8. Fields'
    BY <1>0 DEF Fields
  <2>9. Locking'
    BY <1>2, <2>5, <2>6 DEF Locking
  <2>10. InSession' /\ TunnelHasSession'
    BY <1>0, <1>2, <2>5 DEF VpnInv, InSession, TunnelHasSession
  <2>11. Stopped' /\ Unraced'
    BY <1>0, <2>7 DEF VpnInv, Stopped, Unraced
  <2>12. QED  BY <2>4, <2>8, <2>9, <2>10, <2>11 DEF VpnInv
<1>3. svc.configured \in BOOLEAN /\ svc.lastIntent \in BOOLEAN
  BY <1>0 DEF Fields, Service
<1>4. QED  BY <1>1, <1>2, <1>3 DEF TunBegin

(* ... and it comes up in the session that it was begun in.                *)
LEMMA TunUpKeeps ==
  ASSUME VpnInv, NEW t \in Threads, TunUp(t)
  PROVE  VpnInv'
<1> DEFINE td == Instead(t, <<>>)
           m == <<"monitor", svc.generation>>
<1>0. /\ Shape /\ Fields /\ At(t, "tunning") /\ tun' = TRUE /\ lock' = NoOne
      /\ svc' = [svc EXCEPT !.isRunning = TRUE]
      /\ UNCHANGED <<live, raced>>
      /\ todo' = td \/ todo' = Monitored(td)
  BY DEF VpnInv, TunUp, Then
<1>1. /\ Ops(todo[t]) = {"tunning"} \cup Rest(t) /\ Rest(t) \subseteq Alphabet(t)
      /\ \A b \in Rest(t) : MayFollow("tunning", b)
      /\ Script(Tail(todo[t])) /\ todo[t] # <<>>
  BY <1>0, Present
<1>2. /\ DOMAIN td = Threads /\ td[t] = Tail(todo[t])
      /\ \A u \in Threads \ {t} : td[u] = todo[u]
  <2>1. <<>> \o Tail(todo[t]) = Tail(todo[t])
    BY <1>1 DEF Script
  <2>2. td = [todo EXCEPT ![t] = Tail(todo[t])]
    BY <2>1 DEF Instead
  <2>3. QED  BY <1>0, <2>2 DEF Shape
<1> HIDE DEF td
<1>3. \A u \in Threads : Script(td[u]) /\ Ops(td[u]) \subseteq Alphabet(u)
  <2>1. ASSUME NEW u \in Threads PROVE Script(td[u]) /\ Ops(td[u]) \subseteq Alphabet(u)
    <3>1. CASE u = t
      BY <1>1, <1>2, <3>1 DEF Rest
    <3>2. CASE u # t
      BY <1>0, <1>2, <3>2, ShapeGives
    <3>3. QED  BY <3>1, <3>2
  <2>2. QED  BY <2>1
<1>4. /\ DOMAIN todo' = Threads /\ \A u \in Threads \ {"health"} : todo'[u] = td[u]
      /\ \/ todo'["health"] = <<m>> /\ Ops(td["health"]) \subseteq {"monitor"}
         \/ todo'["health"] = td["health"]
  <2>1. CASE todo' = td
    BY <1>2, <2>1
  <2>2. CASE todo' = Monitored(td)
    BY <1>2, <1>3, <2>2, MonitoredTodo DEF Threads
  <2>3. QED  BY <1>0, <2>1, <2>2
<1>5. Script(<<m>>) /\ Ops(<<m>>) = {"monitor"}
  BY SingleScript
<1>6. \A u \in Threads : Script(todo'[u]) /\ Ops(todo'[u]) \subseteq Alphabet(u)
  <2>1. "monitor" \in Alphabet("health")
    BY DEF Alphabet
  <2>2. QED  BY <1>3, <1>4, <1>5, <2>1
<1>7. Shape'
  BY <1>4, <1>6 DEF Shape, Script
<1>8. \A u \in Threads : \A x : x # "monitor" => (x \in Ops(todo'[u]) <=> x \in Ops(td[u]))
  BY <1>4, <1>5
<1>9. /\ \A u \in Threads : \A x : x # "tunning" => (x \in Ops(td[u]) <=> x \in Ops(todo[u]))
      /\ \A b \in Ops(td[t]) : MayFollow("tunning", b)
  BY <1>1, <1>2 DEF Rest, MayFollow, LastSteps
<1>10. lock = t /\ svc.configured /\ svc.lastIntent
  BY <1>1 DEF VpnInv, Locking, InSession, Has
<1>11. \A u \in Threads : ~Has(u, "tunning")' /\ ~Has(u, "halted")' /\ ~Has(u, "halted")
  <2>1. \A u \in Threads \ {t} : ~Has(u, "tunning") /\ ~Has(u, "halted")
    BY <1>10 DEF VpnInv, Locking
  <2>2. "tunning" \notin Ops(td[t]) /\ "halted" \notin Ops(td[t])
    BY <1>9 DEF MayFollow, LastSteps
  <2>3. \A u \in Threads : "tunning" \notin Ops(td[u]) /\ "halted" \notin Ops(td[u])
    BY <1>2, <2>1, <2>2 DEF Has
  <2>4. QED  BY <1>8, <1>9, <2>3 DEF Has
<1>12. ~Halting /\ ~svc.stopping
  BY <1>10, <1>11 DEF VpnInv, Halting, Stopped
<1>13. /\ svc' \in Service /\ svc'.stopping = svc.stopping
       /\ svc'.configured = svc.configured /\ svc'.lastIntent = svc.lastIntent
  BY <1>0 DEF Fields, Service
<1>14. Fields' /\ Locking'
  BY <1>0, <1>11, <1>13 DEF Fields, Locking
<1>15. InSession' /\ TunnelHasSession'
  BY <1>10, <1>11, <1>13 DEF InSession, TunnelHasSession
<1>16. Stopped' /\ Unraced'
  BY <1>12, <1>13 DEF Stopped, Unraced
<1>17. QED  BY <1>7, <1>14, <1>15, <1>16 DEF VpnInv

(* If tun2socks does not come up, stopEverything is called with the lock   *)
(* held.                                                                   *)
LEMMA TunFailsKeeps ==
  ASSUME VpnInv, NEW t \in Threads, TunFails(t)
  PROVE  VpnInv'
<1>0. /\ Shape /\ Fields /\ At(t, "tunning") /\ Then(t, stopEverything)
      /\ UNCHANGED <<svc, live, tun, cancelled, lock, raced>>
  BY DEF VpnInv, TunFails
<1>1. Shape' /\ Turns(t, "tunning", {"halt"})
  <2>1. Script(stopEverything) /\ Ops(stopEverything) = {"halt"}
    BY SingleScript DEF stopEverything
  <2>2. {"halt"} \subseteq Alphabet(t)
    BY Alphabets
  <2>3. \A a \in {"halt"}, b \in Alphabet(t) : MayFollow("tunning", b) => MayFollow(a, b)
    BY DEF MayFollow, LastSteps
  <2>4. QED  BY <1>0, <2>1, <2>2, <2>3, MovesOn
<1>2. /\ \A u \in Threads : \A x : Has(u, x)' => Has(u, x) \/ (u = t /\ x = "halt")
      /\ \A u \in Threads : \A x : Has(u, x) => Has(u, x)' \/ (u = t /\ x = "tunning")
      /\ Has(t, "halt")' /\ Has(t, "tunning")
      /\ \A x : Has(t, x)' => x = "halt" \/ MayFollow("tunning", x)
  BY <1>1, TurnsHas
<1>3. lock = t
  BY <1>2 DEF VpnInv, Locking
<1>4. \A u \in Threads : ~Has(u, "tunning")' /\ ~Has(u, "halted")'
  BY <1>2, <1>3 DEF VpnInv, Locking, MayFollow, LastSteps
<1>5. /\ \A u \in Threads : \A x : x \notin {"halt", "tunning"} => (Has(u, x)' <=> Has(u, x))
      /\ Halting' <=> Halting
  BY <1>2 DEF Halting
<1>6. Fields'
  BY <1>0 DEF Fields
<1>7. Locking'
  BY <1>0, <1>2, <1>3, <1>4 DEF Locking
<1>8. InSession' /\ TunnelHasSession'
  BY <1>0, <1>4 DEF VpnInv, InSession, TunnelHasSession
<1>9. Stopped' /\ Unraced'
  BY <1>0, <1>5 DEF VpnInv, Stopped, Unraced
<1>10. QED  BY <1>1, <1>6, <1>7, <1>8, <1>9 DEF VpnInv

-----------------------------------------------------------------------------
(* The main thread and the view model.  What they do to the service is     *)
(* mostly nothing that a session hangs on.                                 *)
SameSession ==
  /\ svc' \in Service
  /\ svc'.stopping = svc.stopping /\ svc'.configured = svc.configured
  /\ svc'.lastIntent = svc.lastIntent /\ svc'.isRunning = svc.isRunning

LEMMA SessionGoesOn ==
  ASSUME Fields, SameSession, UNCHANGED <<tun, raced, lock>>,
         Coroutines \cap cancelled \subseteq cancelled'
  PROVE  Fields' /\ Steady
<1>1. Fields'
  BY DEF Fields, SameSession
<1>2. Steady
  BY DEF Steady, SameSession
<1>3. QED  BY <1>1, <1>2

LEMMA SameService ==
  ASSUME Fields, UNCHANGED svc
  PROVE  SameSession
BY DEF Fields, SameSession

LEMMA LetsGoSame ==
  ASSUME Fields, NEW s \in Service, NEW q, LetGo(s, q), s.stopping = svc.stopping,
         s.configured = svc.configured, s.lastIntent = svc.lastIntent, s.isRunning = svc.isRunning
  PROVE  SameSession
<1>1. PICK d \in BOOLEAN : svc' = [s EXCEPT !.doomed = d]
  BY LetsGo
<1>2. QED  BY <1>1 DEF SameSession, Service

(* A thread at its last step goes on with another script.                  *)
LEMMA Proceeds ==
  ASSUME VpnInv, Fields', Steady, NEW t \in Threads, NEW op \in LastSteps, At(t, op),
         NEW s, Script(s), Then(t, s), Ops(s) \subseteq Alphabet(t) \ {"tunning", "halted", "spawn"},
         "start" \in Ops(s) => ~svc'.stopping,
         live' \subseteq live
  PROVE  VpnInv'
<1>1. \A a \in Ops(s), b \in Alphabet(t) : MayFollow(op, b) => MayFollow(a, b)
  BY DEF MayFollow, LastSteps
<1>2. op \notin {"halt", "halted", "tunning"}
  BY DEF LastSteps
<1>3. QED  BY <1>1, <1>2, GoesOn

(* The view model tears down, its job before having ended or not.          *)
LEMMA TearsDown ==
  ASSUME VpnInv, SameSession, UNCHANGED <<tun, raced, lock>>, live' \subseteq live,
         NEW td, td = todo \/ (td = [todo EXCEPT !["job"] = <<>>] /\ Idle("job")),
         NEW v, NEW final, Teardown(td, v, final)
  PROVE  VpnInv'
<1> DEFINE s == << <<"teardown", final>> >>
<1>0. Shape /\ Fields /\ DOMAIN todo = Threads /\ {"job", "tear"} \subseteq Threads
  BY DEF VpnInv, Shape, Threads
<1>2. Coroutines \cap cancelled \subseteq cancelled'
  BY DEF Teardown
<1>3. Fields' /\ Steady
  BY <1>0, <1>2, SessionGoesOn
<1>4. Script(s) /\ Ops(s) = {"teardown"} /\ Script(<<>>) /\ Ops(<<>>) = {}
  BY SingleScript, EmptyScript
<1>5. /\ \A u \in Threads \ {"job"} : td[u] = todo[u]
      /\ td["job"] = todo["job"] \/ (td["job"] = <<>> /\ Idle("job"))
      /\ DOMAIN td = Threads
  BY <1>0
<1>6. todo' = td \/ (todo' = [td EXCEPT !["tear"] = s] /\ todo["tear"] = <<>>)
  BY <1>0, <1>5 DEF Teardown
<1> HIDE DEF s
<1>7. /\ DOMAIN todo' = Threads
      /\ \A u \in Threads \ {"job", "tear"} : todo'[u] = todo[u]
      /\ todo'["job"] = todo["job"] \/ (todo'["job"] = <<>> /\ Idle("job"))
      /\ todo'["tear"] = todo["tear"] \/ (todo'["tear"] = s /\ todo["tear"] = <<>>)
  <2>1. CASE todo' = td
    BY <1>0, <1>5, <2>1
  <2>2. CASE todo' = [td EXCEPT !["tear"] = s] /\ todo["tear"] = <<>>
    BY <1>0, <1>5, <2>2
  <2>3. QED  BY <1>6, <2>1, <2>2
<1>8. "teardown" \in Alphabet("tear")
  BY DEF Alphabet
<1>9. Shape'
  <2>1. ASSUME NEW u \in Threads
        PROVE  /\ todo'[u] \in Seq(Steps(todo'[u])) /\ Ops(todo'[u]) \subseteq Alphabet(u)
               /\ Ordered(todo'[u])
    <3>1. CASE todo'[u] = todo[u]
      BY <1>0, <3>1 DEF Shape
    <3>2. CASE todo'[u] = <<>>
      BY <1>4, <3>2 DEF Script
    <3>3. CASE u = "tear" /\ todo'[u] = s
      BY <1>4, <1>8, <3>3 DEF Script
    <3>4. QED  BY <1>7, <3>1, <3>2, <3>3
  <2>2. QED  BY <1>7, <2>1 DEF Shape
<1>10. \A u \in Threads : \A x :
         Has(u, x)' => Has(u, x) \/ (u = "tear" /\ x = "teardown")
  BY <1>4, <1>7 DEF Has
<1>11. \A u \in Threads : \A x : Has(u, x) => Has(u, x)' \/ x \in LastSteps
  <2>1. ASSUME NEW u \in Threads, NEW x, Has(u, x)
        PROVE  Has(u, x)' \/ x \in LastSteps
    <3>1. CASE todo'[u] = todo[u]
      BY <2>1, <3>1 DEF Has
    <3>2. CASE Idle(u)
      BY <1>0, <2>1, <3>2, IdleHas
    <3>3. CASE todo[u] = <<>>
      BY <2>1, <3>3, EmptyScript DEF Has
    <3>4. QED  BY <1>7, <3>1, <3>2, <3>3
  <2>2. QED  BY <2>1
<1>12. \A u \in Threads : \A x \in {"tunning", "halted"} : Has(u, x)' <=> Has(u, x)
  BY <1>10, <1>11 DEF LastSteps
<1>13. \A u \in Threads : Has(u, "halt") => Has(u, "halt")'
  BY <1>11 DEF LastSteps
<1>14. svc'.stopping => \A u \in Threads :
         /\ Has(u, "start")' => Has(u, "start")
         /\ Has(u, "spawn")' => Has(u, "spawn") \/ Has(u, "start")
  BY <1>10
<1>15. QED  BY <1>3, <1>9, <1>12, <1>13, <1>14, Keeps

(* What the main thread is called for.                                     *)
LEMMA CallbacksKeep ==
  ASSUME VpnInv,
         \/ OnStartCommand \/ Configure \/ OnServiceConnected \/ OnUnexpectedExit
         \/ OnRevokeOrDestroy \/ (\E t \in Threads : Dispatch(t))
  PROVE  VpnInv'
<1>0. Shape /\ Fields /\ "main" \in Threads
  BY DEF VpnInv, Threads
<1>1. UNCHANGED <<live, tun, lock, raced>>
  BY DEF OnStartCommand, Configure, OnServiceConnected, OnUnexpectedExit, OnRevokeOrDestroy, Dispatch
<1>2. Script(<<>>) /\ Ops(<<>>) = {}
  BY EmptyScript
<1>3. CASE OnStartCommand
  <2>1. Script(<< <<"configure">> >>) /\ Ops(<< <<"configure">> >>) = {"configure"}
    BY SingleScript
  <2>2. /\ todo["main"] = <<>> /\ todo' = [todo EXCEPT !["main"] = << <<"configure">> >>]
        /\ svc' = [svc EXCEPT !.lastIntent = TRUE, !.shutdownComplete = FALSE, !.stopping = FALSE]
    BY <1>3 DEF OnStartCommand
  <2>3. Idle("main")
    BY <2>2 DEF Idle
  <2>4. /\ svc' \in Service /\ ~svc'.stopping /\ svc'.lastIntent
        /\ svc'.configured = svc.configured /\ svc'.isRunning = svc.isRunning
    BY <1>0, <2>2 DEF Fields, Service
  <2>5. Fields' /\ Steady
    BY <1>0, <1>1, <2>2, <2>4 DEF Fields, Steady
  <2>6. Ops(<< <<"configure">> >>) \subseteq Alphabet("main")
    BY <2>1 DEF Alphabet
  <2>7. QED  BY <1>0, <1>1, <2>1, <2>2, <2>3, <2>5, <2>6, TakesUp
<1>4. CASE Configure
  <2>1. At("main", "configure") /\ Then("main", <<>>) /\ UNCHANGED cancelled
    BY <1>4 DEF Configure
  <2>2. PICK c \in BOOLEAN : (svc.configured => c) /\ svc' = [svc EXCEPT !.configured = c]
    <3>1. PICK ok \in BOOLEAN : svc' = [svc EXCEPT !.configured = @ \/ ok]
      BY <1>4 DEF Configure
    <3> DEFINE c == svc.configured \/ ok
    <3>2. c \in BOOLEAN /\ (svc.configured => c) /\ svc' = [svc EXCEPT !.configured = c]
      BY <3>1
    <3> HIDE DEF c
    <3>3. QED  BY <3>2
  <2>3. /\ svc' \in Service /\ svc'.stopping = svc.stopping /\ (svc.configured => svc'.configured)
        /\ svc'.lastIntent = svc.lastIntent /\ svc'.isRunning = svc.isRunning
    BY <1>0, <2>2 DEF Fields, Service
  <2>4. Fields' /\ Steady
    BY <1>0, <1>1, <2>1, <2>3 DEF Fields, Steady
  <2>5. "configure" \in LastSteps
    BY DEF LastSteps
  <2>6. QED  BY <1>0, <1>1, <1>2, <2>1, <2>4, <2>5, Proceeds
<1>5. CASE OnServiceConnected
  <2>1. UNCHANGED <<svc, todo, cancelled>>
    BY <1>5 DEF OnServiceConnected
  <2>2. Fields' /\ Steady
    BY <1>0, <1>1, <2>1, SameService, SessionGoesOn
  <2>3. QED  BY <1>1, <2>1, <2>2, StandsStill
<1>6. ASSUME NEW s, Script(s), todo["main"] = <<>>, todo' = [todo EXCEPT !["main"] = s],
             Ops(s) \subseteq Alphabet("main") \ {"tunning", "halted", "spawn"},
             "start" \in Ops(s) => ~svc'.stopping, SameSession, UNCHANGED cancelled
      PROVE  VpnInv'
  <2>1. Fields' /\ Steady
    BY <1>0, <1>1, <1>6, SessionGoesOn
  <2>2. Idle("main")
    BY <1>6 DEF Idle
  <2>3. QED  BY <1>0, <1>1, <1>6, <2>1, <2>2, TakesUp
<1>7. CASE OnUnexpectedExit
  <2> DEFINE r == StopOf("HYSTERIA") \o StartOf("YANDEX")
             e == stopEverything \o << <<"exited">> >>
  <2>1. todo["main"] = <<>> /\ UNCHANGED cancelled
    BY <1>7 DEF OnUnexpectedExit
  <2>2. \/ /\ ~svc.stopping /\ svc' = [svc EXCEPT !.activeBackend = "YANDEX"]
           /\ todo' = [todo EXCEPT !["main"] = r]
        \/ UNCHANGED svc /\ (\E s \in {<<>>, e} : todo' = [todo EXCEPT !["main"] = s])
    BY <1>7 DEF OnUnexpectedExit
  <2>3. /\ Script(StartOf("YANDEX")) /\ Ops(StartOf("YANDEX")) = {"start"}
        /\ Script(<< <<"exited">> >>) /\ Ops(<< <<"exited">> >>) = {"exited"}
        /\ Script(stopEverything) /\ Ops(stopEverything) = {"halt"}
    BY SingleScript DEF StartOf, stopEverything
  <2>4. Script(r) /\ Ops(r) = {"stop", "destroy", "start"}
    <3>1. Script(StopOf("HYSTERIA")) /\ Ops(StopOf("HYSTERIA")) = {"stop", "destroy"}
      BY StopScripts
    <3>2. "tunning" \notin Ops(StartOf("YANDEX"))
      BY <2>3
    <3>3. QED  BY <2>3, <3>1, <3>2, StopFirst
  <2>5. Script(e) /\ Ops(e) = {"halt", "exited"}
    <3>1. \A a \in Ops(stopEverything), b \in Ops(<< <<"exited">> >>) : MayFollow(a, b)
      BY <2>3 DEF MayFollow, LastSteps
    <3>2. QED  BY <2>3, <3>1, JoinScripts
  <2>6. {"stop", "destroy", "start", "halt", "exited"} \subseteq Alphabet("main")
    BY DEF Alphabet
  <2> HIDE DEF r, e
  <2>7. CASE ~svc.stopping /\ svc' = [svc EXCEPT !.activeBackend = "YANDEX"]
             /\ todo' = [todo EXCEPT !["main"] = r]
    <3>1. SameSession /\ ~svc'.stopping
      BY <1>0, <2>7 DEF Fields, Service, SameSession, Backends
    <3>2. QED  BY <1>6, <2>1, <2>4, <2>6, <2>7, <3>1
  <2>8. ASSUME UNCHANGED svc, NEW s \in {<<>>, e}, todo' = [todo EXCEPT !["main"] = s]
        PROVE  VpnInv'
    <3>1. SameSession
      BY <1>0, <2>8, SameService
    <3>2. Script(s) /\ Ops(s) \subseteq {"halt", "exited"}
      BY <1>2, <2>5, <2>8
    <3>3. QED  BY <1>6, <2>1, <2>6, <2>8, <3>1, <3>2
  <2>9. QED  BY <2>2, <2>7, <2>8
<1>8. CASE OnRevokeOrDestroy
  <2>1. PICK x \in {"revoked", "destroyed"} : x = Head(posted)[1]
    BY <1>8 DEF OnRevokeOrDestroy
  <2> DEFINE s == stopEverything \o << <<x>> >>
  <2>2. todo["main"] = <<>> /\ todo' = [todo EXCEPT !["main"] = s] /\ UNCHANGED <<svc, cancelled>>
    BY <1>8, <2>1 DEF OnRevokeOrDestroy
  <2>3. /\ Script(stopEverything) /\ Ops(stopEverything) = {"halt"}
        /\ Script(<< <<x>> >>) /\ Ops(<< <<x>> >>) = {x}
    BY SingleScript DEF stopEverything
  <2>4. Script(s) /\ Ops(s) = {"halt", x}
    <3>1. \A a \in Ops(stopEverything), b \in Ops(<< <<x>> >>) : MayFollow(a, b)
      BY <2>3 DEF MayFollow, LastSteps
    <3>2. QED  BY <2>3, <3>1, JoinScripts
  <2>5. {"halt", x} \subseteq Alphabet("main")
    BY DEF Alphabet
  <2> HIDE DEF s
  <2>6. SameSession
    BY <1>0, <2>2, SameService
  <2>7. QED  BY <1>6, <2>2, <2>4, <2>5, <2>6
<1>9. ASSUME NEW t \in Threads, Dispatch(t)
      PROVE  VpnInv'
  <2>1. /\ \E op \in {"exited", "revoked", "surrender", "destroyed"} : At(t, op)
        /\ Then(t, <<>>) /\ cancelled \subseteq cancelled'
        /\ UNCHANGED svc \/ svc' = [svc EXCEPT !.destroyed = TRUE]
    BY <1>9 DEF Dispatch
  <2>2. SameSession
    BY <1>0, <2>1 DEF Fields, Service, SameSession
  <2>3. Fields' /\ Steady
    BY <1>0, <1>1, <2>1, <2>2, SessionGoesOn
  <2>4. QED  BY <1>1, <1>2, <2>1, <2>3, GoesOn
<1>10. QED  BY <1>3, <1>4, <1>5, <1>7, <1>8, <1>9

LEMMA EventsKeep ==
  ASSUME VpnInv, SeeUnavailable \/ SeeExited \/ SeeRevoked \/ UserStops \/ StartAgain
  PROVE  VpnInv'
<1>0. Shape /\ Fields /\ svc \in Service
  BY DEF VpnInv, Fields
<1>1. UNCHANGED <<live, tun, lock, raced>>
  BY DEF SeeUnavailable, SeeExited, SeeRevoked, UserStops, StartAgain
<1>2. CASE SeeUnavailable
  <2>1. UNCHANGED <<svc, todo, cancelled>>
    BY <1>2 DEF SeeUnavailable
  <2>2. Fields' /\ Steady
    BY <1>0, <1>1, <2>1, SameService, SessionGoesOn
  <2>3. QED  BY <1>1, <2>1, <2>2, StandsStill
<1>3. CASE SeeExited \/ UserStops
  <2>1. SameSession
    BY <1>0, <1>3, SameService DEF SeeExited, UserStops
  <2>2. CASE \E final : Teardown(todo, vm, final)
    BY <1>0, <1>1, <2>1, <2>2, TearsDown
  <2>3. CASE UNCHANGED <<todo, cancelled>>
    <3>1. Fields' /\ Steady
      BY <1>0, <1>1, <2>1, <2>3, SessionGoesOn
    <3>2. QED  BY <1>1, <2>3, <3>1, StandsStill
  <2>4. QED  BY <1>3, <2>2, <2>3 DEF SeeExited, UserStops
<1>4. CASE SeeRevoked
  <2>1. UNCHANGED todo
    BY <1>4 DEF SeeRevoked
  <2>2. CASE UNCHANGED <<svc, cancelled>>
    <3>1. SameSession
      BY <1>0, <2>2, SameService
    <3>2. Fields' /\ Steady
      BY <1>0, <1>1, <2>2, <3>1, SessionGoesOn
    <3>3. QED  BY <1>1, <2>1, <3>2, StandsStill
  <2>3. CASE /\ cancelled' = cancelled \cup {"job"}
             /\ LetGo([svc EXCEPT !.bound = @ /\ ~vm.requested], Tail(posted))
    <3> DEFINE b == svc.bound /\ ~vm.requested
               s == [svc EXCEPT !.bound = b]
    <3>1. b \in BOOLEAN
      OBVIOUS
    <3>2. LetGo(s, Tail(posted))
      BY <2>3
    <3> HIDE DEF b
    <3>3. /\ s \in Service /\ s.stopping = svc.stopping /\ s.configured = svc.configured
          /\ s.lastIntent = svc.lastIntent /\ s.isRunning = svc.isRunning
      BY <1>0, <3>1 DEF Service
    <3> HIDE DEF s
    <3>4. SameSession
      BY <1>0, <3>2, <3>3, LetsGoSame
    <3>5. Fields' /\ Steady
      BY <1>0, <1>1, <2>3, <3>4, SessionGoesOn
    <3>6. QED  BY <1>1, <2>1, <3>5, StandsStill
  <2>4. QED  BY <1>4, <2>2, <2>3 DEF SeeRevoked
<1>5. CASE StartAgain
  <2>1. /\ todo["job"] = <<>> /\ todo' = [todo EXCEPT !["job"] = << <<"connect">> >>]
        /\ cancelled' = cancelled \ {"job"} /\ UNCHANGED svc
    BY <1>5 DEF StartAgain, Quiet, Threads
  <2>2. SameSession /\ Coroutines \cap cancelled \subseteq cancelled'
    BY <1>0, <2>1, SameService DEF Coroutines
  <2>3. Fields' /\ Steady
    BY <1>0, <1>1, <2>2, SessionGoesOn
  <2>4. /\ Script(<< <<"connect">> >>) /\ Ops(<< <<"connect">> >>) = {"connect"}
        /\ {"connect"} \subseteq Alphabet("job")
    BY SingleScript DEF Alphabet
  <2>5. Idle("job") /\ "job" \in Threads
    BY <2>1 DEF Idle, Threads
  <2>6. QED  BY <1>1, <2>1, <2>3, <2>4, <2>5, TakesUp
<1>6. QED  BY <1>2, <1>3, <1>4, <1>5

(* The coroutine that takes the service down.                              *)
LEMMA TeardownKeeps ==
  ASSUME VpnInv, TearBegin \/ Unbind \/ Clear
  PROVE  VpnInv'
<1>0. Shape /\ Fields /\ svc \in Service /\ "tear" \in Threads
  BY DEF VpnInv, Fields, Threads
<1>1. UNCHANGED <<live, tun, lock, raced, cancelled>>
  BY DEF TearBegin, Unbind, Clear
<1>2. ASSUME SameSession, NEW op \in {"teardown", "unbind", "clear"},
             At("tear", op), NEW s, Script(s), Then("tear", s),
             Ops(s) \subseteq {"stop", "destroy", "halt", "unbind", "clear"}
      PROVE  VpnInv'
  <2>1. Fields' /\ Steady
    BY <1>0, <1>1, <1>2, SessionGoesOn
  <2>2. {"stop", "destroy", "halt", "unbind", "clear"} \subseteq Alphabet("tear")
    BY DEF Alphabet
  <2>3. op \in LastSteps
    BY DEF LastSteps
  <2>4. QED  BY <1>0, <1>1, <1>2, <2>1, <2>2, <2>3, Proceeds
<1>3. Script(<<>>) /\ Ops(<<>>) = {}
  BY EmptyScript
<1>4. \A final : Script(<< <<"clear", final>> >>) /\ Ops(<< <<"clear", final>> >>) = {"clear"}
  BY SingleScript
<1>5. CASE TearBegin
  <2>1. At("tear", "teardown") /\ UNCHANGED svc /\ SameSession
    BY <1>0, <1>5, SameService DEF TearBegin
  <2>2. CASE ~vm.requested
    <3>1. Then("tear", << <<"clear", Arg("tear")>> >>)
      BY <1>5, <2>2 DEF TearBegin
    <3>2. QED  BY <1>0, <1>2, <1>4, <2>1, <3>1
  <2>3. CASE vm.requested
    <3> DEFINE u == << <<"unbind", Arg("tear"), vm.service>> >>
               r == stopEverything \o u
    <3>1. /\ Script(stopEverything) /\ Ops(stopEverything) = {"halt"}
          /\ Script(u) /\ Ops(u) = {"unbind"}
      BY SingleScript DEF stopEverything
    <3>2. Then("tear", stopClients \o stopEverything \o u) \/ Then("tear", <<>> \o u)
      BY <1>5, <2>3 DEF TearBegin
    <3>3. <<>> \o u = u /\ stopClients \o stopEverything \o u = stopClients \o r
      BY DEF stopClients, stopEverything, StopOf
    <3> HIDE DEF u
    <3>4. Script(r) /\ Ops(r) = {"halt", "unbind"}
      <4>1. \A a \in Ops(stopEverything), b \in Ops(u) : MayFollow(a, b)
        BY <3>1 DEF MayFollow, LastSteps
      <4>2. QED  BY <3>1, <4>1, JoinScripts
    <3> HIDE DEF r
    <3>5. Script(stopClients \o r) /\ Ops(stopClients \o r) = {"stop", "destroy", "halt", "unbind"}
      <4>1. Script(stopClients) /\ Ops(stopClients) = {"stop", "destroy"} /\ "tunning" \notin Ops(r)
        BY <3>4, StopScripts
      <4>2. QED  BY <3>4, <4>1, StopFirst
    <3>6. QED  BY <1>0, <1>2, <2>1, <3>1, <3>2, <3>3, <3>5
  <2>4. QED  BY <2>2, <2>3
<1>6. CASE Unbind
  <2> DEFINE s == [svc EXCEPT !.bound = FALSE, !.started = FALSE]
  <2>1. /\ At("tear", "unbind") /\ LetGo(s, posted)
        /\ \E final : Then("tear", << <<"clear", final>> >>)
    BY <1>6 DEF Unbind
  <2>2. /\ s \in Service /\ s.stopping = svc.stopping /\ s.configured = svc.configured
        /\ s.lastIntent = svc.lastIntent /\ s.isRunning = svc.isRunning
    BY <1>0 DEF Service
  <2> HIDE DEF s
  <2>3. SameSession
    BY <1>0, <2>1, <2>2, LetsGoSame
  <2>4. QED  BY <1>2, <1>4, <2>1, <2>3
<1>7. CASE Clear
  <2>1. At("tear", "clear") /\ Then("tear", <<>>) /\ UNCHANGED svc
    BY <1>7 DEF Clear
  <2>2. SameSession
    BY <1>0, <2>1, SameService
  <2>3. QED  BY <1>2, <1>3, <2>1, <2>2
<1>8. QED  BY <1>5, <1>6, <1>7

(* The start job.                                                          *)
LEMMA JobKeeps ==
  ASSUME VpnInv,
         JobConnect \/ JobRequest \/ JobBind \/ JobStart \/ JobAwait \/ JobFallback \/ JobAwaitVpn
  PROVE  VpnInv'
<1>0. Shape /\ Fields /\ svc \in Service /\ "job" \in Threads
  BY DEF VpnInv, Fields, Threads
<1>1. UNCHANGED <<live, tun, lock, raced>>
  BY DEF JobConnect, JobRequest, JobBind, JobStart, JobAwait, JobFallback, JobAwaitVpn
<1>2. PICK op \in {"connect", "request", "bind", "native", "await", "fallback", "awaitVpn"} :
        At("job", op)
  BY DEF JobConnect, JobRequest, JobBind, JobStart, JobAwait, JobFallback, JobAwaitVpn
<1>3. op \in LastSteps /\ Idle("job")
  BY <1>2 DEF LastSteps, Idle
<1>4. Script(<<>>) /\ Ops(<<>>) = {}
  BY EmptyScript
<1>5. ASSUME SameSession, JobGone
      PROVE  VpnInv'
  <2>1. UNCHANGED cancelled /\ todo' = [todo EXCEPT !["job"] = <<>>]
    BY <1>5 DEF JobGone, EndOf
  <2>2. Fields' /\ Steady
    BY <1>0, <1>1, <1>5, <2>1, SessionGoesOn
  <2>3. QED  BY <1>0, <1>1, <1>3, <1>4, <2>1, <2>2, TakesUp
<1>6. ASSUME SameSession, NEW v, NEW final, JobFails(v, final)
      PROVE  VpnInv'
  <2>1. Teardown([todo EXCEPT !["job"] = <<>>], v, final)
    BY <1>6 DEF JobFails
  <2>2. QED  BY <1>1, <1>3, <1>6, <2>1, TearsDown
<1>7. ASSUME SameSession, NEW v, NEW s, Script(s), JobGoesOn(v, s),
             Ops(s) \subseteq Alphabet("job") \ {"tunning", "halted", "spawn", "start"}
      PROVE  VpnInv'
  <2>1. UNCHANGED cancelled /\ Then("job", s)
    BY <1>7 DEF JobGoesOn
  <2>2. Fields' /\ Steady
    BY <1>0, <1>1, <1>7, <2>1, SessionGoesOn
  <2>3. QED  BY <1>0, <1>1, <1>2, <1>3, <1>7, <2>1, <2>2, Proceeds
<1>8. /\ \A x \in {"request", "bind", "native", "fallback"} :
           Script(<< <<x>> >>) /\ Ops(<< <<x>> >>) = {x}
      /\ Script(<< <<"tun">>, <<"awaitVpn">> >>)
      /\ Ops(<< <<"tun">>, <<"awaitVpn">> >>) = {"tun", "awaitVpn"}
  <2>1. MayFollow("tun", "awaitVpn")
    BY DEF MayFollow, LastSteps
  <2>2. QED  BY <2>1, SingleScript, PairScript
<1>9. /\ Script(stopClients \o << <<"fallback">> >>)
      /\ Ops(stopClients \o << <<"fallback">> >>) = {"stop", "destroy", "fallback"}
  <2>1. Script(stopClients) /\ Ops(stopClients) = {"stop", "destroy"}
    BY StopScripts
  <2>2. Script(<< <<"fallback">> >>) /\ Ops(<< <<"fallback">> >>) = {"fallback"}
    BY <1>8
  <2>3. "tunning" \notin Ops(<< <<"fallback">> >>)
    BY <2>2
  <2>4. QED  BY <2>1, <2>2, <2>3, StopFirst
<1>10. {"request", "bind", "native", "fallback", "tun", "awaitVpn", "stop", "destroy", "start",
        "await"} \subseteq Alphabet("job") \ {"tunning", "halted", "spawn"}
  BY DEF Alphabet
<1>11. CASE JobConnect
  <2>1. CASE SameSession
    <3>1. \/ JobGone
          \/ \E v, s : s \in {<<>>, << <<"request">> >>} /\ JobGoesOn(v, s)
          \/ \E v, final : JobFails(v, final)
      BY <1>11 DEF JobConnect
    <3>2. \A s \in {<<>>, << <<"request">> >>} :
            Script(s) /\ Ops(s) \subseteq Alphabet("job") \ {"tunning", "halted", "spawn", "start"}
      BY <1>4, <1>8, <1>10
    <3>3. QED  BY <1>5, <1>6, <1>7, <2>1, <3>1, <3>2
  <2>2. CASE UNCHANGED svc
    BY <1>0, <2>1, <2>2, SameService
  <2>3. CASE svc' = [svc EXCEPT !.started = TRUE, !.bound = TRUE]
    BY <1>0, <2>1, <2>3 DEF SameSession, Service
  <2>4. CASE LetGo([svc EXCEPT !.started = FALSE], posted)
    <3> DEFINE s == [svc EXCEPT !.started = FALSE]
    <3>1. /\ s \in Service /\ s.stopping = svc.stopping /\ s.configured = svc.configured
          /\ s.lastIntent = svc.lastIntent /\ s.isRunning = svc.isRunning
      BY <1>0 DEF Service
    <3>2. LetGo(s, posted)
      BY <2>4
    <3> HIDE DEF s
    <3>3. QED  BY <1>0, <2>1, <3>1, <3>2, LetsGoSame
  <2>5. QED  BY <1>11, <2>2, <2>3, <2>4 DEF JobConnect
<1>12. CASE JobRequest \/ JobBind \/ JobAwait \/ JobAwaitVpn
  <2>1. SameSession
    BY <1>0, <1>12, SameService DEF JobRequest, JobBind, JobAwait, JobAwaitVpn
  <2>2. \/ JobGone
        \/ \E v, s : /\ s \in {<<>>, << <<"bind">> >>, << <<"native">> >>,
                               << <<"tun">>, <<"awaitVpn">> >>, stopClients \o << <<"fallback">> >>}
                     /\ JobGoesOn(v, s)
        \/ \E v, final : JobFails(v, final)
    BY <1>12 DEF JobRequest, JobBind, JobAwait, JobAwaitVpn
  <2>3. \A s \in {<<>>, << <<"bind">> >>, << <<"native">> >>, << <<"tun">>, <<"awaitVpn">> >>,
                  stopClients \o << <<"fallback">> >>} :
          Script(s) /\ Ops(s) \subseteq Alphabet("job") \ {"tunning", "halted", "spawn", "start"}
    BY <1>4, <1>8, <1>9, <1>10
  <2>4. QED  BY <1>5, <1>6, <1>7, <2>1, <2>2, <2>3
<1>13. ASSUME NEW v, NEW b \in Backends, NEW c, NEW x, NEW fallback \in BOOLEAN,
              StartNative(b, fallback),
              JobGoesOn(v, StopOf(c) \o StartOf(b) \o << <<"await", x>> >>)
       PROVE  VpnInv'
  <2> DEFINE s == StopOf(c) \o StartOf(b) \o << <<"await", x>> >>
  <2>1. Script(s) /\ Ops(s) = {"stop", "destroy", "start", "await"}
    BY NativeScript
  <2>2. UNCHANGED cancelled /\ Then("job", s)
    BY <1>13 DEF JobGoesOn
  <2> HIDE DEF s
  <2>3. /\ svc' \in Service /\ ~svc'.stopping /\ svc'.configured = svc.configured
        /\ svc'.lastIntent = svc.lastIntent /\ svc'.isRunning = svc.isRunning
    <3> DEFINE n == svc.generation + 1
    <3>1. svc' = [svc EXCEPT !.shutdownComplete = FALSE, !.stopping = FALSE,
                             !.activeBackend = b, !.allowFallback = fallback, !.generation = n]
      BY <1>13 DEF StartNative
    <3>2. n \in Nat
      BY <1>0 DEF Service
    <3> HIDE DEF n
    <3>3. QED  BY <1>0, <3>1, <3>2 DEF Service
  <2>4. Fields' /\ Steady
    BY <1>0, <1>1, <2>2, <2>3 DEF Fields, Steady
  <2>5. QED  BY <1>0, <1>1, <1>2, <1>3, <1>10, <2>1, <2>2, <2>3, <2>4, Proceeds
<1>14. CASE JobStart
  <2>1. CASE \E v, final : JobFails(v, final) /\ UNCHANGED svc
    BY <1>0, <1>6, <2>1, SameService
  <2>2. CASE vm.service
    <3> DEFINE b == IF vm.mode = "yandex" THEN "YANDEX" ELSE "HYSTERIA"
               auto == vm.mode = "auto"
    <3>1. b \in Backends /\ auto \in BOOLEAN
      BY DEF Backends
    <3>2. /\ StartNative(b, auto)
          /\ JobGoesOn(vm, StopOf(Other(b)) \o StartOf(b) \o << <<"await", auto>> >>)
      BY <1>14, <2>2 DEF JobStart
    <3> HIDE DEF b, auto
    <3>3. QED  BY <1>13, <3>1, <3>2
  <2>3. QED  BY <1>14, <2>1, <2>2 DEF JobStart
<1>15. CASE JobFallback
  <2>1. CASE \E v, final : JobFails(v, final) /\ UNCHANGED svc
    BY <1>0, <1>6, <2>1, SameService
  <2>2. CASE vm.service
    <3>1. /\ StartNative("YANDEX", FALSE)
          /\ JobGoesOn(vm, StopOf("HYSTERIA") \o StartOf("YANDEX") \o << <<"await", FALSE>> >>)
      BY <1>15, <2>2 DEF JobFallback
    <3>2. "YANDEX" \in Backends
      BY DEF Backends
    <3>3. QED  BY <1>13, <3>1, <3>2
  <2>3. QED  BY <1>15, <2>1, <2>2 DEF JobFallback
<1>16. QED  BY <1>11, <1>12, <1>14, <1>15

-----------------------------------------------------------------------------
LEMMA VpnInit ==
  ASSUME Init
  PROVE  VpnInv
<1>1. /\ DOMAIN todo = Threads /\ todo["job"] = << <<"connect">> >>
      /\ todo["main"] = <<>> /\ todo["tear"] = <<>> /\ todo["health"] = <<>> /\ todo["net"] = <<>>
  BY DEF Init, Threads
<1>2. /\ Script(<<>>) /\ Ops(<<>>) = {}
      /\ Script(<< <<"connect">> >>) /\ Ops(<< <<"connect">> >>) = {"connect"}
  BY EmptyScript, SingleScript
<1>3. \A t \in Threads : Script(todo[t]) /\ Ops(todo[t]) \subseteq Alphabet(t)
  BY <1>1, <1>2 DEF Threads, Alphabet
<1>4. Shape
  BY <1>1, <1>3 DEF Shape, Script
<1>5. \A t \in Threads : \A x : Has(t, x) => x = "connect"
  BY <1>1, <1>2 DEF Has, Threads
<1>6. ~svc.stopping /\ ~svc.isRunning /\ tun = FALSE /\ lock = NoOne
  BY DEF Init
<1>7. Fields
  BY DEF Init, Fields, Service, Backends
<1>8. Locking /\ InSession /\ TunnelHasSession
  BY <1>5, <1>6 DEF Locking, InSession, TunnelHasSession
<1>9. Stopped /\ Unraced
  BY <1>6 DEF Stopped, Unraced
<1>10. QED  BY <1>4, <1>7, <1>8, <1>9 DEF VpnInv

LEMMA VpnNext ==
  ASSUME VpnInv, [Next]_vars
  PROVE  VpnInv'
<1>1. ASSUME NEW t \in Threads, Step(t)
      PROVE  VpnInv'
  <2>1. CASE Start(t) \/ Spawn(t) \/ Stop(t) \/ Destroy(t)
    BY <2>1, SupervisorKeeps
  <2>2. CASE \/ Enter(t) \/ Claim(t) \/ Attempt(t) \/ Restart(t) \/ Wait(t) \/ TunRestored(t)
             \/ Finally(t)
    BY <2>2, RecoveryKeeps
  <2>3. CASE Settle(t)
    BY <2>3, SettleKeeps
  <2>4. CASE Halt(t)
    BY <2>4, HaltTwiceKeeps, HaltKeeps
  <2>5. CASE Halted(t)
    BY <2>5, HaltedKeeps
  <2>6. CASE TunBegin(t)
    BY <2>6, TunBeginKeeps
  <2>7. CASE TunUp(t)
    BY <2>7, TunUpKeeps
  <2>8. CASE TunFails(t)
    BY <2>8, TunFailsKeeps
  <2>9. CASE Dispatch(t)
    BY <2>9, CallbacksKeep
  <2>10. QED
    BY <1>1, <2>1, <2>2, <2>3, <2>4, <2>5, <2>6, <2>7, <2>8, <2>9 DEF Step
<1>2. CASE MainThread
  BY <1>1, <1>2, CallbacksKeep DEF MainThread, Threads
<1>3. CASE Job
  BY <1>1, <1>3, JobKeeps DEF Job, Threads
<1>4. CASE Tear
  BY <1>1, <1>4, TeardownKeeps DEF Tear, Threads
<1>5. CASE Health \/ Net \/ OnAvailable
  BY <1>1, <1>5, CoroutinesKeep DEF Health, Net, Threads
<1>6. CASE Collector \/ UserStops \/ StartAgain
  BY <1>6, EventsKeep DEF Collector
<1>7. CASE Watch \/ (\E p \in watching : TimedOut(p)) \/ Revoked \/ HelperDies \/ UNCHANGED vars
  BY <1>7, EnvironmentKeeps DEF Watch
<1>8. QED
  BY <1>2, <1>3, <1>4, <1>5, <1>6, <1>7 DEF Next

LEMMA VpnInduction == Spec => []VpnInv
<1>1. Init => VpnInv
  BY VpnInit
<1>2. VpnInv /\ [Next]_vars => VpnInv'
  BY VpnNext
<1>3. QED  BY <1>1, <1>2, PTL DEF Spec

(* A running tunnel belongs to a session that was not stopped, whatever    *)
(* the bounds: stopEverything and startTun2Socks exclude each other, and   *)
(* isRunning is reset before the session is forgotten                      *)
(* (SocksVpnService.kt:94-104 and 343-358).                                *)
THEOREM TunnelBelongsToASession == Spec => []TunnelHasSession
<1>1. VpnInv => TunnelHasSession
  BY DEF VpnInv
<1>2. QED  BY <1>1, VpnInduction, PTL

(* When all has come to rest nobody is inside stopEverything.              *)
LEMMA QuietSteps ==
  ASSUME VpnInv, Quiet
  PROVE  ~Halting
<1>0. Shape
  BY DEF VpnInv
<1>1. /\ \A t \in Threads \ {"health"} : todo[t] = <<>>
      /\ todo["health"] = <<>> \/ At("health", "monitor")
  BY DEF Quiet
<1>2. \A t \in Threads : Idle(t)
  BY <1>1 DEF Idle, LastSteps
<1>3. QED  BY <1>0, <1>2, IdleHas DEF Halting, LastSteps

(* A stop leaves no helper behind, however many attempts, faults and       *)
(* sessions there are: stopEverything ends the coroutines that restart     *)
(* helpers before it kills, so that only a start which was under way when  *)
(* it began (raced), or one that makes stopping false again, can spawn one *)
(* (SocksVpnService.kt:261-273, 343-357).                                  *)
THEOREM StopLeavesNoHelper == Spec => []CleanStop
<1>1. VpnInv => CleanStop
  <2>1. SUFFICES ASSUME VpnInv, Quiet, svc.stopping, ~raced
                 PROVE  live = {}
    BY DEF CleanStop
  <2>2. ~Halting
    BY <2>1, QuietSteps
  <2>3. QED  BY <2>1, <2>2 DEF VpnInv, Unraced
<1>2. QED  BY <1>1, VpnInduction, PTL
-----------------------------------------------------------------------------
(* The supervisors.  Their helpers are numbered by the starts, so that the *)
(* steps which start and stop a helper must name one that there is, and    *)
(* those of a teardown the state that it will leave.                       *)
HelperOps == {"start", "spawn", "stop", "destroy"}
EndOps == {"teardown", "unbind", "clear"}
Ends == States \cup {"unclean"}
Plain(a) == a[1] \notin HelperOps /\ a[1] \notin EndOps
Sane(a) ==
  /\ a[1] \in EndOps => a[2] \in Ends
  /\ a[1] \in HelperOps => a[2] \in Backends
  /\ a[1] = "spawn" => a[3] \in 1..sup[a[2]].starts
Aimed == \A t \in Threads : \A a \in Steps(todo[t]) : Sane(a)

Supervisor == [running: BOOLEAN, shuttingDown: BOOLEAN, ready: BOOLEAN, error: BOOLEAN,
               starts: Nat, process: Nat]
Supervised ==
  /\ sup \in [Backends -> Supervisor]
  /\ live \subseteq Backends \X Nat /\ watching \subseteq Backends \X Nat
  /\ \A b \in Backends : sup[b].process <= sup[b].starts
  /\ \A p \in live \cup watching : p[2] \in 1..sup[p[1]].starts

Grows == \A b \in Backends : sup[b].starts <= sup'[b].starts

(* One supervisor changes, and a helper with its last number may be new.   *)
LEMMA OneSupervisor ==
  ASSUME Supervised, NEW b \in Backends, NEW r \in Supervisor,
         sup' = [sup EXCEPT ![b] = r], r.process <= r.starts, sup[b].starts <= r.starts,
         NEW n \in 1..r.starts,
         live' \subseteq live \cup {<<b, n>>}, watching' \subseteq watching \cup {<<b, n>>}
  PROVE  Supervised' /\ Grows
<1>1. sup' \in [Backends -> Supervisor] /\ sup'[b] = r /\ \A c \in Backends \ {b} : sup'[c] = sup[c]
  BY DEF Supervised
<1>2. \A c \in Backends : sup[c].starts \in Nat /\ sup[c] \in Supervisor
  BY DEF Supervised, Supervisor
<1>3. Grows
  BY <1>1, <1>2 DEF Grows
<1>4. \A c \in Backends : sup'[c].process <= sup'[c].starts /\ sup'[c].starts \in Nat
  BY <1>1, <1>2 DEF Supervised, Supervisor
<1>5. live' \subseteq Backends \X Nat /\ watching' \subseteq Backends \X Nat
  BY DEF Supervised, Supervisor
<1>6. ASSUME NEW p \in live' \cup watching'
      PROVE  p[2] \in 1..sup'[p[1]].starts
  <2>1. CASE p = <<b, n>>
    BY <1>1, <2>1
  <2>2. CASE p \in live \cup watching
    <3>1. p[1] \in Backends /\ p[2] \in 1..sup[p[1]].starts
      BY <2>2 DEF Supervised
    <3>2. sup[p[1]].starts <= sup'[p[1]].starts /\ sup[p[1]].starts \in Nat
          /\ sup'[p[1]].starts \in Nat
      BY <1>2, <1>3, <1>4, <3>1 DEF Grows
    <3>3. QED  BY <3>1, <3>2
  <2>3. QED  BY <1>6, <2>1, <2>2
<1>7. QED  BY <1>1, <1>3, <1>4, <1>5, <1>6 DEF Supervised

LEMMA NoSupervisor ==
  ASSUME Supervised, UNCHANGED sup, live' \subseteq live, watching' \subseteq watching
  PROVE  Supervised' /\ Grows
<1>1. \A c \in Backends : sup[c].starts \in Nat
  BY DEF Supervised, Supervisor
<1>2. Grows
  BY <1>1 DEF Grows
<1>3. QED  BY <1>2 DEF Supervised

(* The flags of one supervisor change, and a helper may be gone.           *)
LEMMA FlagsOnly ==
  ASSUME Supervised, NEW b \in Backends, NEW r \in Supervisor, sup' = [sup EXCEPT ![b] = r],
         r.starts = sup[b].starts, r.process \in {0, sup[b].process},
         live' \subseteq live, watching' \subseteq watching
  PROVE  Supervised' /\ Grows
<1>1. sup' \in [Backends -> Supervisor] /\ sup'[b] = r /\ \A c \in Backends \ {b} : sup'[c] = sup[c]
  BY DEF Supervised
<1>2. \A c \in Backends : sup[c].starts \in Nat /\ sup[c].process \in Nat /\ sup'[c].starts = sup[c].starts
  BY <1>1 DEF Supervised, Supervisor
<1>3. \A c \in Backends : sup'[c].process <= sup'[c].starts
  BY <1>1, <1>2 DEF Supervised
<1>4. live' \subseteq Backends \X Nat /\ watching' \subseteq Backends \X Nat
  BY DEF Supervised
<1>5. \A p \in live' \cup watching' : p[1] \in Backends /\ p[2] \in 1..sup[p[1]].starts
  BY DEF Supervised
<1>6. \A p \in live' \cup watching' : p[2] \in 1..sup'[p[1]].starts
  BY <1>2, <1>5
<1>7. Grows
  BY <1>2 DEF Grows
<1>8. QED  BY <1>1, <1>3, <1>4, <1>6, <1>7 DEF Supervised

LEMMA FailedIs ==
  ASSUME Supervised, NEW b \in Backends
  PROVE  \E r \in Supervisor : /\ Failed(b) = [sup EXCEPT ![b] = r]
                               /\ r.starts = sup[b].starts /\ r.process = sup[b].process
<1> DEFINE r == [sup[b] EXCEPT !.error = TRUE, !.ready = FALSE, !.running = FALSE]
<1>1. sup \in [Backends -> Supervisor] /\ sup[b] \in Supervisor
  BY DEF Supervised
<1>2. r \in Supervisor /\ r.starts = sup[b].starts /\ r.process = sup[b].process
  BY <1>1 DEF Supervisor
<1>3. Failed(b) = [sup EXCEPT ![b] = r]
  BY <1>1 DEF Failed
<1> HIDE DEF r
<1>4. QED  BY <1>2, <1>3

(* What a thread is at names its helper.                                   *)
LEMMA NamesHelper ==
  ASSUME VpnInv, Aimed, NEW t \in Threads, NEW op \in HelperOps, At(t, op)
  PROVE  /\ Arg(t) \in Backends
         /\ op = "spawn" => Head(todo[t])[3] \in 1..sup[Arg(t)].starts
<1>1. Head(todo[t]) \in Steps(todo[t]) /\ Head(todo[t])[1] = op
  BY Present DEF VpnInv
<1>2. QED  BY <1>1 DEF Aimed, Sane, Arg

LEMMA HelpersKept ==
  ASSUME VpnInv, Supervised, Aimed, NEW t \in Threads,
         Start(t) \/ Spawn(t) \/ Stop(t) \/ Destroy(t)
  PROVE  Supervised' /\ Grows
<1>0. \A b \in Backends : sup[b] \in Supervisor /\ sup[b].starts \in Nat /\ sup[b].process \in Nat
                          /\ sup[b].process <= sup[b].starts
  BY DEF Supervised, Supervisor
<1> DEFINE b == Arg(t)
<1>1. CASE Start(t)
  <2>1. b \in Backends
    BY <1>1, NamesHelper DEF Start, HelperOps
  <2>2. CASE sup[b].running
    BY <1>1, <2>2, NoSupervisor DEF Start
  <2>3. CASE ~sup[b].running
    <3> DEFINE r == [running |-> TRUE, shuttingDown |-> FALSE, ready |-> FALSE, error |-> FALSE,
                     starts |-> sup[b].starts + 1, process |-> sup[b].process]
    <3>1. sup' = [sup EXCEPT ![b] = r] /\ live' = {} /\ watching' = watching
      BY <1>1, <2>1, <2>3 DEF Start, Supervised
    <3>2. r \in Supervisor /\ r.process <= r.starts /\ sup[b].starts <= r.starts /\ 1 \in 1..r.starts
      BY <1>0, <2>1 DEF Supervisor
    <3> HIDE DEF r, b
    <3>3. live' \subseteq live \cup {<<b, 1>>} /\ watching' \subseteq watching \cup {<<b, 1>>}
      BY <3>1
    <3>4. QED  BY <2>1, <3>1, <3>2, <3>3, OneSupervisor
  <2>4. QED  BY <2>2, <2>3
<1>2. CASE Spawn(t)
  <2> DEFINE n == Head(todo[t])[3]
  <2>1. b \in Backends /\ n \in 1..sup[b].starts
    BY <1>2, NamesHelper DEF Spawn, HelperOps
  <2>2. CASE sup' = [sup EXCEPT ![b].process = n] /\ live' = live \cup {<<b, n>>}
             /\ watching' = {p \in watching : p[1] = b => p \in live} \cup {<<b, n>>}
    <3> DEFINE r == [sup[b] EXCEPT !.process = n]
    <3>1. sup' = [sup EXCEPT ![b] = r]
      BY <2>2
    <3>2. n \in Nat /\ n <= sup[b].starts
      BY <1>0, <2>1
    <3>3. r \in Supervisor /\ r.process = n /\ r.starts = sup[b].starts
      BY <1>0, <2>1, <3>2 DEF Supervisor
    <3>4. watching' \subseteq watching \cup {<<b, n>>} /\ live' \subseteq live \cup {<<b, n>>}
      BY <2>2
    <3> HIDE DEF r, b, n
    <3>5. r.process <= r.starts /\ sup[b].starts <= r.starts /\ n \in 1..r.starts
      BY <1>0, <2>1, <3>2, <3>3
    <3>6. QED  BY <2>1, <3>1, <3>3, <3>4, <3>5, OneSupervisor
  <2>3. CASE sup' = Failed(b) /\ UNCHANGED <<live, watching>>
    BY <2>1, <2>3, FailedIs, FlagsOnly
  <2>4. QED  BY <1>2, <2>2, <2>3 DEF Spawn
<1>3. CASE Stop(t)
  <2>1. b \in Backends
    BY <1>3, NamesHelper DEF Stop, HelperOps
  <2> DEFINE r == [sup[b] EXCEPT !.shuttingDown = TRUE, !.ready = FALSE, !.running = FALSE]
  <2>2. sup' = [sup EXCEPT ![b] = r] /\ UNCHANGED <<live, watching>>
    BY <1>3, <2>1 DEF Stop, Supervised
  <2>3. r \in Supervisor
    BY <1>0, <2>1 DEF Supervisor
  <2>4. r.starts = sup[b].starts /\ r.process = sup[b].process
    BY <1>0, <2>1 DEF Supervisor
  <2> HIDE DEF r, b
  <2>5. QED  BY <2>1, <2>2, <2>3, <2>4, FlagsOnly
<1>4. CASE Destroy(t)
  <2>1. b \in Backends
    BY <1>4, NamesHelper DEF Destroy, HelperOps
  <2> DEFINE r == [sup[b] EXCEPT !.process = 0]
  <2>2. sup' = [sup EXCEPT ![b] = r] /\ live' \subseteq live /\ watching' \subseteq watching
    BY <1>4 DEF Destroy
  <2>3. r \in Supervisor /\ r.starts = sup[b].starts /\ r.process = 0
    BY <1>0, <2>1 DEF Supervisor
  <2> HIDE DEF r, b
  <2>4. QED  BY <2>1, <2>2, <2>3, FlagsOnly
<1>5. QED  BY <1>1, <1>2, <1>3, <1>4

(* The watch threads change the flags of the supervisor of their helper.   *)
LEMMA WatchersKeep ==
  ASSUME Supervised, NEW p \in watching, Connected(p) \/ TimedOut(p) \/ Exited(p)
  PROVE  Supervised' /\ Grows
<1>0. p[1] \in Backends
  BY DEF Supervised
<1>1. sup[p[1]] \in Supervisor
  BY <1>0 DEF Supervised
<1>2. CASE Connected(p)
  <2> DEFINE r == [sup[p[1]] EXCEPT !.ready = TRUE]
  <2>1. sup' = [sup EXCEPT ![p[1]] = r] /\ UNCHANGED <<live, watching>>
    BY <1>2 DEF Connected
  <2>2. r \in Supervisor /\ r.starts = sup[p[1]].starts /\ r.process = sup[p[1]].process
    BY <1>1 DEF Supervisor
  <2> HIDE DEF r
  <2>3. QED  BY <1>0, <2>1, <2>2, FlagsOnly
<1>3. CASE sup' = Failed(p[1]) /\ live' \subseteq live /\ watching' \subseteq watching
  BY <1>0, <1>3, FailedIs, FlagsOnly
<1>4. CASE UNCHANGED sup /\ live' \subseteq live /\ watching' \subseteq watching
  BY <1>4, NoSupervisor
<1>5. TimedOut(p) => sup' = Failed(p[1]) /\ live' \subseteq live /\ watching' \subseteq watching
  BY DEF TimedOut
<1>6. Exited(p) => (sup' = Failed(p[1]) \/ UNCHANGED sup) /\ live' \subseteq live /\ watching' \subseteq watching
  BY DEF Exited
<1>7. QED  BY <1>2, <1>3, <1>4, <1>5, <1>6

(* The steps that are not those of any thread.                             *)
MainCalls ==
  OnStartCommand \/ Configure \/ OnServiceConnected \/ OnUnexpectedExit \/ OnRevokeOrDestroy
JobCalls ==
  JobConnect \/ JobRequest \/ JobBind \/ JobStart \/ JobAwait \/ JobFallback \/ JobAwaitVpn
ViewCalls ==
  TearBegin \/ Unbind \/ Clear \/ SeeUnavailable \/ SeeExited \/ SeeRevoked \/ UserStops \/ StartAgain

LEMMA NextKinds ==
  ASSUME [Next]_vars
  PROVE  \/ \E t \in Threads : Step(t)
         \/ MainCalls \/ JobCalls \/ ViewCalls
         \/ Monitor \/ NetworkJob \/ OnAvailable \/ Revoked \/ HelperDies \/ UNCHANGED vars
         \/ \E p \in watching : Connected(p) \/ TimedOut(p) \/ Exited(p)
BY DEF Next, MainThread, Job, Tear, Health, Net, Collector, Watch, Threads, MainCalls, JobCalls,
       ViewCalls

(* Everybody else leaves them alone, or kills.                             *)
LEMMA SupervisedKept ==
  ASSUME VpnInv, Supervised, Aimed, [Next]_vars
  PROVE  Supervised' /\ Grows
<1> DEFINE Others == UNCHANGED sup /\ live' \subseteq live /\ watching' \subseteq watching
<1>1. ASSUME NEW t \in Threads, Step(t), ~(Start(t) \/ Spawn(t) \/ Stop(t) \/ Destroy(t))
      PROVE  Others
  BY <1>1 DEF Step, Halt, Halted, TunBegin, TunUp, TunFails, Dispatch, Enter, Claim, Attempt,
              Restart, Wait, TunRestored, Settle, Finally
<1>2. MainCalls => Others
  BY DEF MainCalls, OnStartCommand, Configure, OnServiceConnected, OnUnexpectedExit, OnRevokeOrDestroy
<1>3. JobCalls => Others
  BY DEF JobCalls, JobConnect, JobRequest, JobBind, JobStart, JobAwait, JobFallback, JobAwaitVpn
<1>4. ViewCalls => Others
  BY DEF ViewCalls, TearBegin, Unbind, Clear, SeeUnavailable, SeeExited, SeeRevoked, UserStops, StartAgain
<1>5. Monitor \/ NetworkJob \/ OnAvailable \/ Revoked \/ HelperDies \/ UNCHANGED vars => Others
  BY DEF Monitor, NetworkJob, OnAvailable, Revoked, HelperDies, vars
<1>6. \/ \E t \in Threads : Start(t) \/ Spawn(t) \/ Stop(t) \/ Destroy(t)
      \/ \E p \in watching : Connected(p) \/ TimedOut(p) \/ Exited(p)
      \/ Others
  <2>1. \/ \E t \in Threads : Step(t)
        \/ MainCalls \/ JobCalls \/ ViewCalls
        \/ Monitor \/ NetworkJob \/ OnAvailable \/ Revoked \/ HelperDies \/ UNCHANGED vars
        \/ \E p \in watching : Connected(p) \/ TimedOut(p) \/ Exited(p)
    BY NextKinds
  <2> HIDE DEF Others
  <2>2. QED  BY <1>1, <1>2, <1>3, <1>4, <1>5, <2>1
<1>7. QED  BY <1>6, HelpersKept, WatchersKeep, NoSupervisor

(* The steps of a script that may be given to a thread.                    *)
Ready(s) == s \in Seq(Steps(s)) /\ \A a \in Steps(s) : Sane(a)

LEMMA ReadyOne == ASSUME NEW a, Sane(a) PROVE Ready(<<a>>)
BY SingleScript DEF Ready, Script

LEMMA ReadyPlain == ASSUME NEW a, Plain(a) PROVE Ready(<<a>>)
BY ReadyOne DEF Sane, Plain, HelperOps

LEMMA ReadyEmpty == Ready(<<>>)
BY EmptyScript DEF Ready, Script

LEMMA ReadyJoin ==
  ASSUME NEW s, NEW r, Ready(s), Ready(r)
  PROVE  Ready(s \o r)
BY JoinSteps DEF Ready

LEMMA ReadyPair == ASSUME NEW a, NEW b, Sane(a), Sane(b) PROVE Ready(<<a, b>>)
<1>1. /\ Len(<<a, b>>) = 2 /\ 1..Len(<<a, b>>) = {1, 2} /\ <<a, b>>[1] = a /\ <<a, b>>[2] = b
      /\ <<a, b>> \in Seq({a, b})
  OBVIOUS
<1>2. Steps(<<a, b>>) = {a, b}
  BY <1>1 DEF Steps
<1>3. QED  BY <1>1, <1>2 DEF Ready

LEMMA ReadyScripts ==
  /\ \A b \in Backends : Ready(StopOf(b)) /\ Ready(StartOf(b))
  /\ Ready(stopClients) /\ Ready(stopEverything)
<1>1. ASSUME NEW b \in Backends PROVE Ready(StopOf(b)) /\ Ready(StartOf(b))
  <2>1. Sane(<<"stop", b>>) /\ Sane(<<"destroy", b>>) /\ Sane(<<"start", b>>)
    BY DEF Sane, HelperOps, EndOps
  <2>2. QED  BY <2>1, ReadyPair, ReadyOne DEF StopOf, StartOf
<1>2. Ready(stopClients)
  BY <1>1, ReadyJoin DEF stopClients, Backends
<1>3. Ready(stopEverything)
  BY ReadyPlain DEF stopEverything, Plain, HelperOps, EndOps
<1>4. QED  BY <1>1, <1>2, <1>3

(* Steps that were sane stay sane, and new ones must be.                   *)
LEMMA SaneStays ==
  ASSUME Supervised, Supervised', Grows, NEW a, Sane(a)
  PROVE  Sane(a)'
<1>1. \A b \in Backends : sup[b].starts \in Nat /\ sup'[b].starts \in Nat
                          /\ sup[b].starts <= sup'[b].starts
  BY DEF Supervised, Supervisor, Grows
<1>2. CASE a[1] = "spawn"
  <2>1. a[2] \in Backends /\ a[3] \in 1..sup[a[2]].starts
    BY <1>2 DEF Sane, HelperOps, EndOps
  <2>2. a[3] \in 1..sup'[a[2]].starts
    BY <1>1, <2>1
  <2>3. QED  BY <1>2, <2>1, <2>2 DEF Sane
<1>3. CASE a[1] # "spawn"
  BY <1>3 DEF Sane
<1>4. QED  BY <1>2, <1>3

LEMMA AimedKept ==
  ASSUME Aimed, Supervised, Supervised', Grows,
         \A u \in Threads : \A a \in Steps(todo'[u]) : a \in Steps(todo[u]) \/ Sane(a)
  PROVE  Aimed'
<1>1. ASSUME NEW u \in Threads, NEW a \in Steps(todo'[u])
      PROVE  Sane(a)'
  <2>1. Sane(a)
    BY DEF Aimed
  <2>2. QED  BY <2>1, SaneStays
<1>2. QED  BY <1>1 DEF Aimed, Steps

LEMMA AimedWith ==
  ASSUME Shape, Aimed, Supervised, Supervised', Grows, NEW t \in Threads, NEW s, Ready(s),
         todo' = [todo EXCEPT ![t] = s]
  PROVE  Aimed'
<1>1. todo'[t] = s /\ \A u \in Threads \ {t} : todo'[u] = todo[u]
  BY DEF Shape
<1>2. \A u \in Threads : \A a \in Steps(todo'[u]) : a \in Steps(todo[u]) \/ Sane(a)
  BY <1>1 DEF Ready
<1>3. QED  BY <1>2, AimedKept

LEMMA RestIsReady ==
  ASSUME Shape, Aimed, NEW t \in Threads, todo[t] # <<>>
  PROVE  Ready(Tail(todo[t])) /\ Sane(Head(todo[t]))
<1>1. todo[t] \in Seq(Steps(todo[t]))
  BY DEF Shape
<1>2. /\ Tail(todo[t]) \in Seq(Steps(Tail(todo[t])))
      /\ Steps(todo[t]) = {Head(todo[t])} \cup Steps(Tail(todo[t]))
  BY <1>1, RestOfSteps
<1>3. QED  BY <1>2 DEF Ready, Aimed

LEMMA AimedOn ==
  ASSUME Shape, Aimed, Supervised, Supervised', Grows, NEW t \in Threads, todo[t] # <<>>,
         NEW s, Ready(s), Then(t, s)
  PROVE  Aimed'
<1> DEFINE r == s \o Tail(todo[t])
<1>1. Ready(r)
  BY RestIsReady, ReadyJoin
<1>2. todo' = [todo EXCEPT ![t] = r]
  BY DEF Then, Instead, Shape
<1> HIDE DEF r
<1>3. QED  BY <1>1, <1>2, AimedWith

-----------------------------------------------------------------------------
(* The steps of the threads, one kind after the other.                     *)
LEMMA SupervisorScripts ==
  ASSUME VpnInv, Aimed, Supervised, Supervised', Grows, NEW t \in Threads,
         Start(t) \/ Spawn(t) \/ Stop(t) \/ Destroy(t)
  PROVE  Aimed'
<1>0. Shape
  BY DEF VpnInv
<1>1. todo[t] # <<>>
  BY DEF Start, Spawn, Stop, Destroy, At
<1>2. CASE Then(t, <<>>)
  BY <1>0, <1>1, <1>2, ReadyEmpty, AimedOn
<1>3. CASE Start(t) /\ ~sup[Arg(t)].running
  <2>1. Arg(t) \in Backends
    BY <1>3, NamesHelper DEF Start, HelperOps
  <2>2. PICK b \in Backends : b = Arg(t)
    BY <2>1
  <2>3. sup[b].starts \in Nat
    BY DEF Supervised, Supervisor
  <2>4. PICK n \in Nat : n = sup[b].starts + 1
    BY <2>3
  <2>5. sup'[b].starts = n /\ n \in 1..n
    BY <1>3, <2>2, <2>3, <2>4 DEF Start, Supervised, Supervisor
  <2> DEFINE a == <<"spawn", b, n>>
             r == <<a>> \o Tail(todo[t])
  <2>6. Sane(a)'
    BY <2>2, <2>5 DEF Sane, HelperOps, EndOps
  <2>7. Script(<<a>>) /\ Steps(<<a>>) = {a}
    BY SingleScript
  <2>8. Tail(todo[t]) \in Seq(Steps(Tail(todo[t]))) /\ <<a>> \in Seq(Steps(<<a>>))
        /\ Steps(Tail(todo[t])) \subseteq Steps(todo[t])
    BY <1>0, <1>1, <2>7, RestOfSteps DEF Shape, Script
  <2>9. Steps(r) = {a} \cup Steps(Tail(todo[t]))
    BY <2>7, <2>8, JoinSteps
  <2>10. todo' = [todo EXCEPT ![t] = r]
    BY <1>0, <1>3, <2>2, <2>4 DEF Start, Then, Instead, Shape
  <2> HIDE DEF r, a
  <2>11. todo'[t] = r /\ \A u \in Threads \ {t} : todo'[u] = todo[u]
    BY <1>0, <2>10 DEF Shape
  <2>12. ASSUME NEW u \in Threads, NEW x \in Steps(todo'[u])
        PROVE  Sane(x)'
    <3>1. x = a \/ x \in Steps(todo[u])
      <4>1. CASE u = t
        BY <2>8, <2>9, <2>11, <2>12, <4>1
      <4>2. CASE u # t
        BY <2>11, <2>12, <4>2
      <4>3. QED  BY <4>1, <4>2
    <3>2. CASE x = a
      BY <2>6, <3>2
    <3>3. CASE x \in Steps(todo[u])
      BY <3>3, SaneStays DEF Aimed
    <3>4. QED  BY <3>1, <3>2, <3>3
  <2>13. QED  BY <2>12 DEF Aimed, Steps
<1>4. QED  BY <1>2, <1>3 DEF Start, Spawn, Stop, Destroy

LEMMA LockScripts ==
  ASSUME VpnInv, Aimed, Supervised, Supervised', Grows, NEW t \in Threads,
         Halt(t) \/ Halted(t) \/ TunBegin(t) \/ TunFails(t) \/ Dispatch(t) \/ Finally(t)
  PROVE  Aimed'
<1>0. Shape /\ todo[t] # <<>>
  BY DEF VpnInv, Halt, Halted, TunBegin, TunFails, Dispatch, Finally, At
<1>1. Ready(<< <<"halted">> >>) /\ Ready(<< <<"tunning">> >>)
  BY ReadyPlain DEF Plain, HelperOps, EndOps
<1>2. Ready(stopClients \o << <<"halted">> >>)
  BY <1>1, ReadyScripts, ReadyJoin
<1>3. \/ Then(t, <<>>) \/ Then(t, << <<"tunning">> >>) \/ Then(t, stopEverything)
      \/ todo' = Unmonitored(Instead(t, stopClients \o << <<"halted">> >>))
  BY DEF Halt, Halted, TunBegin, TunFails, Dispatch, Finally
<1>4. CASE todo' = Unmonitored(Instead(t, stopClients \o << <<"halted">> >>))
  <2> DEFINE h == stopClients \o << <<"halted">> >>
             td == Instead(t, h)
  <2>1. Ready(h \o Tail(todo[t]))
    BY <1>0, <1>2, RestIsReady, ReadyJoin
  <2>2. /\ DOMAIN td = Threads /\ td[t] = h \o Tail(todo[t])
        /\ \A u \in Threads \ {t} : td[u] = todo[u]
    BY <1>0 DEF Instead, Shape
  <2>3. \A u \in Threads : \A a \in Steps(td[u]) : a \in Steps(todo[u]) \/ Sane(a)
    BY <2>1, <2>2 DEF Ready
  <2>4. todo' = Unmonitored(td)
    BY <1>4
  <2> HIDE DEF td
  <2>5. \A u \in Threads : todo'[u] = td[u] \/ todo'[u] = <<>>
    BY <2>2, <2>4 DEF Unmonitored
  <2>6. \A u \in Threads : \A a \in Steps(todo'[u]) : a \in Steps(todo[u]) \/ Sane(a)
    BY <2>3, <2>5, EmptyScript
  <2>7. QED  BY <2>6, AimedKept
<1>5. QED  BY <1>0, <1>1, <1>3, <1>4, ReadyEmpty, ReadyScripts, AimedOn

LEMMA RecoveryScripts ==
  ASSUME VpnInv, Aimed, Supervised, Supervised', Grows, NEW t \in Threads,
         Enter(t) \/ Claim(t) \/ Attempt(t) \/ Restart(t) \/ Wait(t) \/ TunRestored(t)
  PROVE  Aimed'
<1>0. Shape /\ todo[t] # <<>>
  BY DEF VpnInv, Enter, Claim, Attempt, Restart, Wait, TunRestored, At
<1>1. \A g, k : /\ Ready(<< <<"claim", g>> >>) /\ Ready(<< <<"attempt", k, g>> >>)
                /\ Ready(<< <<"delay", k, g>> >>) /\ Ready(<< <<"wait", k, g>> >>)
                /\ Ready(<< <<"settle", g>> >>) /\ Ready(<< <<"finally">> >>)
                /\ Ready(<< <<"surrender">> >>)
                /\ Sane(<<"tun">>) /\ Sane(<<"restored", k, g>>)
  BY ReadyPlain DEF Plain, HelperOps, EndOps, Sane
<1>2. \A g, k : Ready(<< <<"tun">>, <<"restored", k, g>> >>)
  BY <1>1, ReadyPair
<1>3. \A g, k : Ready(stopClients \o << <<"delay", k, g>> >>)
  BY <1>1, ReadyScripts, ReadyJoin
<1>4. Ready(<< <<"surrender">> >> \o stopEverything \o << <<"finally">> >>)
  <2>1. Ready(<< <<"surrender">> >> \o stopEverything)
    BY <1>1, ReadyScripts, ReadyJoin
  <2>2. QED  BY <1>1, <2>1, ReadyJoin
<1>5. \A b \in Backends : \A g, k : Ready(StartOf(b) \o << <<"wait", k, g>> >>)
  BY <1>1, ReadyScripts, ReadyJoin
<1>6. CASE Enter(t) \/ Claim(t) \/ TunRestored(t)
  <2>1. \/ Then(t, <<>>)
        \/ \E g, k : \/ Then(t, << <<"claim", g>> >>) \/ Then(t, << <<"attempt", k, g>> >>)
                     \/ Then(t, << <<"settle", g>> >>)
    BY <1>6 DEF Enter, Claim, TunRestored
  <2>2. QED  BY <1>0, <1>1, <2>1, ReadyEmpty, AimedOn
<1>7. CASE Attempt(t)
  <2>1. \/ \E g, k : Then(t, stopClients \o << <<"delay", k, g>> >>)
        \/ Then(t, << <<"surrender">> >> \o stopEverything \o << <<"finally">> >>)
        \/ Then(t, << <<"finally">> >>)
    BY <1>7 DEF Attempt
  <2>2. QED  BY <1>0, <1>1, <1>3, <1>4, <2>1, AimedOn
<1>8. CASE Restart(t)
  <2>1. \/ Then(t, << <<"finally">> >>)
        \/ \E b \in Backends : \E g, k : Then(t, StartOf(b) \o << <<"wait", k, g>> >>)
    BY <1>8 DEF Restart, Backends
  <2>2. QED  BY <1>0, <1>1, <1>5, <2>1, AimedOn
<1>9. CASE Wait(t)
  <2>1. \/ Then(t, << <<"finally">> >>)
        \/ \E g, k : \/ Then(t, << <<"tun">>, <<"restored", k, g>> >>)
                     \/ Then(t, << <<"attempt", k, g>> >>)
    BY <1>9 DEF Wait
  <2>2. QED  BY <1>0, <1>1, <1>2, <2>1, AimedOn
<1>10. QED  BY <1>6, <1>7, <1>8, <1>9

(* A new monitor.                                                          *)
LEMMA MonitoredScripts ==
  ASSUME VpnInv, Aimed, Supervised, Supervised', Grows, NEW t \in Threads,
         TunUp(t) \/ Settle(t)
  PROVE  Aimed'
<1> DEFINE m == <<"monitor", svc.generation>>
           f == <<"finally">>
<1>0. Shape /\ todo[t] # <<>> /\ DOMAIN todo = Threads
  BY DEF VpnInv, Shape, TunUp, Settle, At
<1>1. Ready(<<m>>) /\ Ready(<<f>>) /\ Ready(<<f, m>>)
  <2>1. Sane(m) /\ Sane(f)
    BY DEF Sane, HelperOps, EndOps
  <2>2. QED  BY <2>1, ReadyOne, ReadyPair
<1>2. CASE Then(t, <<>>) \/ Then(t, <<f>>)
  BY <1>0, <1>1, <1>2, ReadyEmpty, AimedOn
<1>3. ASSUME NEW s, Ready(s),
             \/ todo' = Monitored(Instead(t, s))
             \/ todo' = [Monitored(Instead(t, s)) EXCEPT
                           !["health"] = IF t = "health" THEN <<f, m>> ELSE @]
      PROVE  Aimed'
  <2> DEFINE td == Instead(t, s)
  <2>1. Ready(s \o Tail(todo[t]))
    BY <1>0, <1>3, RestIsReady, ReadyJoin
  <2>2. /\ DOMAIN td = Threads /\ td[t] = s \o Tail(todo[t])
        /\ \A u \in Threads \ {t} : td[u] = todo[u]
    BY <1>0 DEF Instead
  <2>3. \A u \in Threads : \A a \in Steps(td[u]) : a \in Steps(todo[u]) \/ Sane(a)
    BY <2>1, <2>2 DEF Ready
  <2> HIDE DEF td
  <2>4. /\ DOMAIN Monitored(td) = Threads
        /\ \A u \in Threads : Monitored(td)[u] = td[u] \/ Monitored(td)[u] = <<m>>
    BY <2>2 DEF Monitored
  <2>5. \A u \in Threads : todo'[u] \in {td[u], <<m>>, <<f, m>>}
    <3>1. CASE todo' = Monitored(td)
      BY <2>4, <3>1
    <3>2. CASE todo' = [Monitored(td) EXCEPT !["health"] = IF t = "health" THEN <<f, m>> ELSE @]
      BY <2>4, <3>2
    <3>3. QED  BY <1>3, <3>1, <3>2 DEF td
  <2>6. \A u \in Threads : \A a \in Steps(todo'[u]) : a \in Steps(todo[u]) \/ Sane(a)
    <3>1. SUFFICES ASSUME NEW u \in Threads, NEW a \in Steps(todo'[u])
                   PROVE  a \in Steps(todo[u]) \/ Sane(a)
      OBVIOUS
    <3>2. CASE todo'[u] = td[u]
      BY <2>3, <3>1, <3>2
    <3>3. CASE todo'[u] = <<m>> \/ todo'[u] = <<f, m>>
      BY <1>1, <3>1, <3>3 DEF Ready
    <3>4. QED  BY <2>5, <3>2, <3>3
  <2>7. QED  BY <2>6, AimedKept
<1>4. QED  BY <1>1, <1>2, <1>3, ReadyEmpty DEF TunUp, Settle

(* What the service is called for on the main thread, and what its         *)
(* coroutines begin.                                                       *)
LEMMA ServiceScripts ==
  ASSUME VpnInv, Aimed, Supervised, Supervised', Grows,
         MainCalls \/ Monitor \/ OnAvailable \/ NetworkJob
  PROVE  Aimed'
<1>0. Shape /\ {"main", "health", "net"} \subseteq Threads
  BY DEF VpnInv, Threads
<1>1. \A g : /\ Ready(<< <<"network", g>> >>) /\ Ready(<< <<"enterIf", g>> >>)
             /\ Sane(<<"enterIf", g>>) /\ Sane(<<"enter">>) /\ Ready(<< <<"exited">> >>)
  BY ReadyPlain DEF Plain, HelperOps, EndOps, Sane
<1>2. CASE OnStartCommand \/ Configure \/ OnServiceConnected
  <2>1. Ready(<< <<"configure">> >>)
    BY ReadyPlain DEF Plain, HelperOps, EndOps
  <2>2. CASE OnStartCommand
    BY <1>0, <2>1, <2>2, AimedWith DEF OnStartCommand
  <2>3. CASE Configure
    <3>1. todo["main"] # <<>> /\ Then("main", <<>>)
      BY <2>3 DEF Configure, At
    <3>2. QED  BY <1>0, <3>1, ReadyEmpty, AimedOn
  <2>4. CASE OnServiceConnected
    BY <2>4, AimedKept DEF OnServiceConnected
  <2>5. QED  BY <1>2, <2>2, <2>3, <2>4
<1>3. CASE OnUnexpectedExit
  <2>1. Ready(StopOf("HYSTERIA") \o StartOf("YANDEX")) /\ Ready(stopEverything \o << <<"exited">> >>)
    BY <1>1, ReadyScripts, ReadyJoin DEF Backends
  <2>2. \/ todo' = [todo EXCEPT !["main"] = StopOf("HYSTERIA") \o StartOf("YANDEX")]
        \/ todo' = [todo EXCEPT !["main"] = <<>>]
        \/ todo' = [todo EXCEPT !["main"] = stopEverything \o << <<"exited">> >>]
    BY <1>3 DEF OnUnexpectedExit
  <2>3. QED  BY <1>0, <2>1, <2>2, ReadyEmpty, AimedWith
<1>4. CASE OnRevokeOrDestroy
  <2>1. Head(posted)[1] \in {"revoked", "destroyed"}
    BY <1>4 DEF OnRevokeOrDestroy
  <2>2. Plain(<<Head(posted)[1]>>)
    BY <2>1 DEF Plain, HelperOps, EndOps
  <2>3. Ready(<< <<Head(posted)[1]>> >>)
    BY <2>2, ReadyPlain
  <2>4. Ready(stopEverything \o << <<Head(posted)[1]>> >>)
    BY <2>3, ReadyScripts, ReadyJoin
  <2>5. todo' = [todo EXCEPT !["main"] = stopEverything \o << <<Head(posted)[1]>> >>]
    BY <1>4 DEF OnRevokeOrDestroy
  <2>6. QED  BY <1>0, <2>4, <2>5, AimedWith
<1>5. CASE Monitor
  <2>1. todo["health"] # <<>>
    BY <1>5 DEF Monitor, At
  <2>2. Sane(Head(todo["health"]))
    BY <1>0, <2>1, RestIsReady
  <2>3. \A g : /\ Ready(<< <<"enterIf", g>>, Head(todo["health"]) >>)
               /\ Ready(<< <<"enter">>, Head(todo["health"]) >>)
    BY <1>1, <2>2, ReadyPair
  <2>4. \/ Then("health", <<>>) \/ Then("health", << <<"enter">>, Head(todo["health"]) >>)
        \/ \E g : Then("health", << <<"enterIf", g>>, Head(todo["health"]) >>)
    BY <1>5 DEF Monitor
  <2>5. QED  BY <1>0, <2>1, <2>3, <2>4, ReadyEmpty, AimedOn
<1>6. CASE OnAvailable
  <2>1. todo' = [todo EXCEPT !["net"] = << <<"network", svc.generation>> >>]
    BY <1>6 DEF OnAvailable
  <2>2. QED  BY <1>0, <1>1, <2>1, AimedWith
<1>7. CASE NetworkJob
  <2>1. todo["net"] # <<>> /\ (Then("net", <<>>) \/ \E g : Then("net", << <<"enterIf", g>> >>))
    BY <1>7 DEF NetworkJob, At
  <2>2. QED  BY <1>0, <1>1, <2>1, ReadyEmpty, AimedOn
<1>8. QED  BY <1>2, <1>3, <1>4, <1>5, <1>6, <1>7 DEF MainCalls

(* The view model.                                                         *)
ViewModel == [mode: Modes, state: States, requested: BOOLEAN, service: BOOLEAN,
              sessions: 1..MaxSessions, inherited: BOOLEAN, overtaken: BOOLEAN]
Viewed == vm \in ViewModel

(* It tears down, its job before having ended or not.                      *)
LEMMA TeardownScript ==
  ASSUME Shape, Aimed, Supervised, Supervised', Grows, NEW v \in ViewModel, NEW final \in Ends,
         Teardown(todo, v, final) \/ Teardown([todo EXCEPT !["job"] = <<>>], v, final)
  PROVE  Aimed' /\ Viewed'
<1> DEFINE s == << <<"teardown", final>> >>
<1>1. Ready(s)
  <2>1. Sane(<<"teardown", final>>)
    BY DEF Sane, HelperOps
  <2>2. QED  BY <2>1, ReadyOne
<1> HIDE DEF s
<1>2. ASSUME NEW td, DOMAIN td = Threads, \A u \in Threads : td[u] \in {todo[u], <<>>},
             Teardown(td, v, final)
      PROVE  Aimed' /\ Viewed'
  <2>1. \A u \in Threads : todo'[u] \in {todo[u], <<>>, s}
    BY <1>2 DEF Teardown, s
  <2>2. \A u \in Threads : \A a \in Steps(todo'[u]) : a \in Steps(todo[u]) \/ Sane(a)
    BY <1>1, <2>1, ReadyEmpty DEF Ready
  <2>3. vm' = v \/ vm' = [v EXCEPT !.state = "stopping"]
    BY <1>2 DEF Teardown
  <2>4. vm' \in ViewModel
    BY <2>3 DEF ViewModel, States
  <2>5. QED  BY <2>2, <2>4, AimedKept DEF Viewed
<1>3. DOMAIN todo = Threads
  BY DEF Shape
<1>4. CASE Teardown(todo, v, final)
  BY <1>2, <1>3, <1>4
<1>5. CASE Teardown([todo EXCEPT !["job"] = <<>>], v, final)
  <2> DEFINE td == [todo EXCEPT !["job"] = <<>>]
  <2>1. DOMAIN td = Threads /\ \A u \in Threads : td[u] \in {todo[u], <<>>}
    BY <1>3
  <2>2. Teardown(td, v, final)
    BY <1>5
  <2> HIDE DEF td
  <2>3. QED  BY <1>2, <2>1, <2>2
<1>6. QED  BY <1>4, <1>5

LEMMA TearingScripts ==
  ASSUME VpnInv, Viewed, Aimed, Supervised, Supervised', Grows, TearBegin \/ Unbind \/ Clear
  PROVE  Aimed' /\ Viewed'
<1>0. Shape /\ "tear" \in Threads /\ vm \in ViewModel
  BY DEF VpnInv, Threads, Viewed
<1>1. todo["tear"] # <<>> /\ Arg("tear") \in Ends
  <2>1. /\ todo["tear"] # <<>>
        /\ At("tear", "teardown") \/ At("tear", "unbind") \/ At("tear", "clear")
    BY DEF TearBegin, Unbind, Clear, At
  <2>2. Sane(Head(todo["tear"]))
    BY <1>0, <2>1, RestIsReady
  <2>3. QED  BY <2>1, <2>2 DEF Sane, EndOps, At, Arg
<1>2. ASSUME NEW e \in Ends, NEW x
      PROVE  Ready(<< <<"clear", e>> >>) /\ Ready(<< <<"unbind", e, x>> >>)
  <2>1. Sane(<<"clear", e>>) /\ Sane(<<"unbind", e, x>>)
    BY DEF Sane, HelperOps
  <2>2. QED  BY <2>1, ReadyOne
<1>3. CASE TearBegin
  <2>1. Viewed'
    BY <1>0, <1>3 DEF TearBegin, Viewed
  <2>2. \/ Then("tear", << <<"clear", Arg("tear")>> >>)
        \/ Then("tear", (stopClients \o stopEverything) \o << <<"unbind", Arg("tear"), vm.service>> >>)
        \/ Then("tear", <<>> \o << <<"unbind", Arg("tear"), vm.service>> >>)
    BY <1>3 DEF TearBegin
  <2>3. Ready(stopClients \o stopEverything)
    BY ReadyScripts, ReadyJoin
  <2> DEFINE u == << <<"unbind", Arg("tear"), vm.service>> >>
  <2>4. Ready(u) /\ Ready(<< <<"clear", Arg("tear")>> >>)
    BY <1>1, <1>2
  <2> HIDE DEF u
  <2>5. Ready((stopClients \o stopEverything) \o u) /\ Ready(<<>> \o u)
    BY <2>3, <2>4, ReadyJoin, ReadyEmpty
  <2>6. QED  BY <1>0, <1>1, <2>1, <2>2, <2>4, <2>5, AimedOn DEF u
<1>4. CASE Unbind
  <2>1. vm' \in ViewModel
    BY <1>0, <1>4 DEF Unbind, ViewModel
  <2>2. PICK e \in Ends : Then("tear", << <<"clear", e>> >>)
    <3>1. "unclean" \in Ends
      BY DEF Ends
    <3>2. QED  BY <1>1, <1>4, <3>1 DEF Unbind
  <2>3. QED  BY <1>0, <1>1, <1>2, <2>1, <2>2, AimedOn DEF Viewed
<1>5. CASE Clear
  <2>1. Then("tear", <<>>)
    BY <1>5 DEF Clear
  <2>2. PICK st \in States : vm' = [vm EXCEPT !.service = FALSE, !.state = st]
    <3>1. CASE Arg("tear") = "unclean"
      <4>1. vm' = [vm EXCEPT !.service = FALSE, !.state = "error"]
        BY <1>5, <3>1 DEF Clear
      <4>2. QED  BY <4>1 DEF States
    <3>2. CASE Arg("tear") # "unclean" /\ vm.state = "stopping"
      <4>1. vm' = [vm EXCEPT !.service = FALSE, !.state = Arg("tear")]
        BY <1>0, <1>5, <3>2 DEF Clear, ViewModel
      <4>2. Arg("tear") \in States
        BY <1>1, <3>2 DEF Ends
      <4>3. QED  BY <4>1, <4>2
    <3>3. CASE Arg("tear") # "unclean" /\ vm.state # "stopping"
      <4>1. vm' = [vm EXCEPT !.service = FALSE, !.state = vm.state]
        BY <1>0, <1>5, <3>3 DEF Clear, ViewModel
      <4>2. QED  BY <1>0, <4>1 DEF ViewModel
    <3>4. QED  BY <3>1, <3>2, <3>3
  <2>3. vm' \in ViewModel
    BY <1>0, <2>2 DEF ViewModel
  <2>4. QED  BY <1>0, <1>1, <2>1, <2>3, ReadyEmpty, AimedOn DEF Viewed
<1>6. QED  BY <1>3, <1>4, <1>5

LEMMA JobScripts ==
  ASSUME VpnInv, Viewed, Aimed, Supervised, Supervised', Grows, JobCalls
  PROVE  Aimed' /\ Viewed'
<1>0. Shape /\ "job" \in Threads /\ vm \in ViewModel
  BY DEF VpnInv, Threads, Viewed
<1>1. todo["job"] # <<>>
  BY DEF JobCalls, JobConnect, JobRequest, JobBind, JobStart, JobAwait, JobFallback, JobAwaitVpn, At
<1>2. Shown \in ViewModel /\ [vm EXCEPT !.requested = TRUE] \in ViewModel
  BY <1>0 DEF Shown, ViewModel, States
<1>3. ASSUME NEW v \in ViewModel, NEW final \in {"error", "unavailable"}, JobFails(v, final)
      PROVE  Aimed' /\ Viewed'
  <2>1. final \in Ends
    BY DEF Ends, States
  <2>2. QED  BY <1>0, <1>3, <2>1, TeardownScript DEF JobFails
<1>4. CASE JobGone
  BY <1>0, <1>4, ReadyEmpty, AimedWith DEF JobGone, EndOf, Viewed
<1>5. ASSUME NEW v \in ViewModel, NEW s, Ready(s), JobGoesOn(v, s)
      PROVE  Aimed' /\ Viewed'
  BY <1>0, <1>1, <1>5, AimedOn DEF JobGoesOn, Viewed
<1>6. \A x : /\ Ready(<< <<"native">> >>) /\ Ready(<< <<"fallback">> >>) /\ Ready(<< <<"bind">> >>)
             /\ Ready(<< <<"request">> >>)
             /\ Ready(<< <<"await", x>> >>) /\ Sane(<<"tun">>) /\ Sane(<<"awaitVpn">>)
  BY ReadyPlain DEF Plain, HelperOps, EndOps, Sane
<1>7. Ready(<< <<"tun">>, <<"awaitVpn">> >>) /\ Ready(stopClients \o << <<"fallback">> >>)
  BY <1>6, ReadyPair, ReadyScripts, ReadyJoin
<1>8. \A b, c \in Backends : \A x : Ready(StopOf(b) \o StartOf(c) \o << <<"await", x>> >>)
  <2>1. \A b, c \in Backends : Ready(StopOf(b) \o StartOf(c))
    BY ReadyScripts, ReadyJoin
  <2>2. QED  BY <1>6, <2>1, ReadyJoin
<1>9. CASE JobConnect
  <2>1. \/ JobGone \/ JobGoesOn(vm, <<>>) \/ JobGoesOn(Shown, << <<"request">> >>)
        \/ JobFails(vm, "error")
    BY <1>9 DEF JobConnect
  <2>2. QED  BY <1>0, <1>2, <1>3, <1>4, <1>5, <1>6, <2>1, ReadyEmpty
<1>10. CASE JobRequest
  BY <1>2, <1>5, <1>6, <1>10 DEF JobRequest
<1>11. CASE JobBind
  <2>1. JobGone \/ JobFails(vm, "error") \/ JobGoesOn(Shown, << <<"native">> >>)
    BY <1>11 DEF JobBind
  <2>2. QED  BY <1>0, <1>2, <1>3, <1>4, <1>5, <1>6, <2>1
<1>12. CASE JobStart \/ JobFallback
  <2>1. \/ JobFails(vm, "error")
        \/ \E b, c \in Backends : \E x : JobGoesOn(vm, StopOf(b) \o StartOf(c) \o << <<"await", x>> >>)
    BY <1>12 DEF JobStart, JobFallback, Other, Backends
  <2>2. QED  BY <1>0, <1>3, <1>5, <1>8, <2>1
<1>13. CASE JobAwait
  <2>1. \/ JobGone \/ JobFails(vm, "error") \/ JobFails(Shown, "unavailable")
        \/ JobGoesOn(Shown, << <<"tun">>, <<"awaitVpn">> >>)
        \/ JobGoesOn(Shown, stopClients \o << <<"fallback">> >>)
    BY <1>13 DEF JobAwait
  <2>2. QED  BY <1>0, <1>2, <1>3, <1>4, <1>5, <1>7, <2>1
<1>14. CASE JobAwaitVpn
  <2>1. JobGone \/ JobFails(vm, "error") \/ JobGoesOn(Shown, <<>>)
    BY <1>14 DEF JobAwaitVpn
  <2>2. QED  BY <1>0, <1>2, <1>3, <1>4, <1>5, <2>1, ReadyEmpty
<1>15. QED
  BY <1>9, <1>10, <1>11, <1>12, <1>13, <1>14 DEF JobCalls

(* The user, and the events that the view model collects.                  *)
LEMMA EventScripts ==
  ASSUME VpnInv, Viewed, Aimed, Supervised, Supervised', Grows,
         SeeUnavailable \/ SeeExited \/ SeeRevoked \/ UserStops \/ StartAgain
  PROVE  Aimed' /\ Viewed'
<1>0. Shape /\ Fields /\ "job" \in Threads /\ vm \in ViewModel
  BY DEF VpnInv, Threads, Viewed
<1>1. {"idle", "error"} \subseteq Ends
  BY DEF Ends, States
<1>2. CASE UserStops
  BY <1>0, <1>1, <1>2, TeardownScript DEF UserStops
<1>3. CASE SeeExited
  <2>1. Teardown(todo, vm, "error") \/ UNCHANGED <<vm, todo>>
    BY <1>3 DEF SeeExited
  <2>2. CASE Teardown(todo, vm, "error")
    BY <1>0, <1>1, <2>2, TeardownScript
  <2>3. CASE UNCHANGED <<vm, todo>>
    BY <2>3, AimedKept DEF Viewed
  <2>4. QED  BY <2>1, <2>2, <2>3
<1>4. CASE SeeUnavailable
  <2>1. vm' = vm \/ vm' = [vm EXCEPT !.state = "unavailable"]
    BY <1>4 DEF SeeUnavailable
  <2>2. vm' \in ViewModel
    BY <1>0, <2>1 DEF ViewModel, States
  <2>3. UNCHANGED todo
    BY <1>4 DEF SeeUnavailable
  <2>4. QED  BY <2>2, <2>3, AimedKept DEF Viewed
<1>5. CASE SeeRevoked
  <2>1. svc.started \in BOOLEAN
    BY <1>0 DEF Fields, Service
  <2>2. \/ vm' = vm
        \/ vm' = [vm EXCEPT !.state = "idle", !.requested = FALSE, !.service = FALSE,
                            !.overtaken = svc.started]
    BY <1>5 DEF SeeRevoked
  <2>3. vm' \in ViewModel
    BY <1>0, <2>1, <2>2 DEF ViewModel, States
  <2>4. UNCHANGED todo
    BY <1>5 DEF SeeRevoked
  <2>5. QED  BY <2>3, <2>4, AimedKept DEF Viewed
<1>6. CASE StartAgain
  <2>1. svc.reconnecting \in BOOLEAN
    BY <1>0 DEF Fields, Service
  <2>2. PICK n : n = vm.sessions + 1
    OBVIOUS
  <2>3. n \in 1..MaxSessions
    <3>1. vm.sessions \in 1..MaxSessions /\ MaxSessions \in Nat
      BY <1>0, BoundsAssumption DEF ViewModel
    <3>2. vm.sessions < MaxSessions
      BY <1>6 DEF StartAgain
    <3>3. QED  BY <2>2, <3>1, <3>2
  <2>4. vm' = [vm EXCEPT !.state = "active", !.sessions = n, !.inherited = svc.reconnecting,
                      !.overtaken = FALSE]
    BY <1>0, <1>6, <2>2 DEF StartAgain, ViewModel
  <2>5. vm' \in ViewModel
    BY <1>0, <2>1, <2>3, <2>4 DEF ViewModel, States
  <2>6. Ready(<< <<"connect">> >>)
    BY ReadyPlain DEF Plain, HelperOps, EndOps
  <2>7. todo' = [todo EXCEPT !["job"] = << <<"connect">> >>]
    BY <1>6 DEF StartAgain
  <2>8. Aimed'
    BY <1>0, <2>6, <2>7, AimedWith
  <2>9. QED  BY <2>5, <2>8 DEF Viewed
<1>7. QED  BY <1>2, <1>3, <1>4, <1>5, <1>6

LEMMA AimedNext ==
  ASSUME VpnInv, Supervised, Aimed, Viewed, [Next]_vars
  PROVE  Aimed' /\ Viewed'
<1>1. Supervised' /\ Grows
  BY SupervisedKept
<1>2. ASSUME NEW t \in Threads, Step(t)
      PROVE  Aimed' /\ Viewed'
  <2>1. Aimed'
    BY <1>1, <1>2, SupervisorScripts, LockScripts, RecoveryScripts, MonitoredScripts DEF Step
  <2>2. UNCHANGED vm
    BY <1>2 DEF Step, Start, Spawn, Stop, Destroy, Halt, Halted, TunBegin, TunUp, TunFails, Dispatch,
                Enter, Claim, Attempt, Restart, Wait, TunRestored, Settle, Finally
  <2>3. QED  BY <2>1, <2>2 DEF Viewed
<1>3. CASE UNCHANGED <<todo, vm>>
  BY <1>1, <1>3, AimedKept DEF Viewed
<1>4. Revoked \/ HelperDies \/ UNCHANGED vars => UNCHANGED <<todo, vm>>
  BY DEF Revoked, HelperDies, vars
<1>5. \A p \in watching : Connected(p) \/ TimedOut(p) \/ Exited(p) => UNCHANGED <<todo, vm>>
  BY DEF Connected, TimedOut, Exited
<1>6. CASE MainCalls \/ Monitor \/ OnAvailable \/ NetworkJob
  <2>1. Aimed'
    BY <1>1, <1>6, ServiceScripts
  <2>2. vm' = vm \/ vm' = [vm EXCEPT !.service = TRUE]
    BY <1>6 DEF MainCalls, OnStartCommand, Configure, OnServiceConnected, OnUnexpectedExit,
                OnRevokeOrDestroy, Monitor, OnAvailable, NetworkJob
  <2>3. vm' \in ViewModel
    BY <2>2 DEF Viewed, ViewModel
  <2>4. QED  BY <2>1, <2>3 DEF Viewed
<1>7. CASE JobCalls
  BY <1>1, <1>7, JobScripts
<1>8. CASE ViewCalls
  BY <1>1, <1>8, TearingScripts, EventScripts DEF ViewCalls
<1>9. QED
  BY <1>2, <1>3, <1>4, <1>5, <1>6, <1>7, <1>8, NextKinds

(* What may break, and which coroutines can be cancelled.                  *)
Bounded == cancelled \subseteq {"job", "health", "net"} /\ faults \in 0..MaxFaults

LEMMA BoundedNext ==
  ASSUME Bounded, [Next]_vars
  PROVE  Bounded'
<1> DEFINE Kept == /\ cancelled' \subseteq cancelled \cup {"job", "health", "net"}
                   /\ faults' = faults \/ (faults > 0 /\ faults' = faults - 1)
<1>1. ASSUME NEW t \in Threads, Step(t)
      PROVE  Kept
  BY <1>1 DEF Step, Start, Spawn, Stop, Destroy, Halt, Halted, TunBegin, TunUp, TunFails, Dispatch,
              Enter, Claim, Attempt, Restart, Wait, TunRestored, Settle, Finally
<1>2. MainCalls => Kept
  BY DEF MainCalls, OnStartCommand, Configure, OnServiceConnected, OnUnexpectedExit, OnRevokeOrDestroy
<1>3. JobCalls => Kept
  BY DEF JobCalls, JobConnect, JobRequest, JobBind, JobStart, JobAwait, JobFallback, JobAwaitVpn,
         JobGone, JobGoesOn, JobFails, Teardown
<1>4. ViewCalls => Kept
  BY DEF ViewCalls, TearBegin, Unbind, Clear, SeeUnavailable, SeeExited, SeeRevoked, UserStops,
         StartAgain, Teardown
<1>5. Monitor \/ NetworkJob \/ OnAvailable \/ Revoked \/ HelperDies \/ UNCHANGED vars => Kept
  BY DEF Monitor, NetworkJob, OnAvailable, Revoked, HelperDies, vars
<1>6. \A p \in watching : Connected(p) \/ TimedOut(p) \/ Exited(p) => Kept
  BY DEF Connected, TimedOut, Exited
<1> HIDE DEF Kept
<1>7. Kept
  BY <1>1, <1>2, <1>3, <1>4, <1>5, <1>6, NextKinds
<1>8. QED  BY <1>7, BoundsAssumption DEF Kept, Bounded

(* The types of the service, its supervisors and the view model; helpers   *)
(* are numbered by the starts of their backend, and the steps that stop    *)
(* one name it.                                                            *)
THEOREM VpnTypes == Spec => []TypeOK
<1>1. Init => Supervised /\ Aimed /\ Bounded /\ Viewed
  <2>1. SUFFICES ASSUME Init PROVE Supervised /\ Aimed /\ Bounded /\ Viewed
    OBVIOUS
  <2>2. Supervised
    BY <2>1 DEF Init, Supervised, Supervisor
  <2>3. Bounded
    BY <2>1, BoundsAssumption DEF Init, Bounded
  <2>4. \A t \in Threads : todo[t] \in {<<>>, << <<"connect">> >>}
    BY <2>1 DEF Init, Threads
  <2>5. Ready(<< <<"connect">> >>)
    BY ReadyPlain DEF Plain, HelperOps, EndOps
  <2>6. Aimed
    BY <2>4, <2>5, ReadyEmpty DEF Aimed, Ready
  <2>7. Viewed
    BY <2>1, BoundsAssumption DEF Init, Viewed, ViewModel, States
  <2>8. QED  BY <2>2, <2>3, <2>6, <2>7
<1>2. VpnInv /\ (Supervised /\ Aimed /\ Bounded /\ Viewed) /\ [Next]_vars
      => (Supervised /\ Aimed /\ Bounded /\ Viewed)'
  BY SupervisedKept, AimedNext, BoundedNext
<1>3. VpnInv /\ Supervised /\ Bounded /\ Viewed => TypeOK
  <2>1. SUFFICES ASSUME VpnInv, Supervised, Bounded, Viewed PROVE TypeOK
    OBVIOUS
  <2>2. lock \in Threads \cup {NoOne}
    BY <2>1 DEF VpnInv, Locking
  <2>3. DOMAIN todo = Threads
    BY <2>1 DEF VpnInv, Shape
  <2>4. svc \in Service /\ tun \in BOOLEAN /\ raced \in BOOLEAN
    BY <2>1 DEF VpnInv, Fields
  <2>5. QED
    BY <2>1, <2>2, <2>3, <2>4
       DEF TypeOK, Supervised, Supervisor, Bounded, Service, Viewed, ViewModel
<1>4. QED  BY <1>1, <1>2, <1>3, VpnInduction, PTL DEF Spec
=============================================================================
