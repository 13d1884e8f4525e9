------------------------------ MODULE MacRoutes ------------------------------
(***************************************************************************)
(* The TUN client on macOS (main.go runClientTUN, tun_darwin.go and        *)
(* tun_watch.go).  It saves the default route, brings a utun interface up, *)
(* gives every remote host of its own sockets a bypass route, and, once    *)
(* the set of these hosts has been stable for 3 seconds, takes the default *)
(* route with two overrides, 0.0.0.0/1 and 128.0.0.0/1.  On SIGINT or      *)
(* SIGTERM it removes the overrides and puts the default route back.       *)
(*                                                                         *)
(* Every change of the routing table is a command that is run, so the      *)
(* process may be killed between any two of them; the next run starts with *)
(* the table it left.  Commands that add a route may fail; a command that  *)
(* deletes one is assumed to work, since the code ignores its result.      *)
(*                                                                         *)
(* Two goroutines: main and the SocketWatcher.  Time is counted in the     *)
(* watcher's ticks of 2 seconds.                                           *)
(***************************************************************************)
EXTENDS Integers, FiniteSets

CONSTANTS
    Hosts,     \* remote hosts the transport may talk to
    MaxRuns    \* bound: runs of the client

\* A bypass route is the route of a host, an override that of half of all hosts.
ASSUME RoutesAssumption ==
    MaxRuns \in Nat /\ Hosts \cap {"0.0.0.0/1", "128.0.0.0/1"} = {}

Overrides == {"0.0.0.0/1", "128.0.0.0/1"}
Low == "0.0.0.0/1"
High == "128.0.0.0/1"

VARIABLES
    routes,       \* kernel: overrides and bypass routes
    default,      \* kernel: whether there is a default route
    sockets,      \* remote hosts of the process's sockets, as lsof lists them
    main,         \* where runClientTUN is
    runs,         \* runs started so far
    routesAdded,  \* TUNClient.routesAdded
    defaultSet,   \* TUNClient.defaultSet
    saved,        \* TUNClient.savedIface is not empty
    forwarding,   \* TUNClient.Start was called
    watcher,      \* where the watcher's goroutine is
    known,        \* SocketWatcher.known
    lastSet,      \* SocketWatcher.lastSet
    stable,       \* 0: stableAt is zero; n: it was set n - 1 ticks ago
    fired         \* SocketWatcher.fired

kernel == <<routes, default>>
client == <<routesAdded, defaultSet, saved, forwarding>>
watch == <<known, lastSet, stable, fired>>
routeVars == <<kernel, sockets, main, runs, client, watcher, watch>>

\* Nothing runs, and no earlier run has left anything behind.
RoutesInit ==
    /\ routes = {} /\ default = TRUE /\ sockets = {}
    /\ main = "off" /\ runs = 0
    /\ routesAdded = FALSE /\ defaultSet = FALSE /\ saved = FALSE /\ forwarding = FALSE
    /\ watcher = "off" /\ known = {} /\ lastSet = {} /\ stable = 0 /\ fired = FALSE

-----------------------------------------------------------------------------
(* The world.                                                              *)

\* The transport opens and closes connections as it runs.
SocketsChange ==
    /\ main \in {"run", "stop"}
    /\ sockets' \in SUBSET Hosts
    /\ UNCHANGED <<kernel, main, runs, client, watcher, watch>>

\* The network takes the default route away, or brings one.
DefaultChanges ==
    /\ main \notin {"off", "done"}
    /\ default' = ~default
    /\ UNCHANGED <<routes, sockets, main, runs, client, watcher, watch>>

\* The process dies: its memory is gone, its utun goes and may take the
\* overrides with it, and the bypass routes stay.
Dies(left) ==
    /\ main' = "off"
    /\ watcher' = "off" /\ sockets' = {} /\ forwarding' = FALSE
    /\ routes' = routes \ (Overrides \ left)
    /\ UNCHANGED <<default, runs, routesAdded, defaultSet, saved, watch>>

Kill ==
    /\ main \notin {"off", "done"}
    /\ \E left \in SUBSET Overrides : Dies(left)

-----------------------------------------------------------------------------
(* main                                                                    *)

\* NewTUNClient: a new process, with nothing in memory.
Launch ==
    /\ main \in {"off", "done"} /\ runs < MaxRuns
    /\ runs' = runs + 1
    /\ main' = "save"
    /\ routesAdded' = FALSE /\ defaultSet' = FALSE /\ saved' = FALSE /\ forwarding' = FALSE
    /\ known' = {} /\ lastSet' = {} /\ stable' = 0 /\ fired' = FALSE
    /\ UNCHANGED <<kernel, sockets, watcher>>

\* Without a default route there is nothing to save: log.Fatalf.
SaveDefault ==
    /\ main = "save"
    /\ \/ default /\ saved' = TRUE /\ main' = "purge low"
          /\ UNCHANGED <<kernel, sockets, routesAdded, defaultSet, forwarding, watcher>>
       \/ ~default /\ Dies(Overrides)
    /\ UNCHANGED <<runs, watch>>

\* One "route delete" of a list of commands.
Deletes(at, route, next) ==
    /\ main = at
    /\ routes' = routes \ {route}
    /\ main' = next
    /\ UNCHANGED <<default, sockets, runs, client, watcher, watch>>

\* (mutant) The routes of an earlier run are not purged.
PurgeLow_Skips ==
    /\ main = "purge low"
    /\ main' = "setup"
    /\ UNCHANGED <<kernel, sockets, runs, client, watcher, watch>>

PurgeLow == Deletes("purge low", Low, "purge high")
PurgeHigh == Deletes("purge high", High, "setup")

\* The interface comes up, the bypass gateway is found and the watcher
\* starts; or one of these fails and log.Fatalf ends the process.
SetupInterface ==
    /\ main = "setup"
    /\ \/ main' = "run" /\ watcher' = "wait"
          /\ UNCHANGED <<kernel, sockets, client>>
       \/ Dies(Overrides)
    /\ UNCHANGED <<runs, watch>>

\* SIGINT or SIGTERM: watcher.Stop closes its channel and waits.
Signal ==
    /\ main = "run"
    /\ main' = "stop"
    /\ UNCHANGED <<kernel, sockets, runs, client, watcher, watch>>

\* (mutant) Stop closes the channel and does not wait.
WatcherGone_NoWait == main = "stop"

WatcherGone == main = "stop" /\ watcher = "off"

\* removeRoutes, called by Close, has something to do only after a complete
\* ConfigureDefault: nothing fills bypassIPs.
Close ==
    /\ WatcherGone
    /\ main' = IF routesAdded THEN "close low" ELSE "down"
    /\ UNCHANGED <<kernel, sockets, runs, client, watcher, watch>>

CloseLow == Deletes("close low", Low, "close high")
CloseHigh == Deletes("close high", High, "down")

\* Close ends: the interface is taken down and its descriptor is closed.
Down ==
    /\ main = "down"
    /\ main' = "restore low"
    /\ routesAdded' = FALSE /\ forwarding' = FALSE
    /\ UNCHANGED <<kernel, sockets, runs, defaultSet, saved, watcher, watch>>

\* (mutant) Only what ConfigureDefault completed is restored.
NeedsRestore_WhenSet == defaultSet

NeedsRestore == defaultSet \/ saved

\* RestoreDefault removes the overrides, also when routesAdded is false.
RestoreLow == NeedsRestore /\ Deletes("restore low", Low, "restore high")
RestoreHigh == Deletes("restore high", High, "restore")

\* Adding the saved default route fails if there is one.
Restore ==
    /\ \/ main = "restore" /\ default' = TRUE /\ defaultSet' = FALSE
       \/ main = "restore low" /\ ~NeedsRestore /\ UNCHANGED <<default, defaultSet>>
    /\ main' = "done"
    /\ sockets' = {}
    /\ UNCHANGED <<routes, runs, routesAdded, saved, forwarding, watcher, watch>>

-----------------------------------------------------------------------------
(* SocketWatcher                                                           *)

Aged(s) == IF s = 0 THEN 0 ELSE IF s < 3 THEN s + 1 ELSE 3

\* snapshot, with lsof working: bypass routes for the new hosts, of which some
\* may fail, and the judgement whether the set is stable.
Snapshot ==
    /\ watcher = "wait" /\ main \in {"run", "stop"}
    /\ \E ok \in SUBSET (sockets \ known) :
          known' = known \cup ok /\ routes' = routes \cup ok
    /\ lastSet' = sockets
    /\ LET same == sockets = lastSet
           fires == same /\ Aged(stable) = 3 /\ ~fired
       IN  /\ stable' = IF ~same THEN 0 ELSE IF stable = 0 THEN 1 ELSE Aged(stable)
           /\ fired' = (fired \/ fires)
           /\ watcher' = IF fires THEN "take low" ELSE "wait"
    /\ UNCHANGED <<default, sockets, main, runs, client>>

\* snapshot, with lsof failing: time passes and nothing else.
SnapshotFails ==
    /\ watcher = "wait" /\ main \in {"run", "stop"}
    /\ stable' = Aged(stable)
    /\ UNCHANGED <<kernel, sockets, main, runs, client, watcher, known, lastSet, fired>>

\* ConfigureDefault, first override: if it fails nothing was installed.
TakeLow ==
    /\ watcher = "take low"
    /\ \/ routes' = routes \cup {Low} /\ watcher' = "take high"
       \/ routes' = routes /\ watcher' = "wait"
    /\ UNCHANGED <<default, sockets, main, runs, client, watch>>

\* Second override.  If it fails removeRoutes returns at once, because
\* routesAdded is still false: the first override stays.
TakeHigh ==
    /\ watcher = "take high"
    /\ \/ /\ routes' = routes \cup {High}
          /\ routesAdded' = TRUE /\ defaultSet' = TRUE
          /\ watcher' = "start"
       \/ /\ watcher' = "wait"
          /\ UNCHANGED <<routes, routesAdded, defaultSet>>
    /\ UNCHANGED <<default, sockets, main, runs, saved, forwarding, watch>>

\* (mutant) onStable is called with the lock held: the next snapshot blocks.
StartForwarding_Locked ==
    /\ watcher = "start"
    /\ forwarding' = TRUE
    /\ watcher' = "locked"
    /\ UNCHANGED <<kernel, sockets, main, runs, routesAdded, defaultSet, saved, watch>>

\* tc.Start
StartForwarding ==
    /\ watcher = "start"
    /\ forwarding' = TRUE
    /\ watcher' = "wait"
    /\ UNCHANGED <<kernel, sockets, main, runs, routesAdded, defaultSet, saved, watch>>

\* The loop sees the closed channel between two snapshots.
WatcherExits ==
    /\ watcher = "wait" /\ main = "stop"
    /\ watcher' = "off"
    /\ UNCHANGED <<kernel, sockets, main, runs, client, watch>>

-----------------------------------------------------------------------------

Shutdown == Close \/ CloseLow \/ CloseHigh \/ Down \/ RestoreLow \/ RestoreHigh \/ Restore

Main == Launch \/ SaveDefault \/ PurgeLow \/ PurgeHigh \/ SetupInterface \/ Signal \/ Shutdown

Watcher ==
    \/ Snapshot \/ SnapshotFails \/ TakeLow \/ TakeHigh \/ StartForwarding
    \/ WatcherExits

RoutesNext == Main \/ Watcher \/ SocketsChange \/ DefaultChanges \/ Kill

RoutesSpec == RoutesInit /\ [][RoutesNext]_routeVars

\* The goroutines are scheduled.  The select of the watcher picks the closed
\* channel sooner or later, though its ticker may be ready as often.
FairRoutesSpec ==
    /\ RoutesSpec
    /\ WF_routeVars(Shutdown)
    /\ WF_routeVars(TakeLow \/ TakeHigh \/ StartForwarding)
    /\ SF_routeVars(WatcherExits)

-----------------------------------------------------------------------------
(* Properties                                                              *)

\* Types; the two flags that guard the clean-up are set together.
RoutesTypeOK ==
    /\ routes \subseteq Overrides \cup Hosts /\ default \in BOOLEAN /\ sockets \subseteq Hosts
    /\ main \in {"off", "save", "purge low", "purge high", "setup", "run", "stop",
                 "close low", "close high", "down", "restore low", "restore high",
                 "restore", "done"}
    /\ runs \in 0 .. MaxRuns
    /\ routesAdded \in BOOLEAN /\ defaultSet \in BOOLEAN /\ saved \in BOOLEAN
    /\ forwarding \in BOOLEAN
    /\ watcher \in {"off", "wait", "take low", "take high", "start"}
    /\ known \subseteq Hosts /\ lastSet \subseteq Hosts /\ stable \in 0 .. 3
    /\ fired \in BOOLEAN

\* A client that is told to stop leaves no override behind, whatever failed
\* before, whatever the watcher was doing and whatever an earlier run that
\* was killed had left; and there is a default route again (RestoreDefault).
Restored ==
    [][main' = "done" /\ main # "done" => routes' \cap Overrides = {} /\ default']_routeVars

\* Both overrides send all traffic into the interface; outside the commands
\* that install them, that is so only while packets are forwarded, and never
\* before the sockets were seen to be stable.
TakenIsServed ==
    main \in {"run", "stop"} /\ watcher \in {"off", "wait"} /\ Overrides \subseteq routes
       => forwarding /\ fired

\* A client that is told to stop comes to its end, unless it is killed.
Stops == main = "stop" ~> main \in {"off", "done"}

\* The comment on SocketWatcher: it installs a bypass route for every remote
\* host it sees, which keeps the transport's sockets off the tunnel while
\* everything else goes through utun.  Here: when the default route has been
\* taken, every host of the last snapshot has its bypass route.
OffTheTunnel == watcher = "start" => lastSet \subseteq routes
=============================================================================
