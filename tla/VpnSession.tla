----------------------------- MODULE VpnSession -----------------------------
(***************************************************************************)
(* One instance of the Android VPN service (SocksVpnService), from the     *)
(* start that creates it to its destruction and whatever still runs then,  *)
(* with the two supervisors of the native helpers and the view model that  *)
(* drives them.  It may serve several sessions.                            *)
(*                                                                         *)
(* Five threads work on the service without a common lock: the view        *)
(* model's start job and its teardown, the main thread (callbacks of the   *)
(* supervisors and of the system, the view model's events, the user), the  *)
(* health monitor and the job that answers a change of network.  A thread  *)
(* is the sequence of steps it has still to take (todo); a call puts the   *)
(* steps of what it calls in front.  Coroutines notice that they were      *)
(* cancelled at their delays only, so a cancelled one goes on up to its    *)
(* next delay.                                                             *)
(*                                                                         *)
(* The system destroys the instance when it is neither started nor bound.  *)
(* A start after that creates another instance, which is another behaviour *)
(* of this module; a start job that is still on its way there is not       *)
(* followed.  Left out as well: the four events that only move the view    *)
(* model between its active states, reconcileSystemState, and two calls of *)
(* teardown at the same instant.                                           *)
(***************************************************************************)
EXTENDS Integers, Sequences, FiniteSets

CONSTANTS Modes,         \* the connection modes that the user may have chosen
          MaxAttempts,   \* how often recoverTransport tries (three in the code)
          MaxFaults,     \* bound on what the environment breaks
          MaxSessions    \* bound on the sessions that one instance serves

ASSUME BoundsAssumption ==
  /\ Modes \subseteq {"yandex", "hysteria", "auto"}
  /\ MaxAttempts \in Nat \ {0} /\ MaxFaults \in Nat /\ MaxSessions \in Nat \ {0}

Backends == {"YANDEX", "HYSTERIA"}
States == {"active", "stopping", "unavailable", "idle", "error"}
Threads == {"job", "tear", "main", "health", "net"}
NoOne == "none"

VARIABLES
  svc,         \* the fields of SocksVpnService and its VpnServiceController, and
               \* what the system knows: started, bound, doomed (onDestroy will
               \* follow) and destroyed (onDestroy is over)
  sup,         \* both supervisors: running, shuttingDown, ready, error, the
               \* number of the last start (its port, its generation) and process
  live,        \* the helpers that run, as <<backend, number of its start>>
  watching,    \* the helpers whose watch thread has not ended
  tun,         \* does tun2socks run?
  todo,        \* the steps each thread has still to take
  cancelled,   \* the coroutines that were cancelled
  lock,        \* who is inside synchronized(this)
  posted,      \* what waits for the main thread
  vm,          \* the view model: its connection mode, _active, bindRequested, its
               \* binder, the number of sessions, and (history) whether the last one
               \* found reconnecting set, or was overtaken by a revocation
  faults,      \* what the environment may still break
  raced        \* was a start under way when stopEverything last began?

vars == <<svc, sup, live, watching, tun, todo, cancelled, lock, posted, vm,
          faults, raced>>

TypeOK ==
  /\ svc \in [stopping: BOOLEAN, reconnecting: BOOLEAN, shutdownComplete: BOOLEAN,
              generation: Nat, activeBackend: Backends, allowFallback: BOOLEAN,
              lastIntent: BOOLEAN, configured: BOOLEAN, isRunning: BOOLEAN,
              started: BOOLEAN, bound: BOOLEAN, doomed: BOOLEAN, destroyed: BOOLEAN]
  /\ sup \in [Backends -> [running: BOOLEAN, shuttingDown: BOOLEAN, ready: BOOLEAN,
                           error: BOOLEAN, starts: Nat, process: Nat]]
  /\ live \subseteq Backends \X Nat /\ watching \subseteq Backends \X Nat
  /\ \A b \in Backends : sup[b].process <= sup[b].starts
  /\ \A p \in live \cup watching : p[2] \in 1..sup[p[1]].starts
  /\ tun \in BOOLEAN
  /\ DOMAIN todo = Threads /\ cancelled \subseteq {"job", "health", "net"}
  /\ lock \in Threads \cup {NoOne}
  /\ faults \in 0..MaxFaults /\ raced \in BOOLEAN
  /\ vm \in [mode: Modes, state: States, requested: BOOLEAN, service: BOOLEAN,
             sessions: 1..MaxSessions, inherited: BOOLEAN, overtaken: BOOLEAN]

-----------------------------------------------------------------------------
(* What a thread does next.                                                *)

At(t, op) == todo[t] # <<>> /\ Head(todo[t])[1] = op
Arg(t) == Head(todo[t])[2]
Instead(t, steps) == [todo EXCEPT ![t] = steps \o Tail(@)]
Then(t, steps) == todo' = Instead(t, steps)
EndOf(t) == todo' = [todo EXCEPT ![t] = <<>>]

StopOf(b) == << <<"stop", b>>, <<"destroy", b>> >>
StartOf(b) == << <<"start", b>> >>
stopClients == StopOf("YANDEX") \o StopOf("HYSTERIA")
stopEverything == << <<"halt">> >>

ActiveReady == sup[svc.activeBackend].ready
ActiveError == sup[svc.activeBackend].error

Running(t) == t \notin cancelled
Starting(t) == \E i \in 1..Len(todo[t]) : todo[t][i][1] \in {"start", "spawn"}

(***************************************************************************)
(* startHealthMonitor: the old monitor is cancelled and a new one is       *)
(* launched for the present generation.                                    *)
(***************************************************************************)
Monitored(td) ==
  IF td["health"] = <<>> \/ Head(td["health"])[1] = "monitor"
  THEN [td EXCEPT !["health"] = << <<"monitor", svc.generation>> >>]
  ELSE td

(* A monitor that is cancelled in its delay is no more. *)
Unmonitored(td) ==
  IF td["health"] # <<>> /\ Head(td["health"])[1] = "monitor"
  THEN [td EXCEPT !["health"] = <<>>]
  ELSE td

-----------------------------------------------------------------------------
(* The supervisors.                                                        *)

(* fail: what a start or a watch thread does when its helper is lost. *)
Failed(b) == [sup EXCEPT ![b].error = TRUE, ![b].ready = FALSE, ![b].running = FALSE]
PostExit(b) ==
  posted' = IF sup[b].shuttingDown THEN posted ELSE Append(posted, <<"exit", b>>)

(* start: refused while running; clears the flags, kills leftover helpers *)
Start(t) ==
  /\ At(t, "start")
  /\ LET b == Arg(t) IN
       IF sup[b].running
       THEN Then(t, <<>>) /\ UNCHANGED <<sup, live, tun>>
       ELSE /\ sup' = [sup EXCEPT ![b] =
                 [running |-> TRUE, shuttingDown |-> FALSE, ready |-> FALSE,
                  error |-> FALSE, starts |-> @.starts + 1, process |-> @.process]]
            /\ live' = {} /\ tun' = FALSE
            /\ Then(t, << <<"spawn", b, sup[b].starts + 1>> >>)
  /\ UNCHANGED <<svc, watching, cancelled, lock, posted, vm, faults, raced>>

(* ... and runs the binary, with a thread that watches it. *)
Spawn(t) ==
  /\ At(t, "spawn")
  /\ LET b == Arg(t)
         n == Head(todo[t])[3]
     IN \/ /\ live' = live \cup {<<b, n>>}
           /\ watching' = {p \in watching : p[1] = b => p \in live} \cup {<<b, n>>}
           /\ sup' = [sup EXCEPT ![b].process = n]
           /\ UNCHANGED <<posted, faults>>
        \/ /\ faults > 0 /\ faults' = faults - 1
           /\ sup' = Failed(b) /\ PostExit(b)
           /\ UNCHANGED <<live, watching>>
  /\ Then(t, <<>>)
  /\ UNCHANGED <<svc, tun, cancelled, lock, vm, raced>>

(* stop: first the flags, then the process it finds.  The watch thread of  *)
(* a helper that is dead and no longer the supervisor's process is left    *)
(* out from there on: it can only end silently.                            *)
Stop(t) ==
  /\ At(t, "stop")
  /\ sup' = [sup EXCEPT ![Arg(t)].shuttingDown = TRUE, ![Arg(t)].ready = FALSE,
                        ![Arg(t)].running = FALSE]
  /\ Then(t, <<>>)
  /\ UNCHANGED <<svc, live, watching, tun, cancelled, lock, posted, vm, faults, raced>>

Destroy(t) ==
  /\ At(t, "destroy")
  /\ live' = live \ {<<Arg(t), sup[Arg(t)].process>>}
  /\ watching' = watching \ {<<Arg(t), sup[Arg(t)].process>>}
  /\ sup' = [sup EXCEPT ![Arg(t)].process = 0]
  /\ Then(t, <<>>)
  /\ UNCHANGED <<svc, tun, cancelled, lock, posted, vm, faults, raced>>

(* May the watch thread of helper p still poll its port? *)
Polling(p) ==
  /\ p \in watching /\ p \in live /\ ~sup[p[1]].shuttingDown
  /\ p[1] = "HYSTERIA" => p[2] = sup[p[1]].starts

(* watch: the port of the last start answers. *)
Connected(p) ==
  /\ Polling(p) /\ ~sup[p[1]].ready /\ <<p[1], sup[p[1]].starts>> \in live
  /\ sup' = [sup EXCEPT ![p[1]].ready = TRUE]
  /\ UNCHANGED <<svc, live, watching, tun, todo, cancelled, lock, posted, vm, faults, raced>>

(* watch: the deadline passes (or the UDP relay does not start). *)
TimedOut(p) ==
  /\ Polling(p) /\ ~sup[p[1]].ready
  /\ faults > 0 /\ faults' = faults - 1
  /\ sup' = Failed(p[1]) /\ PostExit(p[1])
  /\ live' = live \ {p} /\ watching' = watching \ {p}
  /\ UNCHANGED <<svc, tun, todo, cancelled, lock, vm, raced>>

(* watch: the helper has ended, on its own unless a stop is seen. *)
Exited(p) ==
  /\ p \in watching /\ p \notin live
  /\ watching' = watching \ {p}
  /\ IF sup[p[1]].shuttingDown \/ sup[p[1]].process # p[2]
        \/ (p[1] = "HYSTERIA" /\ p[2] # sup[p[1]].starts)
     THEN UNCHANGED <<sup, posted>>
     ELSE sup' = Failed(p[1]) /\ PostExit(p[1])
  /\ UNCHANGED <<svc, live, tun, todo, cancelled, lock, vm, faults, raced>>

-----------------------------------------------------------------------------
(* Stopping the service.                                                   *)

(* stopEverything, for the caller that finds stopping false: it holds the  *)
(* lock until the end, cancels the jobs and ends the generation ...        *)
Halt(t) ==
  /\ At(t, "halt") /\ lock \in {NoOne, t}
  /\ IF svc.stopping
     THEN /\ lock' = NoOne /\ Then(t, <<>>)
          /\ UNCHANGED <<svc, tun, cancelled, raced>>
     ELSE /\ lock' = t
          /\ svc' = [svc EXCEPT !.stopping = TRUE, !.reconnecting = FALSE,
                                !.generation = @ + 1]
          /\ cancelled' = cancelled \cup {"health", "net"}
          /\ tun' = FALSE
          /\ raced' = \E u \in Threads \ {t} : Starting(u)
          /\ todo' = Unmonitored(Instead(t, stopClients \o << <<"halted">> >>))
  /\ UNCHANGED <<sup, live, watching, posted, vm, faults>>

(* The service in state s, with messages q for the main thread: when it is *)
(* held by nobody any more, the system posts its end as well.              *)
LetGo(s, q) ==
  LET over == (svc.started \/ svc.bound) /\ ~s.started /\ ~s.bound
  IN /\ svc' = [s EXCEPT !.doomed = @ \/ over]
     /\ posted' = IF over THEN Append(q, <<"destroyed">>) ELSE q

(* ... closes the interface, kills what is left, and calls stopSelf. *)
Halted(t) ==
  /\ At(t, "halted")
  /\ LetGo([svc EXCEPT !.configured = FALSE, !.isRunning = FALSE, !.lastIntent = FALSE,
                       !.shutdownComplete = TRUE, !.started = FALSE], posted)
  /\ live' = {} /\ tun' = FALSE
  /\ lock' = NoOne /\ Then(t, <<>>)
  /\ UNCHANGED <<sup, watching, cancelled, vm, faults, raced>>

-----------------------------------------------------------------------------
(* Starting tun2socks: both steps inside the lock.                         *)

\* (mutant) startTun2Socks is not synchronized with stopEverything.
TunBegin_Unlocked(t) ==
  /\ At(t, "tun")
  /\ Then(t, IF ~svc.configured \/ ~svc.lastIntent THEN <<>> ELSE << <<"tunning">> >>)
  /\ UNCHANGED <<svc, sup, live, watching, tun, cancelled, lock, posted, vm, faults, raced>>

TunBegin(t) ==
  /\ At(t, "tun") /\ lock = NoOne
  /\ IF ~svc.configured \/ ~svc.lastIntent
     THEN Then(t, <<>>) /\ UNCHANGED lock
     ELSE lock' = t /\ Then(t, << <<"tunning">> >>)
  /\ UNCHANGED <<svc, sup, live, watching, tun, cancelled, posted, vm, faults, raced>>

\* (mutant) The test of reconnecting is inverted.
TunUp_Inverted(t) ==
  /\ At(t, "tunning")
  /\ tun' = TRUE
  /\ svc' = [svc EXCEPT !.isRunning = TRUE]
  /\ IF ~svc.reconnecting
     THEN Then(t, <<>>) /\ UNCHANGED cancelled
     ELSE /\ todo' = Monitored(Instead(t, <<>>))
          /\ cancelled' = cancelled \ {"health"}
  /\ lock' = NoOne
  /\ UNCHANGED <<sup, live, watching, posted, vm, faults, raced>>

TunUp(t) ==
  /\ At(t, "tunning")
  /\ tun' = TRUE
  /\ svc' = [svc EXCEPT !.isRunning = TRUE]
  /\ IF svc.reconnecting
     THEN Then(t, <<>>) /\ UNCHANGED cancelled
     ELSE /\ todo' = Monitored(Instead(t, <<>>))
          /\ cancelled' = cancelled \ {"health"}
  /\ lock' = NoOne
  /\ UNCHANGED <<sup, live, watching, posted, vm, faults, raced>>

TunFails(t) ==
  /\ At(t, "tunning")
  /\ faults > 0 /\ faults' = faults - 1
  /\ Then(t, stopEverything)
  /\ UNCHANGED <<svc, sup, live, watching, tun, cancelled, lock, posted, vm, raced>>

-----------------------------------------------------------------------------
(* The main thread.                                                        *)

(* onStartCommand: first the flags ... *)
OnStartCommand ==
  /\ todo["main"] = <<>> /\ posted # <<>> /\ Head(posted)[1] = "startCommand"
  /\ posted' = Tail(posted)
  /\ svc' = [svc EXCEPT !.lastIntent = TRUE, !.shutdownComplete = FALSE, !.stopping = FALSE]
  /\ todo' = [todo EXCEPT !["main"] = << <<"configure">> >>]
  /\ UNCHANGED <<sup, live, watching, tun, cancelled, lock, vm, faults, raced>>

(* ... and then, without the lock, the interface, unless it is there.      *)
(* Establishing it may fail.                                               *)
Configure ==
  /\ At("main", "configure")
  /\ \E ok \in BOOLEAN : svc' = [svc EXCEPT !.configured = @ \/ ok]
  /\ Then("main", <<>>)
  /\ UNCHANGED <<sup, live, watching, tun, cancelled, lock, posted, vm, faults, raced>>

(* onServiceConnected of the view model. *)
OnServiceConnected ==
  /\ todo["main"] = <<>> /\ posted # <<>> /\ Head(posted)[1] = "connected"
  /\ posted' = Tail(posted)
  /\ vm' = [vm EXCEPT !.service = TRUE]
  /\ UNCHANGED <<svc, sup, live, watching, tun, todo, cancelled, lock, faults, raced>>

(* onUnexpectedExit of either supervisor: the fallback of Hysteria, or the *)
(* end, unless a recovery is under way.                                    *)
OnUnexpectedExit ==
  /\ todo["main"] = <<>> /\ posted # <<>> /\ Head(posted)[1] = "exit"
  /\ posted' = Tail(posted)
  /\ LET b == Head(posted)[2] IN
       \/ /\ b = "HYSTERIA" /\ svc.allowFallback /\ ~svc.stopping
          /\ svc' = [svc EXCEPT !.activeBackend = "YANDEX"]
          /\ todo' = [todo EXCEPT !["main"] = StopOf("HYSTERIA") \o StartOf("YANDEX")]
       \/ /\ b = "HYSTERIA" => ~svc.allowFallback \/ svc.stopping
          /\ todo' = [todo EXCEPT !["main"] =
               IF svc.reconnecting THEN <<>> ELSE stopEverything \o << <<"exited">> >>]
          /\ UNCHANGED svc
  /\ UNCHANGED <<sup, live, watching, tun, cancelled, lock, vm, faults, raced>>

(* onRevoke and onDestroy. *)
OnRevokeOrDestroy ==
  /\ todo["main"] = <<>> /\ posted # <<>> /\ Head(posted)[1] \in {"revoked", "destroyed"}
  /\ posted' = Tail(posted)
  /\ todo' = [todo EXCEPT !["main"] = stopEverything \o << <<Head(posted)[1]>> >>]
  /\ UNCHANGED <<svc, sup, live, watching, tun, cancelled, lock, vm, faults, raced>>

(* What they do after stopEverything: an event for the view model, or the  *)
(* end of the scope of all coroutines.  The view model's collector runs on *)
(* the main thread: an event from there is seen at once, one from another  *)
(* thread in its turn.  A recovery that gives up sends two events, before  *)
(* it calls stopEverything.                                                *)
Dispatch(t) ==
  /\ \/ /\ \E e \in {"exited", "revoked"} :
             At(t, e) /\ posted' = << <<"event", e>> >> \o posted
        /\ UNCHANGED <<svc, cancelled>>
     \/ /\ At(t, "surrender")
        /\ posted' = posted \o << <<"event", "unavailable">>, <<"event", "exited">> >>
        /\ UNCHANGED <<svc, cancelled>>
     \/ /\ At(t, "destroyed") /\ svc' = [svc EXCEPT !.destroyed = TRUE]
        /\ cancelled' = cancelled \cup {"health", "net"} /\ UNCHANGED posted
  /\ Then(t, <<>>)
  /\ UNCHANGED <<sup, live, watching, tun, lock, vm, faults, raced>>

-----------------------------------------------------------------------------
(* Recovery: the two coroutines that may call recoverTransport.            *)
(* Their wake lock, notifications and events are left out.                 *)

(* The monitor after its delay of 20 s: it ends, or finds the network back *)
(* (it takes whatever generation is current then), tun2socks dead, or the  *)
(* server silent for the third time.                                       *)
Monitor ==
  /\ At("health", "monitor")
  /\ IF ~Running("health") \/ svc.stopping \/ Arg("health") # svc.generation
     THEN Then("health", <<>>) /\ UNCHANGED faults
     ELSE \/ /\ faults > 0 /\ faults' = faults - 1
             /\ \/ Then("health", << <<"enter">>, Head(todo["health"]) >>)
                \/ Then("health", << <<"enterIf", Arg("health")>>, Head(todo["health"]) >>)
          \/ /\ ~tun
             /\ Then("health", << <<"enterIf", Arg("health")>>, Head(todo["health"]) >>)
             /\ UNCHANGED faults
  /\ UNCHANGED <<svc, sup, live, watching, tun, cancelled, lock, posted, vm, raced>>

(* onAvailable launches a job that recovers after 2 s. *)
OnAvailable ==
  /\ faults > 0 /\ faults' = faults - 1
  /\ svc.isRunning /\ ~svc.reconnecting /\ ~svc.stopping /\ ~svc.destroyed
  /\ todo["net"] = <<>> \/ At("net", "network")
  /\ todo' = [todo EXCEPT !["net"] = << <<"network", svc.generation>> >>]
  /\ cancelled' = cancelled \ {"net"}
  /\ UNCHANGED <<svc, sup, live, watching, tun, lock, posted, vm, raced>>

NetworkJob ==
  /\ At("net", "network")
  /\ Then("net", IF Running("net") THEN << <<"enterIf", Arg("net")>> >> ELSE <<>>)
  /\ UNCHANGED <<svc, sup, live, watching, tun, cancelled, lock, posted, vm, faults, raced>>

(* recoverTransport: the generation is compared first, then reconnecting   *)
(* is set, and only then is stopping read; that return leaves it set.      *)
Enter(t) ==
  /\ \/ At(t, "enter") /\ Then(t, << <<"claim", svc.generation>> >>)
     \/ /\ At(t, "enterIf")
        /\ Then(t, IF Arg(t) = svc.generation THEN << <<"claim", Arg(t)>> >> ELSE <<>>)
  /\ UNCHANGED <<svc, sup, live, watching, tun, cancelled, lock, posted, vm, faults, raced>>

Claim(t) ==
  /\ At(t, "claim")
  /\ svc' = [svc EXCEPT !.reconnecting = TRUE]
  /\ Then(t, IF svc.reconnecting \/ svc.stopping THEN <<>>
             ELSE << <<"attempt", 1, Arg(t)>> >>)
  /\ UNCHANGED <<sup, live, watching, tun, cancelled, lock, posted, vm, faults, raced>>

Current(g) == ~svc.stopping /\ g = svc.generation

(* One attempt: everything is taken down, and after a delay ... *)
Attempt(t) ==
  /\ At(t, "attempt")
  /\ LET k == Arg(t)
         g == Head(todo[t])[3]
     IN IF Current(g) /\ k <= MaxAttempts
        THEN /\ tun' = FALSE
             /\ svc' = [svc EXCEPT !.isRunning = FALSE]
             /\ Then(t, stopClients \o << <<"delay", k, g>> >>)
        ELSE /\ Then(t, IF Current(g) THEN << <<"surrender">> >> \o stopEverything \o << <<"finally">> >>
                        ELSE << <<"finally">> >>)
             /\ UNCHANGED <<svc, tun>>
  /\ UNCHANGED <<sup, live, watching, cancelled, lock, posted, vm, faults, raced>>

\* (mutant) The wait between attempts is not cancelled by a stop.
Restart_Uncancelled(t) ==
  /\ At(t, "delay")
  /\ LET b == IF svc.activeBackend = "HYSTERIA" /\ ~svc.allowFallback
              THEN "HYSTERIA" ELSE "YANDEX"
     IN /\ svc' = [svc EXCEPT !.activeBackend = b]
        /\ Then(t, StartOf(b) \o << <<"wait", Arg(t), Head(todo[t])[3]>> >>)
  /\ UNCHANGED <<sup, live, watching, tun, cancelled, lock, posted, vm, faults, raced>>

(* ... the active backend, or its fallback, is started again.  Neither     *)
(* stopping nor the generation is looked at before that.                   *)
Restart(t) ==
  /\ At(t, "delay")
  /\ IF ~Running(t)
     THEN Then(t, << <<"finally">> >>) /\ UNCHANGED svc
     ELSE LET b == IF svc.activeBackend = "HYSTERIA" /\ ~svc.allowFallback
                   THEN "HYSTERIA" ELSE "YANDEX"
          IN /\ svc' = [svc EXCEPT !.activeBackend = b]
             /\ Then(t, StartOf(b) \o << <<"wait", Arg(t), Head(todo[t])[3]>> >>)
  /\ UNCHANGED <<sup, live, watching, tun, cancelled, lock, posted, vm, faults, raced>>

(* It waits until the helper is ready and the data path answers, and       *)
(* starts tun2socks; or the wait ends with an error, a deadline or a stop. *)
Wait(t) ==
  /\ At(t, "wait")
  /\ LET k == Arg(t)
         g == Head(todo[t])[3]
     IN \/ ~Running(t) /\ Then(t, << <<"finally">> >>)
        \/ ActiveReady /\ Then(t, << <<"tun">>, <<"restored", k, g>> >>)
        \/ Then(t, << <<"attempt", k + 1, g>> >>)
  /\ UNCHANGED <<svc, sup, live, watching, tun, cancelled, lock, posted, vm, faults, raced>>

TunRestored(t) ==
  /\ At(t, "restored")
  /\ Then(t, IF svc.isRunning THEN << <<"settle", Head(todo[t])[3]>> >>
             ELSE << <<"attempt", Arg(t) + 1, Head(todo[t])[3]>> >>)
  /\ UNCHANGED <<svc, sup, live, watching, tun, cancelled, lock, posted, vm, faults, raced>>

(* Four seconds later the monitor is started anew. *)
Settle(t) ==
  /\ At(t, "settle")
  /\ IF Running(t) /\ Current(Arg(t))
     THEN /\ todo' = [Monitored(Instead(t, << <<"finally">> >>)) EXCEPT
                        !["health"] = IF t = "health" THEN << <<"finally">>, <<"monitor", svc.generation>> >> ELSE @]
          /\ cancelled' = cancelled \ {"health"}
     ELSE Then(t, << <<"finally">> >>) /\ UNCHANGED cancelled
  /\ UNCHANGED <<svc, sup, live, watching, tun, lock, posted, vm, faults, raced>>

Finally(t) ==
  /\ At(t, "finally")
  /\ svc' = [svc EXCEPT !.reconnecting = FALSE]
  /\ Then(t, <<>>)
  /\ UNCHANGED <<sup, live, watching, tun, cancelled, lock, posted, vm, faults, raced>>

-----------------------------------------------------------------------------
(* The view model.                                                         *)

(* teardown, unless one is under way: the start job is cancelled, and a    *)
(* coroutine takes the service down; final is the state it will leave.     *)
Teardown(td, v, final) ==
  IF td["tear"] # <<>>
  THEN todo' = td /\ vm' = v /\ UNCHANGED cancelled
  ELSE /\ todo' = [td EXCEPT !["tear"] = << <<"teardown", final>> >>]
       /\ vm' = [v EXCEPT !.state = "stopping"]
       /\ cancelled' = cancelled \cup {"job"}

(* Without bindRequested there is nothing to take down; otherwise the      *)
(* coroutine waits for the binder, five seconds at most.                   *)
TearBegin ==
  /\ At("tear", "teardown")
  /\ Then("tear",
       IF ~vm.requested THEN << <<"clear", Arg("tear")>> >>
       ELSE (IF vm.service THEN stopClients \o stopEverything ELSE <<>>)
              \o << <<"unbind", Arg("tear"), vm.service>> >>)
  /\ UNCHANGED <<svc, sup, live, watching, tun, cancelled, lock, posted, vm, faults, raced>>


(* It waits for shutdownComplete, six seconds at most, unbinds and stops   *)
(* the service; what has been bound by somebody else by then is let go too.*)
Unbind ==
  /\ At("tear", "unbind")
  /\ LetGo([svc EXCEPT !.bound = FALSE, !.started = FALSE], posted)
  /\ vm' = [vm EXCEPT !.requested = FALSE]
  /\ LET clean == Head(todo["tear"])[3] => svc.shutdownComplete
         final == IF Arg("tear") = "idle" /\ ~clean THEN "unclean" ELSE Arg("tear")
     IN Then("tear", << <<"clear", final>> >>)
  /\ UNCHANGED <<sup, live, watching, tun, cancelled, lock, faults, raced>>

(* 300 ms later the binder is forgotten.  An unclean end is shown whatever *)
(* the state is, the final state only if nothing has replaced "stopping".  *)
Clear ==
  /\ At("tear", "clear")
  /\ vm' = [vm EXCEPT !.service = FALSE,
                      !.state = CASE Arg("tear") = "unclean" -> "error"
                                  [] Arg("tear") # "unclean" /\ @ = "stopping" -> Arg("tear")
                                  [] OTHER -> @]
  /\ Then("tear", <<>>)
  /\ UNCHANGED <<svc, sup, live, watching, tun, cancelled, lock, posted, faults, raced>>

(* The start job ends: it was cancelled and comes to a delay, or it fails  *)
(* and tears down.                                                         *)
JobGone == "job" \in cancelled /\ EndOf("job") /\ UNCHANGED <<vm, cancelled>>
JobFails(v, final) == Teardown([todo EXCEPT !["job"] = <<>>], v, final)
JobGoesOn(v, steps) == Then("job", steps) /\ vm' = v /\ UNCHANGED cancelled
Shown == [vm EXCEPT !.state = "active"]

(* startForegroundService and bindService: the main thread will see to     *)
(* onStartCommand and, if the view model was not bound, to the connection. *)
(* Either may be refused; then the service is stopped again.  A job that   *)
(* was cancelled may begin all the same, and shows that it connects.       *)
JobConnect ==
  /\ At("job", "connect")
  /\ \/ JobGone /\ UNCHANGED <<svc, posted, faults>>
     \/ svc.doomed /\ JobGoesOn(vm, <<>>) /\ UNCHANGED <<svc, posted, faults>>
     \/ /\ ~svc.doomed
        /\ svc' = [svc EXCEPT !.started = TRUE, !.bound = TRUE]
        /\ posted' = posted \o << <<"startCommand">> >>
                        \o (IF svc.bound THEN <<>> ELSE << <<"connected">> >>)
        /\ JobGoesOn(Shown, << <<"request">> >>)
        /\ UNCHANGED faults
     \/ /\ ~svc.doomed /\ faults > 0 /\ faults' = faults - 1
        /\ LetGo([svc EXCEPT !.started = FALSE], posted)
        /\ JobFails(vm, "error")
  /\ UNCHANGED <<sup, live, watching, tun, lock, raced>>

JobRequest ==
  /\ At("job", "request")
  /\ JobGoesOn([vm EXCEPT !.requested = TRUE], << <<"bind">> >>)
  /\ UNCHANGED <<svc, sup, live, watching, tun, lock, posted, faults, raced>>

(* awaitBinding, which looks at once and then every 50 ms, and getFd.      *)
JobBind ==
  /\ At("job", "bind")
  /\ \/ ~vm.service /\ (JobGone \/ JobFails(vm, "error"))
     \/ vm.service /\ svc.configured /\ JobGoesOn(Shown, << <<"native">> >>)
     \/ vm.service /\ ~svc.configured /\ JobFails(vm, "error")
  /\ UNCHANGED <<svc, sup, live, watching, tun, lock, posted, faults, raced>>

(* startOpenFluxNative and startHysteriaNative: a new generation, on the   *)
(* job's thread; without a binder nothing is called.  Nothing looks at     *)
(* whether the job was cancelled, or the service destroyed.                *)
StartNative(b, fallback) ==
  svc' = [svc EXCEPT !.shutdownComplete = FALSE, !.stopping = FALSE,
                     !.activeBackend = b, !.allowFallback = fallback,
                     !.generation = @ + 1]
Other(b) == IF b = "YANDEX" THEN "HYSTERIA" ELSE "YANDEX"

JobStart ==
  /\ At("job", "native")
  /\ LET b == IF vm.mode = "yandex" THEN "YANDEX" ELSE "HYSTERIA" IN
       IF vm.service
       THEN /\ StartNative(b, vm.mode = "auto")
            /\ JobGoesOn(vm, StopOf(Other(b)) \o StartOf(b) \o << <<"await", vm.mode = "auto">> >>)
       ELSE JobFails(vm, "error") /\ UNCHANGED svc
  /\ UNCHANGED <<sup, live, watching, tun, lock, posted, faults, raced>>

(* awaitService and waitForDataPath: ready and verified; or an error, a    *)
(* deadline or no binder; or ready and silent, when in automatic mode      *)
(* Hysteria is replaced once.                                              *)
JobAwait ==
  /\ At("job", "await")
  /\ \/ JobGone
     \/ /\ vm.service /\ ActiveReady /\ ~ActiveError
        /\ JobGoesOn(Shown, << <<"tun">>, <<"awaitVpn">> >>)
     \/ /\ ~vm.service \/ ActiveError \/ "job" \notin cancelled
        /\ \/ JobFails(vm, "error")
           \/ /\ vm.service
              /\ IF Arg("job")
                 THEN JobGoesOn(Shown, stopClients \o << <<"fallback">> >>)
                 ELSE JobFails(Shown, "unavailable")
  /\ UNCHANGED <<svc, sup, live, watching, tun, lock, posted, faults, raced>>

JobFallback ==
  /\ At("job", "fallback")
  /\ IF vm.service
     THEN /\ StartNative("YANDEX", FALSE)
          /\ JobGoesOn(vm, StopOf("HYSTERIA") \o StartOf("YANDEX") \o << <<"await", FALSE>> >>)
     ELSE JobFails(vm, "error") /\ UNCHANGED svc
  /\ UNCHANGED <<sup, live, watching, tun, lock, posted, faults, raced>>

JobAwaitVpn ==
  /\ At("job", "awaitVpn")
  /\ \/ JobGone
     \/ vm.service /\ svc.isRunning /\ ~ActiveError /\ JobGoesOn(Shown, <<>>)
     \/ /\ ~vm.service \/ ActiveError \/ "job" \notin cancelled
        /\ JobFails(vm, "error")
  /\ UNCHANGED <<svc, sup, live, watching, tun, lock, posted, faults, raced>>

(* The user disconnects, at any time after the start. *)
UserStops ==
  /\ todo["main"] = <<>> /\ vm.state \in {"active", "unavailable"}
  /\ Teardown(todo, vm, "idle")
  /\ UNCHANGED <<svc, sup, live, watching, tun, lock, posted, faults, raced>>

(* Nothing is under way: every thread has come to an end, the monitor      *)
(* excepted, and nothing waits for the main thread.                        *)
Quiet == /\ posted = <<>>
         /\ \A t \in Threads \ {"health"} : todo[t] = <<>>
         /\ todo["health"] = <<>> \/ At("health", "monitor")

(* The user connects again while this instance still exists: the recovery  *)
(* has given up, or an early stop has left the service bound, which the    *)
(* bound on faults pays for.  Everything has come to rest by then.         *)
StartAgain ==
  /\ vm.sessions < MaxSessions /\ (svc.started \/ svc.bound) /\ Quiet
  /\ \/ vm.state = "unavailable" /\ UNCHANGED faults
     \/ vm.state \in {"idle", "error"} /\ faults > 0 /\ faults' = faults - 1
  /\ vm' = [vm EXCEPT !.state = "active", !.sessions = @ + 1, !.inherited = svc.reconnecting,
                      !.overtaken = FALSE]
  /\ todo' = [todo EXCEPT !["job"] = << <<"connect">> >>]
  /\ cancelled' = cancelled \ {"job"}
  /\ UNCHANGED <<svc, sup, live, watching, tun, lock, posted, raced>>

(* The collector of events, on the main thread. *)
Sees(event) == todo["main"] = <<>> /\ posted # <<>> /\ Head(posted) = <<"event", event>>

(* UNAVAILABLE is shown whenever a tunnel is known. *)
SeeUnavailable ==
  /\ Sees("unavailable") /\ posted' = Tail(posted)
  /\ vm' = IF vm.state \in {"idle", "error"} /\ ~vm.requested THEN vm
            ELSE [vm EXCEPT !.state = "unavailable"]
  /\ UNCHANGED <<svc, sup, live, watching, tun, todo, cancelled, lock, faults, raced>>

(* NativeProcessExited: fail, unless the server was found unavailable. *)
SeeExited ==
  /\ Sees("exited") /\ posted' = Tail(posted)
  /\ IF vm.state \in {"active", "stopping"} THEN Teardown(todo, vm, "error")
     ELSE UNCHANGED <<vm, todo, cancelled>>
  /\ UNCHANGED <<svc, sup, live, watching, tun, lock, faults, raced>>

(* VpnRevoked: it unbinds, and does not stop the service: a start after    *)
(* the stopEverything of onRevoke stays in effect (overtaken).             *)
SeeRevoked ==
  /\ Sees("revoked")
  /\ IF vm.state = "idle"
     THEN posted' = Tail(posted) /\ UNCHANGED <<svc, cancelled, vm>>
     ELSE /\ vm' = [vm EXCEPT !.state = "idle", !.requested = FALSE, !.service = FALSE,
                              !.overtaken = svc.started]
          /\ cancelled' = cancelled \cup {"job"}
          /\ LetGo([svc EXCEPT !.bound = @ /\ ~vm.requested], Tail(posted))
  /\ UNCHANGED <<sup, live, watching, tun, todo, lock, faults, raced>>

-----------------------------------------------------------------------------
(* The environment.                                                        *)

(* Another VPN takes over: onRevoke runs on the main thread. *)
Revoked ==
  /\ faults > 0 /\ faults' = faults - 1
  /\ svc.configured
  /\ posted' = Append(posted, <<"revoked">>)
  /\ UNCHANGED <<svc, sup, live, watching, tun, todo, cancelled, lock, vm, raced>>

(* A helper, or tun2socks, ends on its own. *)
HelperDies ==
  /\ faults > 0 /\ faults' = faults - 1
  /\ \/ \E p \in live : live' = live \ {p} /\ UNCHANGED tun
     \/ tun /\ tun' = FALSE /\ UNCHANGED live
  /\ UNCHANGED <<svc, sup, watching, todo, cancelled, lock, posted, vm, raced>>

-----------------------------------------------------------------------------
Init ==
  /\ svc = [stopping |-> FALSE, reconnecting |-> FALSE, shutdownComplete |-> TRUE,
            generation |-> 0, activeBackend |-> "YANDEX", allowFallback |-> FALSE,
            lastIntent |-> FALSE, configured |-> FALSE, isRunning |-> FALSE,
            started |-> FALSE, bound |-> FALSE, doomed |-> FALSE, destroyed |-> FALSE]
  /\ sup = [b \in Backends |-> [running |-> FALSE, shuttingDown |-> FALSE, ready |-> FALSE,
                                error |-> FALSE, starts |-> 0, process |-> 0]]
  /\ live = {} /\ watching = {}
  /\ tun = FALSE
  /\ todo = [t \in Threads |-> IF t = "job" THEN << <<"connect">> >> ELSE <<>>]
  /\ cancelled = {} /\ lock = NoOne /\ posted = <<>>
  /\ \E m \in Modes : vm = [mode |-> m, state |-> "active", requested |-> FALSE, service |-> FALSE,
                          sessions |-> 1, inherited |-> FALSE, overtaken |-> FALSE]
  /\ faults = MaxFaults /\ raced = FALSE

(* What thread t does with its next step. *)
Step(t) ==
  /\ todo[t] # <<>>
  /\ \/ Start(t) \/ Spawn(t) \/ Stop(t) \/ Destroy(t) \/ Halt(t) \/ Halted(t)
     \/ TunBegin(t) \/ TunUp(t) \/ TunFails(t) \/ Dispatch(t)
     \/ Enter(t) \/ Claim(t) \/ Attempt(t) \/ Restart(t) \/ Wait(t) \/ TunRestored(t)
     \/ Settle(t) \/ Finally(t)

MainThread == Step("main") \/ OnStartCommand \/ Configure \/ OnServiceConnected
              \/ OnUnexpectedExit \/ OnRevokeOrDestroy
Job == Step("job") \/ JobConnect \/ JobRequest \/ JobBind \/ JobStart \/ JobAwait
       \/ JobFallback \/ JobAwaitVpn
Tear == Step("tear") \/ TearBegin \/ Unbind \/ Clear
Health == Step("health") \/ Monitor
Net == Step("net") \/ NetworkJob
Collector == SeeUnavailable \/ SeeExited \/ SeeRevoked
Watch == \E p \in watching : Connected(p) \/ Exited(p)

Next == \/ MainThread \/ Job \/ Tear \/ Health \/ Net \/ Collector \/ Watch
        \/ \E p \in watching : TimedOut(p)
        \/ OnAvailable \/ UserStops \/ StartAgain \/ Revoked \/ HelperDies

Spec == Init /\ [][Next]_vars

-----------------------------------------------------------------------------
(* A running tunnel belongs to a session that was not stopped: however     *)
(* stopEverything meets the recovery and the start of tun2socks, neither   *)
(* brings tun2socks or isRunning back once the interface is closed         *)
(* (SocksVpnService.kt:94-104 and 343-358).                                *)
TunnelHasSession ==
  tun \/ svc.isRunning => svc.configured /\ svc.lastIntent

(* A stop leaves no helper behind once all threads have come to rest: no   *)
(* recovery and no fallback spawns one after stopEverything.  Two cases    *)
(* are excepted, and both happen: a start was between its first check and  *)
(* its spawn when stopEverything began (raced), or the start job, although *)
(* cancelled, called the binder afterwards, which makes stopping false     *)
(* again (SocksVpnService.kt:261-273, 343-357; TunnelsViewModel.kt:206-247,*)
(* 354-364).                                                               *)
CleanStop == Quiet /\ svc.stopping /\ ~raced => live = {}

(* A connection is never left unwatched: once it was established, and as   *)
(* long as nobody ends it, a monitor of the present generation waits which *)
(* the flag reconnecting does not keep from restoring it, whatever was     *)
(* cancelled, replaced or refused (SocksVpnService.kt:204-305).  It does   *)
(* not hold of a session that begins on an instance whose last recovery    *)
(* has left reconnecting set (line 245): that one is never watched.        *)
StaysWatched ==
  Quiet /\ vm.state = "active" /\ "job" \notin cancelled /\ ~svc.stopping /\ ~vm.inherited =>
    /\ At("health", "monitor") /\ Running("health") /\ Arg("health") = svc.generation
    /\ ~svc.reconnecting

=============================================================================
