------------------------------- MODULE L3Exit -------------------------------
(***************************************************************************)
(* The raw-IP exit (tunnel/l3): it rewrites the client's packets, sends    *)
(* them to the Internet, and forwards to the client only the packets that  *)
(* answer a connection in its table.  The goroutines of the transport, the *)
(* reader of the raw socket and the sweeper share the table; its mutex     *)
(* makes one call of the table atomic, and nothing makes a handler atomic. *)
(*                                                                         *)
(* A flow is the key of a TCP connection; the egress address is fixed, so  *)
(* the key of a reply reversed is the key of the connection.  Packets that *)
(* the handlers drop before they reach the table change no state.          *)
(*                                                                         *)
(* Time is counted in ticks.  Insert and sweep read the clock before they  *)
(* take the lock, so a stamp may be old when it is stored or compared; no  *)
(* goroutine is off the processor for more than MaxLate ticks in a call.   *)
(***************************************************************************)
EXTENDS Integers

CONSTANTS
    Flows,        \* keys of connections
    Callers,      \* goroutines on which the transport calls the exit
    Established,  \* ctTimeoutEstablished
    Closing,      \* ctTimeoutClosing
    SweepEvery,   \* ctSweepInterval
    MaxLate       \* longest delay of a goroutine between two of its steps

ASSUME Timeouts ==
    /\ Established \in Nat /\ Closing \in Nat /\ SweepEvery \in Nat /\ MaxLate \in Nat
    /\ 2 * MaxLate <= Closing /\ Closing <= Established
    /\ MaxLate < SweepEvery

VARIABLES
    entries,      \* keys in the connection table
    idle,         \* per flow: now - lastSeen of its entry
    dying,        \* per flow: its entry's dying flag
    caller,       \* per goroutine: where handleFromTransport is
    callKey,      \* the flow of the packet it handles
    callFin,      \* whether that packet is a FIN
    late,         \* ticks since it read the clock
    reader,       \* where handleFromInternet is
    readKey,      \* the flow its packet answers
    readFin,      \* whether that packet is a FIN or a RST
    readLate,     \* ticks since it found the entry of that flow
    sinceSweep,   \* ticks since the ticker last fired
    sweeping,     \* whether sweep has read the clock and waits for the lock
    quiet,        \* history: ticks since a packet of the flow was forwarded
    closed,       \* history: a closing packet since the flow was opened
    stray         \* history: flows without an entry when their last packet from
                  \* the Internet was forwarded

table == <<entries, idle, dying>>
calls == <<caller, callKey, callFin, late>>
reads == <<reader, readKey, readFin, readLate>>
sweep == <<sinceSweep, sweeping>>
history == <<quiet, closed, stray>>
vars == <<table, calls, reads, sweep, history>>

\* The grace of a flow: its timeout, less the delays of two goroutines that
\* stamp one entry out of order; a flow not forwarded for longer is unused.
Grace(isClosed) == (IF isClosed THEN Closing ELSE Established) - 2 * MaxLate
Unused == Grace(FALSE) + 1

Init ==
    /\ entries = {} /\ idle = [f \in Flows |-> 0] /\ dying = [f \in Flows |-> FALSE]
    /\ caller = [c \in Callers |-> "ready"] /\ callKey \in [Callers -> Flows]
    /\ callFin = [c \in Callers |-> FALSE] /\ late = [c \in Callers |-> 0]
    /\ reader = "ready" /\ readKey \in Flows /\ readFin = FALSE /\ readLate = 0
    /\ sinceSweep = 0 /\ sweeping = FALSE
    /\ quiet = [f \in Flows |-> Unused] /\ closed = [f \in Flows |-> FALSE]
    /\ stray = {}

-----------------------------------------------------------------------------
(* The table.                                                              *)

\* (mutant) Insert stamps new entries only.
Insert_KeepsStamp(f, stamp) ==
    /\ entries' = entries \cup {f}
    /\ idle' = [idle EXCEPT ![f] = IF f \in entries THEN @ ELSE stamp]
    /\ UNCHANGED dying

\* conntrack.Insert: stamp an entry, or create it.  An entry that is dying
\* stays so, also when the packet opens a new connection on the old ports.
Insert(f, stamp) ==
    /\ entries' = entries \cup {f}
    /\ idle' = [idle EXCEPT ![f] = stamp]
    /\ UNCHANGED dying

\* conntrack.Touch: stamp an entry if it is still there.
Touch(f, fin) ==
    /\ entries' = entries
    /\ idle' = IF f \in entries THEN [idle EXCEPT ![f] = 0] ELSE idle
    /\ dying' = IF f \in entries THEN [dying EXCEPT ![f] = @ \/ fin] ELSE dying

Timeout(f) == IF dying[f] THEN Closing ELSE Established

\* (mutant) A dying entry is exempt from the sweep.
Expired_LivingOnly == {f \in entries : ~dying[f] /\ idle[f] - sinceSweep > Timeout(f)}

\* (mutant) A dying entry goes with the next sweep, whatever its age.
Expired_DyingAtOnce == {f \in entries : dying[f] \/ idle[f] - sinceSweep > Timeout(f)}

\* The entries that sweep deletes, by the clock as it was when sweep began.
Expired == {f \in entries : idle[f] - sinceSweep > Timeout(f)}

-----------------------------------------------------------------------------
(* handleFromTransport                                                     *)

\* A packet of the client that is a whole TCP packet and no RST; Insert
\* reads the clock.
FromTransport(c) ==
    /\ caller[c] = "ready"
    /\ caller' = [caller EXCEPT ![c] = "insert"]
    /\ \E f \in Flows : callKey' = [callKey EXCEPT ![c] = f]
    /\ \E fin \in BOOLEAN : callFin' = [callFin EXCEPT ![c] = fin]
    /\ late' = [late EXCEPT ![c] = 0]
    /\ UNCHANGED <<table, reads, sweep, history>>

CallerInserts(c) ==
    LET f == callKey[c] IN
    /\ caller[c] = "insert"
    /\ Insert(f, late[c])
    /\ caller' = [caller EXCEPT ![c] = IF callFin[c] THEN "touch" ELSE "send"]
    /\ closed' = [closed EXCEPT ![f] = @ /\ f \in entries]
    /\ stray' = stray \ {f}
    /\ UNCHANGED <<callKey, callFin, late, reads, sweep, quiet>>

CallerTouches(c) ==
    /\ caller[c] = "touch"
    /\ Touch(callKey[c], TRUE)
    /\ caller' = [caller EXCEPT ![c] = "send"]
    /\ closed' = [closed EXCEPT ![callKey[c]] = TRUE]
    /\ UNCHANGED <<callKey, callFin, late, reads, sweep, quiet, stray>>

\* backend.Send, which may fail: the counters apart, nothing depends on it.
Transmit(c) ==
    /\ caller[c] = "send"
    /\ caller' = [caller EXCEPT ![c] = "ready"]
    /\ quiet' = [quiet EXCEPT ![callKey[c]] = 0]
    /\ late' = [late EXCEPT ![c] = 0]
    /\ callFin' = [callFin EXCEPT ![c] = FALSE]
    /\ UNCHANGED <<table, callKey, reads, sweep, closed, stray>>

-----------------------------------------------------------------------------
(* handleFromInternet, called by the one goroutine that reads the socket.  *)

\* Any host may send a packet to the egress address; conntrack.Exists
\* decides whether it is handled any further.
FromInternet ==
    /\ reader = "ready"
    /\ \E f \in entries, fin \in BOOLEAN :
          /\ readKey' = f
          /\ readFin' = fin
    /\ reader' = "touch"
    /\ readLate' = 0
    /\ UNCHANGED <<table, calls, sweep, history>>

\* The entry may be gone by now; Touch does not say so.
ReaderTouches ==
    /\ reader = "touch"
    /\ Touch(readKey, readFin)
    /\ reader' = "forward"
    /\ closed' = [closed EXCEPT ![readKey] = @ \/ readFin]
    /\ UNCHANGED <<calls, readKey, readFin, readLate, sweep, quiet, stray>>

\* The packet is rewritten and sent to the client, entry or no entry; as with
\* backend.Send, nothing depends on whether trans.Send fails.
ReaderForwards ==
    /\ reader = "forward"
    /\ reader' = "ready"
    /\ readFin' = FALSE /\ readLate' = 0
    /\ quiet' = [quiet EXCEPT ![readKey] = 0]
    /\ stray' = IF readKey \in entries THEN stray ELSE stray \cup {readKey}
    /\ UNCHANGED <<table, calls, readKey, sweep, closed>>

-----------------------------------------------------------------------------
(* sweepLoop and the clock.                                                *)

TickerFires ==
    /\ sinceSweep = SweepEvery
    /\ sinceSweep' = 0
    /\ sweeping' = TRUE
    /\ UNCHANGED <<table, calls, reads, history>>

Sweep ==
    /\ sweeping
    /\ entries' = entries \ Expired
    /\ idle' = [f \in Flows |-> IF f \in Expired THEN 0 ELSE idle[f]]
    /\ dying' = [f \in Flows |-> dying[f] /\ f \notin Expired]
    /\ sweeping' = FALSE
    /\ UNCHANGED <<calls, reads, sinceSweep, history>>

\* A tick passes unless a goroutine would be late or the ticker is due.  The
\* history counter saturates, the age of an entry is bounded by Expires.
Tick ==
    /\ sinceSweep < SweepEvery
    /\ sweeping => sinceSweep < MaxLate
    /\ \A c \in Callers : caller[c] # "ready" => late[c] < MaxLate
    /\ reader # "ready" => readLate < MaxLate
    /\ sinceSweep' = sinceSweep + 1
    /\ idle' = [f \in Flows |-> IF f \in entries THEN idle[f] + 1 ELSE idle[f]]
    /\ late' = [c \in Callers |-> IF caller[c] = "ready" THEN late[c] ELSE late[c] + 1]
    /\ quiet' = [f \in Flows |-> IF quiet[f] = Unused THEN Unused ELSE quiet[f] + 1]
    /\ readLate' = IF reader = "ready" THEN readLate ELSE readLate + 1
    /\ UNCHANGED <<entries, dying, caller, callKey, callFin, reader, readKey, readFin>>
    /\ UNCHANGED <<sweeping, closed, stray>>

Next ==
    \/ \E c \in Callers :
          FromTransport(c) \/ CallerInserts(c) \/ CallerTouches(c) \/ Transmit(c)
    \/ FromInternet \/ ReaderTouches \/ ReaderForwards
    \/ TickerFires \/ Sweep \/ Tick

Spec == Init /\ [][Next]_vars

-----------------------------------------------------------------------------
(* Properties                                                              *)

\* Types of the table, of the handlers and of the sweeper's clock; an absent
\* flow carries no remains of its entry.
TypeOK ==
    /\ entries \subseteq Flows
    /\ idle \in [Flows -> Nat] /\ dying \in [Flows -> BOOLEAN]
    /\ \A f \in Flows : f \notin entries => idle[f] = 0 /\ ~dying[f]
    /\ caller \in [Callers -> {"ready", "insert", "touch", "send"}]
    /\ callKey \in [Callers -> Flows] /\ callFin \in [Callers -> BOOLEAN]
    /\ late \in [Callers -> 0 .. MaxLate]
    /\ reader \in {"ready", "touch", "forward"} /\ readKey \in Flows /\ readFin \in BOOLEAN
    /\ readLate \in 0 .. MaxLate
    /\ sinceSweep \in 0 .. SweepEvery /\ sweeping \in BOOLEAN
    /\ quiet \in [Flows -> 0 .. Unused] /\ closed \in [Flows -> BOOLEAN]
    /\ stray \subseteq Flows

\* A connection in use is not forgotten: whatever order the handlers and the
\* sweeper reach the table in, a flow that forwarded a packet within its
\* grace has an entry, so the answer to that packet is let through
\* (handleFromTransport inserts before it sends; sweep spares the recent).
\* The exception is a packet from the Internet whose entry the sweeper
\* deleted after Exists had found it (l3.go:137-149): it is forwarded and
\* leaves no entry behind.  That befalls only connections which had not
\* forwarded a packet for longer than their grace.
UsedIsKept ==
    /\ \A f \in Flows : quiet[f] <= Grace(closed[f]) => f \in entries \cup stray
    /\ reader # "ready" /\ readKey \notin entries => quiet[readKey] > Grace(closed[readKey])

\* A connection out of use is forgotten: no entry outlives its timeout by
\* more than one sweep interval and the sweeper's own delay.
Expires == \A f \in entries : idle[f] <= Timeout(f) + SweepEvery + MaxLate

\* A packet of the client that was entered in the table is still in it when
\* the packet goes out.
KnownWhenSent ==
    \A c \in Callers : caller[c] \in {"touch", "send"} => callKey[c] \in entries

\* Only the client opens connections: an entry appears by the Insert of a
\* packet of that flow, never by a packet from the Internet, even one that
\* was checked against the table just before the sweeper deleted its entry.
ClientOpens ==
    [][\A f \in entries' \ entries :
          \E c \in Callers : caller[c] = "insert" /\ callKey[c] = f /\ caller'[c] # "insert"]_vars

=============================================================================
