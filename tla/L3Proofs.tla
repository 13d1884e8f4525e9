------------------------------- MODULE L3Proofs -------------------------------
(***************************************************************************)
(* Proofs about the connection table of the raw-IP exit, for any number of *)
(* flows and goroutines and any timeouts that meet the assumption.         *)
(***************************************************************************)
EXTENDS L3Exit, TLAPS

\* The entry of a packet in hand is no older than two goroutines can make it.
Fresh ==
    \A c \in Callers :
        caller[c] \in {"touch", "send"} => idle[callKey[c]] <= late[c] + MaxLate

\* So is the entry that a packet from the Internet has touched, if there is one.
ReadFresh ==
    reader = "forward" /\ readKey \in entries => idle[readKey] <= readLate + MaxLate

\* The stamp of an entry lags behind the flow's last packet by as much.
Stamped ==
    \A f \in entries : quiet[f] < Unused => idle[f] <= quiet[f] + 2 * MaxLate

\* The dying flag is the history of the flow since it was opened.
Marked == \A f \in entries : dying[f] = closed[f]

\* How old the last sweep leaves an entry, and how much it ages since.
Swept ==
    /\ sweeping => sinceSweep <= MaxLate
    /\ \A f \in entries :
          idle[f] <= Timeout(f) + sinceSweep + (IF sweeping THEN SweepEvery ELSE 0)

\* What holds besides the types; UsedIsKept takes the rest to be inductive.
Kept == KnownWhenSent /\ UsedIsKept /\ Fresh /\ ReadFresh /\ Stamped /\ Marked /\ Swept

IInv == TypeOK /\ Kept

-----------------------------------------------------------------------------

\* The arithmetic of the constants.
LEMMA Constants ==
    /\ Established \in Nat /\ Closing \in Nat /\ SweepEvery \in Nat /\ MaxLate \in Nat
    /\ 2 * MaxLate <= Closing /\ Closing <= Established /\ MaxLate < SweepEvery
    /\ Unused \in Nat \ {0}
BY Timeouts DEF Grace, Unused

\* The timeout of an entry is one of the two.
LEMMA TimeoutBound ==
    ASSUME NEW f \in Flows
    PROVE  /\ Timeout(f) \in Nat
           /\ Closing <= Timeout(f)
           /\ dying[f] => Timeout(f) = Closing
           /\ ~dying[f] => Timeout(f) = Established
BY Constants DEF Timeout

\* The initial table is empty, so everything holds of it.
THEOREM InitHolds == Init => IInv
<1> SUFFICES ASSUME Init PROVE IInv
  OBVIOUS
<1> USE Constants DEF Init
<1>1. TypeOK
  <2>1. /\ 0 \in 0 .. MaxLate /\ 0 \in 0 .. SweepEvery /\ Unused \in 0 .. Unused
    OBVIOUS
  <2>2. /\ entries \subseteq Flows
        /\ idle \in [Flows -> Nat] /\ dying \in [Flows -> BOOLEAN]
        /\ \A f \in Flows : f \notin entries => idle[f] = 0 /\ ~dying[f]
    OBVIOUS
  <2>3. quiet \in [Flows -> 0 .. Unused] /\ closed \in [Flows -> BOOLEAN]
    BY <2>1
  <2> QED BY <2>1, <2>2, <2>3 DEF TypeOK
<1>2. UsedIsKept
  BY Timeouts DEF UsedIsKept, Grace, Unused
<1>3. KnownWhenSent /\ Fresh /\ ReadFresh /\ Stamped /\ Marked /\ Swept
  BY DEF KnownWhenSent, Fresh, ReadFresh, Stamped, Marked, Swept
<1> QED BY <1>1, <1>2, <1>3 DEF IInv, Kept

\* Types are kept by every step.
LEMMA TypesKept == ASSUME TypeOK, [Next]_vars PROVE TypeOK'
<1> USE Constants DEF TypeOK
<1>0. 0 \in 0 .. Unused /\ 0 \in 0 .. MaxLate /\ 0 \in 0 .. SweepEvery
  OBVIOUS
<1>1. ASSUME NEW c \in Callers, FromTransport(c) PROVE TypeOK'
  BY <1>1 DEF FromTransport, table, reads, sweep, history
<1>2. ASSUME NEW c \in Callers, CallerInserts(c) PROVE TypeOK'
  BY <1>2 DEF CallerInserts, Insert, reads, sweep
<1>3. ASSUME NEW c \in Callers, CallerTouches(c) PROVE TypeOK'
  BY <1>3 DEF CallerTouches, Touch, reads, sweep
<1>4. ASSUME NEW c \in Callers, Transmit(c) PROVE TypeOK'
  BY <1>4 DEF Transmit, table, reads, sweep
<1>5. CASE FromInternet
  BY <1>5 DEF FromInternet, table, calls, sweep, history
<1>6. CASE ReaderTouches
  <2>1. /\ entries' \subseteq Flows
        /\ idle' \in [Flows -> Nat] /\ dying' \in [Flows -> BOOLEAN]
        /\ \A f \in Flows : f \notin entries' => idle'[f] = 0 /\ ~dying'[f]
    BY <1>6 DEF ReaderTouches, Touch
  <2>2. quiet' \in [Flows -> 0 .. Unused] /\ closed' \in [Flows -> BOOLEAN]
    BY <1>6, <1>0 DEF ReaderTouches
  <2> QED BY <1>6, <2>1, <2>2 DEF ReaderTouches, calls, sweep
<1>11. CASE ReaderForwards
  <2>1. stray' \subseteq Flows
    BY <1>11 DEF ReaderForwards
  <2>2. quiet' \in [Flows -> 0 .. Unused]
    BY <1>11, <1>0 DEF ReaderForwards
  <2>3. reader' = "ready" /\ readFin' = FALSE /\ readLate' = 0 /\ readKey' = readKey
    BY <1>11 DEF ReaderForwards
  <2>4. UNCHANGED <<table, calls, sweep, closed>>
    BY <1>11 DEF ReaderForwards
  <2> QED BY <1>0, <2>1, <2>2, <2>3, <2>4 DEF table, calls, sweep
<1>7. CASE TickerFires
  BY <1>7 DEF TickerFires, table, calls, reads, history
<1>8. CASE Sweep
  BY <1>8 DEF Sweep, Expired, calls, reads, history
<1>9. CASE Tick
  <2>1. readLate' \in 0 .. MaxLate
    <3>1. CASE reader = "ready"
      BY <1>9, <3>1 DEF Tick
    <3>2. CASE reader # "ready"
      BY <1>9, <3>2 DEF Tick
    <3> QED BY <3>1, <3>2
  <2>2. late' \in [Callers -> 0 .. MaxLate]
    BY <1>9 DEF Tick
  <2>3. quiet' \in [Flows -> 0 .. Unused]
    BY <1>9 DEF Tick
  <2>4. /\ idle' \in [Flows -> Nat] /\ dying' = dying /\ entries' = entries
        /\ \A f \in Flows : f \notin entries => idle'[f] = 0
    BY <1>9 DEF Tick
  <2>5. sinceSweep' \in 0 .. SweepEvery
    BY <1>9 DEF Tick
  <2>6. /\ UNCHANGED <<caller, callKey, callFin, reader, readKey, readFin>>
        /\ UNCHANGED <<sweeping, closed, stray>>
    BY <1>9 DEF Tick
  <2> QED BY <2>1, <2>2, <2>3, <2>4, <2>5, <2>6
<1>10. CASE UNCHANGED vars
  BY <1>10 DEF vars, table, calls, reads, sweep, history
<1> QED BY <1>1, <1>2, <1>3, <1>4, <1>5, <1>6, <1>7, <1>8, <1>9, <1>10, <1>11 DEF Next

-----------------------------------------------------------------------------
(* Each step keeps the invariant.                                          *)

\* A packet of the client touches nothing until it is entered.
LEMMA FromTransportKeeps ==
    ASSUME IInv, NEW c \in Callers, FromTransport(c)
    PROVE  Kept'
BY Constants DEF IInv, TypeOK, FromTransport, table, reads, sweep, history,
   Kept, KnownWhenSent, UsedIsKept, Fresh, ReadFresh, Stamped, Marked, Swept, Timeout

\* Insert makes the entry at most MaxLate old, and new ones unmarked.
LEMMA InsertKeeps ==
    ASSUME IInv, NEW c \in Callers, CallerInserts(c)
    PROVE  Kept'
<1> USE Constants DEF IInv, Kept, TypeOK, CallerInserts, Insert, reads, sweep
<1> DEFINE f == callKey[c]
<1>1. /\ f \in Flows /\ entries' = entries \cup {f} /\ late' = late
      /\ late[c] \in Nat /\ late[c] <= MaxLate
      /\ idle' = [idle EXCEPT ![f] = late[c]] /\ dying' = dying /\ quiet' = quiet
      /\ callKey' = callKey
  OBVIOUS
<1>2. KnownWhenSent'
  BY DEF KnownWhenSent
<1>3. UsedIsKept'
  <2>1. ASSUME NEW g \in Flows, quiet'[g] <= Grace(closed'[g])
        PROVE  g \in entries' \cup stray'
    <3>1. CASE g = f
      BY <3>1, <1>1
    <3>2. CASE g # f
      <4>1. g \in entries \cup stray
        BY <2>1, <3>2, <1>1 DEF UsedIsKept
      <4> QED BY <3>2, <4>1, <1>1
    <3> QED BY <3>1, <3>2
  <2>2. ASSUME reader' # "ready", readKey' \notin entries'
        PROVE  quiet'[readKey'] > Grace(closed'[readKey'])
    <3>1. readKey' = readKey /\ reader' = reader /\ readKey # f /\ readKey \notin entries
      BY <2>2, <1>1
    <3>2. closed'[readKey] = closed[readKey] /\ quiet' = quiet
      BY <1>1, <3>1
    <3> QED BY <2>2, <3>1, <3>2 DEF UsedIsKept
  <2> QED BY <2>1, <2>2 DEF UsedIsKept
<1>4. Fresh' /\ ReadFresh'
  <2>1. Fresh'
    BY <1>1 DEF Fresh
  <2>2. ReadFresh'
    <3>1. reader' = reader /\ readKey' = readKey /\ readLate' = readLate /\ readLate \in Nat
      OBVIOUS
    <3>2. CASE readKey = f
      BY <1>1, <3>1, <3>2 DEF ReadFresh
    <3>3. CASE readKey # f
      BY <1>1, <3>1, <3>3 DEF ReadFresh
    <3> QED BY <3>2, <3>3
  <2> QED BY <2>1, <2>2
<1>5. Stamped'
  BY <1>1 DEF Stamped
<1>6. Marked'
  <2> SUFFICES ASSUME NEW g \in entries' PROVE dying'[g] = closed'[g]
    BY DEF Marked
  <2> QED BY <1>1 DEF Marked
<1>7. Swept'
  <2>1. ASSUME NEW g \in Flows PROVE Timeout(g)' = Timeout(g) /\ Closing <= Timeout(g) /\ Timeout(g) \in Nat
    BY <1>1 DEF Timeout
  <2> QED BY <1>1, <2>1 DEF Swept
<1> QED BY <1>2, <1>3, <1>4, <1>5, <1>6, <1>7

\* Touch of a closing packet finds its entry and makes it young and dying.
LEMMA CallerTouchKeeps ==
    ASSUME IInv, NEW c \in Callers, CallerTouches(c)
    PROVE  Kept'
<1> USE Constants DEF IInv, Kept, TypeOK
<1> DEFINE f == callKey[c]
<1>1. /\ f \in Flows /\ f \in entries /\ entries' = entries /\ late' = late /\ quiet' = quiet
      /\ idle' = [idle EXCEPT ![f] = 0] /\ callKey' = callKey /\ sweep' = sweep
      /\ dying' = [dying EXCEPT ![f] = TRUE] /\ closed' = [closed EXCEPT ![f] = TRUE]
      /\ caller' = [caller EXCEPT ![c] = "send"] /\ caller[c] = "touch"
      /\ reads' = reads /\ stray' = stray
  BY DEF CallerTouches, Touch, KnownWhenSent, sweep
<1>2. KnownWhenSent'
  BY <1>1 DEF KnownWhenSent
<1>3. UsedIsKept'
  <2>1. ASSUME NEW g \in Flows
        PROVE  /\ Grace(closed'[g]) <= Grace(closed[g])
               /\ Grace(closed[g]) \in Int /\ Grace(closed'[g]) \in Int
               /\ quiet'[g] = quiet[g] /\ quiet[g] \in Int
    BY <1>1 DEF Grace
  <2>2. reader' = reader /\ readKey' = readKey
    BY <1>1 DEF reads
  <2>3. ASSUME NEW g \in Flows, quiet'[g] <= Grace(closed'[g]) PROVE g \in entries \cup stray
    <3>1. quiet[g] <= Grace(closed[g])
      BY <2>1, <2>3
    <3> QED BY <3>1 DEF UsedIsKept
  <2>4. ASSUME reader # "ready", readKey \notin entries
        PROVE  quiet'[readKey] > Grace(closed'[readKey])
    <3>1. quiet[readKey] > Grace(closed[readKey]) /\ readKey \in Flows
      BY <2>4 DEF UsedIsKept
    <3> QED BY <2>1, <3>1
  <2> QED BY <1>1, <2>2, <2>3, <2>4 DEF UsedIsKept
<1>4. Fresh' /\ ReadFresh'
  <2>1. Fresh'
    BY <1>1 DEF Fresh
  <2>2. ReadFresh'
    BY <1>1 DEF ReadFresh, reads
  <2> QED BY <2>1, <2>2
<1>5. Stamped'
  BY <1>1 DEF Stamped
<1>6. Marked'
  BY <1>1 DEF Marked
<1>7. Swept'
  <2>1. ASSUME NEW g \in Flows, g # f PROVE Timeout(g)' = Timeout(g)
    BY <1>1, <2>1 DEF Timeout
  <2>2. Timeout(f)' = Closing
    BY <1>1 DEF Timeout
  <2> QED BY <1>1, <2>1, <2>2 DEF Swept, sweep
<1> QED BY <1>2, <1>3, <1>4, <1>5, <1>6, <1>7

\* The packet goes out while its entry is there, and no older than the
\* delays of two goroutines.
LEMMA TransmitKeeps ==
    ASSUME IInv, NEW c \in Callers, Transmit(c)
    PROVE  Kept'
<1> USE Constants DEF IInv, Kept, TypeOK
<1> DEFINE f == callKey[c]
<1>1. /\ f \in Flows /\ f \in entries /\ idle[f] <= late[c] + MaxLate /\ late[c] <= MaxLate
      /\ entries' = entries /\ idle' = idle /\ dying' = dying /\ closed' = closed
      /\ callKey' = callKey /\ quiet' = [quiet EXCEPT ![f] = 0] /\ sweep' = sweep
      /\ caller' = [caller EXCEPT ![c] = "ready"] /\ late' = [late EXCEPT ![c] = 0]
      /\ reads' = reads /\ stray' = stray
  BY DEF Transmit, table, KnownWhenSent, Fresh
<1>2. KnownWhenSent' /\ Fresh' /\ ReadFresh'
  BY <1>1 DEF KnownWhenSent, Fresh, ReadFresh, reads
<1>3. UsedIsKept'
  BY <1>1 DEF UsedIsKept, reads
<1>4. Stamped'
  BY <1>1 DEF Stamped
<1>5. Marked' /\ Swept'
  BY <1>1 DEF Marked, Swept, Timeout, sweep
<1> QED BY <1>2, <1>3, <1>4, <1>5

\* The reader's check changes nothing that the invariant speaks of.
LEMMA FromInternetKeeps ==
    ASSUME IInv, FromInternet
    PROVE  Kept'
BY DEF IInv, FromInternet, table, calls, sweep, history,
   Kept, KnownWhenSent, UsedIsKept, Fresh, ReadFresh, Stamped, Marked, Swept, Timeout

\* The reader's Touch finds the entry, or the sweeper was faster and nothing
\* but the history of the flow changes.
LEMMA ReaderTouchKeeps ==
    ASSUME IInv, ReaderTouches
    PROVE  Kept'
<1> USE Constants DEF IInv, Kept, TypeOK
<1> DEFINE f == readKey
<1>1. /\ f \in Flows /\ entries' = entries /\ calls' = calls /\ sweep' = sweep
      /\ closed' = [closed EXCEPT ![f] = @ \/ readFin]
      /\ quiet' = quiet /\ stray' = stray /\ readKey' = f
      /\ reader = "touch" /\ reader' = "forward" /\ readLate \in Nat
      /\ readLate' = readLate
  BY DEF ReaderTouches, Touch
<1>4. UsedIsKept'
  <2>1. ASSUME NEW g \in Flows
        PROVE  /\ Grace(closed'[g]) <= Grace(closed[g])
               /\ Grace(closed[g]) \in Int /\ Grace(closed'[g]) \in Int
               /\ quiet'[g] = quiet[g] /\ quiet[g] \in Int
    BY <1>1 DEF Grace
  <2> QED BY <1>1, <2>1 DEF UsedIsKept
<1>2. CASE f \notin entries
  <2>1. idle' = idle /\ dying' = dying
    BY <1>2 DEF ReaderTouches, Touch
  <2>2. KnownWhenSent' /\ Fresh' /\ ReadFresh' /\ Stamped'
    BY <1>1, <1>2, <2>1 DEF calls, KnownWhenSent, Fresh, ReadFresh, Stamped
  <2>4. Marked' /\ Swept'
    BY <1>1, <1>2, <2>1 DEF Marked, Swept, Timeout, sweep
  <2> QED BY <1>4, <2>2, <2>4
<1>3. CASE f \in entries
  <2>1. /\ idle' = [idle EXCEPT ![f] = 0]
        /\ dying' = [dying EXCEPT ![f] = @ \/ readFin]
    BY <1>3 DEF ReaderTouches, Touch
  <2>2. KnownWhenSent' /\ Fresh' /\ ReadFresh' /\ Stamped'
    BY <1>1, <2>1 DEF calls, KnownWhenSent, Fresh, ReadFresh, Stamped
  <2>4. Marked'
    BY <1>1, <2>1 DEF Marked
  <2>5. Swept'
    <3>1. ASSUME NEW g \in Flows, g # f PROVE Timeout(g)' = Timeout(g)
      BY <2>1, <3>1 DEF Timeout
    <3>2. ASSUME NEW g \in Flows PROVE Timeout(g)' \in Nat
      BY <2>1 DEF Timeout
    <3>0. idle'[f] = 0 /\ sinceSweep \in Nat
      BY <1>1, <2>1
    <3>3. SUFFICES ASSUME NEW g \in entries'
                   PROVE  idle'[g] <= Timeout(g)' + sinceSweep' + (IF sweeping' THEN SweepEvery ELSE 0)
      BY <1>1 DEF Swept, sweep
    <3>4. CASE g = f
      <4>1. (IF sweeping' THEN SweepEvery ELSE 0) \in Nat
        OBVIOUS
      <4>2. idle'[g] = 0 /\ Timeout(g)' \in Nat /\ sinceSweep' \in Nat
        BY <1>1, <3>0, <3>2, <3>4 DEF sweep
      <4> QED BY <4>1, <4>2
    <3>5. CASE g # f
      <4>1. idle'[g] = idle[g] /\ Timeout(g)' = Timeout(g) /\ sweeping' = sweeping /\ sinceSweep' = sinceSweep
        BY <1>1, <2>1, <3>1, <3>5 DEF sweep
      <4> QED BY <1>1, <4>1 DEF Swept
    <3> QED BY <3>4, <3>5
  <2> QED BY <1>4, <2>2, <2>4, <2>5
<1> QED BY <1>2, <1>3

\* The packet is forwarded: its entry is young, or there is none and the flow
\* is a stray.
LEMMA ReaderForwardKeeps ==
    ASSUME IInv, ReaderForwards
    PROVE  Kept'
<1> USE Constants DEF IInv, Kept, TypeOK
<1> DEFINE f == readKey
<1>1. /\ f \in Flows /\ entries' = entries /\ idle' = idle /\ dying' = dying
      /\ calls' = calls /\ sweep' = sweep /\ closed' = closed /\ reader' = "ready"
      /\ quiet' = [quiet EXCEPT ![f] = 0]
      /\ stray \subseteq stray' /\ f \in entries \cup stray'
      /\ f \in entries => idle[f] <= readLate + MaxLate
      /\ readLate \in Nat /\ readLate <= MaxLate
  BY DEF ReaderForwards, table, ReadFresh
<1>2. KnownWhenSent' /\ Fresh' /\ ReadFresh' /\ Marked' /\ Swept'
  BY <1>1 DEF calls, sweep, KnownWhenSent, Fresh, ReadFresh, Marked, Swept, Timeout
<1>3. UsedIsKept'
  <2> SUFFICES ASSUME NEW g \in Flows, quiet'[g] <= Grace(closed[g])
               PROVE  g \in entries \cup stray'
    BY <1>1 DEF UsedIsKept
  <2>1. CASE g = f
    BY <1>1, <2>1
  <2>2. CASE g # f
    BY <1>1, <2>2 DEF UsedIsKept
  <2> QED BY <2>1, <2>2
<1>4. Stamped'
  <2> SUFFICES ASSUME NEW g \in entries, quiet'[g] < Unused
               PROVE  idle[g] <= quiet'[g] + 2 * MaxLate
    BY <1>1 DEF Stamped
  <2>1. CASE g = f
    BY <1>1, <2>1
  <2>2. CASE g # f
    BY <1>1, <2>2 DEF Stamped
  <2> QED BY <2>1, <2>2
<1> QED BY <1>2, <1>3, <1>4

\* The ticker opens a new interval only when the last sweep is over.
LEMMA TickerKeeps ==
    ASSUME IInv, TickerFires
    PROVE  Kept'
<1> USE Constants DEF IInv, Kept, TypeOK, TickerFires, table, calls, reads, history
<1>1. KnownWhenSent' /\ UsedIsKept' /\ Fresh' /\ ReadFresh' /\ Stamped' /\ Marked'
  BY DEF KnownWhenSent, UsedIsKept, Fresh, ReadFresh, Stamped, Marked
<1>2. Swept'
  <2>1. ~sweeping /\ sweeping' /\ sinceSweep = SweepEvery /\ sinceSweep' = 0
    BY DEF Swept
  <2>2. SUFFICES ASSUME NEW f \in entries
                 PROVE  idle[f] <= Timeout(f)' + sinceSweep' + SweepEvery
    BY <2>1 DEF Swept
  <2>3. idle[f] <= Timeout(f) + SweepEvery /\ Timeout(f)' = Timeout(f) /\ Timeout(f) \in Nat
    BY <2>1 DEF Swept, Timeout
  <2> QED BY <2>1, <2>3
<1> QED BY <1>1, <1>2

\* The sweep spares what is fresh or in use, and what it leaves is young.
LEMMA SweepKeeps ==
    ASSUME IInv, Sweep
    PROVE  Kept'
<1> USE Constants DEF IInv, Kept, TypeOK
<1>1. /\ entries' = entries \ Expired /\ calls' = calls /\ sinceSweep' = sinceSweep
      /\ quiet' = quiet /\ closed' = closed /\ stray' = stray /\ reads' = reads /\ ~sweeping'
  BY DEF Sweep, history
<1>2. \A f \in entries' : f \in entries /\ f \notin Expired /\ idle'[f] = idle[f] /\ dying'[f] = dying[f]
  BY <1>1 DEF Sweep
<1>3. ASSUME NEW f \in Expired
      PROVE  f \in entries /\ idle[f] > Timeout(f) + sinceSweep /\ Timeout(f) \in Nat /\ Closing <= Timeout(f)
  BY <1>3 DEF Expired, Timeout
<1>4. KnownWhenSent' /\ Fresh'
  <2> SUFFICES ASSUME NEW c \in Callers, caller'[c] \in {"touch", "send"}
               PROVE  callKey'[c] \in entries' /\ idle'[callKey'[c]] <= late'[c] + MaxLate
    BY DEF KnownWhenSent, Fresh
  <2>1. /\ caller' = caller /\ callKey' = callKey /\ late' = late
        /\ callKey[c] \in entries /\ idle[callKey[c]] <= late[c] + MaxLate
    BY <1>1 DEF calls, KnownWhenSent, Fresh
  <2>2. callKey[c] \notin Expired
    BY <1>3, <2>1
  <2> QED BY <1>1, <1>2, <2>1, <2>2
<1>5. ASSUME NEW f \in Flows, f \in Expired PROVE quiet[f] > Grace(closed[f])
  <2> SUFFICES ASSUME quiet[f] <= Grace(closed[f]) PROVE FALSE
    <3>1. quiet[f] \in Int /\ Grace(closed[f]) \in Int
      BY DEF Grace
    <3> QED BY <3>1
  <2>1. f \in entries /\ idle[f] > Timeout(f) /\ Timeout(f) \in Nat
    BY <1>3, <1>5
  <2>2. Grace(closed[f]) = Timeout(f) - 2 * MaxLate /\ Timeout(f) <= Established
    BY <2>1 DEF Marked, Grace, Timeout
  <2>3. quiet[f] < Unused
    BY <2>1, <2>2 DEF Unused, Grace
  <2>4. idle[f] <= quiet[f] + 2 * MaxLate
    BY <2>1, <2>3 DEF Stamped
  <2> QED BY <2>1, <2>2, <2>4
<1>8. UsedIsKept'
  <2>1. ASSUME NEW f \in Flows
        PROVE  quiet[f] \in Int /\ Grace(closed[f]) \in Int
    BY DEF Grace
  <2>2. ASSUME NEW f \in Flows, quiet[f] <= Grace(closed[f]) PROVE f \in entries' \cup stray'
    BY <1>1, <1>5, <2>1, <2>2 DEF UsedIsKept
  <2>3. ASSUME reader # "ready", readKey \notin entries'
        PROVE  quiet[readKey] > Grace(closed[readKey])
    BY <1>1, <1>5, <2>3 DEF UsedIsKept
  <2> QED BY <1>1, <2>2, <2>3 DEF UsedIsKept, reads
<1>9. ReadFresh'
  BY <1>1, <1>2 DEF ReadFresh, reads
<1>6. Stamped' /\ Marked'
  BY <1>1, <1>2 DEF Stamped, Marked
<1>7. Swept'
  <2>1. ASSUME NEW f \in entries'
        PROVE  idle'[f] <= Timeout(f)' + sinceSweep' + (IF sweeping' THEN SweepEvery ELSE 0)
    <3>1. Timeout(f)' = Timeout(f) /\ Timeout(f) \in Nat
      BY <1>2 DEF Timeout
    <3>2. ~(idle[f] - sinceSweep > Timeout(f))
      BY <1>2 DEF Expired
    <3> QED BY <1>1, <1>2, <3>1, <3>2
  <2> QED BY <1>1, <2>1 DEF Swept
<1> QED BY <1>4, <1>6, <1>7, <1>8, <1>9

\* A tick ages entries, calls and flows alike.
LEMMA TickKeeps ==
    ASSUME IInv, Tick
    PROVE  Kept'
<1> USE Constants DEF IInv, Kept, TypeOK
<1>1. /\ entries' = entries /\ dying' = dying /\ closed' = closed /\ caller' = caller
      /\ callKey' = callKey /\ sweeping' = sweeping /\ sinceSweep' = sinceSweep + 1
      /\ \A f \in entries : idle'[f] = idle[f] + 1
      /\ \A f \in Flows : quiet'[f] = IF quiet[f] = Unused THEN Unused ELSE quiet[f] + 1
      /\ \A c \in Callers : caller[c] # "ready" => late'[c] = late[c] + 1
      /\ reader # "ready" => readLate' = readLate + 1
      /\ reader' = reader /\ readKey' = readKey /\ stray' = stray
  BY DEF Tick
<1>2. KnownWhenSent' /\ Fresh' /\ ReadFresh'
  <2>1. KnownWhenSent' /\ Fresh'
    BY <1>1 DEF KnownWhenSent, Fresh
  <2>2. ReadFresh'
    BY <1>1 DEF ReadFresh
  <2> QED BY <2>1, <2>2
<1>3. UsedIsKept'
  <2>1. ASSUME NEW f \in Flows
        PROVE  /\ quiet[f] <= quiet'[f] /\ quiet[f] \in Int /\ quiet'[f] \in Int
               /\ Grace(closed[f]) \in Int
    BY <1>1 DEF Grace
  <2>2. ASSUME NEW f \in Flows, quiet'[f] <= Grace(closed[f]) PROVE f \in entries \cup stray
    BY <2>1, <2>2 DEF UsedIsKept
  <2>3. ASSUME reader # "ready", readKey \notin entries
        PROVE  quiet'[readKey] > Grace(closed[readKey])
    BY <2>1, <2>3 DEF UsedIsKept
  <2> QED BY <1>1, <2>2, <2>3 DEF UsedIsKept
<1>4. Stamped' /\ Marked'
  BY <1>1 DEF Stamped, Marked
<1>5. Swept'
  <2>1. sweeping => sinceSweep < MaxLate
    BY DEF Tick
  <2>2. ASSUME NEW f \in entries PROVE Timeout(f)' = Timeout(f) /\ Timeout(f) \in Nat
    BY <1>1 DEF Timeout
  <2> QED BY <1>1, <2>1, <2>2 DEF Swept
<1> QED BY <1>2, <1>3, <1>4, <1>5

\* A step that changes nothing keeps the invariant.
LEMMA StutterKeeps ==
    ASSUME IInv, UNCHANGED vars
    PROVE  Kept'
BY DEF IInv, vars, table, calls, reads, sweep, history,
   Kept, KnownWhenSent, UsedIsKept, Fresh, ReadFresh, Stamped, Marked, Swept, Timeout

-----------------------------------------------------------------------------

\* The invariant is inductive: one lemma per step of a goroutine.
LEMMA IInvKept == IInv /\ [Next]_vars => IInv'
<1> SUFFICES ASSUME IInv, [Next]_vars PROVE IInv'
  OBVIOUS
<1>1. TypeOK'
  BY TypesKept DEF IInv
<1>2. Kept'
  BY FromTransportKeeps, InsertKeeps, CallerTouchKeeps, TransmitKeeps, FromInternetKeeps,
     ReaderTouchKeeps, ReaderForwardKeeps, TickerKeeps, SweepKeeps, TickKeeps, StutterKeeps DEF Next
<1> QED BY <1>1, <1>2 DEF IInv

\* The inductive invariant holds in every execution of the exit.
LEMMA Invariance == Spec => []IInv
BY InitHolds, IInvKept, PTL DEF Spec

\* The connection table, the handlers and the sweeper keep their types.
THEOREM L3Types == Spec => []TypeOK
<1>1. IInv => TypeOK
  BY DEF IInv
<1> QED BY <1>1, Invariance, PTL

\* A flow in use is in the table, whatever the goroutines do: the answer to
\* a packet of the client finds its entry (handleFromTransport, sweep).
THEOREM UsedStays == Spec => []UsedIsKept
<1>1. IInv => UsedIsKept
  BY DEF IInv, Kept
<1> QED BY <1>1, Invariance, PTL

\* The entry made for a packet is there when the packet goes out.
THEOREM SentIsKnown == Spec => []KnownWhenSent
<1>1. IInv => KnownWhenSent
  BY DEF IInv, Kept
<1> QED BY <1>1, Invariance, PTL

\* No entry outlives its timeout by more than a sweep interval and a delay.
THEOREM UnusedGoes == Spec => []Expires
<1>1. IInv => Expires
  <2> SUFFICES ASSUME IInv, NEW f \in entries PROVE idle[f] <= Timeout(f) + SweepEvery + MaxLate
    BY DEF Expires
  <2>1. /\ f \in Flows /\ idle[f] \in Nat /\ sinceSweep \in 0 .. SweepEvery
        /\ sweeping => sinceSweep <= MaxLate
        /\ idle[f] <= Timeout(f) + sinceSweep + (IF sweeping THEN SweepEvery ELSE 0)
    BY DEF IInv, Kept, TypeOK, Swept
  <2>2. Timeout(f) \in Nat
    BY <2>1, TimeoutBound
  <2> QED BY <2>1, <2>2, Constants DEF IInv, TypeOK
<1> QED BY <1>1, Invariance, PTL

\* Only the Insert of a packet of the client adds an entry; the reader's
\* Touch never does, and Expires bounds how long it can prolong one.
THEOREM OnlyClientOpens == Spec => ClientOpens
<1> DEFINE Opens == \A f \in entries' \ entries :
                      \E c \in Callers : caller[c] = "insert" /\ callKey[c] = f /\ caller'[c] # "insert"
<1>1. ASSUME TypeOK, [Next]_vars PROVE [Opens]_vars
  <2>1. ASSUME NEW c \in Callers, CallerInserts(c) PROVE Opens
    BY <1>1, <2>1 DEF CallerInserts, Insert, TypeOK
  <2>2. ASSUME ~\E c \in Callers : CallerInserts(c) PROVE Opens
    <3>1. entries' \subseteq entries
      BY <1>1, <2>2 DEF Next, vars, table, FromTransport, CallerTouches, Transmit, FromInternet,
         ReaderTouches, ReaderForwards, Touch, TickerFires, Sweep, Tick
    <3> QED BY <3>1
  <2> QED BY <2>1, <2>2
<1> QED BY <1>1, L3Types, PTL DEF Spec, ClientOpens

=============================================================================
