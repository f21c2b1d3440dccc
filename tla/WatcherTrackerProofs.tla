----------------------- MODULE WatcherTrackerProofs -----------------------
(***************************************************************************)
(* What holds of the watcher for any watch tree, any number of archives    *)
(* and timer threads, and any sequence of events.                          *)
(***************************************************************************)
EXTENDS WatcherTracker, FiniteSetTheorems, TLAPS

Quiet == {"idle", "settleFired", "retryFired"}
UnitLabels ==
    {"listing", "relisting", "capturing", "probing", "verifying", "claiming",
     "holding", "scheduling", "leaving"} \cup Claiming
MainLabels == {"idle", "admitting", "returning"} \cup UnitLabels
InCallback == {t \in TimerThreads : pc[t] \notin Quiet}
InUnit == {t \in Threads : pc[t] \in UnitLabels}

\* A working thread has a directory, and a renamed one once the pass knows it.
Placed ==
    \A t \in Threads :
        /\ pc[t] # "idle" => at[t] \in Dirs
        /\ pc[t] \in Importing \ {"renaming"} => now[t] \in Dirs

\* The two counters count what close() waits for.
Counted ==
    /\ callbacks = Cardinality(InCallback)
    /\ admitted = Cardinality(InUnit)

\* The main thread works only during startup and never in a callback; from
\* close() on the tracker stays closed, and after the drain nothing is in a
\* callback.
Closing ==
    /\ pc[Main] \in MainLabels
    /\ session # "discovering" => pc[Main] = "idle"
    /\ session \in {"draining", "released"} => closed
    /\ session = "released" => callbacks = 0

IInv == TypeOK /\ Placed /\ Counted /\ Closing

-----------------------------------------------------------------------------
LEMMA ThreadsFinite ==
  /\ IsFiniteSet(Threads)
  /\ \A S : S \subseteq TimerThreads \/ S \subseteq Threads
            => IsFiniteSet(S) /\ Cardinality(S) \in Nat
<1>1. IsFiniteSet(TimerThreads) /\ Threads = TimerThreads \cup {Main}
  BY WatcherAssumption DEF Threads
<1>2. IsFiniteSet(Threads)
  BY <1>1, FS_AddElement
<1>3. ASSUME NEW S, S \subseteq TimerThreads \/ S \subseteq Threads
      PROVE  IsFiniteSet(S) /\ Cardinality(S) \in Nat
  BY <1>1, <1>2, <1>3, FS_Subset, FS_CardinalityType
<1> QED
  BY <1>2, <1>3

\* A step of one thread that leaves the counters alone and moves the thread
\* neither into nor out of a callback or a directory unit.
Keeps(t) ==
    /\ UNCHANGED <<callbacks, admitted, session>>
    /\ closed => closed'
    /\ \E l \in Labels :
          /\ pc' = [pc EXCEPT ![t] = l]
          /\ t # Main => (pc[t] \in Quiet <=> l \in Quiet)
          /\ t = Main => pc[t] # "idle" /\ l \in MainLabels
          /\ pc[t] \in UnitLabels <=> l \in UnitLabels

LEMMA KeepsCounted ==
  ASSUME TypeOK, Counted, Closing, NEW t \in Threads, Keeps(t)
  PROVE  Counted' /\ Closing'
<1>1. InCallback' = InCallback
  BY WatcherAssumption DEF Keeps, TypeOK, InCallback, Threads
<1>2. InUnit' = InUnit
  BY DEF Keeps, TypeOK, InUnit
<1>3. Closing'
  BY WatcherAssumption DEF Keeps, TypeOK, Closing, Threads
<1> QED
  BY <1>1, <1>2, <1>3 DEF Keeps, Counted

LEMMA SamePcCounted ==
  ASSUME Counted, UNCHANGED <<callbacks, admitted, pc>>
  PROVE  Counted'
<1> QED
  BY DEF Counted, InCallback, InUnit

LEMMA InitInv == Init => IInv
<1> SUFFICES ASSUME Init PROVE IInv
  OBVIOUS
<1>1. TypeOK
  <2>1. home \in [Archives -> Dirs] /\ aged \subseteq Dirs /\ todo \subseteq Dirs
    BY WatcherAssumption DEF Init
  <2>2. state \in [Archives -> {"away", "partial", "ready", "landed", "held"}]
    BY DEF Init
  <2>3. changes \in 0 .. MaxChanges
    BY WatcherAssumption DEF Init
  <2>4. pc \in [Threads -> Labels]
    BY DEF Init, Labels
  <2> QED
    BY <2>1, <2>2, <2>3, <2>4 DEF Init, TypeOK
<1>2. Placed
  BY DEF Init, Placed, Importing
<1>3. InCallback = {} /\ InUnit = {}
  BY WatcherAssumption
     DEF Init, InCallback, InUnit, Threads, Quiet, UnitLabels, Claiming, Importing, Holding
<1>4. Counted
  BY <1>3, FS_EmptySet DEF Init, Counted
<1>5. Closing
  BY DEF Init, Closing, Threads, MainLabels
<1> QED
  BY <1>1, <1>2, <1>4, <1>5 DEF IInv

-----------------------------------------------------------------------------
\* Every step of a thread but the three that count moves it within a
\* callback and within a directory unit.
Uncounted(t) == Step(t) /\ ~Invoke(t) /\ ~Admit(t) /\ ~Leave(t)

LEMMA UncountedKeeps ==
  ASSUME TypeOK, Closing, NEW t \in Threads, Uncounted(t)
  PROVE  Keeps(t)
<1> USE DEF Keeps, Goto, Labels, Quiet, MainLabels, UnitLabels, Claiming, Importing, Holding,
            tracker, timers, counters, world
<1>0. /\ pc \in [Threads -> Labels]
      /\ t = Main => pc[t] \in MainLabels
  BY DEF TypeOK, Closing
<1>1. CASE PopTimer(t)
  BY <1>0, <1>1 DEF PopTimer
<1>2. CASE WaitForAge(t)
  BY <1>0, <1>2 DEF WaitForAge, Latch
<1>3. CASE RetryCallback(t)
  BY <1>0, <1>3 DEF RetryCallback
<1>4. CASE Dispatch(t)
  BY <1>0, <1>4 DEF Dispatch
<1>5. CASE Guard(t)
  BY <1>0, <1>5 DEF Guard
<1>6. CASE List(t)
  BY <1>0, <1>6 DEF List
<1>7. CASE Capture(t)
  BY <1>0, <1>7 DEF Capture
<1>8. CASE Probe(t)
  BY <1>0, <1>8 DEF Probe
<1>9. CASE Verify(t)
  BY <1>0, <1>9 DEF Verify
<1>10. CASE Schedule(t)
  BY <1>0, <1>10 DEF Schedule, Latch
<1>11. CASE Claim(t)
  BY <1>0, <1>11 DEF Claim
<1>12. CASE Rename(t)
  BY <1>0, <1>12 DEF Rename
<1>13. CASE Relabel(t)
  BY <1>0, <1>13 DEF Relabel
<1>14. CASE Scan(t)
  BY <1>0, <1>14 DEF Scan
<1>15. CASE \E c \in Dirs : Land(t, c)
  <2>1. PICK c \in Dirs : Land(t, c)
    BY <1>15
  <2>2. /\ pc[t] = "landing" /\ UNCHANGED <<callbacks, admitted, session, closed>>
        /\ \E l \in {"unclaiming", "landing"} : pc' = [pc EXCEPT ![t] = l]
    BY <2>1 DEF Land
  <2> QED
    BY <1>0, <2>2
<1>16. CASE Abort(t)
  BY <1>0, <1>16 DEF Abort
<1>17. CASE Unclaim(t)
  BY <1>0, <1>17 DEF Unclaim
<1>18. CASE HoldClaim(t)
  BY <1>0, <1>18 DEF HoldClaim
<1>19. CASE \E a \in Archives : Consider(t, a) \/ Commit(t, a) \/ CommitFails(t, a)
  BY <1>0, <1>19 DEF Consider, Commit, CommitFails
<1>20. CASE HoldsDone(t)
  BY <1>0, <1>20 DEF HoldsDone
<1>21. CASE HoldRelease(t)
  BY <1>0, <1>21 DEF HoldRelease
<1> QED
  BY <1>1, <1>2, <1>3, <1>4, <1>5, <1>6, <1>7, <1>8, <1>9, <1>10, <1>11, <1>12, <1>13,
     <1>14, <1>15, <1>16, <1>17, <1>18, <1>19, <1>20, <1>21
     DEF Uncounted, Step, Callback, Gate, Pass, Hold

\* A callback is counted as it leaves the tracker lock, a unit as it is
\* admitted, and each is given back once.
LEMMA InvokeCounts ==
  ASSUME TypeOK, Counted, Closing, NEW t \in Threads, Invoke(t)
  PROVE  Counted' /\ Closing'
<1> USE DEF Goto, Labels, Quiet, MainLabels, UnitLabels, Claiming, Importing, Holding,
            tracker, timers, counters, world
<1>1. pc[t] \in {"settleFired", "retryFired"} /\ t # Main /\ t \in TimerThreads
  BY DEF Invoke, Closing, Threads
<1>2. CASE Latch /\ Rest(t) /\ UNCHANGED counters
  <2>1. Keeps(t)
    BY <1>1, <1>2 DEF Invoke, Keeps, Latch, Rest
  <2> QED
    BY <2>1, KeepsCounted
<1>3. CASE ~closed /\ ~(Latch /\ Rest(t) /\ UNCHANGED counters)
  <2>1. /\ callbacks' = callbacks + 1 /\ UNCHANGED <<admitted, session, closed>>
        /\ \E l \in {"settled", "retrying"} : pc' = [pc EXCEPT ![t] = l]
    BY <1>1, <1>3 DEF Invoke
  <2>2. InCallback' = InCallback \cup {t} /\ t \notin InCallback
    BY <1>1, <2>1, WatcherAssumption DEF TypeOK, InCallback, Threads
  <2>3. InUnit' = InUnit
    BY <1>1, <2>1 DEF TypeOK, InUnit
  <2>4. IsFiniteSet(InCallback)
    BY ThreadsFinite DEF InCallback
  <2>5. Cardinality(InCallback') = Cardinality(InCallback) + 1
    BY <2>2, <2>4, FS_AddElement
  <2>6. Counted'
    BY <2>1, <2>3, <2>5 DEF Counted
  <2>7. Closing'
    BY <1>1, <1>3, <2>1, WatcherAssumption DEF Closing, TypeOK, Threads
  <2> QED
    BY <2>6, <2>7
<1> QED
  BY <1>2, <1>3 DEF Invoke

LEMMA AdmitCounts ==
  ASSUME TypeOK, Counted, Closing, NEW t \in Threads, Admit(t)
  PROVE  Counted' /\ Closing'
<1> USE DEF Goto, Labels, Quiet, MainLabels, UnitLabels, Claiming, Importing, Holding,
            tracker, timers, counters, world
<1>1. CASE Latch /\ Goto(t, "returning") /\ UNCHANGED admitted
  <2>1. Keeps(t)
    BY <1>1 DEF Admit, Keeps, Latch, Closing
  <2> QED
    BY <2>1, KeepsCounted
<1>2. CASE ~closed /\ admitted' = admitted + 1 /\ Goto(t, "listing") /\ UNCHANGED tracker
  <2>1. /\ UNCHANGED <<callbacks, session, closed>>
        /\ pc[t] = "admitting" /\ pc' = [pc EXCEPT ![t] = "listing"]
    BY <1>2 DEF Admit
  <2>2. InUnit' = InUnit \cup {t} /\ t \notin InUnit
    BY <2>1 DEF TypeOK, InUnit
  <2>3. InCallback' = InCallback
    BY <2>1, WatcherAssumption DEF TypeOK, InCallback, Threads
  <2>4. IsFiniteSet(InUnit)
    BY ThreadsFinite DEF InUnit
  <2>5. Cardinality(InUnit') = Cardinality(InUnit) + 1
    BY <2>2, <2>4, FS_AddElement
  <2>6. Counted'
    BY <1>2, <2>1, <2>3, <2>5 DEF Counted
  <2>7. Closing'
    BY <1>2, <2>1, WatcherAssumption DEF Closing, TypeOK, Threads
  <2> QED
    BY <2>6, <2>7
<1> QED
  BY <1>1, <1>2 DEF Admit

LEMMA LeaveCounts ==
  ASSUME TypeOK, Counted, Closing, NEW t \in Threads, Leave(t)
  PROVE  /\ callbacks' \in Nat /\ admitted' \in Nat
         /\ Counted' /\ Closing'
<1> USE DEF Goto, Labels, Quiet, MainLabels, UnitLabels, Claiming, Importing, Holding,
            tracker, timers, counters, world
<1>1. /\ pc[t] \in {"leaving", "returning"} /\ pc' = [pc EXCEPT ![t] = "idle"]
      /\ UNCHANGED <<session, closed>>
  BY DEF Leave, Rest
<1>2. IsFiniteSet(InUnit) /\ IsFiniteSet(InCallback) /\ Cardinality(InUnit) \in Nat
      /\ Cardinality(InCallback) \in Nat
  BY ThreadsFinite DEF InUnit, InCallback
<1>3. admitted' = Cardinality(InUnit') /\ admitted' \in Nat
  <2>1. CASE pc[t] = "leaving"
    <3>1. InUnit' = InUnit \ {t} /\ t \in InUnit
      BY <1>1, <2>1 DEF TypeOK, InUnit
    <3>2. Cardinality(InUnit') = Cardinality(InUnit) - 1 /\ IsFiniteSet(InUnit')
      BY <1>2, <3>1, FS_RemoveElement
    <3>3. Cardinality(InUnit') \in Nat
      BY <3>2, FS_CardinalityType
    <3> QED
      BY <2>1, <3>2, <3>3 DEF Leave, Counted
  <2>2. CASE pc[t] = "returning"
    <3>1. InUnit' = InUnit
      BY <1>1, <2>2 DEF TypeOK, InUnit
    <3> QED
      BY <1>2, <2>2, <3>1 DEF Leave, Counted
  <2> QED
    BY <1>1, <2>1, <2>2
<1>4. callbacks' = Cardinality(InCallback') /\ callbacks' \in Nat /\ callbacks' <= callbacks
  <2>1. CASE t # Main
    <3>1. InCallback' = InCallback \ {t} /\ t \in InCallback
      BY <1>1, <2>1, WatcherAssumption DEF TypeOK, InCallback, Threads
    <3>2. Cardinality(InCallback') = Cardinality(InCallback) - 1 /\ IsFiniteSet(InCallback')
      BY <1>2, <3>1, FS_RemoveElement
    <3>3. Cardinality(InCallback') \in Nat
      BY <3>2, FS_CardinalityType
    <3> QED
      BY <1>2, <2>1, <3>2, <3>3 DEF Leave, Counted
  <2>2. CASE t = Main
    <3>1. InCallback' = InCallback
      BY <1>1, <2>2, WatcherAssumption DEF TypeOK, InCallback, Threads
    <3> QED
      BY <1>2, <2>2, <3>1 DEF Leave, Counted
  <2> QED
    BY <2>1, <2>2
<1>5. Closing'
  BY <1>1, <1>4, WatcherAssumption DEF Closing, TypeOK, Threads
<1> QED
  BY <1>3, <1>4, <1>5 DEF Counted

LEMMA StepCounted ==
  ASSUME TypeOK, Counted, Closing, NEW t \in Threads, Step(t)
  PROVE  Counted' /\ Closing'
<1> QED
  BY InvokeCounts, AdmitCounts, LeaveCounts, UncountedKeeps, KeepsCounted DEF Uncounted

\* The helpers that write a table keep its type.
TimersTyped ==
    /\ settle \in [Dirs -> {"none", "armed", "fired"}]
    /\ stray \in [Dirs -> Nat]
    /\ retry \in [Dirs -> {"none", "armed", "fired"}]
    /\ closed \in BOOLEAN /\ latched \in BOOLEAN

ExcusedTyped == excused \in [Archives -> SUBSET {"startup", "pass", "hold", "deferred"}]

LEMMA LatchTyped ==
  ASSUME TypeOK, Latch
  PROVE  TimersTyped' /\ closed'
<1>1. /\ closed' = TRUE /\ latched' = (latched \/ ~closed) /\ stray' = stray
      /\ settle' = [d \in Dirs |-> "none"] /\ retry' = [d \in Dirs |-> "none"]
  BY DEF Latch
<1>2. settle' \in [Dirs -> {"none", "armed", "fired"}]
  BY <1>1
<1>3. retry' \in [Dirs -> {"none", "armed", "fired"}]
  BY <1>1
<1>4. latched' \in BOOLEAN
  BY <1>1, Zenon DEF TypeOK
<1> QED
  BY <1>1, <1>2, <1>3, <1>4 DEF TypeOK, TimersTyped

LEMMA SupersedeTyped ==
  ASSUME NEW d, NEW f, Supersede(d, f), f \in [Threads -> BOOLEAN]
  PROVE  fresh' \in [Threads -> BOOLEAN]
<1> QED
  BY Zenon DEF Supersede

LEMMA ExcuseTyped ==
  ASSUME TypeOK, NEW lost, NEW cause \in {"startup", "pass", "hold", "deferred"},
         Excuse(lost, cause)
  PROVE  ExcusedTyped'
<1>1. \A a \in Archives :
        (IF a \in lost THEN excused[a] \cup {cause} ELSE excused[a])
            \in SUBSET {"startup", "pass", "hold", "deferred"}
  BY DEF TypeOK
<1> QED
  BY <1>1 DEF Excuse, ExcusedTyped

LEMMA CauseTyped == \A claims : Cause(claims) \in {"startup", "pass", "hold", "deferred"}
  BY DEF Cause

\* Users, time, the observer and the main thread's session move no thread's label,
\* except that startup sends the main thread to the gate and a timer its own.
LEMMA EnvironmentStep ==
  ASSUME IInv, User \/ RequestStop \/ Interrupt \/ Notify
               \/ (\E d \in Dirs : Ages(d) \/ Deliver(d))
               \/ (\E a \in Archives : Expire(a))
  PROVE  IInv'
<1> USE WatcherAssumption
    DEF IInv, tree, observer, timers, tracker, counters, world, threads
<1>1. CASE User
  <2>1. PICK a \in Archives :
           (\E new \in {"partial", "ready"} : Arrive(a, new) \/ Write(a, new)) \/ Withdraw(a)
    BY <1>1 DEF User
  <2>2. /\ UNCHANGED <<tracker, counters, processing, world, pc, threads, handling>>
        /\ changes < MaxChanges /\ changes' = changes + 1
        /\ \E new \in {"away", "partial", "ready"} : state' = [state EXCEPT ![a] = new]
        /\ budget' = [budget EXCEPT ![a] = IF @ = "none" THEN @ ELSE "changed"]
    BY <2>1 DEF Arrive, Write, Withdraw, Change
  <2>3. /\ home' = home \/ home' = [home EXCEPT ![a] = Home[a]]
        /\ aged' \subseteq aged
    BY <2>1 DEF Arrive, Write, Withdraw
  <2>4. pending' \subseteq Dirs /\ ExcusedTyped'
    <3>1. ASSUME NEW d \in Dirs, Announce(a, d) PROVE pending' \subseteq Dirs /\ ExcusedTyped'
      BY <3>1, ExcuseTyped DEF Announce, TypeOK, ExcusedTyped
    <3>2. Home[a] \in Dirs /\ home[a] \in Dirs
      BY DEF TypeOK
    <3> QED
      BY <2>1, <3>1, <3>2 DEF Arrive, Write, Withdraw, TypeOK, ExcusedTyped
  <2>6. changes' \in 0 .. MaxChanges
    BY <2>2 DEF TypeOK
  <2>7. TypeOK'
    <3>1. state' \in [Archives -> {"away", "partial", "ready", "landed", "held"}]
      BY <2>2 DEF TypeOK
    <3>2. budget' \in [Archives -> {"none", "counting", "expired", "changed"}]
      BY <2>2 DEF TypeOK
    <3>3. home' \in [Archives -> Dirs] /\ aged' \subseteq Dirs
      BY <2>3 DEF TypeOK
    <3> QED
      BY <2>2, <2>4, <2>6, <3>1, <3>2, <3>3 DEF TypeOK, ExcusedTyped
  <2>5. Placed' /\ Closing'
    BY <2>2 DEF Placed, Closing
  <2> QED
    BY <2>2, <2>5, <2>7, SamePcCounted
<1>2. CASE RequestStop \/ Interrupt
  <2>1. TypeOK'
    <3>1. /\ UNCHANGED <<tree, budget, observer, tracker, counters, processing, todo, pc,
                         threads, excused>>
          /\ stopFile' \in BOOLEAN
          /\ session' \in {session, "stopping"}
      BY <1>2 DEF RequestStop, Interrupt, TypeOK
    <3> QED
      BY <3>1 DEF TypeOK
  <2>2. Placed' /\ Closing' /\ UNCHANGED <<callbacks, admitted, pc>>
    BY <1>2 DEF RequestStop, Interrupt, Placed, Closing
  <2> QED
    BY <2>1, <2>2, SamePcCounted
<1>3. CASE Notify
  <2>1. /\ UNCHANGED <<tree, budget, pending, counters, processing, world, pc, at,
                       now, files, moved, probed>>
        /\ handling' = NoDir /\ handling # NoDir
    BY <1>3 DEF Notify
  <2>2. TimersTyped' /\ (closed => closed') /\ fresh' \in [Threads -> BOOLEAN] /\ ExcusedTyped'
    <3>1. CASE Latch /\ UNCHANGED <<fresh, excused>>
      BY <3>1, LatchTyped DEF TypeOK, ExcusedTyped
    <3>2. CASE ~(Latch /\ UNCHANGED <<fresh, excused>>)
      <4>1. /\ handling \in Dirs /\ UNCHANGED <<stray, closed, latched>>
            /\ settle' = [settle EXCEPT ![handling] = "armed"]
            /\ retry' = [retry EXCEPT ![handling] = "none"]
            /\ Supersede(handling, fresh)
            /\ excused' = [a \in Archives |-> IF home[a] = handling THEN {} ELSE excused[a]]
        BY <1>3, <3>2 DEF Notify, TypeOK
      <4>2. TimersTyped'
        BY <4>1 DEF TypeOK, TimersTyped
      <4>3. fresh' \in [Threads -> BOOLEAN]
        BY <4>1, SupersedeTyped DEF TypeOK
      <4>4. ExcusedTyped'
        BY <4>1 DEF TypeOK, ExcusedTyped
      <4> QED
        BY <4>1, <4>2, <4>3, <4>4
    <3> QED
      BY <3>1, <3>2
  <2>3. TypeOK'
    BY <2>1, <2>2 DEF TypeOK, TimersTyped, ExcusedTyped
  <2>4. Placed' /\ Closing'
    BY <2>1, <2>2 DEF Placed, Closing
  <2> QED
    BY <2>1, <2>3, <2>4, SamePcCounted
<1>4. CASE \E d \in Dirs : Ages(d) \/ Deliver(d)
  <2>1. TypeOK'
    <3>1. /\ UNCHANGED <<home, state, changes, budget, tracker, counters, processing,
                         world, pc, threads>>
          /\ aged' \subseteq Dirs /\ pending' \subseteq Dirs /\ handling' \in Dirs \cup {NoDir}
      BY <1>4 DEF Ages, Deliver, TypeOK
    <3>2. ExcusedTyped'
      BY <1>4, ExcuseTyped, CauseTyped, SMTT(30) DEF Ages, Deliver, TypeOK, ExcusedTyped
    <3> QED
      BY <3>1, <3>2 DEF TypeOK, ExcusedTyped
  <2>2. Placed' /\ Closing' /\ UNCHANGED <<callbacks, admitted, pc>>
    BY <1>4 DEF Ages, Deliver, Placed, Closing
  <2> QED
    BY <2>1, <2>2, SamePcCounted
<1>5. CASE \E a \in Archives : Expire(a)
  <2>1. TypeOK'
    BY <1>5 DEF Expire, TypeOK
  <2>2. Placed' /\ Closing' /\ UNCHANGED <<callbacks, admitted, pc>>
    BY <1>5 DEF Expire, Placed, Closing
  <2> QED
    BY <2>1, <2>2, SamePcCounted
<1> QED
  BY <1>1, <1>2, <1>3, <1>4, <1>5

LEMMA SessionStep ==
  ASSUME IInv, Session
  PROVE  IInv'
<1> USE WatcherAssumption
    DEF IInv, tree, observer, timers, tracker, counters, world, threads
<1>1. CASE \E d \in Dirs : Discover(d)
  <2>1. PICK d \in Dirs : Discover(d)
    BY <1>1
  <2>2. /\ UNCHANGED <<callbacks, admitted, session, closed>>
        /\ session = "discovering" /\ Main \in Threads /\ pc[Main] = "idle"
        /\ pc' = pc \/ pc' = [pc EXCEPT ![Main] = "admitting"]
    BY <2>1 DEF Discover, Goto, Threads
  <2>3. TypeOK'
    BY <2>1 DEF Discover, Goto, TypeOK, Labels, Threads
  <2>4. Placed'
    BY <2>1 DEF Discover, Goto, Placed, TypeOK, Importing
  <2>5. InCallback' = InCallback /\ InUnit' = InUnit
    BY <2>2 DEF InCallback, InUnit, TypeOK, Quiet, UnitLabels, Claiming, Importing, Holding,
                Threads
  <2>6. Closing'
    BY <2>2 DEF Closing, TypeOK, MainLabels
  <2> QED
    BY <2>2, <2>3, <2>4, <2>5, <2>6 DEF Counted
<1>2. CASE StartObserver \/ StopObserver \/ Release
  <2>1. TypeOK'
    BY <1>2 DEF StartObserver, StopObserver, Release, TypeOK
  <2>2. Placed' /\ Closing' /\ UNCHANGED <<callbacks, admitted, pc>>
    BY <1>2 DEF StartObserver, StopObserver, Release, Placed, Closing
  <2> QED
    BY <2>1, <2>2, SamePcCounted
<1>3. CASE SeeStop \/ Close
  <2>1. TypeOK'
    <3>1. TimersTyped'
      <4>1. CASE SeeStop
        BY <4>1, LatchTyped DEF SeeStop
      <4>2. CASE Close
        <5>1. /\ settle' = [d \in Dirs |-> "none"] /\ retry' = [d \in Dirs |-> "none"]
              /\ closed' = TRUE /\ UNCHANGED <<stray, latched>>
          BY <4>2 DEF Close
        <5>2. settle' \in [Dirs -> {"none", "armed", "fired"}]
          BY <5>1
        <5>3. retry' \in [Dirs -> {"none", "armed", "fired"}]
          BY <5>1
        <5> QED
          BY <5>1, <5>2, <5>3 DEF TypeOK, TimersTyped
      <4> QED
        BY <1>3, <4>1, <4>2
    <3>2. /\ UNCHANGED <<tree, budget, observer, counters, processing, stopFile, todo, pc,
                         threads, excused>>
          /\ session' \in {"stopping", "closing", "draining"}
      BY <1>3 DEF SeeStop, Close
    <3> QED
      BY <3>1, <3>2 DEF TypeOK, TimersTyped
  <2>2. Placed' /\ Closing' /\ UNCHANGED <<callbacks, admitted, pc>>
    BY <1>3 DEF SeeStop, Close, Latch, Placed, Closing
  <2> QED
    BY <2>1, <2>2, SamePcCounted
<1> QED
  BY <1>1, <1>2, <1>3 DEF Session

LEMMA FireStep ==
  ASSUME IInv, NEW t \in TimerThreads, NEW d \in Dirs, Fire(t, d)
  PROVE  IInv'
<1> USE WatcherAssumption
    DEF IInv, tree, observer, timers, tracker, counters, world, threads
<1>1. /\ t \in Threads /\ t # Main /\ pc[t] = "idle"
      /\ \E l \in {"settleFired", "retryFired"} : pc' = [pc EXCEPT ![t] = l]
      /\ at' = [at EXCEPT ![t] = d]
      /\ UNCHANGED <<callbacks, admitted, session, closed, now>>
  BY DEF Fire, Goto, Threads
<1>2. TypeOK'
  <2>1. TimersTyped' /\ fresh' \in [Threads -> BOOLEAN]
    <3>1. CASE settle' = [settle EXCEPT ![d] = "fired"] /\ UNCHANGED <<stray, retry, fresh>>
      BY <1>1, <3>1 DEF Fire, TypeOK, TimersTyped
    <3>2. CASE stray[d] > 0 /\ stray' = [stray EXCEPT ![d] = @ - 1]
               /\ UNCHANGED <<settle, retry, fresh>>
      BY <1>1, <3>2 DEF Fire, TypeOK, TimersTyped
    <3>3. CASE retry' = [retry EXCEPT ![d] = "fired"] /\ UNCHANGED <<settle, stray>>
               /\ fresh' = [fresh EXCEPT ![t] = TRUE]
      BY <1>1, <3>3 DEF Fire, TypeOK, TimersTyped
    <3> QED
      BY <3>1, <3>2, <3>3 DEF Fire
  <2>2. pc' \in [Threads -> Labels] /\ at' \in [Threads -> Dirs \cup {NoDir}]
    BY <1>1 DEF TypeOK, Labels
  <2> QED
    BY <2>1, <2>2 DEF Fire, TypeOK, TimersTyped
<1>3. Placed'
  BY <1>1 DEF Placed, TypeOK, Importing
<1>4. InCallback' = InCallback /\ InUnit' = InUnit
  BY <1>1 DEF InCallback, InUnit, TypeOK, Quiet, UnitLabels, Claiming, Importing, Holding
<1>5. Closing'
  BY <1>1 DEF Closing, TypeOK, Threads
<1> QED
  BY <1>1, <1>2, <1>3, <1>4, <1>5 DEF Counted

\* A thread that goes on keeps its directory, and one that rests forgets it.
Advances(t) ==
    /\ pc[t] # "idle"
    /\ \E l \in Labels :
          /\ pc' = [pc EXCEPT ![t] = l]
          /\ l \in Importing \ {"renaming"} => pc[t] \in Importing \ {"renaming"}
    /\ UNCHANGED <<at, now>>

Rests(t) ==
    /\ pc' = [pc EXCEPT ![t] = "idle"]
    /\ at' = [at EXCEPT ![t] = NoDir]
    /\ now' = [now EXCEPT ![t] = NoDir]

LEMMA StepAdvances ==
  ASSUME pc \in [Threads -> Labels], NEW t \in Threads, Step(t), ~Rename(t)
  PROVE  Advances(t) \/ Rests(t)
<1> USE DEF Advances, Goto, Labels, Claiming, Importing, Holding, threads
<1>1. CASE Invoke(t)
  BY <1>1 DEF Invoke, Rest, Rests
<1>2. CASE PopTimer(t)
  BY <1>2 DEF PopTimer
<1>3. CASE WaitForAge(t)
  BY <1>3 DEF WaitForAge
<1>4. CASE RetryCallback(t)
  BY <1>4 DEF RetryCallback
<1>5. CASE Dispatch(t)
  BY <1>5 DEF Dispatch
<1>6. CASE Guard(t)
  BY <1>6 DEF Guard
<1>7. CASE Admit(t)
  BY <1>7 DEF Admit
<1>8. CASE List(t)
  BY <1>8 DEF List
<1>9. CASE Capture(t)
  BY <1>9 DEF Capture
<1>10. CASE Probe(t)
  BY <1>10 DEF Probe
<1>11. CASE Verify(t)
  BY <1>11 DEF Verify
<1>12. CASE Schedule(t)
  BY <1>12 DEF Schedule
<1>13. CASE Claim(t)
  BY <1>13 DEF Claim
<1>14. CASE Relabel(t)
  BY <1>14 DEF Relabel
<1>15. CASE Scan(t)
  BY <1>15 DEF Scan
<1>16. CASE \E c \in Dirs : Land(t, c)
  <2>1. PICK c \in Dirs : Land(t, c)
    BY <1>16
  <2>2. /\ pc[t] = "landing" /\ UNCHANGED <<at, now>>
        /\ \E l \in {"unclaiming", "landing"} : pc' = [pc EXCEPT ![t] = l]
    BY <2>1 DEF Land
  <2> QED
    BY <2>2
<1>17. CASE Abort(t)
  BY <1>17 DEF Abort
<1>18. CASE Unclaim(t)
  BY <1>18 DEF Unclaim
<1>19. CASE HoldClaim(t)
  BY <1>19 DEF HoldClaim
<1>20. CASE \E a \in Archives : Consider(t, a) \/ Commit(t, a) \/ CommitFails(t, a)
  <2>1. /\ pc[t] \in {"considering", "committing"} /\ UNCHANGED <<at, now>>
        /\ \E l \in {"considering", "committing"} : pc' = [pc EXCEPT ![t] = l]
    BY <1>20 DEF Consider, Commit, CommitFails
  <2> QED
    BY <2>1
<1>21. CASE HoldsDone(t)
  BY <1>21 DEF HoldsDone
<1>22. CASE HoldRelease(t)
  <2>1. /\ pc[t] = "unholding" /\ UNCHANGED <<at, now>>
        /\ \E l \in {"relisting", "scheduling"} : pc' = [pc EXCEPT ![t] = l]
    BY <1>22 DEF HoldRelease
  <2> QED
    BY <2>1
<1>23. CASE Leave(t)
  BY <1>23 DEF Leave, Rest, Rests
<1> QED
  BY <1>1, <1>2, <1>3, <1>4, <1>5, <1>6, <1>7, <1>8, <1>9, <1>10, <1>11, <1>12, <1>13,
     <1>14, <1>15, <1>16, <1>17, <1>18, <1>19, <1>20, <1>21, <1>22, <1>23 DEF Step,
     Callback, Gate, Pass, Hold

LEMMA StepPlaced ==
  ASSUME TypeOK, Placed, NEW t \in Threads, Step(t)
  PROVE  Placed' /\ pc' \in [Threads -> Labels]
<1>1. CASE Advances(t)
  BY <1>1 DEF Advances, Placed, TypeOK, Importing
<1>2. CASE Rests(t)
  BY <1>2 DEF Rests, Placed, TypeOK, Importing, Labels
<1>3. CASE Rename(t)
  <2>1. /\ pc[t] = "renaming" /\ pc' = [pc EXCEPT ![t] = "relabeling"]
        /\ now' = [now EXCEPT ![t] = at[t]] \/ now' = [now EXCEPT ![t] = CleanName[at[t]]]
        /\ UNCHANGED at
    BY <1>3 DEF Rename, Goto
  <2>2. at[t] \in Dirs /\ CleanName[at[t]] \in Dirs
    BY <2>1, WatcherAssumption DEF Placed
  <2> QED
    BY <2>1, <2>2 DEF Placed, TypeOK, Importing, Labels, Claiming
<1> QED
  BY <1>1, <1>2, <1>3, StepAdvances DEF TypeOK

LEMMA RestTyped ==
  ASSUME TypeOK, NEW t \in Threads, Rest(t)
  PROVE  /\ at' \in [Threads -> Dirs \cup {NoDir}] /\ now' \in [Threads -> Dirs \cup {NoDir}]
         /\ fresh' \in [Threads -> BOOLEAN] /\ moved' \in [Threads -> BOOLEAN]
         /\ files' \in [Threads -> SUBSET Archives] /\ probed' \in [Threads -> SUBSET Archives]
<1> QED
  BY DEF Rest, TypeOK

LEMMA StepTyped ==
  ASSUME IInv, NEW t \in Threads, Step(t)
  PROVE  TypeOK'
<1> USE WatcherAssumption
    DEF tree, observer, timers, tracker, counters, world, threads
<1>0. TypeOK /\ Placed /\ Counted /\ Closing /\ pc' \in [Threads -> Labels]
  BY StepPlaced DEF IInv
<1>1. CASE Invoke(t)
  BY <1>0, <1>1, LatchTyped, RestTyped DEF Invoke, TypeOK, TimersTyped
<1>2. CASE PopTimer(t)
  <2>1. TimersTyped'
    <3>1. /\ at[t] \in Dirs /\ settle' = [settle EXCEPT ![at[t]] = "none"]
          /\ stray' = stray \/ stray' = [stray EXCEPT ![at[t]] = @ + 1]
          /\ UNCHANGED <<retry, closed, latched>>
      BY <1>0, <1>2 DEF PopTimer, Placed, TypeOK
    <3> QED
      BY <1>0, <3>1 DEF TypeOK, TimersTyped
  <2> QED
    BY <1>0, <1>2, <2>1 DEF PopTimer, TypeOK, TimersTyped
<1>3. CASE WaitForAge(t)
  BY <1>0, <1>3, LatchTyped DEF WaitForAge, TypeOK, TimersTyped
<1>4. CASE RetryCallback(t)
  BY <1>0, <1>4 DEF RetryCallback, TypeOK
<1>5. CASE Dispatch(t)
  <2>1. fresh' \in [Threads -> BOOLEAN]
    BY <1>0, <1>5 DEF Dispatch, TypeOK
  <2> QED
    BY <1>0, <1>5, <2>1 DEF Dispatch, TypeOK
<1>6. CASE Guard(t)
  BY <1>0, <1>6, ExcuseTyped, CauseTyped DEF Guard, TypeOK, ExcusedTyped
<1>7. CASE Admit(t)
  BY <1>0, <1>7, LatchTyped DEF Admit, TypeOK, TimersTyped
<1>8. CASE List(t)
  BY <1>0, <1>8 DEF List, TypeOK, Forget, Below
<1>9. CASE Capture(t)
  BY <1>0, <1>9 DEF Capture, TypeOK
<1>10. CASE Probe(t)
  BY <1>0, <1>10 DEF Probe, TypeOK
<1>11. CASE Verify(t)
  BY <1>0, <1>11 DEF Verify, TypeOK, Forget
<1>12. CASE Schedule(t)
  BY <1>0, <1>12, LatchTyped, SupersedeTyped, SMTT(30) DEF Schedule, TypeOK, TimersTyped
<1>13. CASE Leave(t)
  BY <1>0, <1>13, LeaveCounts, RestTyped DEF Leave, TypeOK
<1>14. CASE Claim(t) \/ Relabel(t) \/ Unclaim(t)
  <2>1. processing' \subseteq Dirs
    BY <1>0, <1>14 DEF Claim, Relabel, Unclaim, TypeOK, Placed, Importing
  <2> QED
    BY <1>0, <1>14, <2>1 DEF Claim, Relabel, Unclaim, TypeOK
<1>15. CASE Rename(t)
  <2>1. at[t] \in Dirs /\ CleanName[at[t]] \in Dirs
    BY <1>0, <1>15 DEF Rename, Placed
  <2>2. /\ aged' \subseteq Dirs /\ pending' \subseteq Dirs
        /\ now' \in [Threads -> Dirs \cup {NoDir}]
    BY <1>0, <1>15, <2>1, SMTT(30) DEF Rename, TypeOK
  <2>3. home' \in [Archives -> Dirs]
    BY <1>0, <1>15, <2>1 DEF Rename, TypeOK
  <2> QED
    BY <1>0, <1>15, <2>2, <2>3 DEF Rename, TypeOK
<1>16. CASE Scan(t)
  BY <1>0, <1>16 DEF Scan, TypeOK, Below
<1>17. CASE \E c \in Dirs : Land(t, c)
  <2>1. PICK c \in Dirs : Land(t, c)
    BY <1>17
  <2>2. PICK landed :
           /\ state' = [a \in Archives |-> IF a \in landed THEN "landed" ELSE state[a]]
           /\ \E S : Excuse(S, "deferred")
    BY <2>1 DEF Land
  <2>3. ExcusedTyped'
    BY <1>0, <2>2, ExcuseTyped
  <2>4. state' \in [Archives -> {"away", "partial", "ready", "landed", "held"}]
    BY <1>0, <2>2 DEF TypeOK
  <2>5. /\ pending' \subseteq Dirs /\ changes' \in 0 .. MaxChanges
        /\ files' = [files EXCEPT ![t] = @ \ {a \in files[t] : home[a] = c}]
    BY <1>0, <2>1 DEF Land, TypeOK
  <2>6. /\ files' \in [Threads -> SUBSET Archives]
        /\ UNCHANGED <<home, aged, budget, handling, tracker, counters,
                       processing, world, at, now, fresh, moved, probed>>
    BY <1>0, <2>1, <2>5 DEF Land, TypeOK
  <2> QED
    BY <1>0, <2>3, <2>4, <2>5, <2>6 DEF TypeOK, ExcusedTyped
<1>18. CASE Abort(t)
  BY <1>0, <1>18, ExcuseTyped DEF Abort, TypeOK, ExcusedTyped
<1>19. CASE HoldClaim(t)
  <2>1. processing' \subseteq Dirs
    BY <1>0, <1>19 DEF HoldClaim, TypeOK, Placed
  <2>2. budget' \in [Archives -> {"none", "counting", "expired", "changed"}]
    BY <1>0, <1>19 DEF HoldClaim, TypeOK
  <2> QED
    BY <1>0, <1>19, <2>1, <2>2 DEF HoldClaim, TypeOK
<1>20. CASE \E a \in Archives : Consider(t, a)
  BY <1>0, <1>20 DEF Consider, TypeOK
<1>21. CASE \E a \in Archives : Commit(t, a) \/ CommitFails(t, a)
  <2>1. PICK a \in Archives : Commit(t, a) \/ CommitFails(t, a)
    BY <1>21
  <2>2. state' \in [Archives -> {"away", "partial", "ready", "landed", "held"}]
    BY <1>0, <2>1 DEF Commit, CommitFails, TypeOK
  <2>3. budget' \in [Archives -> {"none", "counting", "expired", "changed"}]
    BY <1>0, <2>1 DEF Commit, CommitFails, TypeOK
  <2>4. moved' \in [Threads -> BOOLEAN]
    <3>1. moved' = moved \/ moved' = [moved EXCEPT ![t] = TRUE]
      BY <2>1 DEF Commit, CommitFails
    <3> QED
      BY <1>0, <3>1 DEF TypeOK
  <2>5. probed' \in [Threads -> SUBSET Archives]
    BY <1>0, <2>1 DEF Commit, CommitFails, TypeOK
  <2> QED
    BY <1>0, <2>1, <2>2, <2>3, <2>4, <2>5 DEF Commit, CommitFails, TypeOK
<1>22. CASE HoldsDone(t) \/ HoldRelease(t)
  <2>1. processing' \subseteq Dirs /\ moved' \in [Threads -> BOOLEAN]
    <3>1. CASE HoldsDone(t)
      BY <1>0, <3>1 DEF HoldsDone, TypeOK
    <3>2. CASE HoldRelease(t)
      BY <1>0, <3>2 DEF HoldRelease, TypeOK
    <3> QED
      BY <1>22, <3>1, <3>2
  <2> QED
    BY <1>0, <1>22, <2>1 DEF HoldsDone, HoldRelease, TypeOK
<1> QED
  BY <1>1, <1>2, <1>3, <1>4, <1>5, <1>6, <1>7, <1>8, <1>9, <1>10, <1>11, <1>12, <1>13,
     <1>14, <1>15, <1>16, <1>17, <1>18, <1>19, <1>20, <1>21, <1>22 DEF Step, Callback, Gate,
     Pass, Hold

\* Every step, a stutter included, keeps the inductive invariant.
LEMMA StepInv == IInv /\ [Next]_vars => IInv'
<1> SUFFICES ASSUME IInv, [Next]_vars PROVE IInv'
  OBVIOUS
<1>1. CASE \E t \in Threads : Step(t)
  <2>1. PICK t \in Threads : Step(t)
    BY <1>1
  <2> QED
    BY <2>1, StepTyped, StepPlaced, StepCounted DEF IInv
<1>2. CASE \E t \in TimerThreads, d \in Dirs : Fire(t, d)
  BY <1>2, FireStep
<1>3. CASE Session
  BY <1>3, SessionStep
<1>4. CASE UNCHANGED vars
  <2>1. TypeOK'
    BY <1>4 DEF IInv, TypeOK, vars, tree, observer, tracker, timers, counters, world, threads
  <2>2. Placed' /\ Closing' /\ UNCHANGED <<callbacks, admitted, pc>>
    BY <1>4 DEF IInv, Placed, Closing, vars, tracker, counters, world, threads
  <2> QED
    BY <2>1, <2>2, SamePcCounted DEF IInv
<1> QED
  BY <1>1, <1>2, <1>3, <1>4, EnvironmentStep DEF Next

LEMMA InvAlways == Spec => []IInv
<1> QED
  BY InitInv, StepInv, PTL DEF Spec

-----------------------------------------------------------------------------
\* Every variable keeps its type in every behaviour of the watcher, the two
\* counters of DirectorySettleTracker included: _finish_callback and
\* _directory_admission never take them below zero.
THEOREM TypeCorrect == Spec => []TypeOK
<1>1. IInv => TypeOK
  BY DEF IInv
<1> QED
  BY <1>1, InvAlways, PTL

\* The watch root's mutex is released only when no timer callback and no
\* directory unit is left (close() and _watch_with_config), for any number
\* of timers, replaced ones and startup included.
THEOREM DrainsAlways == Spec => []DrainsBeforeRelease
<1>1. IInv => DrainsBeforeRelease
  <2> SUFFICES ASSUME IInv, session = "released", NEW t \in Threads
               PROVE  pc[t] \in Quiet
    BY DEF DrainsBeforeRelease, Quiet
  <2>1. IsFiniteSet(InCallback) /\ Cardinality(InCallback) = 0
    BY ThreadsFinite DEF IInv, Closing, Counted, InCallback
  <2>2. InCallback = {}
    BY <2>1, FS_EmptySet
  <2>3. pc[Main] = "idle"
    BY DEF IInv, Closing
  <2> QED
    BY <2>2, <2>3 DEF InCallback, Threads, Quiet
<1> QED
  BY <1>1, InvAlways, PTL

\* Once close() has begun or a stop request is latched, no step admits a
\* further directory (_directory_admission), whatever is still running.
THEOREM NothingStarts == Spec => NothingStartsAfterClose
<1>1. IInv /\ [Next]_vars => [closed => admitted' <= admitted]_vars
  <2> SUFFICES ASSUME IInv, Next, closed PROVE admitted' <= admitted
    BY DEF IInv, vars, counters
  <2>1. admitted \in Nat
    BY DEF IInv, TypeOK
  <2>2. ASSUME NEW t \in Threads, Step(t) PROVE admitted' <= admitted
    <3>1. CASE Invoke(t)
      BY <2>1, <3>1 DEF Invoke, counters
    <3>2. CASE Admit(t)
      BY <2>1, <3>2 DEF Admit
    <3>3. CASE Leave(t)
      BY <2>1, <3>3 DEF Leave
    <3>4. CASE Uncounted(t)
      BY <2>1, <3>4, UncountedKeeps DEF IInv, Keeps
    <3> QED
      BY <2>2, <3>1, <3>2, <3>3, <3>4 DEF Uncounted
  <2>3. CASE UNCHANGED counters
    BY <2>1, <2>3 DEF counters
  <2>4. User => UNCHANGED counters
    BY DEF User, Arrive, Write, Withdraw, Change
  <2>5. RequestStop \/ Interrupt \/ Notify \/ (\E d \in Dirs : Ages(d) \/ Deliver(d))
            \/ (\E a \in Archives : Expire(a)) => UNCHANGED counters
    BY DEF RequestStop, Interrupt, Notify, Ages, Deliver, Expire
  <2>6. Session \/ (\E t \in TimerThreads, d \in Dirs : Fire(t, d)) => UNCHANGED counters
    BY DEF Session, Discover, StartObserver, SeeStop, StopObserver, Close, Release, Fire
  <2> QED
    BY <2>2, <2>3, <2>4, <2>5, <2>6 DEF Next
<1> QED
  BY <1>1, InvAlways, PTL DEF Spec, NothingStartsAfterClose

-----------------------------------------------------------------------------
\* When no directory below the watch root needs a clean name, a claim always
\* stands for the directory its thread works on.
NoRenames == \A d \in Dirs : CleanName[d] = d

ExclInv ==
    /\ \A t \in Threads : pc[t] \in Claiming => at[t] \in processing
    /\ \A t \in Threads : pc[t] \in Importing \ {"renaming"} => now[t] = at[t]
    /\ \A t, u \in Threads :
          t # u /\ pc[t] \in Claiming /\ pc[u] \in Claiming => ~Overlap(at[t], at[u])

\* How a thread's step changes the claims.
Enters(t) ==
    /\ Busy(at[t]) = {} /\ pc[t] \notin Claiming
    /\ \E l \in {"renaming", "considering"} : pc' = [pc EXCEPT ![t] = l]
    /\ processing' = processing \cup {at[t]} /\ UNCHANGED <<at, now>>

Exits(t) ==
    /\ pc[t] \in Claiming
    /\ \E l \in Labels \ Claiming : pc' = [pc EXCEPT ![t] = l]
    /\ processing' = processing \ {at[t]} /\ UNCHANGED <<at, now>>

Works(t) ==
    /\ pc[t] \in Claiming
    /\ \E l \in Claiming : pc' = [pc EXCEPT ![t] = l]
    /\ processing' = processing /\ UNCHANGED at
    /\ \/ now' = now /\ (pc'[t] \in Importing \ {"renaming"} =>
                            pc[t] \in Importing \ {"renaming"})
       \/ now' = [now EXCEPT ![t] = at[t]]

Roams(t) ==
    /\ pc[t] \notin Claiming
    /\ \E l \in Labels \ Claiming : pc' = [pc EXCEPT ![t] = l]
    /\ processing' = processing
    /\ \E d, c : at' = [at EXCEPT ![t] = d] /\ now' = [now EXCEPT ![t] = c]

LEMMA EntersExcl ==
  ASSUME IInv, ExclInv, NEW t \in Threads, Enters(t)
  PROVE  ExclInv'
<1>1. /\ \A u \in Threads \ {t} : pc'[u] = pc[u] /\ at'[u] = at[u] /\ now'[u] = now[u]
      /\ pc'[t] \in {"renaming", "considering"} /\ at'[t] = at[t]
  BY DEF Enters, IInv, TypeOK
<1>2. \A u \in Threads \ {t} : pc[u] \in Claiming => ~Overlap(at[t], at[u]) /\ ~Overlap(at[u], at[t])
  BY DEF Enters, ExclInv, Busy, Overlap
<1>3. \A u \in Threads : pc'[u] \in Claiming => at'[u] \in processing'
  BY <1>1 DEF Enters, ExclInv
<1>4. \A u \in Threads : pc'[u] \in Importing \ {"renaming"} => now'[u] = at'[u]
  BY <1>1 DEF ExclInv, Importing
<1>5. \A u, v \in Threads :
          u # v /\ pc'[u] \in Claiming /\ pc'[v] \in Claiming => ~Overlap(at'[u], at'[v])
  BY <1>1, <1>2 DEF ExclInv
<1> QED
  BY <1>3, <1>4, <1>5 DEF ExclInv, Overlap

LEMMA ExitsExcl ==
  ASSUME IInv, ExclInv, NEW t \in Threads, Exits(t)
  PROVE  ExclInv'
<1>1. /\ \A u \in Threads \ {t} : pc'[u] = pc[u] /\ at'[u] = at[u] /\ now'[u] = now[u]
      /\ pc'[t] \notin Claiming /\ at' = at
  BY DEF Exits, IInv, TypeOK
<1>2. \A u \in Threads \ {t} : pc[u] \in Claiming => at[u] # at[t]
  <2> SUFFICES ASSUME NEW u \in Threads \ {t}, pc[u] \in Claiming PROVE at[u] # at[t]
    OBVIOUS
  <2>1. ~Overlap(at[u], at[t])
    BY DEF Exits, ExclInv
  <2>2. at[u] \in Dirs
    BY DEF IInv, Placed, Claiming, Importing, Holding
  <2> QED
    BY <2>1, <2>2, WatcherAssumption DEF Overlap
<1>3. \A u \in Threads : pc'[u] \in Claiming => at'[u] \in processing'
  BY <1>1, <1>2 DEF Exits, ExclInv
<1>4. \A u \in Threads : pc'[u] \in Importing \ {"renaming"} => now'[u] = at'[u]
  BY <1>1 DEF ExclInv, Claiming
<1>5. \A u, v \in Threads :
          u # v /\ pc'[u] \in Claiming /\ pc'[v] \in Claiming => ~Overlap(at'[u], at'[v])
  BY <1>1 DEF ExclInv
<1> QED
  BY <1>3, <1>4, <1>5 DEF ExclInv, Overlap

LEMMA WorksExcl ==
  ASSUME IInv, ExclInv, NEW t \in Threads, Works(t)
  PROVE  ExclInv'
<1>1. /\ \A u \in Threads : (pc'[u] \in Claiming <=> pc[u] \in Claiming)
      /\ \A u \in Threads \ {t} : pc'[u] = pc[u] /\ now'[u] = now[u]
      /\ at' = at /\ processing' = processing
  BY DEF Works, IInv, TypeOK
<1>2. pc'[t] \in Importing \ {"renaming"} => now'[t] = at[t]
  BY DEF Works, IInv, TypeOK, ExclInv
<1> QED
  BY <1>1, <1>2 DEF ExclInv, Overlap

LEMMA RoamsExcl ==
  ASSUME IInv, ExclInv, NEW t \in Threads, Roams(t)
  PROVE  ExclInv'
<1>1. /\ \A u \in Threads \ {t} : pc'[u] = pc[u] /\ at'[u] = at[u] /\ now'[u] = now[u]
      /\ pc'[t] \notin Claiming /\ processing' = processing
  BY DEF Roams, IInv, TypeOK
<1>2. \A u \in Threads : pc'[u] \in Importing \ {"renaming"} => u # t /\ now'[u] = at'[u]
  BY <1>1 DEF ExclInv, Claiming
<1> QED
  BY <1>1, <1>2 DEF ExclInv, Overlap

\* Only the two claims enter a directory and only the two `finally` blocks
\* leave it.
LEMMA StepKind ==
  ASSUME IInv, ExclInv, NoRenames, NEW t \in Threads, Step(t)
  PROVE  Enters(t) \/ Exits(t) \/ Works(t) \/ Roams(t)
<1> USE DEF Goto, Labels, Claiming, Importing, Holding
<1>0. /\ pc \in [Threads -> Labels] /\ now \in [Threads -> Dirs \cup {NoDir}]
      /\ at \in [Threads -> Dirs \cup {NoDir}]
      /\ pc[t] # "idle" => at[t] \in Dirs
  BY DEF IInv, TypeOK, Placed
<1>1. CASE Rename(t)
  <2>1. /\ pc[t] = "renaming" /\ pc' = [pc EXCEPT ![t] = "relabeling"]
        /\ UNCHANGED <<processing, at>> /\ CleanName[at[t]] = at[t]
    BY <1>0, <1>1 DEF Rename, NoRenames
  <2>2. now' = [now EXCEPT ![t] = at[t]]
    BY <1>1, <2>1 DEF Rename
  <2> QED
    BY <2>1, <2>2 DEF Works
<1>2. CASE Rests(t) /\ pc[t] \notin Claiming /\ processing' = processing
  BY <1>2 DEF Rests, Roams
<1>3. CASE Advances(t) /\ pc[t] \notin Claiming /\ pc'[t] \notin Claiming
           /\ processing' = processing
  <2>1. at' = [at EXCEPT ![t] = at[t]] /\ now' = [now EXCEPT ![t] = now[t]]
    BY <1>0, <1>3 DEF Advances
  <2>2. \E l \in Labels \ Claiming : pc' = [pc EXCEPT ![t] = l]
    BY <1>0, <1>3 DEF Advances
  <2> QED
    BY <1>3, <2>1, <2>2 DEF Roams
<1>4. CASE Advances(t) /\ pc[t] \in Claiming /\ pc'[t] \in Claiming /\ processing' = processing
  <2>1. PICK l \in Labels :
           /\ pc' = [pc EXCEPT ![t] = l]
           /\ l \in Importing \ {"renaming"} => pc[t] \in Importing \ {"renaming"}
    BY <1>4 DEF Advances
  <2>2. pc'[t] = l
    BY <1>0, <2>1
  <2> HIDE DEF Labels, Claiming, Importing, Holding
  <2> QED
    BY <1>4, <2>1, <2>2 DEF Advances, Works
<1>5. CASE Callback(t) \/ Gate(t)
  <2>1. processing' = processing /\ pc[t] \notin Claiming /\ pc'[t] \notin Claiming
    <3>1. CASE Callback(t)
      BY <1>0, <3>1 DEF Callback, Invoke, Rest, PopTimer, WaitForAge, RetryCallback, Dispatch,
                        Guard
    <3>2. CASE Admit(t) \/ List(t) \/ Capture(t) \/ Probe(t) \/ Verify(t)
      BY <1>0, <3>2 DEF Admit, List, Capture, Probe, Verify
    <3>3. CASE Schedule(t) \/ Leave(t)
      BY <1>0, <3>3 DEF Schedule, Leave, Rest
    <3> QED
      BY <1>5, <3>1, <3>2, <3>3 DEF Gate
  <2>2. ~Rename(t)
    BY <2>1 DEF Rename
  <2> QED
    BY <1>0, <1>2, <1>3, <2>1, <2>2, StepAdvances
<1>6. CASE Claim(t) \/ HoldClaim(t)
  <2>1. Advances(t)
    BY <1>0, <1>6 DEF Claim, HoldClaim, Advances, threads
  <2>2. CASE Busy(at[t]) = {}
    BY <1>0, <1>6, <2>2 DEF Claim, HoldClaim, Enters, threads
  <2>3. CASE Busy(at[t]) # {}
    BY <1>0, <1>3, <1>6, <2>1, <2>3 DEF Claim, HoldClaim
  <2> QED
    BY <2>2, <2>3
<1>7. CASE Unclaim(t) \/ HoldRelease(t)
  <2>1. /\ pc[t] \in Claiming /\ processing' = processing \ {at[t]} /\ UNCHANGED <<at, now>>
        /\ \E l \in {"leaving", "relisting", "scheduling"} : pc' = [pc EXCEPT ![t] = l]
    BY <1>7 DEF Unclaim, HoldRelease, threads
  <2> QED
    BY <2>1 DEF Exits
<1>8. CASE Relabel(t)
  <2>1. /\ pc[t] = "relabeling" /\ pc' = [pc EXCEPT ![t] = "scanning"]
        /\ UNCHANGED <<at, now>> /\ processing' = (processing \ {at[t]}) \cup {now[t]}
    BY <1>8 DEF Relabel, threads
  <2>2. now[t] = at[t] /\ at[t] \in processing
    BY <2>1 DEF ExclInv
  <2> QED
    BY <2>1, <2>2 DEF Works
<1>9. CASE Scan(t) \/ (\E c \in Dirs : Land(t, c)) \/ Abort(t)
  <2>1. /\ pc[t] \in {"scanning", "landing"} /\ processing' = processing
        /\ \E l \in {"landing", "unclaiming"} : pc' = [pc EXCEPT ![t] = l]
    BY <1>9 DEF Scan, Land, Abort
  <2>2. ~Rename(t)
    BY <2>1 DEF Rename
  <2>3. Advances(t) \/ Rests(t)
    BY <1>0, <2>2, StepAdvances
  <2> QED
    BY <1>0, <1>4, <2>1, <2>3 DEF Rests
<1>10. CASE HoldsDone(t) \/ (\E a \in Archives : Consider(t, a) \/ Commit(t, a)
                                                 \/ CommitFails(t, a))
  <2>1. /\ pc[t] \in {"considering", "committing"} /\ processing' = processing
        /\ \E l \in {"considering", "committing", "unholding"} : pc' = [pc EXCEPT ![t] = l]
    BY <1>0, <1>10 DEF HoldsDone, Consider, Commit, CommitFails
  <2>2. ~Rename(t)
    BY <2>1 DEF Rename
  <2>3. Advances(t) \/ Rests(t)
    BY <1>0, <2>2, StepAdvances
  <2> QED
    BY <1>0, <1>4, <2>1, <2>3 DEF Rests
<1> QED
  BY <1>1, <1>5, <1>6, <1>7, <1>8, <1>9, <1>10 DEF Step, Pass, Hold

LEMMA ExclAlways == NoRenames /\ Spec => []ExclInv
<1>1. Init => ExclInv
  BY DEF Init, ExclInv, Claiming, Importing, Holding
<1>2. ASSUME NoRenames, IInv, ExclInv, [Next]_vars PROVE ExclInv'
  <2>1. CASE \E t \in Threads : Step(t)
    BY <1>2, <2>1, StepKind, EntersExcl, ExitsExcl, WorksExcl, RoamsExcl
  <2>2. CASE \E t \in TimerThreads, d \in Dirs : Fire(t, d)
    <3>1. PICK t \in TimerThreads, d \in Dirs : Fire(t, d)
      BY <2>2
    <3>2. /\ t \in Threads /\ processing' = processing
          /\ pc[t] = "idle" /\ \E l \in {"settleFired", "retryFired"} : pc' = [pc EXCEPT ![t] = l]
          /\ at' = [at EXCEPT ![t] = d] /\ now' = now
      BY <3>1 DEF Fire, Goto, Threads
    <3>3. now' = [now EXCEPT ![t] = now[t]]
      BY <1>2, <3>2 DEF IInv, TypeOK
    <3>4. Roams(t)
      BY <3>2, <3>3 DEF Roams, Labels, Claiming, Importing, Holding
    <3> QED
      BY <1>2, <3>2, <3>4, RoamsExcl
  <2>3. CASE \E d \in Dirs : Discover(d) /\ ~UNCHANGED <<pc, at>>
    <3>1. PICK d \in Dirs : Discover(d) /\ ~UNCHANGED <<pc, at>>
      BY <2>3
    <3>2. /\ Main \in Threads /\ processing' = processing
          /\ pc[Main] = "idle" /\ pc' = [pc EXCEPT ![Main] = "admitting"]
          /\ at' = [at EXCEPT ![Main] = d] /\ now' = now
      BY <3>1 DEF Discover, Goto, Threads
    <3>3. now' = [now EXCEPT ![Main] = now[Main]]
      BY <1>2, <3>2 DEF IInv, TypeOK
    <3>4. Roams(Main)
      BY <3>2, <3>3 DEF Roams, Labels, Claiming, Importing, Holding
    <3> QED
      BY <1>2, <3>2, <3>4, RoamsExcl
  <2>4. CASE UNCHANGED <<pc, at, now, processing>>
    BY <1>2, <2>4 DEF ExclInv, Overlap
  <2>5. User \/ RequestStop \/ Interrupt \/ Notify => UNCHANGED <<pc, at, now, processing>>
    BY DEF User, Arrive, Write, Withdraw, Change, RequestStop, Interrupt, Notify, threads
  <2>6. (\E d \in Dirs : Ages(d) \/ Deliver(d)) \/ (\E a \in Archives : Expire(a))
            => UNCHANGED <<pc, at, now, processing>>
    BY DEF Ages, Deliver, Expire, threads
  <2>7. Session => UNCHANGED <<pc, at, now, processing>>
                   \/ \E d \in Dirs : Discover(d) /\ ~UNCHANGED <<pc, at>>
    BY DEF Session, Discover, StartObserver, SeeStop, StopObserver, Close, Release, threads
  <2> QED
    BY <1>2, <2>1, <2>2, <2>3, <2>4, <2>5, <2>6, <2>7 DEF Next, vars, threads
<1>3. NoRenames /\ IInv /\ ExclInv /\ [Next]_vars => ExclInv'
  BY <1>2
<1>4. NoRenames => NoRenames'
  BY DEF NoRenames
<1> QED
  BY <1>1, <1>3, <1>4, InvAlways, PTL DEF Spec

\* If no directory needs a clean name, no two threads ever import or hold
\* overlapping directories: the claims of process_and_move_directory and
\* _hold_stalled_archives exclude each other for any tree of directories.
THEOREM ExclusiveAlways == NoRenames /\ Spec => []ExclusivePasses
<1>1. ExclInv => ExclusivePasses
  BY DEF ExclInv, ExclusivePasses, Place
<1> QED
  BY <1>1, ExclAlways, PTL

-----------------------------------------------------------------------------
\* A gate may hold an archive whose budget is expired, as long as that budget
\* is the one of the incomplete archive the gate has probed.
Stalled(a) ==
    /\ budget[a] # "counting"
    /\ Present(a) /\ budget[a] = "expired" => state[a] = "partial"

\* What a thread has at hand lies below its directory, and what it is about
\* to hold is stalled: a change, a landing or another gate only ever takes
\* the budget away.
HoldInv ==
    /\ home = Home
    /\ \A t \in Threads :
          IF pc[t] = "idle" THEN files[t] = {} /\ probed[t] = {}
          ELSE \A a \in files[t] \cup probed[t] : Home[a] \in Under[at[t]]
    /\ \A t \in Threads : pc[t] = "committing" => \A a \in probed[t] : Stalled(a)

\* The steps that leave a stalled archive stalled.
Mild(a) ==
    \/ budget'[a] = budget[a] /\ state'[a] = state[a]
    \/ budget'[a] \in {"none", "changed"}
    \/ budget'[a] = budget[a] /\ state'[a] \in {"landed", "held", "away"}
    \/ budget[a] = "counting"

LEMMA MildStalled ==
  ASSUME NEW a \in Archives, Mild(a), Stalled(a)
  PROVE  Stalled(a)'
<1> QED
  BY DEF Mild, Stalled, Present

\* A step of one thread, as the others and their archives see it.
Handles(t) ==
    /\ home' = home
    /\ \A u \in Threads \ {t} :
          pc'[u] = pc[u] /\ at'[u] = at[u] /\ files'[u] = files[u] /\ probed'[u] = probed[u]
    /\ \/ pc'[t] = "idle" /\ files'[t] = {} /\ probed'[t] = {}
       \/ /\ pc[t] # "idle" /\ pc'[t] # "idle" /\ at'[t] = at[t]
          /\ files'[t] \cup probed'[t] \subseteq files[t] \cup probed[t] \cup Below(at[t])
    /\ pc'[t] = "committing" => \A a \in probed'[t] : Stalled(a)'
    /\ \A a \in Archives : Mild(a) \/ (pc[t] = "considering" /\ a \in files[t])

LEMMA HandlesHold ==
  ASSUME IInv, ExclInv, HoldInv, NEW t \in Threads, Handles(t)
  PROVE  HoldInv'
<1>1. home' = Home
  BY DEF HoldInv, Handles
<1>2. ASSUME NEW u \in Threads
      PROVE  IF pc'[u] = "idle" THEN files'[u] = {} /\ probed'[u] = {}
             ELSE \A a \in files'[u] \cup probed'[u] : Home[a] \in Under[at'[u]]
  <2>1. CASE u # t
    BY <1>2, <2>1 DEF HoldInv, Handles
  <2>2. CASE u = t
    BY <1>2, <2>2 DEF HoldInv, Handles, Below
  <2> QED
    BY <2>1, <2>2
<1>3. ASSUME NEW u \in Threads, pc'[u] = "committing", NEW a \in probed'[u]
      PROVE  Stalled(a)'
  <2>1. CASE u = t
    BY <1>3, <2>1 DEF Handles
  <2>2. CASE u # t
    <3>1. pc[u] = "committing" /\ a \in probed[u] /\ Stalled(a) /\ a \in Archives
      BY <1>3, <2>2 DEF HoldInv, Handles, IInv, TypeOK
    <3>2. ~(pc[t] = "considering" /\ a \in files[t])
      <4> SUFFICES ASSUME pc[t] = "considering", a \in files[t] PROVE FALSE
        OBVIOUS
      <4>1. Home[a] \in Under[at[t]] \cap Under[at[u]]
        BY <3>1 DEF HoldInv
      <4>2. at[t] \in Dirs /\ at[u] \in Dirs
        BY <3>1 DEF IInv, Placed
      <4>3. Overlap(at[t], at[u])
        BY <4>1, <4>2, TreeAssumption DEF Overlap
      <4> QED
        BY <2>2, <3>1, <4>3 DEF ExclInv, Claiming, Holding
    <3> QED
      BY <3>1, <3>2, MildStalled DEF Handles
  <2> QED
    BY <2>1, <2>2
<1> QED
  BY <1>1, <1>2, <1>3 DEF HoldInv

LEMMA StepHandles ==
  ASSUME NoRenames, IInv, ExclInv, NEW t \in Threads, Step(t)
  PROVE  Handles(t)
<1> USE DEF Handles, Goto, Mild, tree, threads
<1>0. /\ pc \in [Threads -> Labels] /\ at \in [Threads -> Dirs \cup {NoDir}]
      /\ files \in [Threads -> SUBSET Archives] /\ probed \in [Threads -> SUBSET Archives]
      /\ budget \in [Archives -> {"none", "counting", "expired", "changed"}]
      /\ state \in [Archives -> {"away", "partial", "ready", "landed", "held"}]
  BY DEF IInv, TypeOK
<1>1. CASE Invoke(t)
  BY <1>0, <1>1 DEF Invoke, Rest
<1>2. CASE PopTimer(t) \/ WaitForAge(t) \/ RetryCallback(t)
  BY <1>0, <1>2 DEF PopTimer, WaitForAge, RetryCallback
<1>3. CASE Dispatch(t) \/ Guard(t)
  BY <1>0, <1>3 DEF Dispatch, Guard
<1>4. CASE Admit(t) \/ Capture(t) \/ Probe(t) \/ Schedule(t)
  BY <1>0, <1>4 DEF Admit, Capture, Probe, Schedule
<1>5. CASE List(t)
  BY <1>0, <1>5 DEF List, Forget
<1>6. CASE Verify(t)
  BY <1>0, <1>6 DEF Verify, Forget
<1>7. CASE Leave(t)
  BY <1>0, <1>7 DEF Leave, Rest
<1>8. CASE Claim(t) \/ Relabel(t) \/ Abort(t) \/ Unclaim(t)
  BY <1>0, <1>8 DEF Claim, Relabel, Abort, Unclaim
<1>9. CASE Rename(t)
  <2>1. at[t] \in Dirs /\ CleanName[at[t]] = at[t]
    BY <1>9 DEF Rename, IInv, Placed, NoRenames
  <2> QED
    BY <1>0, <1>9, <2>1 DEF Rename
<1>10. CASE Scan(t)
  <2>1. now[t] = at[t]
    BY <1>10 DEF Scan, ExclInv, Importing
  <2> QED
    BY <1>0, <1>10, <2>1 DEF Scan
<1>11. CASE \E c \in Dirs : Land(t, c)
  <2>1. PICK c \in Dirs : Land(t, c)
    BY <1>11
  <2>2. \E l \in {"unclaiming", "landing"} : pc' = [pc EXCEPT ![t] = l]
    BY <2>1 DEF Land
  <2>3. \E S : /\ files' = [files EXCEPT ![t] = @ \ S]
               /\ UNCHANGED <<home, budget, at, probed>> /\ pc[t] = "landing"
    BY <2>1 DEF Land
  <2>4. \A a \in Archives : state'[a] \in {state[a], "landed"}
    BY <2>1 DEF Land
  <2> QED
    BY <1>0, <2>2, <2>3, <2>4
<1>12. CASE HoldClaim(t)
  BY <1>0, <1>12 DEF HoldClaim
<1>13. CASE \E a \in Archives : Consider(t, a)
  <2>1. PICK a \in Archives : Consider(t, a)
    BY <1>13
  <2>2. /\ pc[t] = "considering" /\ a \in files[t]
        /\ files' = [files EXCEPT ![t] = @ \ {a}] /\ UNCHANGED <<home, state, at>>
    BY <2>1 DEF Consider
  <2>3. CASE Present(a) /\ budget[a] = "expired"
    <3>1. /\ budget' = budget
          /\ \/ UNCHANGED <<pc, probed>>
             \/ /\ state[a] = "partial" /\ pc' = [pc EXCEPT ![t] = "committing"]
                /\ probed' = [probed EXCEPT ![t] = {a}]
      BY <2>1, <2>3 DEF Consider
    <3> QED
      BY <1>0, <2>2, <2>3, <3>1 DEF Stalled, Present
  <2>4. CASE ~(Present(a) /\ budget[a] = "expired")
    <3>1. UNCHANGED <<pc, probed>> /\ \E x : budget' = [budget EXCEPT ![a] = x]
      BY <2>1, <2>4 DEF Consider
    <3> QED
      BY <1>0, <2>2, <3>1
  <2> QED
    BY <2>3, <2>4
<1>14. CASE \E a \in Archives : Commit(t, a) \/ CommitFails(t, a)
  <2>1. PICK a \in Archives : Commit(t, a) \/ CommitFails(t, a)
    BY <1>14
  <2>2. /\ pc[t] = "committing" /\ pc' = [pc EXCEPT ![t] = "considering"]
        /\ probed' = [probed EXCEPT ![t] = {}] /\ UNCHANGED <<home, at, files>>
    BY <2>1 DEF Commit, CommitFails
  <2>3. \A b \in Archives : \/ budget'[b] = budget[b] /\ state'[b] = state[b]
                            \/ budget'[b] = "none"
    BY <1>0, <2>1 DEF Commit, CommitFails
  <2> QED
    BY <1>0, <2>2, <2>3
<1>15. CASE HoldsDone(t) \/ HoldRelease(t)
  BY <1>0, <1>15 DEF HoldsDone, HoldRelease
<1> QED
  BY <1>1, <1>2, <1>3, <1>4, <1>5, <1>6, <1>7, <1>8, <1>9, <1>10, <1>11, <1>12, <1>13, <1>14,
     <1>15 DEF Step, Callback, Gate, Pass, Hold

LEMMA StepHold ==
  ASSUME NoRenames, IInv, ExclInv, HoldInv, [Next]_vars
  PROVE  HoldInv'
<1>1. CASE \E t \in Threads : Step(t)
  BY <1>1, StepHandles, HandlesHold
<1>2. CASE \E t \in TimerThreads, d \in Dirs : Fire(t, d)
  <2>1. PICK t \in TimerThreads, d \in Dirs : Fire(t, d)
    BY <1>2
  <2>2. /\ t \in Threads /\ pc[t] = "idle"
        /\ \E l \in {"settleFired", "retryFired"} : pc' = [pc EXCEPT ![t] = l]
        /\ at' = [at EXCEPT ![t] = d]
        /\ UNCHANGED <<home, state, budget, files, probed>>
    BY <2>1 DEF Fire, Goto, Threads, tree
  <2> QED
    BY <2>2 DEF HoldInv, IInv, TypeOK, Stalled, Present
<1>3. CASE User
  <2>1. PICK a \in Archives :
           (\E new \in {"partial", "ready"} : Arrive(a, new) \/ Write(a, new)) \/ Withdraw(a)
    BY <1>3 DEF User
  <2>2. /\ UNCHANGED <<pc, at, files, probed>>
        /\ \E new \in {"away", "partial", "ready"} : state' = [state EXCEPT ![a] = new]
        /\ budget' = [budget EXCEPT ![a] = IF @ = "none" THEN @ ELSE "changed"]
    BY <2>1 DEF Arrive, Write, Withdraw, Change, threads
  <2>3. \A b \in Archives : Mild(b)
    BY <2>2 DEF Mild, IInv, TypeOK
  <2>4. home' = home
    BY <2>1, WatcherAssumption DEF Arrive, Write, Withdraw, HoldInv
  <2>5. \A t \in Threads : probed[t] \subseteq Archives
    BY DEF IInv, TypeOK
  <2> QED
    BY <2>2, <2>3, <2>4, <2>5, MildStalled DEF HoldInv
<1>4. CASE \E a \in Archives : Expire(a)
  <2>1. PICK a \in Archives : Expire(a)
    BY <1>4
  <2>2. \A b \in Archives : Mild(b)
    BY <2>1 DEF Expire, Mild, tree, IInv, TypeOK
  <2>3. UNCHANGED <<home, pc, at, files, probed>>
    BY <2>1 DEF Expire, tree, threads
  <2>4. \A t \in Threads : probed[t] \subseteq Archives
    BY DEF IInv, TypeOK
  <2> QED
    BY <2>2, <2>3, <2>4, MildStalled DEF HoldInv
<1>5. CASE \E d \in Dirs : Discover(d)
  <2>1. PICK d \in Dirs : Discover(d)
    BY <1>5
  <2>2. /\ Main \in Threads /\ pc[Main] = "idle"
        /\ \/ UNCHANGED <<pc, at>>
           \/ /\ pc' = [pc EXCEPT ![Main] = "admitting"]
              /\ at' = [at EXCEPT ![Main] = d]
        /\ UNCHANGED <<home, state, budget, files, probed>>
    BY <2>1 DEF Discover, Goto, Threads, tree
  <2> QED
    BY <2>2 DEF HoldInv, IInv, TypeOK, Stalled, Present
<1>6. CASE UNCHANGED <<home, state, budget, pc, at, files, probed>>
  BY <1>6 DEF HoldInv, Stalled, Present
<1>7. RequestStop \/ Interrupt \/ Notify \/ (\E d \in Dirs : Ages(d) \/ Deliver(d))
        => UNCHANGED <<home, state, budget, pc, at, files, probed>>
  BY DEF RequestStop, Interrupt, Notify, Ages, Deliver, tree, threads
<1>8. Session => (\E d \in Dirs : Discover(d))
                 \/ UNCHANGED <<home, state, budget, pc, at, files, probed>>
  BY DEF Session, StartObserver, SeeStop, StopObserver, Close, Release, tree, threads
<1> QED
  BY <1>1, <1>2, <1>3, <1>4, <1>5, <1>6, <1>7, <1>8 DEF Next, vars, tree, threads

\* Only a commit holds an archive, and it asks the budget once more.
LEMMA HoldStep ==
  ASSUME NoRenames, IInv, ExclInv, HoldInv, [Next]_vars,
         NEW a \in Archives, state[a] # "held", state'[a] = "held"
  PROVE  state[a] = "partial"
<1>1. state \in [Archives -> {"away", "partial", "ready", "landed", "held"}]
  BY DEF IInv, TypeOK
<1>2. CASE \E t \in Threads, b \in Archives : Commit(t, b)
  <2>1. PICK t \in Threads, b \in Archives : Commit(t, b)
    BY <1>2
  <2>2. /\ pc[t] = "committing" /\ b \in probed[t] /\ b = a
        /\ Present(a) /\ budget[a] = "expired"
    BY <1>1, <2>1 DEF Commit, tree
  <2> QED
    BY <2>2 DEF HoldInv, Stalled
<1>3. ASSUME NEW t \in Threads, Step(t), \A b \in Archives : ~Commit(t, b)
      PROVE  state'[a] \in {state[a], "landed"}
  <2>1. CASE Callback(t) \/ Gate(t)
    <3>1. UNCHANGED tree
      BY <2>1 DEF Callback, Gate, Invoke, PopTimer, WaitForAge, RetryCallback, Dispatch, Guard,
                  Admit, List, Capture, Probe, Verify, Schedule, Leave
    <3> QED
      BY <3>1 DEF tree
  <2>2. CASE Claim(t) \/ Relabel(t) \/ Scan(t) \/ Abort(t) \/ Unclaim(t)
    BY <2>2 DEF Claim, Relabel, Scan, Abort, Unclaim, tree
  <2>3. CASE Rename(t)
    BY <2>3 DEF Rename
  <2>4. CASE \E c \in Dirs : Land(t, c)
    BY <2>4 DEF Land
  <2>5. CASE Hold(t)
    BY <1>3, <2>5 DEF Hold, HoldClaim, Consider, CommitFails, HoldsDone, HoldRelease, tree
  <2> QED
    BY <1>3, <2>1, <2>2, <2>3, <2>4, <2>5 DEF Step, Pass
<1>4. User => state'[a] # "held"
  BY <1>1 DEF User, Arrive, Write, Withdraw, Change
<1>5. RequestStop \/ Interrupt \/ Notify \/ (\E d \in Dirs : Ages(d) \/ Deliver(d))
        \/ (\E b \in Archives : Expire(b)) => state' = state
  BY DEF RequestStop, Interrupt, Notify, Ages, Deliver, Expire, tree
<1>6. Session \/ (\E t \in TimerThreads, d \in Dirs : Fire(t, d)) => state' = state
  BY DEF Session, Discover, StartObserver, SeeStop, StopObserver, Close, Release, Fire, tree
<1> QED
  BY <1>2, <1>3, <1>4, <1>5, <1>6 DEF Next, vars, tree

\* A hold takes only an archive that is still incomplete: between the fresh
\* probe of consider() and the commit under the tracker lock no change, and
\* no other thread's gate, can leave a complete archive with an expired
\* budget, for any tree of directories and any number of timer threads.
THEOREM HeldOnlyStalledAlways == NoRenames /\ Spec => HeldOnlyStalled
<1>1. Init => HoldInv
  BY DEF Init, HoldInv
<1>2. NoRenames /\ IInv /\ ExclInv /\ HoldInv /\ [Next]_vars => HoldInv'
  BY StepHold
<1>3. NoRenames /\ IInv /\ ExclInv /\ HoldInv /\ [Next]_vars
        => [\A a \in Archives :
               state[a] # "held" /\ state'[a] = "held" => state[a] = "partial"]_vars
  BY HoldStep
<1>4. NoRenames => NoRenames'
  BY DEF NoRenames
<1> QED
  BY <1>1, <1>2, <1>3, <1>4, InvAlways, ExclAlways, PTL DEF Spec, HeldOnlyStalled

\* The safety of the tracker, if no directory is renamed while it is imported.
THEOREM SafetyHolds == NoRenames /\ Spec => Safety
BY TypeCorrect, DrainsAlways, ExclusiveAlways, NothingStarts, HeldOnlyStalledAlways, PTL DEF Safety
-----------------------------------------------------------------------------
\* Something is due to look at directory d, whoever it is that will.
Awaited(d) ==
    settle[d] = "armed" \/ stray[d] > 0 \/ retry[d] = "armed" \/ d \in todo

\* Thread t itself will see archive a: at the next listing of its directory,
\* in the pass it has begun, or among the archives it still has to land.
Tends(t, a) ==
    \/ pc[t] \in {"relabeling", "scanning"} /\ home[a] \in Under[now[t]]
    \/ pc[t] = "landing" /\ a \in files[t] /\ home[a] \in Under[now[t]]
    \/ /\ pc[t] \notin {"relabeling", "scanning"} /\ Gating(t)
       /\ home[a] \in Under[at[t]]

Tended(a) ==
    \/ home[a] \in pending \/ home[a] = handling
    \/ \E d \in Dirs : home[a] \in Under[d] /\ Awaited(d)
    \/ \E t \in Threads : Tends(t, a)

Running == ~closed /\ session # "closing"

TendInv ==
    Running => \A a \in Archives : Present(a) => Tended(a) \/ excused[a] # {}

LEMMA TendedIsCovered ==
  ASSUME IInv, NEW a \in Archives, Tended(a)
  PROVE  Covered(a)
<1>1. CASE home[a] \in pending \/ home[a] = handling
  BY <1>1 DEF Covered
<1>2. CASE \E d \in Dirs : home[a] \in Under[d] /\ Awaited(d)
  BY <1>2 DEF Awaited, Covered
<1>3. CASE \E t \in Threads : Tends(t, a)
  <2>1. PICK t \in Threads : Tends(t, a)
    BY <1>3
  <2>2. pc[t] # "idle"
    BY <2>1 DEF Tends, Gating, Holding
  <2>3. at[t] # NoDir /\ (pc[t] \in Importing \ {"renaming"} => now[t] # NoDir)
    BY <2>2, WatcherAssumption DEF IInv, Placed
  <2>4. CASE pc[t] \in {"relabeling", "scanning"}
    <3>1. home[a] \in Under[now[t]] /\ Gating(t) /\ now[t] # NoDir
      BY <2>1, <2>3, <2>4 DEF Tends, Gating, Importing
    <3> QED
      BY <2>3, <3>1 DEF Covered
  <2>5. CASE pc[t] = "landing" /\ a \in files[t] /\ home[a] \in Under[now[t]]
    <3>1. now[t] # NoDir /\ files[t] # {}
      BY <2>3, <2>5 DEF Importing
    <3> QED
      BY <2>3, <2>5, <3>1 DEF Covered
  <2>6. CASE Gating(t) /\ home[a] \in Under[at[t]]
    BY <2>3, <2>6 DEF Covered
  <2> QED
    BY <2>1, <2>4, <2>5, <2>6 DEF Tends
<1> QED
  BY <1>1, <1>2, <1>3 DEF Tended

\* A step at directory d, on behalf of thread t: what awaited or tended an
\* archive still does, unless d is awaited now, t tends it, or it is excused.
Carries(t, d) ==
    /\ home' = home /\ pending \subseteq pending'
    /\ handling' = handling \/ (handling = d /\ Awaited(d)')
    /\ \A e \in Dirs \ {d} : Awaited(e) => Awaited(e)'
    /\ \A a \in Archives : Present(a)' => Present(a)
    /\ \A u \in Threads \ {t} :
          /\ pc'[u] = pc[u] /\ at'[u] = at[u] /\ now'[u] = now[u] /\ files'[u] = files[u]
          /\ fresh'[u] = fresh[u] \/ (at[u] = d /\ Awaited(d)')
    /\ \A a \in Archives :
          \/ ~Present(a)' \/ excused'[a] # {}
          \/ /\ excused[a] # {} => home[a] \in Under[d] /\ Awaited(d)'
             /\ Awaited(d) /\ home[a] \in Under[d] => Awaited(d)' \/ Tends(t, a)'
             /\ Tends(t, a) => Tends(t, a)' \/ (home[a] \in Under[d] /\ Awaited(d)')

LEMMA CarriesTend ==
  ASSUME TendInv, Running, NEW t \in Threads, NEW d \in Dirs, Carries(t, d)
  PROVE  TendInv'
<1> SUFFICES ASSUME NEW a \in Archives, Present(a)', excused'[a] = {}
             PROVE  Tended(a)'
  BY DEF TendInv
<1>0. Awaited(d)' /\ home[a] \in Under[d] => Tended(a)'
  BY DEF Tended, Carries
<1>1. Tended(a) \/ (home[a] \in Under[d] /\ Awaited(d)')
  BY DEF TendInv, Carries
<1>2. CASE home[a] \in pending
  BY <1>2 DEF Tended, Carries
<1>3. CASE home[a] = handling
  <2>1. d \in Under[d]
    BY WatcherAssumption
  <2> QED
    BY <1>0, <1>3, <2>1 DEF Tended, Carries
<1>4. ASSUME NEW e \in Dirs, home[a] \in Under[e], Awaited(e) PROVE Tended(a)'
  <2>1. CASE e = d
    BY <1>0, <1>4, <2>1 DEF Tended, Carries
  <2>2. CASE e # d
    BY <1>4, <2>2 DEF Tended, Carries
  <2> QED
    BY <2>1, <2>2
<1>5. ASSUME NEW u \in Threads, Tends(u, a) PROVE Tended(a)'
  <2>1. CASE u = t
    BY <1>0, <1>5, <2>1 DEF Tended, Carries
  <2>2. CASE u # t
    <3>1. /\ pc'[u] = pc[u] /\ at'[u] = at[u] /\ now'[u] = now[u] /\ files'[u] = files[u]
          /\ home'[a] = home[a]
          /\ fresh'[u] = fresh[u] \/ (at[u] = d /\ Awaited(d)')
      BY <2>2 DEF Carries
    <3>2. CASE fresh'[u] = fresh[u]
      <4>1. Tends(u, a)'
        BY <1>5, <3>1, <3>2 DEF Tends, Gating
      <4> QED
        BY <4>1 DEF Tended
    <3>3. CASE at[u] = d /\ Awaited(d)' /\ home[a] \in Under[at[u]]
      BY <1>0, <3>3
    <3>4. CASE home[a] \notin Under[at[u]]
      <4>1. Tends(u, a)'
        BY <1>5, <3>1, <3>4 DEF Tends
      <4> QED
        BY <4>1 DEF Tended
    <3> QED
      BY <3>1, <3>2, <3>3, <3>4
  <2> QED
    BY <2>1, <2>2
<1> QED
  BY <1>0, <1>1, <1>2, <1>3, <1>4, <1>5 DEF Tended

\* The tracker does not reopen, and a session that is being closed closes it.
LEMMA RunningStays ==
  ASSUME IInv, [Next]_vars, Running'
  PROVE  Running
<1> USE DEF Running, tracker, world
<1>1. ASSUME NEW t \in Threads, Step(t) PROVE Running
  <2>1. CASE Uncounted(t)
    BY <1>1, <2>1, UncountedKeeps DEF Keeps, IInv, TypeOK
  <2>2. CASE Invoke(t) \/ Admit(t)
    BY <1>1, <2>2 DEF Invoke, Admit, Latch
  <2>3. CASE Leave(t)
    BY <1>1, <2>3 DEF Leave
  <2> QED
    BY <1>1, <2>1, <2>2, <2>3 DEF Uncounted
<1>2. CASE User
  BY <1>2 DEF User, Arrive, Write, Withdraw, Change
<1>3. CASE RequestStop \/ Interrupt
  BY <1>3 DEF RequestStop, Interrupt
<1>4. CASE Notify
  BY <1>4 DEF Notify, Latch
<1>5. CASE (\E d \in Dirs : Ages(d) \/ Deliver(d)) \/ (\E a \in Archives : Expire(a))
  <2>1. UNCHANGED <<tracker, world>>
    BY <1>5 DEF Ages, Deliver, Expire
  <2> QED
    BY <2>1
<1>6. CASE \E t \in TimerThreads, d \in Dirs : Fire(t, d)
  BY <1>6 DEF Fire
<1>7. CASE Session
  BY <1>7 DEF Session, Discover, StartObserver, SeeStop, StopObserver, Close, Release, Latch,
              IInv, Closing
<1> QED
  BY <1>1, <1>2, <1>3, <1>4, <1>5, <1>6, <1>7 DEF Next, vars

\* A thread's step that leaves the timers and the other threads alone carries
\* every archive on if the thread keeps its own or excuses them.
Minds(t) ==
    /\ UNCHANGED <<home, handling, settle, stray, retry, todo>>
    /\ pending \subseteq pending'
    /\ \A u \in Threads \ {t} :
          /\ pc'[u] = pc[u] /\ at'[u] = at[u] /\ now'[u] = now[u] /\ files'[u] = files[u]
          /\ fresh'[u] = fresh[u]
    /\ \A a \in Archives :
          /\ Present(a)' => Present(a)
          /\ excused[a] # {} => excused'[a] # {}
          /\ Present(a)' /\ Tends(t, a) => Tends(t, a)' \/ excused'[a] # {}

LEMMA MindsCarries ==
  ASSUME NEW t \in Threads, NEW d \in Dirs, Minds(t)
  PROVE  Carries(t, d)
<1>1. \A e \in Dirs : Awaited(e)' <=> Awaited(e)
  BY DEF Minds, Awaited
<1> QED
  BY <1>1 DEF Minds, Carries

LEMMA CallbackCarries ==
  ASSUME IInv, Running', NEW t \in Threads, Callback(t),
         NEW d \in Dirs, d = at[t]
  PROVE  Carries(t, d)
<1>m. Minds(t) => Carries(t, d)
  BY MindsCarries
<1> USE DEF Minds, Carries, Awaited, Tends, Gating, Holding, Importing, Goto, Present, tree,
            observer, timers, tracker, counters, world, threads
<1>0. /\ pc \in [Threads -> Labels] /\ at \in [Threads -> Dirs \cup {NoDir}]
      /\ fresh \in [Threads -> BOOLEAN] /\ files \in [Threads -> SUBSET Archives]
      /\ settle \in [Dirs -> {"none", "armed", "fired"}]
      /\ retry \in [Dirs -> {"none", "armed", "fired"}]
      /\ stray \in [Dirs -> Nat]
      /\ excused \in [Archives -> SUBSET {"startup", "pass", "hold", "deferred"}]
  BY DEF IInv, TypeOK
<1>1. CASE Invoke(t)
  <2>1. Minds(t)
    BY <1>0, <1>1 DEF Invoke, Latch, Running
  <2> QED
    BY <1>1, <1>m, <2>1
<1>2. CASE PopTimer(t)
  BY <1>0, <1>2 DEF PopTimer
<1>3. CASE WaitForAge(t)
  BY <1>0, <1>3 DEF WaitForAge, Latch, Running
<1>4. CASE RetryCallback(t)
  BY <1>0, <1>4 DEF RetryCallback
<1>5. CASE Dispatch(t)
  <2>1. Minds(t)
    BY <1>0, <1>5 DEF Dispatch
  <2> QED
    BY <1>5, <1>m, <2>1
<1>6. CASE Guard(t)
  <2>1. CASE Busy(at[t]) = {}
    <3>1. Minds(t)
      BY <1>0, <1>6, <2>1 DEF Guard
    <3> QED
      BY <1>6, <1>m, <3>1
  <2>2. CASE Busy(at[t]) # {}
    <3>1. \A a \in Archives : excused[a] # {} \/ a \in Below(at[t]) => excused'[a] # {}
      BY <1>0, <1>6, <2>2, SMTT(30) DEF Guard, Excuse
    <3>2. /\ UNCHANGED <<tree, observer, timers, todo, at, now, files, fresh>>
          /\ pc[t] = "guarding" /\ pc' = [pc EXCEPT ![t] = "returning"]
      BY <1>6, <2>2 DEF Guard
    <3>3. Minds(t)
      BY <1>0, <3>1, <3>2 DEF Below
    <3> QED
      BY <1>6, <1>m, <3>3
  <2> QED
    BY <2>1, <2>2
<1> QED
  BY <1>1, <1>2, <1>3, <1>4, <1>5, <1>6 DEF Callback

LEMMA GateCarries ==
  ASSUME IInv, Running', NEW t \in Threads, Gate(t),
         NEW d \in Dirs, d = at[t]
  PROVE  Carries(t, d)
<1>m. Minds(t) => Carries(t, d)
  BY MindsCarries
<1> USE DEF Minds, Carries, Awaited, Tends, Gating, Holding, Importing, Goto, Present, tree,
            observer, timers, tracker, counters, world, threads
<1>0. /\ pc \in [Threads -> Labels] /\ at \in [Threads -> Dirs \cup {NoDir}]
      /\ fresh \in [Threads -> BOOLEAN] /\ files \in [Threads -> SUBSET Archives]
      /\ settle \in [Dirs -> {"none", "armed", "fired"}]
      /\ retry \in [Dirs -> {"none", "armed", "fired"}]
      /\ stray \in [Dirs -> Nat]
      /\ state \in [Archives -> {"away", "partial", "ready", "landed", "held"}]
      /\ excused \in [Archives -> SUBSET {"startup", "pass", "hold", "deferred"}]
  BY DEF IInv, TypeOK
<1>1. CASE Admit(t)
  <2>1. Minds(t)
    BY <1>0, <1>1 DEF Admit, Latch, Running
  <2> QED
    BY <1>1, <1>m, <2>1
<1>2. CASE List(t)
  <2>1. Minds(t)
    BY <1>0, <1>2 DEF List, Below
  <2> QED
    BY <1>2, <1>m, <2>1
<1>3. CASE Capture(t) \/ Probe(t) \/ Verify(t)
  <2>1. Minds(t)
    BY <1>0, <1>3 DEF Capture, Probe, Verify
  <2> QED
    BY <1>3, <1>m, <2>1
<1>4. CASE Schedule(t)
  <2>1. CASE ~fresh[t] /\ UNCHANGED <<tracker, fresh>>
    <3>1. Minds(t)
      BY <1>0, <1>4, <2>1 DEF Schedule
    <3> QED
      BY <1>4, <1>m, <3>1
  <2>2. CASE retry' = [retry EXCEPT ![at[t]] = "armed"] /\ Supersede(at[t], fresh)
             /\ UNCHANGED <<settle, stray>>
    BY <1>0, <1>4, <2>2 DEF Schedule, Supersede
  <2> QED
    BY <1>4, <2>1, <2>2 DEF Schedule, Latch, Running
<1>5. CASE Leave(t)
  <2>1. Minds(t)
    BY <1>0, <1>5 DEF Leave, Rest
  <2> QED
    BY <1>5, <1>m, <2>1
<1> QED
  BY <1>1, <1>2, <1>3, <1>4, <1>5 DEF Gate

LEMMA PassCarries ==
  ASSUME IInv, Running', NEW t \in Threads, Pass(t), ~Rename(t),
         NEW d \in Dirs, d = at[t]
  PROVE  Carries(t, d)
<1>m. Minds(t) => Carries(t, d)
  BY MindsCarries
<1> USE DEF Minds, Carries, Awaited, Tends, Gating, Holding, Importing, Goto, Present, tree,
            observer, timers, tracker, counters, world, threads
<1>0. /\ pc \in [Threads -> Labels] /\ at \in [Threads -> Dirs \cup {NoDir}]
      /\ fresh \in [Threads -> BOOLEAN] /\ files \in [Threads -> SUBSET Archives]
      /\ settle \in [Dirs -> {"none", "armed", "fired"}]
      /\ retry \in [Dirs -> {"none", "armed", "fired"}]
      /\ stray \in [Dirs -> Nat]
      /\ state \in [Archives -> {"away", "partial", "ready", "landed", "held"}]
      /\ excused \in [Archives -> SUBSET {"startup", "pass", "hold", "deferred"}]
  BY DEF IInv, TypeOK
<1>1. CASE Claim(t) \/ Relabel(t) \/ Unclaim(t)
  <2>1. Minds(t)
    BY <1>0, <1>1 DEF Claim, Relabel, Unclaim
  <2> QED
    BY <1>1, <1>m, <2>1
<1>2. CASE Scan(t)
  <2>1. Minds(t)
    BY <1>0, <1>2 DEF Scan, Below
  <2> QED
    BY <1>2, <1>m, <2>1
<1>3. CASE \E c \in Dirs : Land(t, c)
  <2>1. PICK c \in Dirs : Land(t, c)
    BY <1>3
  <2> DEFINE listed == {a \in files[t] : home[a] = c}
             nested == \E a \in files[t] : home[a] \in Under[c] \ {c}
             leaving == IF nested THEN {a \in listed : Present(a)} ELSE Below(c)
  <2>2. PICK landed \in SUBSET leaving :
          /\ state' = [a \in Archives |-> IF a \in landed THEN "landed" ELSE state[a]]
          /\ Excuse(leaving \ landed, "deferred")
          /\ files' = [files EXCEPT ![t] = @ \ listed]
          /\ Goto(t, IF files[t] = listed THEN "unclaiming" ELSE "landing")
    BY <2>1 DEF Land
  <2>3. /\ pc[t] = "landing" /\ pending \subseteq pending'
        /\ UNCHANGED <<home, handling, settle, stray, retry, todo, at, now, fresh>>
    BY <2>1 DEF Land
  <2>4. \A a \in Archives : a \in listed /\ Present(a) => a \in leaving
    BY WatcherAssumption DEF Below
  <2>5. \A a \in Archives : excused[a] # {} \/ a \in leaving \ landed => excused'[a] # {}
    BY <1>0, <2>2 DEF Excuse
  <2>6. \A a \in Archives : state'[a] = IF a \in landed THEN "landed" ELSE state[a]
    BY <2>2
  <2>7. \A a \in Archives : Present(a)' => Present(a) /\ (a \in listed => excused'[a] # {})
    BY <2>4, <2>5, <2>6
  <2>8. \A a \in files[t] \ listed : a \in files'[t] /\ pc'[t] = "landing"
    BY <1>0, <2>2
  <2>9. \A u \in Threads \ {t} : pc'[u] = pc[u] /\ files'[u] = files[u]
    BY <1>0, <2>2
  <2>10. Minds(t)
    <3> HIDE DEF listed, leaving
    <3>1. \A a \in Archives : Present(a)' /\ Tends(t, a) => Tends(t, a)' \/ excused'[a] # {}
      BY <2>3, <2>7, <2>8
    <3> QED
      BY <2>3, <2>5, <2>7, <2>9, <3>1
  <2> QED
    BY <1>m, <2>3, <2>10
<1>4. CASE Abort(t)
  <2>1. \A a \in Archives : excused[a] # {} \/ a \in Below(now[t]) => excused'[a] # {}
    BY <1>0, <1>4 DEF Abort, Excuse
  <2>2. Minds(t)
    BY <1>0, <1>4, <2>1 DEF Abort, Below
  <2> QED
    BY <1>4, <1>m, <2>2
<1> QED
  BY <1>1, <1>2, <1>3, <1>4 DEF Pass

LEMMA HoldCarries ==
  ASSUME IInv, Running', NEW t \in Threads, Hold(t),
         NEW d \in Dirs, d = at[t]
  PROVE  Carries(t, d)
<1>m. Minds(t) => Carries(t, d)
  BY MindsCarries
<1> USE DEF Minds, Carries, Awaited, Tends, Gating, Holding, Importing, Goto, Present, tree,
            observer, timers, tracker, counters, world, threads
<1>0. /\ pc \in [Threads -> Labels] /\ at \in [Threads -> Dirs \cup {NoDir}]
      /\ fresh \in [Threads -> BOOLEAN] /\ files \in [Threads -> SUBSET Archives]
      /\ settle \in [Dirs -> {"none", "armed", "fired"}]
      /\ retry \in [Dirs -> {"none", "armed", "fired"}]
      /\ stray \in [Dirs -> Nat]
      /\ state \in [Archives -> {"away", "partial", "ready", "landed", "held"}]
      /\ excused \in [Archives -> SUBSET {"startup", "pass", "hold", "deferred"}]
  BY DEF IInv, TypeOK
<1>1. CASE HoldClaim(t)
  <2>1. Minds(t)
    BY <1>0, <1>1 DEF HoldClaim
  <2> QED
    BY <1>1, <1>m, <2>1
<1>2. CASE \E a \in Archives : Consider(t, a) \/ Commit(t, a) \/ CommitFails(t, a)
  <2>1. PICK a \in Archives : Consider(t, a) \/ Commit(t, a) \/ CommitFails(t, a)
    BY <1>2
  <2>2. /\ pc[t] \in {"considering", "committing"}
        /\ \E l \in {"considering", "committing"} : pc' = [pc EXCEPT ![t] = l]
        /\ UNCHANGED <<home, handling, pending, settle, stray, retry, todo, at, now, fresh,
                       excused>>
    BY <1>0, <2>1 DEF Consider, Commit, CommitFails
  <2>3. \A u \in Threads \ {t} : files'[u] = files[u]
    BY <1>0, <2>1 DEF Consider, Commit, CommitFails
  <2>4. \A b \in Archives : state'[b] \in {state[b], "held"}
    BY <1>0, <2>1 DEF Consider, Commit, CommitFails
  <2>5. Minds(t)
    BY <1>0, <2>2, <2>3, <2>4
  <2> QED
    BY <1>m, <2>2, <2>5
<1>3. CASE HoldsDone(t) \/ HoldRelease(t)
  <2>1. /\ pc[t] \in {"considering", "unholding"}
        /\ \E l \in {"unholding", "relisting", "scheduling"} : pc' = [pc EXCEPT ![t] = l]
        /\ UNCHANGED <<home, state, handling, pending, settle, stray, retry, todo, at, now,
                       fresh, files, excused>>
    BY <1>0, <1>3 DEF HoldsDone, HoldRelease
  <2>2. Minds(t)
    BY <1>0, <2>1
  <2> QED
    BY <1>m, <2>1, <2>2
<1> QED
  BY <1>1, <1>2, <1>3 DEF Hold

LEMMA StepCarries ==
  ASSUME IInv, Running', NEW t \in Threads, Step(t), ~Rename(t)
  PROVE  \E d \in Dirs : Carries(t, d)
<1>1. pc[t] # "idle"
  <2>1. CASE Callback(t)
    BY <2>1 DEF Callback, Invoke, PopTimer, WaitForAge, RetryCallback, Dispatch, Guard
  <2>2. CASE Gate(t)
    BY <2>2 DEF Gate, Admit, List, Capture, Probe, Verify, Schedule, Leave
  <2>3. CASE Pass(t)
    BY <2>3 DEF Pass, Claim, Rename, Relabel, Scan, Land, Abort, Unclaim
  <2>4. CASE Hold(t)
    BY <2>4 DEF Hold, HoldClaim, Consider, Commit, CommitFails, HoldsDone, HoldRelease
  <2> QED
    BY <2>1, <2>2, <2>3, <2>4 DEF Step
<1>2. PICK d \in Dirs : d = at[t]
  BY <1>1 DEF IInv, Placed
<1> QED
  BY <1>2, CallbackCarries, GateCarries, PassCarries, HoldCarries DEF Step

\* A timer that goes off hands its directory to the thread of its callback.
LEMMA FireCarries ==
  ASSUME IInv, Running', NEW t \in TimerThreads, NEW d \in Dirs, Fire(t, d)
  PROVE  Carries(t, d)
<1>0. /\ pc \in [Threads -> Labels] /\ at \in [Threads -> Dirs \cup {NoDir}]
      /\ fresh \in [Threads -> BOOLEAN] /\ files \in [Threads -> SUBSET Archives]
      /\ settle \in [Dirs -> {"none", "armed", "fired"}]
      /\ retry \in [Dirs -> {"none", "armed", "fired"}]
      /\ stray \in [Dirs -> Nat]
  BY DEF IInv, TypeOK
<1>1. /\ t \in Threads /\ pc[t] = "idle" /\ at' = [at EXCEPT ![t] = d]
      /\ UNCHANGED <<home, state, pending, handling, todo, files, now, excused>>
  BY DEF Fire, Threads, tree, observer, world
<1>2. \A a \in Archives : ~Tends(t, a)
  BY <1>1 DEF Tends, Gating, Holding
<1>3. /\ \A u \in Threads \ {t} : pc'[u] = pc[u] /\ at'[u] = at[u] /\ fresh'[u] = fresh[u]
      /\ \A e \in Dirs \ {d} : Awaited(e) => Awaited(e)'
  BY <1>0, <1>1 DEF Fire, Goto, Awaited
<1>4. at'[t] = d /\ (pc'[t] = "settleFired" \/ (pc'[t] = "retryFired" /\ fresh'[t]))
  BY <1>0, <1>1 DEF Fire, Goto
<1>5. \A a \in Archives : home[a] \in Under[d] => Tends(t, a)'
  BY <1>1, <1>4 DEF Tends, Gating
<1> QED
  BY <1>1, <1>2, <1>3, <1>5 DEF Carries, Present

\* Startup takes the directory it visits onto the main thread.
LEMMA DiscoverCarries ==
  ASSUME IInv, NEW d \in Dirs, Discover(d)
  PROVE  Carries(Main, d)
<1>0. /\ pc \in [Threads -> Labels] /\ at \in [Threads -> Dirs \cup {NoDir}]
      /\ Main \in Threads
  BY DEF IInv, TypeOK, Threads
<1>1. /\ pc[Main] = "idle" /\ todo' = todo \ {d}
      /\ UNCHANGED <<home, state, pending, handling, settle, stray, retry, files, now, fresh,
                     excused>>
  BY DEF Discover, tree, observer, tracker, timers, threads
<1>2. \A a \in Archives : ~Tends(Main, a)
  BY <1>1 DEF Tends, Gating, Holding
<1>3. /\ \A u \in Threads \ {Main} : pc'[u] = pc[u] /\ at'[u] = at[u]
      /\ \A e \in Dirs \ {d} : Awaited(e) => Awaited(e)'
  BY <1>0, <1>1 DEF Discover, Goto, Awaited
<1>4. CASE Below(d) = {}
  <2>1. \A a \in Archives : Present(a)' => home[a] \notin Under[d]
    BY <1>1, <1>4 DEF Below, Present
  <2> QED
    BY <1>1, <1>2, <1>3, <2>1 DEF Carries, Present
<1>5. CASE Below(d) # {}
  <2>1. at'[Main] = d /\ pc'[Main] = "admitting"
    BY <1>0, <1>5 DEF Discover, Goto
  <2>2. \A a \in Archives : home[a] \in Under[d] => Tends(Main, a)'
    BY <1>1, <2>1 DEF Tends, Gating
  <2> QED
    BY <1>1, <1>2, <1>3, <2>2 DEF Carries, Present
<1> QED
  BY <1>4, <1>5

\* An event that is handled arms the settle timer of its directory, which
\* stands in for the retry it cancels and the generations it supersedes.
LEMMA NotifyCarries ==
  ASSUME IInv, Running', NEW t \in Threads, Notify, NEW d \in Dirs, d = handling
  PROVE  Carries(t, d)
<1>1. /\ handling # NoDir /\ handling' = NoDir
      /\ settle' = [settle EXCEPT ![d] = "armed"]
      /\ retry' = [retry EXCEPT ![d] = "none"]
      /\ Supersede(d, fresh)
      /\ excused' = [a \in Archives |-> IF home[a] = d THEN {} ELSE excused[a]]
      /\ stray' = stray
  BY DEF Notify, Latch, Running, Supersede
<1>2. UNCHANGED <<home, state, pending, todo, pc, at, now, files>>
  BY DEF Notify, tree, world
<1>3. /\ fresh \in [Threads -> BOOLEAN]
      /\ settle \in [Dirs -> {"none", "armed", "fired"}]
      /\ retry \in [Dirs -> {"none", "armed", "fired"}]
  BY <1>1 DEF IInv, TypeOK
<1>4. Awaited(d)' /\ \A e \in Dirs \ {d} : Awaited(e) => Awaited(e)'
  <2>1. settle'[d] = "armed"
    BY <1>1, <1>3
  <2>2. \A e \in Dirs \ {d} : settle'[e] = settle[e] /\ retry'[e] = retry[e]
    BY <1>1, <1>3
  <2> QED
    BY <1>1, <1>2, <2>1, <2>2 DEF Awaited
<1>5. \A u \in Threads : fresh'[u] = fresh[u] \/ at[u] = d
  BY <1>1, <1>3 DEF Supersede
<1>6. \A a \in Archives : excused[a] # {} => excused'[a] # {} \/ home[a] \in Under[d]
  BY <1>1, <1>3, WatcherAssumption
<1>7. \A a \in Archives : Tends(t, a) => Tends(t, a)' \/ home[a] \in Under[d]
  BY <1>2, <1>5 DEF Tends, Gating
<1> QED
  BY <1>2, <1>3, <1>4, <1>5, <1>6, <1>7 DEF Carries, Present

\* A dropped event excuses the archives of its directory; a taken one has them
\* at hand until notify().
LEMMA DeliverTend ==
  ASSUME IInv, TendInv, Running, NEW d \in Dirs, Deliver(d)
  PROVE  TendInv'
<1>1. /\ UNCHANGED <<home, state, settle, stray, retry, todo, pc, at, now, fresh, files>>
      /\ handling = NoDir /\ pending' = pending \ {d}
  BY DEF Deliver, tree, tracker, timers, world, threads
<1>2. CASE handling' = d /\ UNCHANGED excused
  <2>1. home \in [Archives -> Dirs] /\ NoDir \notin Dirs
    BY WatcherAssumption DEF IInv, TypeOK
  <2>2. ASSUME NEW a \in Archives, Tended(a) PROVE Tended(a)'
    <3>1. \A e \in Dirs : Awaited(e) => Awaited(e)'
      BY <1>1 DEF Awaited
    <3>2. \A t \in Threads : Tends(t, a) => Tends(t, a)'
      BY <1>1 DEF Tends, Gating
    <3>3. home[a] \in pending \/ home[a] = handling => home'[a] \in pending' \/ home'[a] = handling'
      BY <1>1, <1>2, <2>1
    <3> QED
      BY <1>1, <2>2, <3>1, <3>2, <3>3 DEF Tended
  <2> QED
    BY <1>1, <1>2, <2>2 DEF TendInv, Present
<1>3. CASE \E c \in {"pass", "hold"} : Excuse(In(d), c) /\ UNCHANGED handling
  <2>1. \A a \in Archives : excused[a] # {} \/ a \in In(d) => excused'[a] # {}
    BY <1>3 DEF Excuse
  <2> QED
    BY <1>1, <1>3, <2>1 DEF TendInv, Tended, Tends, Gating, Awaited, Present, In
<1>4. CASE \E p \in processing : d \in Under[p]
  <2>1. Excuse(In(d), Cause({p \in processing : d \in Under[p]})) /\ UNCHANGED handling
    BY <1>4 DEF Deliver
  <2> QED
    BY <1>3, <2>1 DEF Cause
<1>5. CASE ~\E p \in processing : d \in Under[p]
  BY <1>2, <1>5 DEF Deliver
<1> QED
  BY <1>4, <1>5

\* What arrives is announced, or startup has yet to reach it, or it is excused.
LEMMA UserTend ==
  ASSUME IInv, TendInv, Running, User
  PROVE  TendInv'
<1>1. PICK b \in Archives :
         (\E new \in {"partial", "ready"} : Arrive(b, new) \/ Write(b, new)) \/ Withdraw(b)
  BY DEF User
<1>2. /\ UNCHANGED <<handling, settle, stray, retry, closed, session, todo, pc, at, now, fresh,
                     files>>
      /\ \A a \in Archives \ {b} : home'[a] = home[a] /\ (Present(a)' <=> Present(a))
  BY <1>1 DEF Arrive, Write, Withdraw, Change, tracker, timers, world, threads, IInv, TypeOK, Present
<1>3. pending \subseteq pending' /\ \A a \in Archives : excused[a] # {} => excused'[a] # {}
  <2>1. ASSUME NEW d, Announce(b, d)
        PROVE  pending \subseteq pending' /\ \A a \in Archives : excused[a] # {} => excused'[a] # {}
    BY <2>1 DEF Announce, Excuse
  <2> QED
    BY <1>1, <2>1 DEF Arrive, Write, Withdraw
<1>4. ASSUME NEW a \in Archives, a # b, Tended(a) PROVE Tended(a)'
  BY <1>2, <1>3, <1>4 DEF Tended, Tends, Gating, Awaited
<1>5. CASE Withdraw(b)
  <2>1. ~Present(b)'
    BY <1>5 DEF Withdraw, Change, Present, IInv, TypeOK
  <2> QED
    BY <1>2, <1>3, <1>4, <2>1 DEF TendInv
<1>6. CASE \E new \in {"partial", "ready"} : Arrive(b, new) \/ Write(b, new)
  <2>1. Announce(b, home'[b]) /\ home'[b] \in Dirs
    BY <1>6, WatcherAssumption DEF Arrive, Write, IInv, TypeOK
  <2>2. CASE session = "watching"
    BY <1>2, <1>3, <1>4, <2>1, <2>2 DEF Announce, TendInv, Tended
  <2>3. CASE \E e \in todo : home'[b] \in Under[e]
    <3>1. todo \subseteq Dirs
      BY DEF IInv, TypeOK
    <3> QED
      BY <1>2, <1>3, <1>4, <2>3, <3>1 DEF TendInv, Tended, Awaited
  <2>4. CASE Excuse({b}, "startup")
    <3>1. excused'[b] # {}
      BY <2>4 DEF Excuse
    <3> QED
      BY <1>2, <1>3, <1>4, <3>1 DEF TendInv
  <2> QED
    BY <2>1, <2>2, <2>3, <2>4 DEF Announce
<1> QED
  BY <1>1, <1>5, <1>6

\* A renamed directory has nothing below it but its own archives, and the pass
\* follows them to the clean name.
LEMMA RenameTend ==
  ASSUME IInv, TendInv, Running, NEW t \in Threads, Rename(t)
  PROVE  TendInv'
<1>1. /\ pc[t] = "renaming" /\ pc' = [pc EXCEPT ![t] = "relabeling"]
      /\ UNCHANGED <<state, handling, settle, stray, retry, closed, session, todo, at, fresh,
                     files, excused>>
  BY DEF Rename, Goto, tracker, timers, world
<1>2. /\ pc \in [Threads -> Labels] /\ now \in [Threads -> Dirs \cup {NoDir}]
      /\ home \in [Archives -> Dirs] /\ at[t] \in Dirs
  BY <1>1 DEF IInv, TypeOK, Placed
<1>3. \A u \in Threads \ {t} : pc'[u] = pc[u] /\ now'[u] = now[u]
  BY <1>1, <1>2 DEF Rename
<1>4. /\ pending \subseteq pending' /\ pc'[t] = "relabeling"
      /\ \/ now'[t] = at[t] /\ home' = home
         \/ /\ Under[at[t]] = {at[t]} /\ now'[t] = CleanName[at[t]]
            /\ home' = [a \in Archives |-> IF a \in In(at[t]) THEN now'[t] ELSE home[a]]
            /\ now'[t] \in Under[now'[t]]
  BY <1>1, <1>2, WatcherAssumption DEF Rename
<1>5. \A a \in Archives :
         Present(a)' /\ home'[a] # home[a] => Tends(t, a)'
  BY <1>2, <1>4 DEF Tends
<1>6. \A a \in Archives : Present(a)' /\ Tends(t, a) => Tends(t, a)'
  BY <1>1, <1>2, <1>4 DEF Tends, In, Present
<1>7. ASSUME NEW a \in Archives, NEW u \in Threads, u # t, home'[a] = home[a], Tends(u, a)
      PROVE  Tends(u, a)'
  BY <1>1, <1>3, <1>7 DEF Tends, Gating
<1>8. \A d \in Dirs : Awaited(d) => Awaited(d)'
  BY <1>1 DEF Awaited
<1>9. ASSUME NEW a \in Archives, Present(a)', Tended(a) PROVE Tended(a)'
  <2>1. CASE home'[a] # home[a] \/ Tends(t, a)
    BY <1>5, <1>6, <1>9, <2>1 DEF Tended
  <2>2. CASE home'[a] = home[a] /\ ~Tends(t, a)
    BY <1>1, <1>4, <1>7, <1>8, <1>9, <2>2 DEF Tended
  <2> QED
    BY <2>1, <2>2
<1> QED
  BY <1>1, <1>9 DEF TendInv, Running, Present

LEMMA StepTend ==
  ASSUME IInv, TendInv, [Next]_vars
  PROVE  TendInv'
<1> SUFFICES ASSUME Running' PROVE TendInv'
  BY DEF TendInv
<1>0. Running
  BY RunningStays
<1>1. CASE \E t \in Threads : Step(t)
  <2>1. PICK t \in Threads : Step(t)
    BY <1>1
  <2>2. CASE Rename(t)
    BY <1>0, <2>2, RenameTend
  <2>3. CASE ~Rename(t)
    <3>1. PICK d \in Dirs : Carries(t, d)
      BY <2>1, <2>3, StepCarries
    <3> QED
      BY <1>0, <3>1, CarriesTend
  <2> QED
    BY <2>2, <2>3
<1>2. CASE \E t \in TimerThreads, d \in Dirs : Fire(t, d)
  <2>1. PICK t \in TimerThreads, d \in Dirs : Fire(t, d)
    BY <1>2
  <2>2. t \in Threads /\ Carries(t, d)
    BY <2>1, FireCarries DEF Threads
  <2> QED
    BY <1>0, <2>2, CarriesTend
<1>3. CASE \E d \in Dirs : Discover(d)
  <2>1. PICK d \in Dirs : Discover(d)
    BY <1>3
  <2>2. Main \in Threads /\ Carries(Main, d)
    BY <2>1, DiscoverCarries DEF Threads
  <2> QED
    BY <1>0, <2>2, CarriesTend
<1>4. CASE Notify
  <2>1. PICK d \in Dirs : d = handling
    BY <1>4 DEF Notify, IInv, TypeOK
  <2>2. Main \in Threads /\ Carries(Main, d)
    BY <1>4, <2>1, NotifyCarries DEF Threads
  <2> QED
    BY <1>0, <2>2, CarriesTend
<1>5. CASE User
  BY <1>0, <1>5, UserTend
<1>6. CASE \E d \in Dirs : Deliver(d)
  BY <1>0, <1>6, DeliverTend
<1>7. CASE UNCHANGED <<home, state, pending, handling, settle, stray, retry, todo, pc, at, now,
                       fresh, files, excused>>
  BY <1>0, <1>7 DEF TendInv, Tended, Tends, Gating, Awaited, Present
<1>8. RequestStop \/ Interrupt \/ (\E d \in Dirs : Ages(d)) \/ (\E a \in Archives : Expire(a))
         => UNCHANGED <<home, state, pending, handling, settle, stray, retry, todo, pc, at, now,
                        fresh, files, excused>>
  BY DEF RequestStop, Interrupt, Ages, Expire, tree, observer, tracker, timers, threads, world
<1>9. Session => \/ \E d \in Dirs : Discover(d)
                 \/ UNCHANGED <<home, state, pending, handling, settle, stray, retry, todo, pc,
                                at, now, fresh, files, excused>>
  <2>1. StartObserver \/ Release
           => UNCHANGED <<home, state, pending, handling, settle, stray, retry, todo, pc, at,
                          now, fresh, files, excused>>
    BY DEF StartObserver, Release, tree, observer, tracker, timers, threads
  <2>2. ~SeeStop /\ ~StopObserver /\ ~Close
    BY DEF SeeStop, StopObserver, Close, Latch, Running
  <2> QED
    BY <2>1, <2>2 DEF Session
<1> QED
  BY <1>1, <1>2, <1>3, <1>4, <1>5, <1>6, <1>7, <1>8, <1>9
     DEF Next, vars, tree, observer, tracker, timers, threads, world

\* No archive in the watch folder is ever forgotten: over every interleaving of
\* notify(), timer callbacks, retries, holds, imports and startup, for any tree
\* of directories and whether passes rename directories or not, something still
\* to come will look at it, unless the reason why not is on record.
THEOREM NeverForgottenAlways == Spec => []NeverForgotten
<1>1. Init => TendInv
  <2> SUFFICES ASSUME Init, NEW a \in Archives, Present(a) PROVE Tended(a)
    BY DEF TendInv
  <2>1. PICK d \in TopDirs : Home[a] \in Under[d]
    BY DEF Init
  <2>2. d \in Dirs /\ d \in todo /\ home[a] \in Under[d]
    BY <2>1, WatcherAssumption DEF Init
  <2> QED
    BY <2>2 DEF Tended, Awaited
<1>2. IInv /\ TendInv /\ [Next]_vars => TendInv'
  BY StepTend
<1>3. IInv /\ TendInv => NeverForgotten
  BY TendedIsCovered DEF TendInv, Running, NeverForgotten
<1> QED
  BY <1>1, <1>2, <1>3, InvAlways, PTL DEF Spec
=============================================================================
