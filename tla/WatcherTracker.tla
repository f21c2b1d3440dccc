--------------------------- MODULE WatcherTracker ---------------------------
(***************************************************************************)
(* The intake watcher of scripts/cbz_watcher.py: the observer thread that  *)
(* turns file events into settle timers, the timer threads that gate one   *)
(* directory on the readiness of its archives and import it, the optional  *)
(* holding of stalled archives (library/readiness_hold.py), and the main   *)
(* thread's startup discovery, stop file and drain.                        *)
(*                                                                         *)
(* An action is one critical section of the tracker lock or of             *)
(* _processing_dirs_lock, one look at the file system, or one file move.   *)
(* A readiness generation is only ever compared for equality with the      *)
(* directory's current one, so a thread carries `fresh` (its generation is *)
(* the current one) and every increment clears it.                         *)
(***************************************************************************)
EXTENDS Naturals, FiniteSets

CONSTANTS
    Dirs,         \* directory paths below the watch root
    Under,        \* Under[d]: d and the directories below it
    TopDirs,      \* children of the watch root, visited at startup
    CleanName,    \* the path the import pass renames a directory to
    Archives,
    Home,         \* the directory an archive is dropped in
    TimerThreads, \* threads that run timer callbacks
    Main,         \* the thread that owns the watch-root mutex
    NoDir,
    HoldsEnabled, \* --readiness-hold-root was given
    MinAge,       \* a directory may still be younger than MIN_AGE
    MaxChanges    \* bound on the changes to the files, by users and by passes

Threads == TimerThreads \cup {Main}

ASSUME WatcherAssumption ==
    /\ IsFiniteSet(TimerThreads)
    /\ Main \notin TimerThreads
    /\ NoDir \notin Dirs
    /\ TopDirs \subseteq Dirs
    /\ Under \in [Dirs -> SUBSET Dirs]
    /\ \A d \in Dirs : d \in Under[d]
    /\ CleanName \in [Dirs -> Dirs]
    /\ \A d \in Dirs : CleanName[d] # d => Under[d] = {d}
    /\ Home \in [Archives -> Dirs]
    /\ HoldsEnabled \in BOOLEAN
    /\ MinAge \in BOOLEAN
    /\ MaxChanges \in Nat

\* Directories form a tree: two that share one below them lie on one path.
ASSUME TreeAssumption ==
    \A d, e \in Dirs :
        Under[d] \cap Under[e] # {} => d \in Under[e] \/ e \in Under[d]

VARIABLES
    \* the watched tree: where each archive is, its bytes, its stall budget
    home, state, budget, aged, changes,
    \* the observer: undelivered events, the one being handled
    pending, handling,
    \* DirectorySettleTracker
    settle, stray, retry, closed, latched, callbacks, admitted,
    \* module globals and the stop file
    processing, stopFile,
    \* the main thread's session and the directories it still has to visit
    session, todo,
    \* every thread: where it stands, its directory before and after the
    \* rename, whether its generation is current, the archives at hand
    pc, at, now, fresh, files, moved, probed,
    \* history, read by no action: why an archive has nothing scheduled
    excused

tree == <<home, state, aged, changes>>
observer == <<pending, handling>>
timers == <<settle, stray, retry>>
tracker == <<timers, closed, latched>>
counters == <<callbacks, admitted>>
world == <<stopFile, session, todo>>
threads == <<at, now, fresh, files, moved, probed>>
vars == <<tree, budget, observer, tracker, counters, processing, world, pc,
          threads, excused>>

Present(a) == state[a] \in {"partial", "ready"}
In(d) == {a \in Archives : Present(a) /\ home[a] = d}
Below(d) == {a \in Archives : Present(a) /\ home[a] \in Under[d]}
Overlap(d, e) == d \in Under[e] \/ e \in Under[d]

Importing == {"renaming", "relabeling", "scanning", "landing", "unclaiming"}
Holding == {"considering", "committing", "unholding"}
Claiming == Importing \cup Holding

\* The claims in the way of directory d, and why an event met them.
Busy(d) == {p \in processing : Overlap(d, p)}
Cause(claims) ==
    IF \A p \in claims : \E t \in Threads : pc[t] \in Holding /\ at[t] = p
    THEN "hold" ELSE "pass"

Init ==
    /\ home = Home
    /\ state \in [Archives -> {"away", "partial", "ready"}]
    /\ \A a \in Archives : Present(a) => \E d \in TopDirs : Home[a] \in Under[d]
    /\ budget = [a \in Archives |-> "none"]
    /\ aged = IF MinAge THEN {} ELSE Dirs
    /\ changes = 0
    /\ pending = {} /\ handling = NoDir
    /\ settle = [d \in Dirs |-> "none"]
    /\ stray = [d \in Dirs |-> 0]
    /\ retry = [d \in Dirs |-> "none"]
    /\ closed = FALSE /\ latched = FALSE
    /\ callbacks = 0 /\ admitted = 0
    /\ processing = {}
    /\ stopFile = FALSE
    /\ session = "discovering" /\ todo = TopDirs
    /\ pc = [t \in Threads |-> "idle"]
    /\ at = [t \in Threads |-> NoDir]
    /\ now = [t \in Threads |-> NoDir]
    /\ fresh = [t \in Threads |-> FALSE]
    /\ files = [t \in Threads |-> {}]
    /\ moved = [t \in Threads |-> FALSE]
    /\ probed = [t \in Threads |-> {}]
    /\ excused = [a \in Archives |-> {}]

Goto(t, label) == pc' = [pc EXCEPT ![t] = label]
Excuse(lost, cause) ==
    excused' = [a \in Archives |-> IF a \in lost THEN excused[a] \cup {cause}
                                                 ELSE excused[a]]

-----------------------------------------------------------------------------
(* Users and their download tools.  The observer sees a change only while  *)
(* it runs; a rename of a budgeted archive's bytes makes its budget stale. *)

Change(a, new) ==
    /\ changes < MaxChanges
    /\ changes' = changes + 1
    /\ state' = [state EXCEPT ![a] = new]
    /\ budget' = [budget EXCEPT ![a] = IF @ = "none" THEN @ ELSE "changed"]
    /\ UNCHANGED <<tracker, counters, processing, world, pc, threads, handling>>

Announce(a, d) ==
    IF session = "watching"
    THEN pending' = pending \cup {d} /\ UNCHANGED excused
    ELSE /\ UNCHANGED pending
         /\ IF \E e \in todo : d \in Under[e] THEN UNCHANGED excused
                                             ELSE Excuse({a}, "startup")

Arrive(a, new) ==
    /\ state[a] = "away"
    /\ Change(a, new)
    /\ home' = [home EXCEPT ![a] = Home[a]]
    /\ aged' = IF MinAge /\ Below(Home[a]) = {} THEN aged \ {Home[a]} ELSE aged
    /\ Announce(a, Home[a])

Write(a, new) ==
    /\ state[a] = "partial"
    /\ Change(a, new)
    /\ Announce(a, home[a])
    /\ UNCHANGED <<home, aged>>

Withdraw(a) ==
    /\ Present(a)
    /\ Change(a, "away")
    /\ UNCHANGED <<home, aged, pending, excused>>

User == \E a \in Archives :
    \/ \E new \in {"partial", "ready"} : Arrive(a, new) \/ Write(a, new)
    \/ Withdraw(a)

\* Time: a directory reaches MIN_AGE, a budget runs out.
Ages(d) ==
    /\ d \notin aged
    /\ aged' = aged \cup {d}
    /\ UNCHANGED <<home, state, changes, budget, observer, tracker, counters,
                   processing, world, pc, threads, excused>>

Expire(a) ==
    /\ budget[a] = "counting"
    /\ budget' = [budget EXCEPT ![a] = "expired"]
    /\ UNCHANGED <<tree, observer, tracker, counters, processing, world, pc,
                   threads, excused>>

RequestStop ==
    /\ ~stopFile
    /\ stopFile' = TRUE
    /\ UNCHANGED <<tree, budget, observer, tracker, counters, processing,
                   session, todo, pc, threads, excused>>

-----------------------------------------------------------------------------
(* The tracker.                                                            *)

\* _poll_stop_locked under a caller that found the tracker open: the file is
\* there and visible, the request is latched and every timer in the two
\* tables is cancelled.  A polling error hides the file, so a caller that
\* goes on needs only ~closed.
Latch ==
    /\ closed \/ stopFile
    /\ closed' = TRUE
    /\ latched' = (latched \/ ~closed)
    /\ settle' = [d \in Dirs |-> "none"]
    /\ retry' = [d \in Dirs |-> "none"]
    /\ UNCHANGED stray

\* Every holder of the directory's earlier generation becomes stale.
Supersede(d, f) == fresh' = [t \in Threads |-> f[t] /\ at[t] # d]

\* CBZHandler._handle, first lock: an event below a directory in
\* _processing_dirs is dropped.
Deliver(d) ==
    /\ session \in {"watching", "stopping"}
    /\ d \in pending /\ handling = NoDir
    /\ pending' = pending \ {d}
    /\ LET above == {p \in processing : d \in Under[p]}
       IN  IF above # {}
           THEN Excuse(In(d), Cause(above)) /\ UNCHANGED handling
           ELSE handling' = d /\ UNCHANGED excused
    /\ UNCHANGED <<tree, budget, tracker, counters, processing, world, pc, threads>>

\* notify(): the settle timer in the table is replaced, the readiness retry
\* is cancelled, the generation moves on.
Notify ==
    /\ handling # NoDir
    /\ handling' = NoDir
    /\ \/ /\ Latch
          /\ UNCHANGED <<fresh, excused>>
       \/ /\ ~closed
          /\ settle' = [settle EXCEPT ![handling] = "armed"]
          /\ retry' = [retry EXCEPT ![handling] = "none"]
          /\ Supersede(handling, fresh)
          /\ excused' = [a \in Archives |->
                            IF home[a] = handling THEN {} ELSE excused[a]]
          /\ UNCHANGED <<stray, closed, latched>>
    /\ UNCHANGED <<tree, budget, pending, counters, processing, world, pc, at,
                   now, files, moved, probed>>

\* A timer goes off.  Its callback has not taken the tracker lock yet, and
\* cancel() no longer reaches it.
Fire(t, d) ==
    /\ pc[t] = "idle"
    /\ at' = [at EXCEPT ![t] = d]
    /\ \/ /\ settle[d] = "armed"
          /\ settle' = [settle EXCEPT ![d] = "fired"]
          /\ Goto(t, "settleFired")
          /\ UNCHANGED <<stray, retry, fresh>>
       \/ /\ stray[d] > 0
          /\ stray' = [stray EXCEPT ![d] = @ - 1]
          /\ Goto(t, "settleFired")
          /\ UNCHANGED <<settle, retry, fresh>>
       \/ /\ retry[d] = "armed"
          /\ retry' = [retry EXCEPT ![d] = "fired"]
          /\ fresh' = [fresh EXCEPT ![t] = TRUE]
          /\ Goto(t, "retryFired")
          /\ UNCHANGED <<settle, stray>>
    /\ UNCHANGED <<tree, budget, observer, closed, latched, counters, processing,
                   world, now, files, moved, probed, excused>>

\* A thread with nothing more to do forgets its directory.
Rest(t) ==
    /\ Goto(t, "idle")
    /\ at' = [at EXCEPT ![t] = NoDir]
    /\ now' = [now EXCEPT ![t] = NoDir]
    /\ fresh' = [fresh EXCEPT ![t] = FALSE]
    /\ files' = [files EXCEPT ![t] = {}]
    /\ moved' = [moved EXCEPT ![t] = FALSE]
    /\ probed' = [probed EXCEPT ![t] = {}]

\* Mutant of Invoke: the callback is not counted.
InvokeUncounted(t) ==
    /\ pc[t] \in {"settleFired", "retryFired"}
    /\ \/ Latch /\ Rest(t) /\ UNCHANGED counters
       \/ /\ ~closed
          /\ Goto(t, IF pc[t] = "settleFired" THEN "settled" ELSE "retrying")
          /\ UNCHANGED <<threads, tracker, admitted, callbacks>>
    /\ UNCHANGED <<tree, budget, observer, processing, world, excused>>

\* _tracked_callback.invoke: a callback is counted before it can leave the
\* lock, or does not run at all.
Invoke(t) ==
    /\ pc[t] \in {"settleFired", "retryFired"}
    /\ \/ Latch /\ Rest(t) /\ UNCHANGED counters
       \/ /\ ~closed
          /\ callbacks' = callbacks + 1
          /\ Goto(t, IF pc[t] = "settleFired" THEN "settled" ELSE "retrying")
          /\ UNCHANGED <<threads, tracker, admitted>>
    /\ UNCHANGED <<tree, budget, observer, processing, world, excused>>

\* _on_settled pops whatever timer the table holds, a newer one included:
\* that one stays armed with no way to cancel it.
PopTimer(t) ==
    /\ pc[t] = "settled"
    /\ stray' = [stray EXCEPT ![at[t]] = IF settle[at[t]] = "armed" THEN @ + 1 ELSE @]
    /\ settle' = [settle EXCEPT ![at[t]] = "none"]
    /\ Goto(t, "aging")
    /\ UNCHANGED <<tree, budget, observer, retry, closed, latched, counters,
                   processing, world, threads, excused>>

\* Mutant of WaitForAge: the young directory is only logged.
WaitForAgeUnarmed(t) ==
    /\ pc[t] = "aging"
    /\ Below(at[t]) # {} /\ at[t] \notin aged
    /\ Goto(t, "returning")
    /\ UNCHANGED <<tree, budget, observer, tracker, counters, processing, world,
                   threads, excused>>

\* The directory is younger than MIN_AGE: the rest of its age is waited for
\* with a timer that overwrites the table entry.
WaitForAge(t) ==
    /\ pc[t] = "aging"
    /\ Below(at[t]) # {} /\ at[t] \notin aged
    /\ Goto(t, "returning")
    /\ \/ Latch
       \/ /\ ~closed
          /\ stray' = [stray EXCEPT ![at[t]] =
                          IF settle[at[t]] = "armed" THEN @ + 1 ELSE @]
          /\ settle' = [settle EXCEPT ![at[t]] = "armed"]
          /\ UNCHANGED <<retry, closed, latched>>
    /\ UNCHANGED <<tree, budget, observer, counters, processing, world, threads,
                   excused>>

\* _on_readiness_retry: a superseded retry returns.
RetryCallback(t) ==
    /\ pc[t] = "retrying"
    /\ IF fresh[t]
       THEN retry' = [retry EXCEPT ![at[t]] = "none"] /\ Goto(t, "dispatching")
       ELSE Goto(t, "returning") /\ UNCHANGED retry
    /\ UNCHANGED <<settle, stray, tree, budget, observer, closed, latched,
                   counters, processing, world, threads, excused>>

\* _dispatch, first lock: a settle callback takes the directory's current
\* generation, a retry compares the one it was armed with.
Dispatch(t) ==
    /\ \/ /\ pc[t] = "aging"
          /\ Below(at[t]) = {} \/ at[t] \in aged
          /\ fresh' = [fresh EXCEPT ![t] = TRUE]
          /\ Goto(t, "guarding")
       \/ /\ pc[t] = "dispatching"
          /\ Goto(t, IF fresh[t] THEN "guarding" ELSE "returning")
          /\ UNCHANGED fresh
    /\ UNCHANGED <<tree, budget, observer, tracker, counters, processing, world,
                   at, now, files, moved, probed, excused>>

\* _dispatch, second lock: the directory is skipped, with nothing scheduled,
\* while an overlapping one is being imported or held.
Guard(t) ==
    /\ pc[t] = "guarding"
    /\ IF Busy(at[t]) = {}
       THEN Goto(t, "admitting") /\ UNCHANGED excused
       ELSE /\ Goto(t, "returning")
            /\ Excuse(Below(at[t]), Cause(Busy(at[t])))
    /\ UNCHANGED <<tree, budget, observer, tracker, counters, processing, world,
                   threads>>

\* _directory_admission.
Admit(t) ==
    /\ pc[t] = "admitting"
    /\ \/ Latch /\ Goto(t, "returning") /\ UNCHANGED admitted
       \/ /\ ~closed
          /\ admitted' = admitted + 1
          /\ Goto(t, "listing")
          /\ UNCHANGED tracker
    /\ UNCHANGED <<callbacks, tree, budget, observer, processing, world, threads,
                   excused>>

-----------------------------------------------------------------------------
(* The readiness gate: _process_admitted_directory.                        *)

\* readiness_holds.forget().
Forget(d) == [a \in Archives |-> IF home[a] \in Under[d] THEN "none" ELSE budget[a]]

\* A directory that is gone or holds no archive stops here.  Startup comes
\* without a generation and reads it after the listing.
List(t) ==
    /\ pc[t] \in {"listing", "relisting"}
    /\ files' = [files EXCEPT ![t] = Below(at[t])]
    /\ IF Below(at[t]) = {}
       THEN budget' = Forget(at[t]) /\ Goto(t, "leaving")
       ELSE /\ UNCHANGED budget
            /\ Goto(t, IF t = Main /\ pc[t] = "listing" THEN "capturing" ELSE "probing")
    /\ UNCHANGED <<tree, observer, tracker, counters, processing, world, at, now,
                   fresh, moved, probed, excused>>

Capture(t) ==
    /\ pc[t] = "capturing"
    /\ fresh' = [fresh EXCEPT ![t] = TRUE]
    /\ Goto(t, "probing")
    /\ UNCHANGED <<tree, budget, observer, tracker, counters, processing, world,
                   at, now, files, moved, probed, excused>>

\* probe_cbz_directory_readiness: what remains at hand are the failures; an
\* archive that vanished since the listing is one of them.
Probe(t) ==
    /\ pc[t] = "probing"
    /\ files' = [files EXCEPT ![t] = {a \in @ : state[a] # "ready"}]
    /\ Goto(t, "verifying")
    /\ UNCHANGED <<tree, budget, observer, tracker, counters, processing, world,
                   at, now, fresh, moved, probed, excused>>

\* The generation check that discards a probe an event has overtaken.
Verify(t) ==
    /\ pc[t] = "verifying"
    /\ IF fresh[t] /\ files[t] = {}
       THEN budget' = Forget(at[t]) /\ Goto(t, "claiming")
       ELSE /\ UNCHANGED budget
            /\ Goto(t, IF ~fresh[t] THEN "leaving"
                       ELSE IF HoldsEnabled THEN "holding" ELSE "scheduling")
    /\ UNCHANGED <<tree, observer, tracker, counters, processing, world, threads,
                   excused>>

\* _schedule_readiness_retry: nothing is scheduled over a newer event.
Schedule(t) ==
    /\ pc[t] = "scheduling"
    /\ Goto(t, "leaving")
    /\ \/ Latch /\ UNCHANGED fresh
       \/ ~closed /\ ~fresh[t] /\ UNCHANGED <<tracker, fresh>>
       \/ /\ ~closed /\ fresh[t]
          /\ retry' = [retry EXCEPT ![at[t]] = "armed"]
          /\ Supersede(at[t], fresh)
          /\ UNCHANGED <<settle, stray, closed, latched>>
    /\ UNCHANGED <<tree, budget, observer, counters, processing, world, at, now,
                   files, moved, probed, excused>>

\* Mutant of Leave: startup, too, is taken for a counted callback.
LeaveAsCallback(t) ==
    /\ pc[t] \in {"leaving", "returning"}
    /\ admitted' = IF pc[t] = "leaving" THEN admitted - 1 ELSE admitted
    /\ callbacks' = callbacks - 1
    /\ Rest(t)
    /\ UNCHANGED <<tree, budget, observer, tracker, processing, world, excused>>

\* Mutant of Leave: the admitted unit is not given back.
LeaveAdmitted(t) ==
    /\ pc[t] \in {"leaving", "returning"}
    /\ callbacks' = IF t = Main THEN callbacks ELSE callbacks - 1
    /\ Rest(t)
    /\ UNCHANGED <<admitted, tree, budget, observer, tracker, processing, world,
                   excused>>

\* The `finally` blocks of _directory_admission and of invoke, the second of
\* which startup does not have.
Leave(t) ==
    /\ pc[t] \in {"leaving", "returning"}
    /\ admitted' = IF pc[t] = "leaving" THEN admitted - 1 ELSE admitted
    /\ callbacks' = IF t = Main THEN callbacks ELSE callbacks - 1
    /\ Rest(t)
    /\ UNCHANGED <<tree, budget, observer, tracker, processing, world, excused>>

-----------------------------------------------------------------------------
(* The import pass: process_and_move_directory.                            *)

\* Mutant of Claim: the claim trusts the check made at dispatch.
ClaimUnchecked(t) ==
    /\ pc[t] = "claiming"
    /\ processing' = processing \cup {at[t]}
    /\ Goto(t, "renaming")
    /\ UNCHANGED <<tree, budget, observer, tracker, counters, world, threads, excused>>

\* The claim; contention sends the gate to a readiness retry.
Claim(t) ==
    /\ pc[t] = "claiming"
    /\ IF Busy(at[t]) = {}
       THEN processing' = processing \cup {at[t]} /\ Goto(t, "renaming")
       ELSE Goto(t, "scheduling") /\ UNCHANGED processing
    /\ UNCHANGED <<tree, budget, observer, tracker, counters, world, threads, excused>>

\* The watched directory gets its clean name unless that one exists or the
\* rename fails; its archives' events carry the new path.
Rename(t) ==
    /\ pc[t] = "renaming"
    /\ Goto(t, "relabeling")
    /\ LET d == at[t]
           c == CleanName[d]
       IN  \/ /\ now' = [now EXCEPT ![t] = d]
              /\ UNCHANGED <<home, aged, pending>>
           \/ /\ c # d /\ In(d) # {} /\ Below(c) = {}
              /\ now' = [now EXCEPT ![t] = c]
              /\ home' = [a \in Archives |-> IF a \in In(d) THEN c ELSE home[a]]
              /\ aged' = IF d \in aged THEN aged \cup {c} ELSE aged \ {c}
              /\ pending' = IF session = "watching" THEN pending \cup {c} ELSE pending
    /\ UNCHANGED <<state, changes, budget, handling, tracker, counters, processing,
                   world, at, fresh, files, moved, probed, excused>>

\* The claim follows the rename.
Relabel(t) ==
    /\ pc[t] = "relabeling"
    /\ processing' = (processing \ {at[t]}) \cup {now[t]}
    /\ Goto(t, "scanning")
    /\ UNCHANGED <<tree, budget, observer, tracker, counters, world, threads, excused>>

Scan(t) ==
    /\ pc[t] = "scanning"
    /\ files' = [files EXCEPT ![t] = Below(now[t])]
    /\ Goto(t, IF Below(now[t]) = {} THEN "unclaiming" ELSE "landing")
    /\ UNCHANGED <<tree, budget, observer, tracker, counters, processing, world,
                   at, now, fresh, moved, probed, excused>>

\* One comic directory of the pass, parents first.  A directory with comic
\* directories below it gives up its listed archives, any other one moves as
\* a whole, archives that arrived meanwhile included.  An archive held for
\* review, a refused name, an unstable series identity or a failed move
\* leaves archives behind with nothing scheduled for them.  The pass renames
\* and rewrites archives where they are, and the observer sees it.
Land(t, c) ==
    /\ pc[t] = "landing"
    /\ \E a \in files[t] : home[a] = c
    /\ \A a \in files[t] : c \in Under[home[a]] => home[a] = c
    /\ LET listed == {a \in files[t] : home[a] = c}
           nested == \E a \in files[t] : home[a] \in Under[c] \ {c}
           leaving == IF nested THEN {a \in listed : Present(a)} ELSE Below(c)
       IN  \E landed \in SUBSET leaving :
             /\ state' = [a \in Archives |-> IF a \in landed THEN "landed" ELSE state[a]]
             /\ Excuse(leaving \ landed, "deferred")
             /\ files' = [files EXCEPT ![t] = @ \ listed]
             /\ Goto(t, IF files[t] = listed THEN "unclaiming" ELSE "landing")
    /\ \/ UNCHANGED <<pending, changes>>
       \/ /\ session = "watching" /\ changes < MaxChanges
          /\ pending' = pending \cup {c}
          /\ changes' = changes + 1
    /\ UNCHANGED <<home, aged, budget, handling, tracker, counters,
                   processing, world, at, now, fresh, moved, probed>>

\* A pass stopped by a failed decensor run or an unexpected error.
Abort(t) ==
    /\ pc[t] = "landing"
    /\ Excuse(Below(now[t]), "deferred")
    /\ Goto(t, "unclaiming")
    /\ UNCHANGED <<tree, budget, observer, tracker, counters, processing, world,
                   threads>>

\* The `finally` of process_and_move_directory names the path it claimed.
Unclaim(t) ==
    /\ pc[t] = "unclaiming"
    /\ processing' = processing \ {at[t]}
    /\ Goto(t, "leaving")
    /\ UNCHANGED <<tree, budget, observer, tracker, counters, world, threads, excused>>

-----------------------------------------------------------------------------
(* Holding stalled archives: _hold_stalled_archives and consider().        *)

\* The same exclusion as an import, and the budgets of archives that no
\* longer fail are dropped.
HoldClaim(t) ==
    /\ pc[t] = "holding"
    /\ IF Busy(at[t]) = {}
       THEN /\ processing' = processing \cup {at[t]}
            /\ budget' = [a \in Archives |->
                             IF home[a] \in Under[at[t]] /\ a \notin files[t]
                             THEN "none" ELSE budget[a]]
            /\ Goto(t, "considering")
       ELSE Goto(t, "scheduling") /\ UNCHANGED <<processing, budget>>
    /\ UNCHANGED <<tree, observer, tracker, counters, world, threads, excused>>

\* One failing archive: a new or changed one starts its budget, a running
\* budget is left alone, an expired one that a fresh probe still finds
\* incomplete goes on to the commit.
Consider(t, a) ==
    /\ pc[t] = "considering" /\ a \in files[t]
    /\ files' = [files EXCEPT ![t] = @ \ {a}]
    /\ IF Present(a) /\ budget[a] = "expired"
       THEN /\ IF state[a] = "partial"
               THEN Goto(t, "committing") /\ probed' = [probed EXCEPT ![t] = {a}]
               ELSE UNCHANGED <<pc, probed>>
            /\ UNCHANGED budget
       ELSE /\ budget' = [budget EXCEPT ![a] =
                             IF ~Present(a) THEN "none"
                             ELSE IF @ = "counting" THEN @ ELSE "counting"]
            /\ UNCHANGED <<pc, probed>>
    /\ UNCHANGED <<tree, observer, tracker, counters, processing, world, at, now,
                   fresh, moved, excused>>

\* Mutant of Commit: the fingerprint is not compared again.
CommitBlindly(t, a) ==
    /\ pc[t] = "committing" /\ a \in probed[t]
    /\ Goto(t, "considering")
    /\ probed' = [probed EXCEPT ![t] = {}]
    /\ IF fresh[t] /\ Present(a)
       THEN /\ state' = [state EXCEPT ![a] = "held"]
            /\ budget' = [budget EXCEPT ![a] = "none"]
            /\ moved' = [moved EXCEPT ![t] = TRUE]
       ELSE UNCHANGED <<state, budget, moved>>
    /\ UNCHANGED <<home, aged, changes, observer, tracker, counters, processing,
                   world, at, now, fresh, files, excused>>

\* The commit, under the tracker lock: nothing moves if an event superseded
\* the gate's generation or if the fingerprint is no longer the budget's.
Commit(t, a) ==
    /\ pc[t] = "committing" /\ a \in probed[t]
    /\ Goto(t, "considering")
    /\ probed' = [probed EXCEPT ![t] = {}]
    /\ IF fresh[t] /\ Present(a) /\ budget[a] = "expired"
       THEN /\ state' = [state EXCEPT ![a] = "held"]
            /\ budget' = [budget EXCEPT ![a] = "none"]
            /\ moved' = [moved EXCEPT ![t] = TRUE]
       ELSE /\ budget' = IF Present(a) THEN budget ELSE [budget EXCEPT ![a] = "none"]
            /\ UNCHANGED <<state, moved>>
    /\ UNCHANGED <<home, aged, changes, observer, tracker, counters, processing,
                   world, at, now, fresh, files, excused>>

\* The receipt or the rename fails: the source stays with its budget.
CommitFails(t, a) ==
    /\ pc[t] = "committing" /\ a \in probed[t]
    /\ fresh[t] /\ Present(a) /\ budget[a] = "expired"
    /\ Goto(t, "considering")
    /\ probed' = [probed EXCEPT ![t] = {}]
    /\ UNCHANGED <<tree, budget, observer, tracker, counters, processing, world,
                   at, now, fresh, files, moved, excused>>

HoldsDone(t) ==
    /\ pc[t] = "considering" /\ files[t] = {}
    /\ Goto(t, "unholding")
    /\ UNCHANGED <<tree, budget, observer, tracker, counters, processing, world,
                   threads, excused>>

\* Mutant of HoldRelease: a gate that held something is done.
HoldReleaseAndLeave(t) ==
    /\ pc[t] = "unholding"
    /\ processing' = processing \ {at[t]}
    /\ moved' = [moved EXCEPT ![t] = FALSE]
    /\ Goto(t, IF moved[t] THEN "leaving" ELSE "scheduling")
    /\ UNCHANGED <<tree, budget, observer, tracker, counters, world, at, now,
                   fresh, files, probed, excused>>

\* After a hold the gate starts over with a fresh inventory, under the
\* generation it already has; without one it retries later.
HoldRelease(t) ==
    /\ pc[t] = "unholding"
    /\ processing' = processing \ {at[t]}
    /\ moved' = [moved EXCEPT ![t] = FALSE]
    /\ Goto(t, IF moved[t] THEN "relisting" ELSE "scheduling")
    /\ UNCHANGED <<tree, budget, observer, tracker, counters, world, at, now,
                   fresh, files, probed, excused>>

-----------------------------------------------------------------------------
(* The main thread: _watch_session and _watch_with_config.                 *)

\* _discover_startup_directories: one directory, gated on this very thread.
Discover(d) ==
    /\ session = "discovering" /\ pc[Main] = "idle" /\ d \in todo
    /\ ~closed
    /\ todo' = todo \ {d}
    /\ IF Below(d) = {} THEN UNCHANGED <<pc, at>>
       ELSE Goto(Main, "admitting") /\ at' = [at EXCEPT ![Main] = d]
    /\ UNCHANGED <<tree, budget, observer, tracker, counters, processing, stopFile,
                   session, now, fresh, files, moved, probed, excused>>

StartObserver ==
    /\ session = "discovering" /\ pc[Main] = "idle" /\ todo = {}
    /\ ~closed
    /\ session' = "watching"
    /\ UNCHANGED <<tree, budget, observer, tracker, counters, processing, stopFile,
                   todo, pc, threads, excused>>

\* stop_requested() between two directories, before the observer or in the
\* watch loop.
SeeStop ==
    /\ session \in {"discovering", "watching"} /\ pc[Main] = "idle"
    /\ Latch
    /\ session' = IF session = "watching" THEN "stopping" ELSE "closing"
    /\ UNCHANGED <<tree, budget, observer, counters, processing, stopFile, todo,
                   pc, threads, excused>>

Interrupt ==
    /\ session = "watching"
    /\ session' = "stopping"
    /\ UNCHANGED <<tree, budget, observer, tracker, counters, processing, stopFile,
                   todo, pc, threads, excused>>

\* observer.stop() and join(): the handler in progress ends first.
StopObserver ==
    /\ session = "stopping" /\ handling = NoDir
    /\ session' = "closing"
    /\ pending' = {}
    /\ UNCHANGED <<tree, budget, handling, tracker, counters, processing, stopFile,
                   todo, pc, threads, excused>>

\* close(): nothing new starts, and the wait begins.
Close ==
    /\ session = "closing"
    /\ closed' = TRUE
    /\ settle' = [d \in Dirs |-> "none"]
    /\ retry' = [d \in Dirs |-> "none"]
    /\ session' = "draining"
    /\ UNCHANGED <<tree, budget, observer, stray, latched, counters, processing,
                   stopFile, todo, pc, threads, excused>>

\* The wait of close() is over: the mutex of the watch root is released.
Release ==
    /\ session = "draining"
    /\ callbacks = 0 /\ admitted = 0
    /\ session' = "released"
    /\ UNCHANGED <<tree, budget, observer, tracker, counters, processing, stopFile,
                   todo, pc, threads, excused>>

-----------------------------------------------------------------------------

Callback(t) ==
    \/ Invoke(t) \/ PopTimer(t) \/ WaitForAge(t) \/ RetryCallback(t)
    \/ Dispatch(t) \/ Guard(t)

Gate(t) ==
    \/ Admit(t) \/ List(t) \/ Capture(t) \/ Probe(t) \/ Verify(t)
    \/ Schedule(t) \/ Leave(t)

Pass(t) ==
    \/ Claim(t) \/ Rename(t) \/ Relabel(t) \/ Scan(t)
    \/ \E c \in Dirs : Land(t, c)
    \/ Abort(t) \/ Unclaim(t)

Hold(t) ==
    \/ HoldClaim(t)
    \/ \E a \in Archives : Consider(t, a) \/ Commit(t, a) \/ CommitFails(t, a)
    \/ HoldsDone(t) \/ HoldRelease(t)

Step(t) == Callback(t) \/ Gate(t) \/ Pass(t) \/ Hold(t)

Session ==
    \/ \E d \in Dirs : Discover(d)
    \/ StartObserver \/ SeeStop \/ StopObserver \/ Close \/ Release

Next ==
    \/ User \/ RequestStop \/ Interrupt
    \/ \E d \in Dirs : Ages(d) \/ Deliver(d)
    \/ \E a \in Archives : Expire(a)
    \/ Notify
    \/ \E t \in TimerThreads, d \in Dirs : Fire(t, d)
    \/ \E t \in Threads : Step(t)
    \/ Session

Spec == Init /\ [][Next]_vars

\* Time passes, timers go off, the observer delivers what it saw, and every
\* thread and the main loop keep running.  A hold does not fail for ever.
Fairness ==
    /\ \A d \in Dirs : WF_vars(Ages(d)) /\ WF_vars(Deliver(d))
    /\ \A a \in Archives : WF_vars(Expire(a))
    /\ WF_vars(Notify)
    /\ \A d \in Dirs : WF_vars(\E t \in TimerThreads : Fire(t, d))
    /\ \A t \in Threads :
          WF_vars(Step(t)) /\ SF_vars(\E a \in Archives : Commit(t, a))
    /\ WF_vars(Session)

FairSpec == Spec /\ Fairness

-----------------------------------------------------------------------------

Labels ==
    {"idle", "settleFired", "retryFired", "settled", "aging", "retrying",
     "dispatching", "guarding", "admitting", "listing", "relisting", "capturing",
     "probing", "verifying", "claiming", "holding", "scheduling", "leaving",
     "returning"} \cup Claiming

\* Every variable has its type.
TypeOK ==
    /\ home \in [Archives -> Dirs]
    /\ state \in [Archives -> {"away", "partial", "ready", "landed", "held"}]
    /\ budget \in [Archives -> {"none", "counting", "expired", "changed"}]
    /\ aged \subseteq Dirs /\ changes \in 0 .. MaxChanges
    /\ pending \subseteq Dirs /\ handling \in Dirs \cup {NoDir}
    /\ settle \in [Dirs -> {"none", "armed", "fired"}]
    /\ stray \in [Dirs -> Nat]
    /\ retry \in [Dirs -> {"none", "armed", "fired"}]
    /\ closed \in BOOLEAN /\ latched \in BOOLEAN
    /\ callbacks \in Nat /\ admitted \in Nat
    /\ processing \subseteq Dirs /\ stopFile \in BOOLEAN
    /\ session \in {"discovering", "watching", "stopping", "closing", "draining",
                    "released"}
    /\ todo \subseteq Dirs
    /\ pc \in [Threads -> Labels]
    /\ at \in [Threads -> Dirs \cup {NoDir}]
    /\ now \in [Threads -> Dirs \cup {NoDir}]
    /\ fresh \in [Threads -> BOOLEAN] /\ moved \in [Threads -> BOOLEAN]
    /\ files \in [Threads -> SUBSET Archives]
    /\ probed \in [Threads -> SUBSET Archives]
    /\ excused \in [Archives -> SUBSET {"startup", "pass", "hold", "deferred"}]

\* No two threads import or hold overlapping directories at the same time,
\* whichever timers, retries and holds bring them there ("Guard against
\* processing a directory already being handled by another thread").
Place(t) == IF pc[t] \in Importing \ {"renaming"} THEN now[t] ELSE at[t]
ExclusivePasses ==
    \A t, u \in Threads :
        t # u /\ pc[t] \in Claiming /\ pc[u] \in Claiming
            => ~Overlap(Place(t), Place(u))

\* The root mutex is released only when no callback and no directory unit is
\* left, those of stray timers and of startup included; a timer that goes
\* off later does nothing.
DrainsBeforeRelease ==
    session = "released" =>
        \A t \in Threads : pc[t] \in {"idle", "settleFired", "retryFired"}

\* Once a stop request is latched, or close() has begun, no further
\* directory is admitted ("after the request is latched no other directory
\* can start").
NothingStartsAfterClose ==
    [][closed => admitted' <= admitted]_vars

\* A hold takes only an archive that has not changed since its inactivity
\* budget expired: one that a writer completes between the fresh probe and
\* the commit stays.
HeldOnlyStalled ==
    [][\A a \in Archives :
          state[a] # "held" /\ state'[a] = "held" => state[a] = "partial"]_vars

\* Passes exclude each other, none starts after a close, all have ended before
\* the root is given up, and a hold takes only what has stalled.
Safety ==
    /\ []TypeOK /\ []ExclusivePasses /\ []DrainsBeforeRelease
    /\ NothingStartsAfterClose /\ HeldOnlyStalled

\* Something still running or armed will look at archive a.
Gating(t) ==
    \/ pc[t] \in {"settleFired", "settled", "aging", "capturing"}
    \/ pc[t] = "listing" /\ t = Main
    \/ /\ fresh[t]
       /\ pc[t] \in {"retryFired", "retrying", "dispatching", "guarding", "admitting",
                     "listing", "relisting", "probing", "verifying", "claiming",
                     "holding", "scheduling"} \cup Holding
    \/ pc[t] = "admitting" /\ t = Main
    \/ pc[t] \in {"renaming", "relabeling", "scanning"}

Covered(a) ==
    \/ home[a] \in pending \/ home[a] = handling
    \/ \E d \in Dirs :
          /\ home[a] \in Under[d]
          /\ settle[d] = "armed" \/ stray[d] > 0 \/ retry[d] = "armed" \/ d \in todo
    \/ \E t \in Threads :
          /\ at[t] # NoDir
          /\ home[a] \in Under[at[t]] \/ (now[t] # NoDir /\ home[a] \in Under[now[t]])
          /\ Gating(t) \/ (pc[t] = "landing" /\ files[t] # {})

\* An archive in the watch folder is never forgotten while the watcher runs:
\* an event, a timer, a retry or a thread is on its way to it, unless its
\* last event came before the observer, was dropped because of an import or
\* a hold of an overlapping directory, or the pass left it for review.
NeverForgotten ==
    ~closed /\ session # "closing" =>
        \A a \in Archives : Present(a) => Covered(a) \/ excused[a] # {}

\* docs/watcher_readiness_holding.md: a directory that meets a hold's claim
\* is retried "rather than dropping the import event".
HoldsDropNothing ==
    ~closed /\ session = "watching" =>
        \A a \in Archives : Present(a) => Covered(a) \/ excused[a] \ {"hold"} # {}

\* A stop request or an interrupt ends in the release of the watch root,
\* with whatever imports, holds and retries it meets.
StopReleasesRoot == (stopFile \/ session = "stopping") ~> session = "released"

\* With holding on, a complete archive does not wait for ever behind a
\* stalled sibling: it leaves the watch folder unless it was excused.
ReadyIsImported ==
    \A a \in Archives :
        (session = "watching" /\ state[a] = "ready")
            ~> (state[a] # "ready" \/ excused[a] # {} \/ session # "watching")

\* A stop ends, and until then what is complete is imported.
Progress == StopReleasesRoot /\ ReadyIsImported
=============================================================================
