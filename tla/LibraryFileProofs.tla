-------------------------- MODULE LibraryFileProofs --------------------------
(***************************************************************************)
(* What the processes that share the library's files promise each other:   *)
(* the single-instance lock of a watched root, rewriting archives in their *)
(* place, the handoff of archives that Camelia replaces, the batches that  *)
(* decensor copies of them, and the originals that outlive their archives. *)
(***************************************************************************)
EXTENDS WatcherInstance, ArchiveRewrite, CameliaHandoff, CameliaBatch, AiOriginals,
        WellFoundedInduction, TLAPS

-----------------------------------------------------------------------------
(* The single-instance lock: any processes, threads, roots and identities. *)

LockSteps == {"off", "identified", "acquired", "inside", "leaving"}
InstanceTyped ==
    /\ identityOf \in [WatchRoots -> Identities]
    /\ mutex \in [Identities -> [owner : LockThreads \union {NoThread}, count : Nat]]
    /\ ownedNames \in [Processes -> SUBSET Identities]
    /\ lockAt \in [Locks -> [at : LockSteps, root : WatchRoots \union {"none"},
                             name : Identities \union {"none"}]]
    /\ \A k \in Locks : lockAt[k].at # "off" =>
          lockAt[k].name \in Identities /\ lockAt[k].root \in WatchRoots

(* What a lock holds is registered in its process, and a mutex nobody owns *)
(* is one that nobody owns any number of times.                            *)
HeldIsRegistered == \A k \in Locks : Holds(k) => Registered(k)
FreeIsUncounted == \A n \in Identities : mutex[n].owner = NoThread => mutex[n].count = 0

InstanceInv == InstanceTyped /\ InstanceSafety /\ HeldIsRegistered /\ FreeIsUncounted

LEMMA LockTyped ==
  ASSUME InstanceInv, NEW k \in Locks
  PROVE  /\ ThreadOf[k] \in LockThreads /\ ThreadOf[k] # NoThread
         /\ ProcessOf[ThreadOf[k]] \in Processes
         /\ lockAt[k].at \in LockSteps
         /\ lockAt[k].at # "off" => lockAt[k].name \in Identities /\ lockAt[k].root \in WatchRoots
<1>1. ThreadOf[k] \in LockThreads
  BY DEF LockThreads
<1> QED
  BY <1>1, WatcherInstanceAssumption DEF Processes, InstanceInv, InstanceTyped

LEMMA InstanceInvInit == InstanceInit => InstanceInv
<1> SUFFICES ASSUME InstanceInit PROVE InstanceInv
  OBVIOUS
<1>1. InstanceTyped
  BY DEF InstanceInit, InstanceTyped, FreeMutex, NotLocked, LockSteps
<1>2. \A k \in Locks : ~Holds(k)
  BY DEF InstanceInit, Holds, NotLocked
<1>3. \A n \in Identities : mutex[n].owner = NoThread /\ mutex[n].count = 0
  BY DEF InstanceInit, FreeMutex
<1> QED
  BY <1>1, <1>2, <1>3 DEF InstanceInv, InstanceSafety, OneWatcherPerRoot, HolderOwnsOnce,
                          DoubtIsBlocked, HeldIsRegistered, FreeIsUncounted

(* A step of a lock that holds nothing, or that goes on holding the same.  *)
LEMMA QuietStep ==
  ASSUME InstanceInv, UNCHANGED <<mutex, ownedNames>>, InstanceTyped',
         \A k \in Locks : Holds(k)' => Holds(k) /\ lockAt'[k].name = lockAt[k].name
  PROVE  InstanceInv'
<1> USE DEF InstanceInv, InstanceSafety
<1>1. OneWatcherPerRoot' /\ HolderOwnsOnce'
  BY DEF OneWatcherPerRoot, HolderOwnsOnce
<1>2. DoubtIsBlocked' /\ FreeIsUncounted'
  BY DEF DoubtIsBlocked, FreeIsUncounted
<1>3. HeldIsRegistered'
  BY DEF HeldIsRegistered, Registered, RegistryOf
<1> QED
  BY <1>1, <1>2, <1>3

LEMMA GoesTyped ==
  ASSUME InstanceInv, NEW k \in Locks, NEW step \in LockSteps, LockGoes(k, step),
         lockAt[k].at # "off", UNCHANGED identityOf,
         mutex' \in [Identities -> [owner : LockThreads \union {NoThread}, count : Nat]],
         ownedNames' \in [Processes -> SUBSET Identities]
  PROVE  /\ InstanceTyped'
         /\ lockAt'[k].at = step /\ lockAt'[k].name = lockAt[k].name
         /\ \A j \in Locks \ {k} : lockAt'[j] = lockAt[j]
<1> USE DEF InstanceInv, InstanceTyped, LockGoes
<1>1. /\ lockAt'[k].at = step /\ lockAt'[k].name = lockAt[k].name
      /\ lockAt'[k].root = lockAt[k].root
      /\ \A j \in Locks \ {k} : lockAt'[j] = lockAt[j]
  OBVIOUS
<1>2. lockAt' \in [Locks -> [at : LockSteps, root : WatchRoots \union {"none"},
                             name : Identities \union {"none"}]]
  OBVIOUS
<1>3. \A j \in Locks : lockAt'[j].at # "off" =>
          lockAt'[j].name \in Identities /\ lockAt'[j].root \in WatchRoots
  BY <1>1
<1> QED
  BY <1>1, <1>2, <1>3

LEMMA EndsTyped ==
  ASSUME InstanceInv, NEW k \in Locks, LockEnds(k), UNCHANGED identityOf,
         mutex' \in [Identities -> [owner : LockThreads \union {NoThread}, count : Nat]],
         ownedNames' \in [Processes -> SUBSET Identities]
  PROVE  /\ InstanceTyped' /\ lockAt'[k].at = "off"
         /\ \A j \in Locks \ {k} : lockAt'[j] = lockAt[j]
<1> USE DEF InstanceInv, InstanceTyped, LockEnds, NotLocked
<1>1. lockAt'[k] = NotLocked /\ \A j \in Locks \ {k} : lockAt'[j] = lockAt[j]
  OBVIOUS
<1>2. lockAt' \in [Locks -> [at : LockSteps, root : WatchRoots \union {"none"},
                             name : Identities \union {"none"}]]
  BY DEF LockSteps
<1> QED
  BY <1>1, <1>2

(* The mutex is free when it is granted: were it the thread's own already, *)
(* its name would be registered.                                           *)
LEMMA AcquireStep ==
  ASSUME InstanceInv, NEW k \in Locks, Acquire(k)
  PROVE  InstanceInv'
<1> DEFINE name == lockAt[k].name
           t == ThreadOf[k]
<1>1. /\ name \in Identities /\ t \in LockThreads /\ t # NoThread /\ ProcessOf[t] \in Processes
      /\ lockAt[k].at = "identified"
  BY LockTyped DEF Acquire
<1>2. /\ mutex' = [mutex EXCEPT ![name] = [owner |-> t, count |-> mutex[name].count + 1]]
      /\ ownedNames' = [ownedNames EXCEPT ![ProcessOf[t]] = @ \union {name}]
      /\ LockGoes(k, "acquired") /\ UNCHANGED identityOf
      /\ name \notin ownedNames[ProcessOf[t]] /\ mutex[name].owner \in {NoThread, t}
  BY DEF Acquire, Registered, RegistryOf, Grants
<1>3. mutex[name].owner = NoThread /\ mutex[name].count = 0
  BY <1>1, <1>2 DEF InstanceInv, InstanceSafety, DoubtIsBlocked, FreeIsUncounted
<1>t. /\ mutex \in [Identities -> [owner : LockThreads \union {NoThread}, count : Nat]]
      /\ ownedNames \in [Processes -> SUBSET Identities]
  BY DEF InstanceInv, InstanceTyped
<1> HIDE DEF name, t
<1>4. /\ mutex'[name] = [owner |-> t, count |-> 1]
      /\ \A n \in Identities \ {name} : mutex'[n] = mutex[n]
      /\ mutex' \in [Identities -> [owner : LockThreads \union {NoThread}, count : Nat]]
  BY <1>1, <1>2, <1>3, <1>t
<1>5. /\ ownedNames'[ProcessOf[t]] = ownedNames[ProcessOf[t]] \union {name}
      /\ \A p \in Processes : ownedNames[p] \subseteq ownedNames'[p]
      /\ ownedNames' \in [Processes -> SUBSET Identities]
  BY <1>1, <1>2, <1>t
<1>6. /\ InstanceTyped' /\ lockAt'[k].at = "acquired" /\ lockAt'[k].name = name
      /\ \A j \in Locks \ {k} : lockAt'[j] = lockAt[j]
  BY <1>1, <1>2, <1>4, <1>5, GoesTyped DEF LockSteps, name
<1>7. \A j \in Locks \ {k} : Holds(j)' => Holds(j) /\ lockAt'[j].name # name
  <2>1. ASSUME NEW j \in Locks, Holds(j) PROVE mutex[lockAt[j].name].owner # NoThread
    <3>1. mutex[lockAt[j].name] = [owner |-> ThreadOf[j], count |-> 1]
      BY <2>1 DEF InstanceInv, InstanceSafety, HolderOwnsOnce
    <3>2. ThreadOf[j] # NoThread
      BY LockTyped
    <3> QED
      BY <3>1, <3>2
  <2> QED
    BY <1>3, <1>6, <2>1 DEF Holds
<1>8. OneWatcherPerRoot'
  BY <1>6, <1>7 DEF InstanceInv, InstanceSafety, OneWatcherPerRoot
<1>9. HolderOwnsOnce'
  BY <1>4, <1>6, <1>7, LockTyped DEF InstanceInv, InstanceSafety, HolderOwnsOnce, Holds, t
<1>10. DoubtIsBlocked'
  <2> SUFFICES ASSUME NEW n \in Identities, mutex'[n].owner # NoThread
               PROVE  n \in ownedNames'[ProcessOf[mutex'[n].owner]]
    BY DEF DoubtIsBlocked
  <2>1. CASE n = name
    BY <1>4, <1>5, <2>1
  <2>2. CASE n # name
    <3>1. mutex'[n] = mutex[n] /\ mutex[n].owner \in LockThreads
      BY <1>4, <1>t, <2>2
    <3> QED
      BY <1>5, <3>1 DEF InstanceInv, InstanceSafety, DoubtIsBlocked, Processes
  <2> QED
    BY <2>1, <2>2
<1>11. HeldIsRegistered'
  <2> SUFFICES ASSUME NEW j \in Locks, Holds(j)'
               PROVE  lockAt'[j].name \in ownedNames'[ProcessOf[ThreadOf[j]]]
    BY DEF HeldIsRegistered, Registered, RegistryOf
  <2>1. CASE j = k
    BY <1>5, <1>6, <2>1 DEF t
  <2>2. CASE j # k
    BY <1>5, <1>6, <1>7, <2>2, LockTyped DEF InstanceInv, HeldIsRegistered, Registered, RegistryOf
  <2> QED
    BY <2>1, <2>2
<1>12. FreeIsUncounted'
  BY <1>1, <1>4 DEF InstanceInv, FreeIsUncounted
<1> QED
  BY <1>6, <1>8, <1>9, <1>10, <1>11, <1>12 DEF InstanceInv, InstanceSafety

(* The name leaves the registry only with the mutex that was released, and *)
(* no other lock held it.                                                  *)
LEMMA CleanUpStep ==
  ASSUME InstanceInv, NEW k \in Locks, NEW released \in BOOLEAN, NEW closed \in BOOLEAN,
         CleanUp(k, released, closed)
  PROVE  InstanceInv'
<1> DEFINE name == lockAt[k].name
           t == ThreadOf[k]
<1>1. /\ name \in Identities /\ t \in LockThreads /\ t # NoThread /\ ProcessOf[t] \in Processes
      /\ lockAt[k].at = "leaving" /\ Holds(k)
  BY LockTyped DEF CleanUp, Holds
<1>2. /\ LockEnds(k) /\ UNCHANGED identityOf
      /\ \/ released /\ mutex' = [mutex EXCEPT ![name] = OnceLess(mutex[name])]
         \/ ~released /\ (mutex' = mutex \/ mutex' = [mutex EXCEPT ![name] = FreeMutex])
      /\ ownedNames' = IF released /\ closed
                       THEN [ownedNames EXCEPT ![ProcessOf[t]] = @ \ {name}] ELSE ownedNames
  BY DEF CleanUp, Unregistered
<1>3. mutex[name] = [owner |-> t, count |-> 1] /\ OnceLess(mutex[name]) = FreeMutex
  BY <1>1 DEF InstanceInv, InstanceSafety, HolderOwnsOnce, OnceLess
<1>t. /\ mutex \in [Identities -> [owner : LockThreads \union {NoThread}, count : Nat]]
      /\ ownedNames \in [Processes -> SUBSET Identities]
  BY DEF InstanceInv, InstanceTyped
<1>7. \A j \in Locks \ {k} : Holds(j) => lockAt[j].name # name
  BY <1>1 DEF InstanceInv, InstanceSafety, OneWatcherPerRoot
<1> HIDE DEF name, t
<1>4. /\ \A n \in Identities \ {name} : mutex'[n] = mutex[n]
      /\ mutex'[name] \in {mutex[name], FreeMutex}
      /\ released => mutex'[name] = FreeMutex
      /\ mutex' \in [Identities -> [owner : LockThreads \union {NoThread}, count : Nat]]
  BY <1>1, <1>2, <1>3, <1>t DEF FreeMutex
<1>5. /\ \A p \in Processes : ownedNames'[p] \in {ownedNames[p], ownedNames[p] \ {name}}
      /\ ~(released /\ closed) => ownedNames' = ownedNames
      /\ ownedNames' \in [Processes -> SUBSET Identities]
  BY <1>1, <1>2, <1>t
<1>6. /\ InstanceTyped' /\ lockAt'[k].at = "off"
      /\ \A j \in Locks \ {k} : lockAt'[j] = lockAt[j]
  BY <1>2, <1>4, <1>5, EndsTyped
<1>8. \A j \in Locks : Holds(j)' => j # k /\ Holds(j) /\ lockAt'[j] = lockAt[j] /\ lockAt[j].name # name
  BY <1>6, <1>7 DEF Holds
<1>9. OneWatcherPerRoot'
  BY <1>8 DEF InstanceInv, InstanceSafety, OneWatcherPerRoot
<1>10. HolderOwnsOnce'
  <2> SUFFICES ASSUME NEW j \in Locks, Holds(j)'
               PROVE  mutex'[lockAt'[j].name] = [owner |-> ThreadOf[j], count |-> 1]
    BY DEF HolderOwnsOnce
  <2>1. lockAt'[j] = lockAt[j] /\ lockAt[j].name \in Identities \ {name} /\ Holds(j)
    BY <1>8, LockTyped DEF Holds
  <2> QED
    BY <1>4, <2>1 DEF InstanceInv, InstanceSafety, HolderOwnsOnce
<1>11. DoubtIsBlocked'
  <2> SUFFICES ASSUME NEW n \in Identities, mutex'[n].owner # NoThread
               PROVE  n \in ownedNames'[ProcessOf[mutex'[n].owner]]
    BY DEF DoubtIsBlocked
  <2>1. mutex'[n] = mutex[n] /\ mutex[n].owner \in LockThreads
    BY <1>4, <1>t DEF FreeMutex
  <2>2. n \in ownedNames[ProcessOf[mutex[n].owner]] /\ ProcessOf[mutex[n].owner] \in Processes
    BY <2>1 DEF InstanceInv, InstanceSafety, DoubtIsBlocked, Processes
  <2>3. n = name => ~released
    BY <1>4, <2>1 DEF FreeMutex
  <2> QED
    BY <1>5, <2>1, <2>2, <2>3
<1>12. HeldIsRegistered'
  <2> SUFFICES ASSUME NEW j \in Locks, Holds(j)'
               PROVE  lockAt'[j].name \in ownedNames'[ProcessOf[ThreadOf[j]]]
    BY DEF HeldIsRegistered, Registered, RegistryOf
  <2> QED
    BY <1>5, <1>8, LockTyped DEF InstanceInv, HeldIsRegistered, Registered, RegistryOf
<1>13. FreeIsUncounted'
  BY <1>4 DEF InstanceInv, FreeIsUncounted, FreeMutex
<1> QED
  BY <1>6, <1>9, <1>10, <1>11, <1>12, <1>13 DEF InstanceInv, InstanceSafety

(* A process takes its locks, its mutexes and its registry with it.        *)
LEMMA DeathStep ==
  ASSUME InstanceInv, NEW p \in Processes, LauncherDies(p)
  PROVE  InstanceInv'
<1>1. /\ lockAt' = [k \in Locks |-> IF ProcessOf[ThreadOf[k]] = p THEN NotLocked ELSE lockAt[k]]
      /\ mutex' = [n \in Identities |->
                    IF mutex[n].owner # NoThread /\ ProcessOf[mutex[n].owner] = p
                    THEN FreeMutex ELSE mutex[n]]
      /\ ownedNames' = [ownedNames EXCEPT ![p] = {}] /\ UNCHANGED identityOf
  BY DEF LauncherDies
<1>t. /\ mutex \in [Identities -> [owner : LockThreads \union {NoThread}, count : Nat]]
      /\ ownedNames \in [Processes -> SUBSET Identities]
      /\ lockAt \in [Locks -> [at : LockSteps, root : WatchRoots \union {"none"},
                               name : Identities \union {"none"}]]
  BY DEF InstanceInv, InstanceTyped
<1>2. \A q \in Processes \ {p} : ownedNames'[q] = ownedNames[q]
  BY <1>1, <1>t
<1>3. \A k \in Locks : Holds(k)' => /\ ProcessOf[ThreadOf[k]] # p /\ Holds(k)
                                    /\ lockAt'[k] = lockAt[k]
  BY <1>1 DEF Holds, NotLocked
<1>4. InstanceTyped'
  <2>1. FreeMutex \in [owner : LockThreads \union {NoThread}, count : Nat]
    BY DEF FreeMutex
  <2>2. mutex' \in [Identities -> [owner : LockThreads \union {NoThread}, count : Nat]]
    BY <1>1, <1>t, <2>1
  <2>3. NotLocked \in [at : LockSteps, root : WatchRoots \union {"none"},
                       name : Identities \union {"none"}]
    BY DEF NotLocked, LockSteps
  <2>4. lockAt' \in [Locks -> [at : LockSteps, root : WatchRoots \union {"none"},
                               name : Identities \union {"none"}]]
    BY <1>1, <1>t, <2>3
  <2>5. ownedNames' \in [Processes -> SUBSET Identities]
    BY <1>1, <1>t
  <2>6. \A k \in Locks : lockAt'[k].at # "off" => lockAt'[k] = lockAt[k]
    BY <1>1 DEF NotLocked
  <2> QED
    BY <1>1, <2>2, <2>4, <2>5, <2>6 DEF InstanceInv, InstanceTyped
<1>5. OneWatcherPerRoot'
  BY <1>3 DEF InstanceInv, InstanceSafety, OneWatcherPerRoot
<1>6. HolderOwnsOnce'
  <2> SUFFICES ASSUME NEW k \in Locks, Holds(k)'
               PROVE  mutex'[lockAt'[k].name] = [owner |-> ThreadOf[k], count |-> 1]
    BY DEF HolderOwnsOnce
  <2>1. /\ ProcessOf[ThreadOf[k]] # p /\ lockAt'[k] = lockAt[k] /\ lockAt[k].name \in Identities
        /\ mutex[lockAt[k].name] = [owner |-> ThreadOf[k], count |-> 1]
    BY <1>3, LockTyped DEF InstanceInv, InstanceSafety, HolderOwnsOnce, Holds
  <2> QED
    BY <1>1, <2>1
<1>7. DoubtIsBlocked'
  <2> SUFFICES ASSUME NEW n \in Identities, mutex'[n].owner # NoThread
               PROVE  n \in ownedNames'[ProcessOf[mutex'[n].owner]]
    BY DEF DoubtIsBlocked
  <2>1. mutex'[n] = mutex[n] /\ ProcessOf[mutex[n].owner] # p /\ mutex[n].owner \in LockThreads
    BY <1>1, <1>t DEF FreeMutex
  <2> QED
    BY <1>2, <2>1 DEF InstanceInv, InstanceSafety, DoubtIsBlocked, Processes
<1>8. HeldIsRegistered'
  <2> SUFFICES ASSUME NEW k \in Locks, Holds(k)'
               PROVE  lockAt'[k].name \in ownedNames'[ProcessOf[ThreadOf[k]]]
    BY DEF HeldIsRegistered, Registered, RegistryOf
  <2> QED
    BY <1>2, <1>3, LockTyped DEF InstanceInv, HeldIsRegistered, Registered, RegistryOf
<1>9. FreeIsUncounted'
  BY <1>1 DEF InstanceInv, FreeIsUncounted, FreeMutex
<1> QED
  BY <1>4, <1>5, <1>6, <1>7, <1>8, <1>9 DEF InstanceInv, InstanceSafety

LEMMA InstanceStep == InstanceInv /\ [InstanceNext]_instanceVars => InstanceInv'
<1> SUFFICES ASSUME InstanceInv, [InstanceNext]_instanceVars PROVE InstanceInv'
  OBVIOUS
<1>t. /\ identityOf \in [WatchRoots -> Identities]
      /\ mutex \in [Identities -> [owner : LockThreads \union {NoThread}, count : Nat]]
      /\ ownedNames \in [Processes -> SUBSET Identities]
      /\ lockAt \in [Locks -> [at : LockSteps, root : WatchRoots \union {"none"},
                               name : Identities \union {"none"}]]
  BY DEF InstanceInv, InstanceTyped
<1>1. ASSUME NEW k \in Locks, NEW root \in WatchRoots, Identify(k, root) PROVE InstanceInv'
  <2>1. /\ lockAt'[k] = [at |-> "identified", root |-> root, name |-> identityOf[root]]
        /\ \A j \in Locks \ {k} : lockAt'[j] = lockAt[j]
        /\ UNCHANGED <<identityOf, mutex, ownedNames>>
    BY <1>1, <1>t DEF Identify
  <2>2. lockAt' \in [Locks -> [at : LockSteps, root : WatchRoots \union {"none"},
                               name : Identities \union {"none"}]]
    <3>1. [at |-> "identified", root |-> root, name |-> identityOf[root]]
            \in [at : LockSteps, root : WatchRoots \union {"none"}, name : Identities \union {"none"}]
      BY <1>t DEF LockSteps
    <3> QED
      BY <1>1, <1>t, <3>1 DEF Identify
  <2>3. InstanceTyped'
    BY <1>t, <2>1, <2>2 DEF InstanceInv, InstanceTyped
  <2> QED
    BY <2>1, <2>3, QuietStep DEF Holds
<1>2. ASSUME NEW k \in Locks, RefuseLock(k) PROVE InstanceInv'
  <2>1. LockEnds(k) /\ UNCHANGED <<identityOf, mutex, ownedNames>>
    BY <1>2 DEF RefuseLock
  <2>2. /\ InstanceTyped' /\ lockAt'[k].at = "off"
        /\ \A j \in Locks \ {k} : lockAt'[j] = lockAt[j]
    BY <1>t, <2>1, EndsTyped
  <2> QED
    BY <2>1, <2>2, QuietStep DEF Holds
<1>3. ASSUME NEW k \in Locks, RecheckRoot(k) \/ LeaveBody(k) PROVE InstanceInv'
  <2>1. PICK step \in {"inside", "leaving"} : LockGoes(k, step)
    BY <1>3 DEF RecheckRoot, LeaveBody
  <2>2. lockAt[k].at \in {"acquired", "inside"} /\ UNCHANGED <<identityOf, mutex, ownedNames>>
    BY <1>3 DEF RecheckRoot, LeaveBody
  <2>3. /\ InstanceTyped' /\ lockAt'[k].name = lockAt[k].name
        /\ \A j \in Locks \ {k} : lockAt'[j] = lockAt[j]
    BY <1>t, <2>1, <2>2, GoesTyped DEF LockSteps
  <2> QED
    BY <2>2, <2>3, QuietStep DEF Holds
<1>4. ASSUME NEW root \in WatchRoots, NEW identity \in Identities, Retarget(root, identity)
      PROVE  InstanceInv'
  <2>1. InstanceTyped' /\ UNCHANGED <<mutex, ownedNames, lockAt>>
    BY <1>4 DEF Retarget, InstanceInv, InstanceTyped
  <2> QED
    BY <2>1, QuietStep DEF Holds
<1>5. CASE UNCHANGED instanceVars
  <2>1. InstanceTyped' /\ UNCHANGED <<mutex, ownedNames, lockAt>>
    BY <1>5 DEF instanceVars, InstanceInv, InstanceTyped
  <2> QED
    BY <2>1, QuietStep DEF Holds
<1> QED
  BY <1>1, <1>2, <1>3, <1>4, <1>5, AcquireStep, CleanUpStep, DeathStep DEF InstanceNext

(* One watcher per directory, which owns its mutex once, and what is in    *)
(* doubt stays blocked: for any number of launchers, threads and roots.    *)
THEOREM InstanceIsSafe == InstanceSpec => []InstanceSafety
<1>1. InstanceInv => InstanceSafety
  BY DEF InstanceInv
<1> QED
  BY <1>1, InstanceInvInit, InstanceStep, PTL DEF InstanceSpec

-----------------------------------------------------------------------------
(* Rewriting an archive in place, for any writers, attempts, failures and  *)
(* crashes, and any number of files others put over the archive.           *)

(* Nobody puts a file where a rewrite has taken the archive away.          *)
NoArrivals == "arrive" \notin Foreign

Archives == [pages : Nat, xml : {"none", "truncated", "old", "new"}]
Busy == {"read", "written", "checked", "parked", "swapped", "failed"}
Rewriters == [phase : Busy, by : DOMAIN Attempts, attempt : Nat, read : Archives]
RewriteTyped ==
    /\ spot \in [{"cbz", "tmp", "bak"} -> Archives]
    /\ rewriter \in {NotRewriting} \union Rewriters
    /\ writes \in Nat

(* The pages p are in place or parked, and the rebuild that may replace    *)
(* them was made of them, or of what a guarded writer will see is gone.    *)
Keeps(p) ==
    /\ owed = {p} /\ p # 0
    /\ InPlace => spot["cbz"].pages = p
    /\ ~InPlace => rewriter.phase \in {"idle", "parked", "failed"} /\ spot["bak"].pages = p
    /\ rewriter.phase = "parked" => ~InPlace
    /\ rewriter.phase \in {"read", "written"} =>
           rewriter.read.pages = p \/ (rewriter.by \in Guarded /\ spot["cbz"] # rewriter.read)
    /\ rewriter.phase \in {"checked", "parked"} => rewriter.read.pages = p
    /\ rewriter.phase \in {"written", "checked", "parked"} =>
           spot["tmp"].pages = rewriter.read.pages

RewriteInv == RewriteTyped /\ (unguarded \/ \E p \in Nat : Keeps(p))

LEMMA SpecialArchives == Nothing \in Archives /\ Truncated \in Archives
BY DEF Nothing, Truncated, Archives

LEMMA RewriteTypedInit == RewriteInit => RewriteTyped
<1>1. [pages |-> 1, xml |-> "old"] \in Archives
  BY DEF Archives
<1> QED
  BY <1>1, SpecialArchives DEF RewriteInit, RewriteTyped

LEMMA RewriteInvInit == RewriteInit => RewriteInv
<1> SUFFICES ASSUME RewriteInit PROVE Keeps(1)
  BY RewriteTypedInit DEF RewriteInv
<1>1. spot["cbz"] = [pages |-> 1, xml |-> "old"]
  BY DEF RewriteInit
<1>2. InPlace /\ spot["cbz"].pages = 1
  BY <1>1 DEF InPlace, Nothing
<1> QED
  BY <1>2 DEF RewriteInit, NotRewriting, Keeps

-----------------------------------------------------------------------------
(* Types                                                                   *)

LEMMA RewriteTypedStep == RewriteTyped /\ [RewriteNext]_rewriteVars => RewriteTyped'
<1> SUFFICES ASSUME RewriteTyped, [RewriteNext]_rewriteVars PROVE RewriteTyped'
  OBVIOUS
<1>1. spot \in [{"cbz", "tmp", "bak"} -> Archives] /\ rewriter \in {NotRewriting} \union Rewriters
  BY DEF RewriteTyped
<1>2. ASSUME rewriter.phase # "idle" PROVE rewriter \in Rewriters
  BY <1>1, <1>2 DEF NotRewriting
<1>3. ASSUME rewriter \in Rewriters, NEW phase \in Busy, Step(phase) PROVE rewriter' \in Rewriters
  BY <1>3 DEF Step, Rewriters
<1>4. CASE UNCHANGED rewriteVars
  BY <1>4 DEF RewriteTyped, rewriteVars
<1>5. ASSUME NEW w \in DOMAIN Attempts, StartRewrite(w) PROVE RewriteTyped'
  BY <1>1, <1>5 DEF StartRewrite, RewriteTyped, Rewriters, Busy, NoTrouble
<1>6. CASE WriteRebuild
  <2>1. rewriter \in Rewriters /\ Step("written")
    BY <1>2, <1>6 DEF WriteRebuild, Goes
  <2>2. [pages |-> rewriter.read.pages, xml |-> "new"] \in Archives
    BY <2>1 DEF Rewriters, Archives
  <2>3. spot' \in [{"cbz", "tmp", "bak"} -> Archives]
    BY <1>1, <1>6, <2>2 DEF WriteRebuild
  <2> QED
    BY <1>3, <1>6, <2>1, <2>3 DEF WriteRebuild, RewriteTyped, Busy, NoTrouble
<1>7. CASE RebuildFails \/ CheckSource \/ ParkOriginal \/ ParkFails \/ InstallRebuild
           \/ InstallFails \/ StrandOriginal \/ RemoveParkedFails
  <2>1. rewriter \in Rewriters
    BY <1>2, <1>7 DEF RebuildFails, CheckSource, ParkOriginal, ParkFails, InstallRebuild,
                      InstallFails, StrandOriginal, RemoveParkedFails, Goes
  <2>2. \E phase \in Busy : Step(phase)
    BY <1>7 DEF RebuildFails, CheckSource, ParkOriginal, ParkFails, InstallRebuild,
                InstallFails, StrandOriginal, RemoveParkedFails, Goes, Busy
  <2>3. spot' \in [{"cbz", "tmp", "bak"} -> Archives]
    BY <1>1, <1>7, SpecialArchives
       DEF RebuildFails, CheckSource, ParkOriginal, ParkFails, InstallRebuild,
           InstallFails, StrandOriginal, RemoveParkedFails
  <2>4. writes' = writes
    BY <1>7 DEF RebuildFails, CheckSource, ParkOriginal, ParkFails, InstallRebuild,
                InstallFails, StrandOriginal, RemoveParkedFails, NoTrouble, Failing
  <2> QED
    BY <1>3, <2>1, <2>2, <2>3, <2>4 DEF RewriteTyped
<1>8. CASE RetryRewrite
  <2>1. rewriter \in Rewriters
    BY <1>2, <1>8 DEF RetryRewrite
  <2>2. rewriter.attempt + 1 \in Nat /\ spot["cbz"] \in Archives
    BY <1>1, <2>1 DEF Rewriters
  <2>3. rewriter' \in Rewriters
    BY <1>8, <2>1, <2>2 DEF RetryRewrite, Rewriters, Busy
  <2>4. spot' \in [{"cbz", "tmp", "bak"} -> Archives]
    BY <1>1, <1>8, SpecialArchives DEF RetryRewrite, Discarded
  <2> QED
    BY <1>8, <2>3, <2>4 DEF RetryRewrite, RewriteTyped, NoTrouble
<1>9. CASE RemoveParked \/ GiveUp \/ RewriterDies \/ ClearLeftovers
  <2>1. rewriter' \in {NotRewriting} \union Rewriters
    BY <1>1, <1>9 DEF RemoveParked, GiveUp, RewriterDies, ClearLeftovers
  <2>2. spot' \in [{"cbz", "tmp", "bak"} -> Archives]
    BY <1>1, <1>9, SpecialArchives
       DEF RemoveParked, GiveUp, RewriterDies, ClearLeftovers, Discarded
  <2> QED
    BY <1>9, <2>1, <2>2
       DEF RemoveParked, GiveUp, RewriterDies, ClearLeftovers, RewriteTyped, NoTrouble, Failing
<1>10. CASE ForeignWrite
  <2>1. [pages |-> writes' + 1, xml |-> "old"] \in Archives /\ writes' \in Nat
    BY <1>10 DEF ForeignWrite, RewriteTyped, Archives
  <2> QED
    BY <1>1, <1>10, <2>1 DEF ForeignWrite, RewriteTyped
<1> QED
  BY <1>4, <1>5, <1>6, <1>7, <1>8, <1>9, <1>10 DEF RewriteNext

-----------------------------------------------------------------------------
(* Who has the pages                                                       *)

(* A step of the rewriter owes the same pages, and keeps them.             *)
LEMMA StartKeeps ==
  ASSUME RewriteTyped, NEW p \in Nat, Keeps(p), NEW w \in DOMAIN Attempts, StartRewrite(w)
  PROVE  Keeps(p)'
BY DEF StartRewrite, Keeps, InPlace, NoTrouble

LEMMA StepKeeps ==
  ASSUME RewriteTyped, NEW p \in Nat, Keeps(p),
         \/ WriteRebuild \/ RebuildFails \/ CheckSource \/ ParkOriginal \/ ParkFails
         \/ InstallRebuild \/ InstallFails \/ StrandOriginal
         \/ RemoveParked \/ RemoveParkedFails
         \/ RetryRewrite \/ GiveUp \/ RewriterDies \/ ClearLeftovers
  PROVE  Keeps(p)'
<1>1. spot \in [{"cbz", "tmp", "bak"} -> Archives] /\ rewriter \in {NotRewriting} \union Rewriters
  BY DEF RewriteTyped
<1>2. ASSUME rewriter.phase # "idle" PROVE rewriter \in Rewriters
  BY <1>1, <1>2 DEF NotRewriting
<1>3. ASSUME rewriter \in Rewriters, NEW phase, Step(phase)
      PROVE  rewriter'.phase = phase /\ rewriter'.by = rewriter.by /\ rewriter'.read = rewriter.read
  BY <1>3 DEF Step, Rewriters
<1>4. owed' = owed
  BY DEF WriteRebuild, RebuildFails, CheckSource, ParkOriginal, ParkFails, InstallRebuild,
         InstallFails, StrandOriginal, RemoveParked, RemoveParkedFails, RetryRewrite, GiveUp,
         RewriterDies, ClearLeftovers, NoTrouble, Failing
<1>5. Nothing.pages = 0
  BY DEF Nothing
<1>6. CASE WriteRebuild \/ RebuildFails
  <2>1. rewriter \in Rewriters /\ rewriter.phase = "read" /\ InPlace
    BY <1>2, <1>6 DEF WriteRebuild, RebuildFails, Goes, Keeps
  <2>2. spot'["cbz"] = spot["cbz"] /\ spot'["bak"] = spot["bak"] /\ (InPlace)'
    BY <1>1, <1>6, <2>1 DEF WriteRebuild, RebuildFails, InPlace
  <2>3. CASE WriteRebuild
    <3>1. spot'["tmp"].pages = rewriter.read.pages
      BY <1>1, <2>3 DEF WriteRebuild
    <3>2. Step("written")
      BY <2>3 DEF WriteRebuild, Goes
    <3> QED
      BY <1>3, <1>4, <2>1, <2>2, <3>1, <3>2 DEF Keeps
  <2>4. CASE RebuildFails
    <3>1. Step("failed")
      BY <2>4 DEF RebuildFails, Goes
    <3> QED
      BY <1>3, <1>4, <2>1, <2>2, <3>1 DEF Keeps
  <2> QED
    BY <1>6, <2>3, <2>4
<1>7. CASE CheckSource
  <2>1. rewriter \in Rewriters /\ rewriter.phase = "written" /\ spot' = spot /\ InPlace /\ (InPlace)'
    BY <1>2, <1>7 DEF CheckSource, Keeps, InPlace
  <2>2. CASE Step("failed")
    BY <1>3, <1>4, <2>1, <2>2 DEF Keeps
  <2>3. CASE Step("checked") /\ ~(rewriter.by \in Guarded /\ spot["cbz"] # rewriter.read)
    BY <1>3, <1>4, <2>1, <2>3 DEF Keeps
  <2> QED
    BY <1>7, <2>2, <2>3 DEF CheckSource
<1>8. CASE ParkOriginal
  <2>1. rewriter \in Rewriters /\ rewriter.phase = "checked" /\ Step("parked") /\ InPlace
    BY <1>2, <1>8 DEF ParkOriginal, Goes
  <2>2. spot'["bak"] = spot["cbz"] /\ spot'["cbz"] = Nothing /\ spot'["tmp"] = spot["tmp"]
    BY <1>1, <1>8 DEF ParkOriginal
  <2> QED
    BY <1>3, <1>4, <2>1, <2>2 DEF Keeps, InPlace
<1>9. CASE ParkFails \/ RemoveParkedFails
  <2>1. rewriter \in Rewriters /\ rewriter.phase \in {"checked", "swapped"} /\ Step("failed") /\ InPlace
    BY <1>2, <1>9 DEF ParkFails, RemoveParkedFails, Goes, Keeps
  <2>2. spot'["cbz"] = spot["cbz"]
    BY <1>1, <1>9 DEF ParkFails, RemoveParkedFails
  <2> QED
    BY <1>3, <1>4, <2>1, <2>2 DEF Keeps, InPlace
<1>10. CASE InstallRebuild
  <2>1. rewriter \in Rewriters /\ rewriter.phase = "parked" /\ Step("swapped")
    BY <1>2, <1>10 DEF InstallRebuild, Goes
  <2>2. spot'["cbz"] = spot["tmp"] /\ spot["tmp"].pages = p
    BY <1>1, <1>10, <2>1 DEF InstallRebuild, Keeps
  <2> QED
    BY <1>3, <1>4, <1>5, <2>1, <2>2 DEF Keeps, InPlace
<1>11. CASE InstallFails \/ StrandOriginal
  <2>1. rewriter \in Rewriters /\ rewriter.phase = "parked" /\ Step("failed") /\ ~InPlace
    BY <1>2, <1>11 DEF InstallFails, StrandOriginal, Goes, Keeps
  <2>2. spot["bak"].pages = p /\ (spot' = spot \/ spot'["cbz"] = spot["bak"])
    BY <1>1, <1>11, <2>1 DEF InstallFails, StrandOriginal, Keeps
  <2> QED
    BY <1>3, <1>4, <1>5, <2>1, <2>2 DEF Keeps, InPlace
<1>12. CASE RemoveParked \/ ClearLeftovers
  <2>1. InPlace /\ rewriter'.phase = "idle"
    BY <1>12 DEF RemoveParked, ClearLeftovers, Keeps, NotRewriting
  <2>2. spot'["cbz"] = spot["cbz"]
    BY <1>1, <1>12 DEF RemoveParked, ClearLeftovers
  <2> QED
    BY <1>4, <2>1, <2>2 DEF Keeps, InPlace
<1>13. CASE RetryRewrite
  <2>1. rewriter \in Rewriters /\ rewriter.phase = "failed"
    BY <1>2, <1>13 DEF RetryRewrite
  <2>2. /\ rewriter'.phase = IF InPlace THEN "read" ELSE "failed"
        /\ rewriter'.read = spot["cbz"]
    BY <1>13, <2>1 DEF RetryRewrite, Rewriters
  <2>3. spot'["cbz"] = spot["cbz"] /\ spot'["bak"] = spot["bak"]
    BY <1>1, <1>13 DEF RetryRewrite, Discarded
  <2> QED
    BY <1>4, <2>1, <2>2, <2>3 DEF Keeps, InPlace
<1>14. CASE GiveUp \/ RewriterDies
  <2>1. rewriter'.phase = "idle"
    BY <1>14 DEF GiveUp, RewriterDies, NotRewriting
  <2>2. spot'["cbz"] = spot["cbz"] /\ spot'["bak"] = spot["bak"]
    BY <1>1, <1>14 DEF GiveUp, RewriterDies, Discarded
  <2>3. InPlace \/ spot["bak"].pages = p
    BY DEF Keeps
  <2> QED
    BY <1>4, <2>1, <2>2, <2>3 DEF Keeps, InPlace
<1> QED
  BY <1>6, <1>7, <1>8, <1>9, <1>10, <1>11, <1>12, <1>13, <1>14

(* Somebody else's file: its pages are owed from now on, and a writer that *)
(* is going to look again sees that what it read is gone.                  *)
LEMMA ForeignKeeps ==
  ASSUME RewriteTyped, NoArrivals, NEW p \in Nat, Keeps(p), ForeignWrite, ~unguarded'
  PROVE  \E q \in Nat : Keeps(q)'
<1>0. PICK q \in Nat : q = writes' + 1 /\ q # 0
  BY DEF ForeignWrite, RewriteTyped
<1>1. InPlace /\ UNCHANGED rewriter
  BY DEF ForeignWrite, NoArrivals
<1>2. spot'["cbz"] = [pages |-> q, xml |-> "old"] /\ spot'["tmp"] = spot["tmp"]
  BY <1>0 DEF ForeignWrite, RewriteTyped
<1>3. owed' = {q}
  BY <1>0, <1>1 DEF ForeignWrite, Keeps
<1>4. (InPlace)' /\ spot'["cbz"].pages = q
  BY <1>1, <1>2 DEF InPlace, Nothing
<1>5. rewriter.phase \in {"read", "written"} => rewriter.by \in Guarded
  BY <1>1 DEF ForeignWrite, Holding, LooksAgain
<1>6. rewriter.phase \notin {"checked", "parked"}
  BY <1>1 DEF ForeignWrite, Holding, LooksAgain, Keeps
<1>7. Keeps(q)'
  BY <1>0, <1>1, <1>2, <1>3, <1>4, <1>5, <1>6 DEF Keeps
<1> QED
  BY <1>7

LEMMA RewriteInvStep == NoArrivals /\ RewriteInv /\ [RewriteNext]_rewriteVars => RewriteInv'
<1> SUFFICES ASSUME NoArrivals, RewriteInv, [RewriteNext]_rewriteVars, ~unguarded'
             PROVE  \E p \in Nat : Keeps(p)'
  BY RewriteTypedStep DEF RewriteInv
<1>1. ~unguarded
  BY DEF RewriteNext, rewriteVars, StartRewrite, WriteRebuild, RebuildFails, CheckSource,
         ParkOriginal, ParkFails, InstallRebuild, InstallFails, StrandOriginal, RemoveParked,
         RemoveParkedFails, RetryRewrite, GiveUp, RewriterDies, ClearLeftovers, ForeignWrite,
         NoTrouble, Failing
<1>2. PICK p \in Nat : Keeps(p)
  BY <1>1 DEF RewriteInv
<1>3. CASE UNCHANGED rewriteVars
  BY <1>2, <1>3 DEF rewriteVars, Keeps, InPlace
<1> QED
  BY <1>2, <1>3, StartKeeps, StepKeeps, ForeignKeeps DEF RewriteNext, RewriteInv

(* Whatever fails, dies, retries or cleans up, and however often: the pages *)
(* of the archive, or of the last file that replaced it before a writer    *)
(* that looks again had looked, are in one of the three places.            *)
THEOREM LastCopyAlways == NoArrivals /\ RewriteSpec => []KeepsLastCopy
<1>1. RewriteInv => KeepsLastCopy
  BY DEF RewriteInv, RewriteTyped, Keeps, KeepsLastCopy
<1>2. NoArrivals => NoArrivals'
  BY DEF NoArrivals
<1> QED
  BY <1>1, <1>2, RewriteInvInit, RewriteInvStep, PTL DEF RewriteSpec

-----------------------------------------------------------------------------
(* The Camelia handoff, for any runs of it, replacements and completions.  *)

Readings == [version : Nat, stamp : Nat]
EventRecords == [book : Decensored, event : Nat, stamp : Nat]
HandoffTyped ==
  /\ onShelf \in [Decensored -> Readings]
  /\ backlog \in [Decensored -> [state : {"queued", "replaced", "completed"}, event : Nat,
                                 stamp : Nat, version : Nat]]
  /\ completions \in Nat /\ cursor \in Nat /\ versions \in Nat
  /\ catalogued \in [Decensored -> [stamp : Nat, digest : Nat]]
  /\ reconciling \in [HandoffRuns -> [at : {"off", "measuring", "recording"},
                                      todo : Seq(EventRecords), measured : Readings]]
  /\ preparing \in [Decensored -> Readings]

(* What was read of a book once is not ahead of the shelf, and a newer     *)
(* digest on record came with a fingerprint that is no older.              *)
Snapshot(b, m) ==
  /\ m.version <= onShelf[b].version /\ m.stamp <= onShelf[b].stamp
  /\ catalogued[b].digest > m.version => catalogued[b].stamp >= m.stamp

ShelfLeads ==
  \A b \in Decensored :
    /\ onShelf[b].version <= versions /\ onShelf[b].stamp <= versions
    /\ catalogued[b].digest <= onShelf[b].version /\ catalogued[b].stamp <= onShelf[b].stamp
    /\ backlog[b].version <= onShelf[b].version /\ backlog[b].event <= completions
    /\ Snapshot(b, preparing[b])

OnRecord(b) == catalogued[b].digest >= backlog[b].version

(* A run's remaining events are in order, and what precedes one of them is *)
(* on record or still to come; the book it recorded was measured after the *)
(* completion it records.                                                  *)
TodoHolds(r) ==
  LET todo == reconciling[r].todo IN
  reconciling[r].at # "off" =>
    /\ Len(todo) > 0
    /\ \A i \in 1..Len(todo) : todo[i].event <= completions
    /\ \A i, j \in 1..Len(todo) : i < j => todo[i].event < todo[j].event
    /\ \A b \in Decensored, i \in 1..Len(todo) :
         backlog[b].state = "completed" /\ backlog[b].event <= todo[i].event =>
           OnRecord(b) \/ \E j \in 1..Len(todo) :
                            todo[j].book = b /\ todo[j].event = backlog[b].event
    /\ reconciling[r].at = "recording" =>
         /\ Snapshot(todo[1].book, reconciling[r].measured)
         /\ (/\ backlog[todo[1].book].state = "completed"
             /\ backlog[todo[1].book].event = todo[1].event)
              => reconciling[r].measured.version >= backlog[todo[1].book].version

HandoffInv ==
  /\ HandoffTyped /\ ShelfLeads /\ cursor <= completions
  /\ \A r \in HandoffRuns : TodoHolds(r)
  /\ PassedIsOnRecord

LEMMA HandoffInvInit == HandoffInit => HandoffInv
<1> SUFFICES ASSUME HandoffInit PROVE HandoffInv
  OBVIOUS
<1>1. /\ catalogued \in [Decensored -> [stamp : Nat, digest : Nat]]
      /\ \A b \in Decensored : catalogued[b].stamp <= 1 /\ catalogued[b].digest <= 1
  <2>1. catalogued \in [Decensored -> {Untracked} \union [stamp : {1}, digest : {NoVersion, 1}]]
    BY CameliaHandoffAssumption DEF HandoffInit
  <2> QED
    BY <2>1 DEF Untracked, NoVersion
<1>2. HandoffTyped
  <2>1. NotReconciling \in [at : {"off", "measuring", "recording"}, todo : Seq(EventRecords),
                            measured : Readings]
    BY DEF NotReconciling, NotMeasured, Readings, NoVersion
  <2> QED
    BY <1>1, <2>1 DEF HandoffInit, HandoffTyped, Readings, NotMeasured, NoVersion
<1>3. ShelfLeads
  BY <1>1 DEF HandoffInit, ShelfLeads, Snapshot, NotMeasured, NoVersion
<1>4. \A r \in HandoffRuns : TodoHolds(r)
  BY DEF HandoffInit, TodoHolds, NotReconciling
<1> QED
  BY <1>2, <1>3, <1>4 DEF HandoffInv, HandoffInit, PassedIsOnRecord

(* How a step moves a book, its record and its row in the backlog.         *)
Forward(b) ==
  /\ onShelf[b].version <= onShelf'[b].version /\ onShelf'[b].version <= versions'
  /\ onShelf[b].stamp <= onShelf'[b].stamp /\ onShelf'[b].stamp <= versions'
  /\ \/ catalogued'[b] = catalogued[b]
     \/ /\ catalogued'[b].stamp = onShelf[b].stamp
        /\ catalogued[b].digest <= catalogued'[b].digest
        /\ catalogued'[b].digest <= onShelf[b].version
  /\ \/ backlog'[b].state # "completed" /\ backlog'[b].event = backlog[b].event
        /\ backlog'[b].version = backlog[b].version
     \/ backlog'[b] = backlog[b]
     \/ /\ backlog'[b].event = completions + 1 /\ completions' = completions + 1
        /\ backlog'[b].version = onShelf[b].version
  /\ preparing'[b] \in {preparing[b], onShelf[b], NotMeasured}

Progresses ==
  /\ HandoffTyped' /\ completions <= completions'
  /\ \A b \in Decensored : Forward(b)

LEMMA BytesForward ==
  ASSUME HandoffInv, NEW b \in Decensored, BytesReplaced(b)
  PROVE  /\ onShelf' \in [Decensored -> Readings] /\ versions' \in Nat
         /\ \A c \in Decensored :
              /\ onShelf[c].version <= onShelf'[c].version /\ onShelf'[c].version <= versions'
              /\ onShelf[c].stamp <= onShelf'[c].stamp /\ onShelf'[c].stamp <= versions'
<1>1. PICK s \in {onShelf[b].stamp, versions + 1} :
        onShelf' = [onShelf EXCEPT ![b] = [version |-> versions + 1, stamp |-> s]]
  BY DEF BytesReplaced
<1>2. /\ versions \in Nat /\ onShelf \in [Decensored -> Readings]
      /\ \A c \in Decensored : /\ onShelf[c].version \in Nat /\ onShelf[c].stamp \in Nat
                               /\ onShelf[c].version <= versions /\ onShelf[c].stamp <= versions
  BY DEF HandoffInv, HandoffTyped, ShelfLeads, Readings
<1>3. s \in Nat /\ onShelf[b].stamp <= s /\ s <= versions + 1
  BY <1>1, <1>2
<1>4. versions' = versions + 1
  BY DEF BytesReplaced
<1>5. [version |-> versions + 1, stamp |-> s] \in Readings
  BY <1>2, <1>3 DEF Readings
<1>6. onShelf' \in [Decensored -> Readings]
  BY <1>1, <1>2, <1>5
<1>7. onShelf'[b].version = versions + 1 /\ onShelf'[b].stamp = s
  BY <1>1, <1>2
<1>8. \A c \in Decensored \ {b} : onShelf'[c] = onShelf[c]
  BY <1>1, <1>2
<1> QED
  BY <1>2, <1>3, <1>4, <1>6, <1>7, <1>8

LEMMA RecordForward ==
  ASSUME HandoffInv, NEW b \in Decensored, NEW m \in Readings, Snapshot(b, m),
         \/ Acceptable(b, m)
         \/ /\ onShelf[b].stamp = m.stamp
            /\ catalogued[b].stamp = m.stamp /\ catalogued[b].digest # NoVersion
                 => StoredHashMatches(b, m)
  PROVE  /\ m.stamp = onShelf[b].stamp
         /\ catalogued[b].digest <= m.version /\ m.version <= onShelf[b].version
<1> QED
  BY DEF HandoffInv, HandoffTyped, ShelfLeads, Readings, Snapshot, Acceptable, StoredHashMatches,
         NoVersion

LEMMA RunTyped ==
  ASSUME HandoffInv, NEW r \in HandoffRuns
  PROVE  /\ reconciling[r].at \in {"off", "measuring", "recording"}
         /\ reconciling[r].todo \in Seq(EventRecords) /\ reconciling[r].measured \in Readings
         /\ reconciling[r].at # "off" =>
              /\ Len(reconciling[r].todo) \in Nat \ {0}
              /\ Head(reconciling[r].todo) = reconciling[r].todo[1]
              /\ reconciling[r].todo[1] \in EventRecords
              /\ reconciling[r].todo[1].book \in Decensored
              /\ reconciling[r].todo[1].event \in Nat
<1>1. reconciling[r] \in [at : {"off", "measuring", "recording"}, todo : Seq(EventRecords),
                          measured : Readings]
  BY DEF HandoffInv, HandoffTyped
<1>2. reconciling[r].at # "off" => Len(reconciling[r].todo) > 0
  BY DEF HandoffInv, TodoHolds
<1> HIDE DEF EventRecords
<1>3. reconciling[r].at # "off" => 
              /\ Len(reconciling[r].todo) \in Nat \ {0}
              /\ Head(reconciling[r].todo) = reconciling[r].todo[1]
              /\ reconciling[r].todo[1] \in EventRecords
  BY <1>1, <1>2
<1> QED
  BY <1>1, <1>3 DEF EventRecords

LEMMA PerBook ==
  ASSUME HandoffInv
  PROVE  /\ versions \in Nat /\ completions \in Nat
         /\ \A c \in Decensored :
              /\ onShelf[c].version \in Nat /\ onShelf[c].stamp \in Nat
              /\ onShelf[c].version <= versions /\ onShelf[c].stamp <= versions
<1>1. versions \in Nat /\ completions \in Nat /\ onShelf \in [Decensored -> Readings]
  BY DEF HandoffInv, HandoffTyped
<1>2. \A c \in Decensored : onShelf[c].version \in Nat /\ onShelf[c].stamp \in Nat
  BY <1>1 DEF Readings
<1>3. \A c \in Decensored : onShelf[c].version <= versions /\ onShelf[c].stamp <= versions
  BY DEF HandoffInv, ShelfLeads
<1> QED
  BY <1>1, <1>2, <1>3

LEMMA ShelfKept ==
  ASSUME HandoffInv, Progresses
  PROVE  ShelfLeads'
<1> SUFFICES ASSUME NEW b \in Decensored
             PROVE  /\ onShelf'[b].version <= versions' /\ onShelf'[b].stamp <= versions'
                    /\ catalogued'[b].digest <= onShelf'[b].version
                    /\ catalogued'[b].stamp <= onShelf'[b].stamp
                    /\ backlog'[b].version <= onShelf'[b].version
                    /\ backlog'[b].event <= completions'
                    /\ Snapshot(b, preparing[b])'
  BY DEF ShelfLeads
<1>1. /\ onShelf[b].version \in Nat /\ onShelf[b].stamp \in Nat
      /\ onShelf'[b].version \in Nat /\ onShelf'[b].stamp \in Nat
      /\ catalogued[b].digest \in Nat /\ catalogued[b].stamp \in Nat
      /\ catalogued'[b].digest \in Nat /\ catalogued'[b].stamp \in Nat
      /\ backlog[b].version \in Nat /\ backlog[b].event \in Nat
      /\ preparing[b].version \in Nat /\ preparing[b].stamp \in Nat
      /\ completions \in Nat /\ completions' \in Nat
  BY DEF Progresses, HandoffInv, HandoffTyped, Readings
<1>2. /\ catalogued[b].digest <= onShelf[b].version /\ catalogued[b].stamp <= onShelf[b].stamp
      /\ backlog[b].version <= onShelf[b].version /\ backlog[b].event <= completions
      /\ Snapshot(b, preparing[b])
  BY DEF HandoffInv, ShelfLeads
<1>3. Forward(b) /\ completions <= completions'
  BY DEF Progresses
<1>4. Snapshot(b, preparing[b])'
  <2>1. CASE preparing'[b] = preparing[b]
    BY <1>1, <1>2, <1>3, <2>1 DEF Forward, Snapshot
  <2>2. CASE preparing'[b] = onShelf[b]
    BY <1>1, <1>2, <1>3, <2>2 DEF Forward, Snapshot
  <2>3. CASE preparing'[b] = NotMeasured
    BY <1>1, <2>3 DEF Snapshot, NotMeasured, NoVersion
  <2> QED
    BY <1>3, <2>1, <2>2, <2>3 DEF Forward
<1> QED
  BY <1>1, <1>2, <1>3, <1>4 DEF Forward

(* What was read once stays behind the shelf and the record.               *)
LEMMA SnapshotKept ==
  ASSUME HandoffInv, Progresses, NEW b \in Decensored, NEW m \in Readings, Snapshot(b, m)
  PROVE  Snapshot(b, m)'
<1>1. /\ onShelf[b].version \in Nat /\ onShelf[b].stamp \in Nat
      /\ onShelf'[b].version \in Nat /\ onShelf'[b].stamp \in Nat
      /\ catalogued[b].digest \in Nat /\ catalogued[b].stamp \in Nat
      /\ catalogued'[b].digest \in Nat /\ catalogued'[b].stamp \in Nat
      /\ m.version \in Nat /\ m.stamp \in Nat
  BY DEF Progresses, HandoffInv, HandoffTyped, Readings
<1> QED
  BY <1>1 DEF Progresses, Forward, Snapshot

LEMMA BooksProgress ==
  ASSUME HandoffInv, NEW b \in Decensored,
         \/ CameliaRequeues(b) \/ CameliaReplaces(b) \/ CameliaCompletes(b)
         \/ OtherToolChanges(b) \/ ScanSees(b) \/ StageHashes(b)
         \/ MeasureSource(b) \/ PrepareOne(b) \/ PrepareEnds(b)
  PROVE  Progresses
<1> USE DEF fileVars
<1>t. /\ onShelf \in [Decensored -> Readings] /\ preparing \in [Decensored -> Readings]
      /\ backlog \in [Decensored -> [state : {"queued", "replaced", "completed"}, event : Nat,
                                     stamp : Nat, version : Nat]]
      /\ catalogued \in [Decensored -> [stamp : Nat, digest : Nat]]
      /\ \A c \in Decensored : onShelf[c].version \in Nat /\ onShelf[c].stamp \in Nat
  BY DEF HandoffInv, HandoffTyped, Readings
<1>n. NotMeasured \in Readings
  BY DEF NotMeasured, NoVersion, Readings
<1>r. reconciling' = reconciling /\ cursor' = cursor
  BY DEF CameliaRequeues, CameliaReplaces, CameliaCompletes, CameliaGoes, OtherToolChanges,
         ScanSees, StageHashes, MeasureSource, PrepareOne, PrepareEnds
<1>1. CASE CameliaRequeues(b) \/ CameliaReplaces(b)
  <2>1. PICK s \in {"queued", "replaced"} : backlog' = [backlog EXCEPT ![b].state = s]
    BY <1>1 DEF CameliaRequeues, CameliaReplaces, CameliaGoes
  <2>2. UNCHANGED <<completions, catalogued, preparing>>
    BY <1>1 DEF CameliaRequeues, CameliaReplaces, CameliaGoes
  <2>3. /\ onShelf' \in [Decensored -> Readings] /\ versions' \in Nat
        /\ \A c \in Decensored :
             /\ onShelf[c].version <= onShelf'[c].version /\ onShelf'[c].version <= versions'
             /\ onShelf[c].stamp <= onShelf'[c].stamp /\ onShelf'[c].stamp <= versions'
    <3>1. CASE CameliaRequeues(b)
      <4>1. UNCHANGED <<onShelf, versions>> /\ versions \in Nat
        BY <3>1 DEF CameliaRequeues, HandoffInv, HandoffTyped
      <4> QED
        BY <1>t, <4>1, PerBook
    <3> QED
      BY <1>1, <3>1, BytesForward DEF CameliaReplaces
  <2>4. \A c \in Decensored :
          \/ backlog'[c] = backlog[c]
          \/ /\ backlog'[c].state # "completed" /\ backlog'[c].event = backlog[c].event
             /\ backlog'[c].version = backlog[c].version
    BY <1>t, <2>1
  <2>5. backlog' \in [Decensored -> [state : {"queued", "replaced", "completed"}, event : Nat,
                                     stamp : Nat, version : Nat]]
    BY <1>t, <2>1
  <2>6. HandoffTyped'
    BY <1>r, <2>2, <2>3, <2>5 DEF HandoffInv, HandoffTyped
  <2> QED
    BY <2>2, <2>3, <2>4, <2>6, PerBook DEF Progresses, Forward
<1>2. CASE CameliaCompletes(b)
  <2>1. /\ UNCHANGED <<onShelf, catalogued, preparing, versions>>
        /\ completions' = completions + 1
        /\ backlog' = [backlog EXCEPT ![b] =
                          [state |-> "completed", event |-> completions + 1,
                           stamp |-> onShelf[b].stamp, version |-> onShelf[b].version]]
    BY <1>2 DEF CameliaCompletes
  <2>2. completions \in Nat
    BY DEF HandoffInv, HandoffTyped
  <2>3. HandoffTyped'
    <3>1. onShelf[b].stamp \in Nat /\ onShelf[b].version \in Nat /\ completions + 1 \in Nat
      BY <1>t, <2>2
    <3>2. backlog' \in [Decensored -> [state : {"queued", "replaced", "completed"}, event : Nat,
                                       stamp : Nat, version : Nat]]
      BY <1>t, <2>1, <3>1
    <3> QED
      BY <1>r, <2>1, <3>1, <3>2 DEF HandoffInv, HandoffTyped
  <2>4. \A c \in Decensored :
          \/ backlog'[c] = backlog[c]
          \/ backlog'[c].event = completions + 1 /\ backlog'[c].version = onShelf[c].version
    BY <1>t, <2>1
  <2> QED
    BY <2>1, <2>2, <2>3, <2>4, PerBook DEF Progresses, Forward
<1>3. CASE OtherToolChanges(b)
  <2>1. UNCHANGED <<backlog, completions, catalogued, preparing>> /\ BytesReplaced(b)
    BY <1>3 DEF OtherToolChanges
  <2>2. HandoffTyped'
    BY <1>r, <2>1, BytesForward DEF HandoffInv, HandoffTyped
  <2> QED
    BY <2>1, <2>2, BytesForward, PerBook DEF Progresses, Forward
<1>4. CASE ScanSees(b) \/ StageHashes(b) \/ PrepareOne(b)
  <2>1. PICK d \in Nat :
          /\ catalogued' = [catalogued EXCEPT ![b] = [stamp |-> onShelf[b].stamp, digest |-> d]]
          /\ catalogued[b].digest <= d /\ d <= onShelf[b].version
    <3>0. catalogued[b] \in [stamp : Nat, digest : Nat] /\ onShelf[b].version \in Nat
          /\ catalogued[b].digest <= onShelf[b].version
      BY <1>t DEF HandoffInv, ShelfLeads
    <3>1. CASE ScanSees(b)
      <4>1. [catalogued[b] EXCEPT !.stamp = onShelf[b].stamp]
              = [stamp |-> onShelf[b].stamp, digest |-> catalogued[b].digest]
        BY <3>0
      <4>2. catalogued' = [catalogued EXCEPT ![b] = [stamp |-> onShelf[b].stamp,
                                                     digest |-> catalogued[b].digest]]
        BY <3>1, <4>1 DEF ScanSees
      <4>3. catalogued[b].digest \in Nat /\ catalogued[b].digest <= catalogued[b].digest
        BY <3>0
      <4> QED
        BY <3>0, <4>2, <4>3
    <3>2. CASE StageHashes(b)
      <4>1. catalogued' = [catalogued EXCEPT ![b] = [stamp |-> onShelf[b].stamp,
                                                     digest |-> onShelf[b].version]]
        BY <3>2 DEF StageHashes
      <4>2. onShelf[b].version <= onShelf[b].version
        BY <3>0
      <4> QED
        BY <3>0, <4>1, <4>2
    <3>3. CASE PrepareOne(b)
      <4>1. /\ preparing[b].stamp = onShelf[b].stamp
            /\ catalogued[b].digest <= preparing[b].version
            /\ preparing[b].version <= onShelf[b].version
        BY <1>t, <3>3, RecordForward DEF PrepareOne, Registrable, HandoffInv, ShelfLeads
      <4>2. preparing[b].version \in Nat
        BY <1>t DEF Readings
      <4> QED
        BY <3>3, <4>1, <4>2 DEF PrepareOne
    <3> QED
      BY <1>4, <3>1, <3>2, <3>3
  <2>2. UNCHANGED fileVars /\ preparing' \in [Decensored -> Readings]
        /\ \A c \in Decensored : preparing'[c] \in {preparing[c], NotMeasured}
    BY <1>4, <1>t, <1>n DEF ScanSees, StageHashes, PrepareOne
  <2>3. catalogued' \in [Decensored -> [stamp : Nat, digest : Nat]]
    BY <1>t, <2>1
  <2>4. \A c \in Decensored :
          \/ catalogued'[c] = catalogued[c]
          \/ /\ catalogued'[c].stamp = onShelf[c].stamp
             /\ catalogued[c].digest <= catalogued'[c].digest
             /\ catalogued'[c].digest <= onShelf[c].version
    BY <1>t, <2>1
  <2>5. HandoffTyped'
    BY <1>r, <2>2, <2>3 DEF HandoffInv, HandoffTyped
  <2> QED
    BY <2>2, <2>4, <2>5, PerBook DEF Progresses, Forward
<1>5. CASE MeasureSource(b) \/ PrepareEnds(b)
  <2>1. UNCHANGED <<fileVars, catalogued>> /\ preparing' \in [Decensored -> Readings]
        /\ \A c \in Decensored : preparing'[c] \in {preparing[c], onShelf[c], NotMeasured}
    BY <1>5, <1>t, <1>n DEF MeasureSource, PrepareEnds
  <2>2. HandoffTyped'
    BY <1>r, <2>1 DEF HandoffInv, HandoffTyped
  <2> QED
    BY <2>1, <2>2, PerBook DEF Progresses, Forward
<1> QED
  BY <1>1, <1>2, <1>3, <1>4, <1>5

(* A reconciling run, seen from the books.                                 *)
LEMMA RunsProgress ==
  ASSUME HandoffInv, NEW r \in HandoffRuns,
         BeginReconcile(r) \/ MeasureCandidate(r) \/ ReconcileOne(r) \/ ReconcileDies(r)
  PROVE  Progresses
<1> USE DEF fileVars
<1>t. /\ onShelf \in [Decensored -> Readings]
      /\ catalogued \in [Decensored -> [stamp : Nat, digest : Nat]]
      /\ reconciling \in [HandoffRuns -> [at : {"off", "measuring", "recording"},
                                          todo : Seq(EventRecords), measured : Readings]]
  BY DEF HandoffInv, HandoffTyped
<1>n. NotMeasured \in Readings /\ <<>> \in Seq(EventRecords)
  BY DEF NotMeasured, NoVersion, Readings
<1>o. NotReconciling \in [at : {"off", "measuring", "recording"}, todo : Seq(EventRecords),
                          measured : Readings]
  BY <1>n DEF NotReconciling
<1>p. UNCHANGED <<fileVars, preparing>>
  BY DEF BeginReconcile, MeasureCandidate, ReconcileOne, ReconcileDies
<1>1. reconciling' \in [HandoffRuns -> [at : {"off", "measuring", "recording"},
                                        todo : Seq(EventRecords), measured : Readings]]
  <2>1. CASE ReconcileEnds(r)
    BY <1>t, <1>o, <2>1 DEF ReconcileEnds
  <2>2. CASE BeginReconcile(r)
    <3>0. PICK n \in 1..EventLimit : \E todo \in [1..n -> EventRows] :
            reconciling' = [reconciling EXCEPT ![r] =
                              [at |-> "measuring", todo |-> todo, measured |-> NotMeasured]]
      BY <2>2 DEF BeginReconcile
    <3>1. PICK todo \in [1..n -> EventRows] :
            reconciling' = [reconciling EXCEPT ![r] =
                              [at |-> "measuring", todo |-> todo, measured |-> NotMeasured]]
      BY <3>0
    <3>2. EventRows \subseteq EventRecords
      BY DEF EventRows, EventRecords, Due, HandoffInv, HandoffTyped
    <3>3. todo \in Seq(EventRecords)
      BY <3>2, CameliaHandoffAssumption
    <3> QED
      BY <1>t, <1>n, <3>1, <3>3
  <2>3. CASE MeasureCandidate(r) /\ ~ReconcileEnds(r)
    <3>1. /\ reconciling[r].at = "measuring"
          /\ reconciling' = [reconciling EXCEPT ![r].at = "recording",
                               ![r].measured = onShelf[Head(reconciling[r].todo).book]]
      BY <2>3 DEF MeasureCandidate
    <3>2. onShelf[Head(reconciling[r].todo).book] \in Readings
      BY <1>t, <3>1, RunTyped
    <3> QED
      BY <1>t, <3>1, <3>2
  <2>4. CASE ReconcileOne(r) /\ ~ReconcileEnds(r)
    <3>1. /\ reconciling[r].at = "recording"
          /\ reconciling' = [reconciling EXCEPT ![r] =
                [at |-> "measuring", todo |-> Tail(@.todo), measured |-> NotMeasured]]
      BY <2>4 DEF ReconcileOne
    <3>2. Tail(reconciling[r].todo) \in Seq(EventRecords)
      BY <3>1, RunTyped
    <3> QED
      BY <1>t, <1>n, <3>1, <3>2
  <2> QED
    BY <2>1, <2>2, <2>3, <2>4 DEF ReconcileDies
<1>2. CASE UNCHANGED <<catalogued, cursor>>
  <2>1. HandoffTyped'
    BY <1>p, <1>1, <1>2 DEF HandoffInv, HandoffTyped
  <2> QED
    BY <1>p, <1>2, <2>1, PerBook DEF Progresses, Forward
<1>3. CASE ReconcileOne(r) /\ ~UNCHANGED <<catalogued, cursor>>
  <2> DEFINE row == reconciling[r].todo[1]
             m == reconciling[r].measured
  <2>1. /\ reconciling[r].at = "recording" /\ Head(reconciling[r].todo) = row
        /\ row.book \in Decensored /\ row.event \in Nat /\ m \in Readings
        /\ Snapshot(row.book, m)
    BY <1>3, RunTyped DEF ReconcileOne, HandoffInv, TodoHolds
  <2>2. /\ Acceptable(row.book, m) /\ cursor' = row.event
        /\ catalogued' = [catalogued EXCEPT ![row.book] =
                             [stamp |-> m.stamp, digest |-> m.version]]
    BY <1>3, <2>1 DEF ReconcileOne
  <2>3. /\ m.stamp = onShelf[row.book].stamp /\ catalogued[row.book].digest <= m.version
        /\ m.version <= onShelf[row.book].version /\ m.version \in Nat /\ m.stamp \in Nat
    BY <2>1, <2>2, RecordForward DEF Readings
  <2> HIDE DEF row, m
  <2>4. catalogued' \in [Decensored -> [stamp : Nat, digest : Nat]]
    BY <1>t, <2>2, <2>3
  <2>5. \A c \in Decensored :
          \/ catalogued'[c] = catalogued[c]
          \/ /\ catalogued'[c].stamp = onShelf[c].stamp
             /\ catalogued[c].digest <= catalogued'[c].digest
             /\ catalogued'[c].digest <= onShelf[c].version
    BY <1>t, <2>1, <2>2, <2>3
  <2>6. HandoffTyped'
    BY <1>p, <1>1, <2>1, <2>2, <2>4 DEF HandoffInv, HandoffTyped
  <2> QED
    BY <1>p, <2>5, <2>6, PerBook DEF Progresses, Forward
<1> QED
  BY <1>2, <1>3 DEF BeginReconcile, MeasureCandidate, ReconcileDies

LEMMA StepProgresses == HandoffInv /\ [HandoffNext]_handoffVars => Progresses
<1>1. ASSUME HandoffInv, UNCHANGED handoffVars PROVE Progresses
  <2>1. UNCHANGED <<onShelf, backlog, completions, versions, catalogued, cursor, reconciling,
                    preparing>>
    BY <1>1 DEF handoffVars, fileVars
  <2>2. HandoffTyped'
    BY <1>1, <2>1 DEF HandoffInv, HandoffTyped
  <2> QED
    BY <1>1, <2>1, <2>2, PerBook DEF Progresses, Forward
<1> QED
  BY <1>1, BooksProgress, RunsProgress DEF HandoffNext

-----------------------------------------------------------------------------
(* Runs                                                                    *)

(* A book that is on record stays so until it completes anew, and that     *)
(* completion comes after every event there was.                           *)
LEMMA RecordKept ==
  ASSUME HandoffInv, Progresses, NEW b \in Decensored, NEW e \in Nat, e <= completions,
         backlog'[b].state = "completed", backlog'[b].event <= e
  PROVE  backlog'[b] = backlog[b] /\ (OnRecord(b) => OnRecord(b)')
<1>1. /\ backlog[b].event \in Nat /\ completions \in Nat /\ backlog[b].version \in Nat
      /\ catalogued[b].digest \in Nat /\ catalogued'[b].digest \in Nat
  BY DEF Progresses, HandoffInv, HandoffTyped
<1> QED
  BY <1>1 DEF Progresses, Forward, OnRecord

(* A run that does not move keeps what it knows.                           *)
LEMMA IdleTodo ==
  ASSUME HandoffInv, Progresses, NEW r \in HandoffRuns, reconciling'[r] = reconciling[r]
  PROVE  TodoHolds(r)'
<1> DEFINE todo == reconciling[r].todo
<1> SUFFICES ASSUME reconciling[r].at # "off" PROVE TodoHolds(r)'
  BY DEF TodoHolds
<1>1. /\ todo \in Seq(EventRecords) /\ Len(todo) \in Nat /\ Len(todo) > 0
      /\ \A i \in 1..Len(todo) : todo[i].event \in Nat /\ todo[i].event <= completions
      /\ completions \in Nat /\ completions' \in Nat /\ completions <= completions'
      /\ todo[1].book \in Decensored /\ reconciling[r].measured \in Readings
  <2>1. \A i \in 1..Len(todo) : todo[i] \in EventRecords
    BY RunTyped
  <2> QED
    BY <2>1, RunTyped DEF EventRecords, HandoffInv, TodoHolds, Progresses, HandoffTyped
<1> HIDE DEF todo
<1>2. \A i \in 1..Len(todo) : todo[i].event <= completions'
  BY <1>1
<1>3. \A i, j \in 1..Len(todo) : i < j => todo[i].event < todo[j].event
  BY DEF HandoffInv, TodoHolds, todo
<1>4. ASSUME NEW b \in Decensored, NEW i \in 1..Len(todo),
             backlog'[b].state = "completed", backlog'[b].event <= todo[i].event
      PROVE  OnRecord(b)' \/ \E j \in 1..Len(todo) :
                               todo[j].book = b /\ todo[j].event = backlog'[b].event
  <2>1. backlog'[b] = backlog[b] /\ (OnRecord(b) => OnRecord(b)')
    BY <1>1, <1>4, RecordKept
  <2> QED
    BY <1>4, <2>1 DEF HandoffInv, TodoHolds, todo
<1>5. ASSUME reconciling[r].at = "recording"
      PROVE  Snapshot(todo[1].book, reconciling[r].measured)'
  BY <1>1, <1>5, SnapshotKept DEF HandoffInv, TodoHolds, todo
<1>6. ASSUME reconciling[r].at = "recording", backlog'[todo[1].book].state = "completed",
             backlog'[todo[1].book].event = todo[1].event
      PROVE  reconciling[r].measured.version >= backlog'[todo[1].book].version
  <2>0. 1 \in 1..Len(todo)
    BY <1>1
  <2>1. backlog'[todo[1].book] = backlog[todo[1].book]
    BY <1>1, <1>6, <2>0, RecordKept
  <2> QED
    BY <1>6, <2>1 DEF HandoffInv, TodoHolds, todo
<1>7. reconciling'[r] = reconciling[r]
  OBVIOUS
<1>8. todo = reconciling'[r].todo
  BY <1>7 DEF todo
<1>9. \A b \in Decensored, i \in 1..Len(todo) :
        backlog'[b].state = "completed" /\ backlog'[b].event <= todo[i].event =>
          OnRecord(b)' \/ \E j \in 1..Len(todo) :
                            todo[j].book = b /\ todo[j].event = backlog'[b].event
  BY <1>4
<1>10. reconciling'[r].at = "recording" =>
         /\ Snapshot(todo[1].book, reconciling[r].measured)'
         /\ (/\ backlog'[todo[1].book].state = "completed"
             /\ backlog'[todo[1].book].event = todo[1].event)
              => reconciling'[r].measured.version >= backlog'[todo[1].book].version
  BY <1>5, <1>6, <1>7
<1>11. Len(todo) > 0
  BY <1>1
<1> QED
  BY <1>2, <1>3, <1>8, <1>9, <1>10, <1>11, SMTT(30) DEF TodoHolds, todo

(* The first events after the cursor: what precedes one of them and is not *)
(* among them lies behind the cursor.                                      *)
LEMMA BeginTodo ==
  ASSUME HandoffInv, Progresses, NEW r \in HandoffRuns, BeginReconcile(r)
  PROVE  TodoHolds(r)'
<1>1. PICK n \in 1..EventLimit : \E todo \in [1..n -> EventRows] :
         /\ NextEvents(todo)
         /\ reconciling' = [reconciling EXCEPT ![r] =
                              [at |-> "measuring", todo |-> todo, measured |-> NotMeasured]]
  BY DEF BeginReconcile
<1>2. PICK todo \in [1..n -> EventRows] :
         /\ NextEvents(todo)
         /\ reconciling' = [reconciling EXCEPT ![r] =
                              [at |-> "measuring", todo |-> todo, measured |-> NotMeasured]]
  BY <1>1
<1>3. /\ UNCHANGED <<backlog, catalogued, completions>> /\ Len(todo) = n /\ n \in Nat \ {0}
      /\ DOMAIN todo = 1..n
  BY <1>2, CameliaHandoffAssumption DEF BeginReconcile, fileVars
<1>4. /\ reconciling'[r].at = "measuring" /\ reconciling'[r].todo = todo
  BY <1>2 DEF HandoffInv, HandoffTyped
<1>5. \A i \in 1..n : todo[i].event \in Nat /\ todo[i].event <= completions
  <2>1. \A b \in Due : backlog[b].event \in Nat /\ backlog[b].event <= completions
    BY DEF Due, HandoffInv, HandoffTyped, ShelfLeads
  <2> QED
    BY <1>2, <2>1 DEF EventRows
<1>6. \A i, j \in 1..n : i < j => todo[i].event < todo[j].event
  BY <1>2, <1>3 DEF NextEvents
<1>7. ASSUME NEW b \in Decensored, NEW i \in 1..n,
             backlog[b].state = "completed", backlog[b].event <= todo[i].event, ~OnRecord(b)
      PROVE  \E j \in 1..n : todo[j].book = b /\ todo[j].event = backlog[b].event
  <2>0. backlog[b].event \in Nat /\ cursor \in Nat /\ catalogued[b].digest \in Nat
        /\ backlog[b].version \in Nat
    BY DEF HandoffInv, HandoffTyped
  <2>1. b \in Due
    BY <1>7, <2>0 DEF HandoffInv, PassedIsOnRecord, Due, OnRecord
  <2>2. CASE \E j \in 1..n : todo[j] = [book |-> b, event |-> backlog[b].event,
                                        stamp |-> backlog[b].stamp]
    BY <2>2
  <2>3. CASE ~\E j \in 1..n : todo[j] = [book |-> b, event |-> backlog[b].event,
                                         stamp |-> backlog[b].stamp]
    <3>1. n = EventLimit /\ todo[EventLimit].event < backlog[b].event
      BY <1>2, <1>3, <2>1, <2>3 DEF NextEvents
    <3>2. i = n \/ todo[i].event < todo[n].event
      BY <1>3, <1>6
    <3>3. n \in 1..n
      BY <1>3
    <3> QED
      BY <1>5, <1>7, <2>0, <3>1, <3>2, <3>3
  <2> QED
    BY <2>2, <2>3
<1>8. \A b \in Decensored, i \in 1..n :
        backlog[b].state = "completed" /\ backlog[b].event <= todo[i].event =>
           OnRecord(b) \/ \E j \in 1..n : todo[j].book = b /\ todo[j].event = backlog[b].event
  BY <1>7
<1>9. \A b \in Decensored : OnRecord(b)' <=> OnRecord(b)
  BY <1>3 DEF OnRecord
<1> QED
  BY <1>3, <1>4, <1>5, <1>6, <1>8, <1>9 DEF TodoHolds

LEMMA MeasureTodo ==
  ASSUME HandoffInv, Progresses, NEW r \in HandoffRuns, MeasureCandidate(r)
  PROVE  TodoHolds(r)'
<1> DEFINE todo == reconciling[r].todo
<1>1. /\ UNCHANGED <<onShelf, backlog, catalogued, completions>>
      /\ reconciling[r].at = "measuring"
  BY DEF MeasureCandidate, fileVars
<1>2. CASE ReconcileEnds(r)
  BY <1>2 DEF ReconcileEnds, HandoffInv, HandoffTyped, TodoHolds, NotReconciling
<1>3. CASE ~ReconcileEnds(r)
  <2>1. Head(todo) = todo[1] /\ todo[1].book \in Decensored
    BY <1>1, RunTyped
  <2>2. reconciling' = [reconciling EXCEPT ![r].at = "recording",
                                           ![r].measured = onShelf[todo[1].book]]
    BY <1>3, <2>1 DEF MeasureCandidate
  <2>3. /\ reconciling'[r].at = "recording" /\ reconciling'[r].todo = todo
        /\ reconciling'[r].measured = onShelf[todo[1].book]
    BY <2>2 DEF HandoffInv, HandoffTyped
  <2>4. /\ onShelf[todo[1].book].version \in Nat /\ onShelf[todo[1].book].stamp \in Nat
        /\ catalogued[todo[1].book].digest \in Nat /\ catalogued[todo[1].book].stamp \in Nat
        /\ backlog[todo[1].book].version \in Nat
        /\ catalogued[todo[1].book].digest <= onShelf[todo[1].book].version
        /\ backlog[todo[1].book].version <= onShelf[todo[1].book].version
    BY <2>1 DEF HandoffInv, HandoffTyped, ShelfLeads, Readings
  <2> DEFINE first == todo[1].book
             m == onShelf[first]
  <2>5. /\ m.version <= onShelf'[first].version /\ m.stamp <= onShelf'[first].stamp
        /\ catalogued'[first].digest > m.version => catalogued'[first].stamp >= m.stamp
        /\ m.version >= backlog'[first].version
    <3>1. onShelf' = onShelf /\ backlog' = backlog /\ catalogued' = catalogued
      BY <1>1
    <3>2. /\ m.version \in Nat /\ m.stamp \in Nat /\ catalogued[first].digest \in Nat
          /\ backlog[first].version \in Nat /\ catalogued[first].digest <= m.version
          /\ backlog[first].version <= m.version
      BY <2>4
    <3> HIDE DEF first
    <3> QED
      BY <3>1, <3>2
  <2>6. \A b \in Decensored : OnRecord(b)' <=> OnRecord(b)
    BY <1>1 DEF OnRecord
  <2>7. TodoHolds(r)
    BY DEF HandoffInv
  <2>8. Snapshot(reconciling[r].todo[1].book, reconciling[r].measured)'
    BY <2>3, <2>5 DEF Snapshot
  <2>9. /\ Len(todo) > 0 /\ \A i \in 1..Len(todo) : todo[i].event <= completions'
        /\ \A i, j \in 1..Len(todo) : i < j => todo[i].event < todo[j].event
    BY <1>1, <2>7 DEF TodoHolds
  <2>10. \A b \in Decensored, i \in 1..Len(todo) :
           backlog'[b].state = "completed" /\ backlog'[b].event <= todo[i].event =>
             OnRecord(b)' \/ \E j \in 1..Len(todo) :
                                todo[j].book = b /\ todo[j].event = backlog'[b].event
    BY <1>1, <2>6, <2>7 DEF TodoHolds
  <2> HIDE DEF todo, first, m
  <2> QED
    BY <2>3, <2>5, <2>8, <2>9, <2>10 DEF TodoHolds, first, m
<1> QED
  BY <1>2, <1>3

(* Recording the first of its events puts that completion on record, and   *)
(* with it everything before the new cursor.                               *)
LEMMA RecordTodo ==
  ASSUME HandoffInv, Progresses, NEW r \in HandoffRuns, ReconcileOne(r)
  PROVE  TodoHolds(r)' /\ PassedIsOnRecord' /\ cursor' <= completions'
<1> DEFINE todo == reconciling[r].todo
           m == reconciling[r].measured
<1>0. /\ UNCHANGED <<onShelf, backlog, completions>> /\ reconciling[r].at = "recording"
      /\ Len(todo) \in Nat \ {0} /\ Head(todo) = todo[1] /\ todo \in Seq(EventRecords)
      /\ todo[1].book \in Decensored /\ todo[1].event \in Nat /\ m \in Readings
  BY RunTyped DEF ReconcileOne, fileVars
<1>t. /\ \A i \in 1..Len(todo) : todo[i].event \in Nat
      /\ \A b \in Decensored : /\ backlog[b].event \in Nat /\ backlog[b].version \in Nat
                               /\ catalogued[b].digest \in Nat /\ catalogued'[b].digest \in Nat
  <2>1. \A i \in 1..Len(todo) : todo[i] \in EventRecords
    BY <1>0
  <2> QED
    BY <2>1 DEF EventRecords, HandoffInv, HandoffTyped, Progresses
<1>h. TodoHolds(r) /\ PassedIsOnRecord /\ cursor <= completions
  BY DEF HandoffInv
<1>1. CASE ~Acceptable(todo[1].book, m)
  <2>1. ReconcileEnds(r) /\ UNCHANGED <<catalogued, cursor>>
    BY <1>0, <1>1 DEF ReconcileOne
  <2>2. TodoHolds(r)'
    BY <2>1 DEF ReconcileEnds, HandoffInv, HandoffTyped, TodoHolds, NotReconciling
  <2> QED
    BY <1>0, <1>h, <2>1, <2>2 DEF PassedIsOnRecord
<1>2. CASE Acceptable(todo[1].book, m)
  <2>1. /\ catalogued' = [catalogued EXCEPT ![todo[1].book] =
                             [stamp |-> m.stamp, digest |-> m.version]]
        /\ cursor' = todo[1].event
        /\ IF Len(todo) = 1 THEN ReconcileEnds(r)
           ELSE reconciling' = [reconciling EXCEPT ![r] =
                  [at |-> "measuring", todo |-> Tail(@.todo), measured |-> NotMeasured]]
    BY <1>0, <1>2 DEF ReconcileOne
  <2>2. catalogued'[todo[1].book].digest = m.version
    BY <1>0, <2>1 DEF HandoffInv, HandoffTyped
  <2>3. ASSUME NEW b \in Decensored, OnRecord(b) PROVE OnRecord(b)'
    BY <1>0, <1>t, <2>3 DEF OnRecord, Progresses, Forward
  <2>4. ASSUME NEW b \in Decensored, NEW i \in 1..Len(todo),
               backlog[b].state = "completed", backlog[b].event <= todo[i].event
        PROVE  OnRecord(b)' \/ \E j \in 2..Len(todo) :
                                  todo[j].book = b /\ todo[j].event = backlog[b].event
    <3>1. CASE OnRecord(b)
      BY <2>3, <3>1
    <3>2. CASE \E j \in 1..Len(todo) : todo[j].book = b /\ todo[j].event = backlog[b].event
      <4>1. PICK j \in 1..Len(todo) : todo[j].book = b /\ todo[j].event = backlog[b].event
        BY <3>2
      <4>2. CASE j = 1
        <5>1. m.version >= backlog[b].version
          BY <1>0, <1>h, <2>4, <4>1, <4>2 DEF TodoHolds
        <5> QED
          BY <1>0, <2>2, <4>1, <4>2, <5>1 DEF OnRecord
      <4>3. CASE j # 1
        <5>1. j \in 2..Len(todo)
          BY <1>0, <4>3
        <5> QED
          BY <4>1, <5>1
      <4> QED
        BY <4>2, <4>3
    <3> QED
      BY <1>0, <1>h, <2>4, <3>1, <3>2 DEF TodoHolds
  <2>5. \A i, j \in 1..Len(todo) : i < j => todo[i].event < todo[j].event
    BY <1>0, <1>h DEF TodoHolds
  <2>6. 1 \in 1..Len(todo)
    BY <1>0
  <2>7. PassedIsOnRecord'
    <3> SUFFICES ASSUME NEW b \in Decensored, backlog[b].state = "completed",
                        backlog[b].event <= todo[1].event
                 PROVE  OnRecord(b)'
      BY <1>0, <2>1 DEF PassedIsOnRecord, OnRecord
    <3>1. ASSUME NEW j \in 2..Len(todo) PROVE ~(todo[j].event = backlog[b].event)
      <4>1. j \in 1..Len(todo) /\ 1 < j
        BY <1>0
      <4>2. todo[1].event < todo[j].event
        BY <2>5, <2>6, <4>1
      <4> QED
        BY <1>t, <2>6, <4>1, <4>2
    <3> QED
      BY <2>4, <2>6, <3>1
  <2>8. cursor' <= completions'
    BY <1>0, <1>h, <2>1, <2>6 DEF TodoHolds
  <2>9. CASE Len(todo) = 1
    <3>1. reconciling'[r].at = "off"
      BY <2>1, <2>9 DEF ReconcileEnds, HandoffInv, HandoffTyped, NotReconciling
    <3>2. TodoHolds(r)'
      BY <3>1 DEF TodoHolds
    <3> QED
      BY <2>7, <2>8, <3>2
  <2>10. CASE Len(todo) # 1
    <3>1. /\ reconciling'[r].at = "measuring" /\ reconciling'[r].todo = Tail(todo)
      BY <2>1, <2>10 DEF HandoffInv, HandoffTyped
    <3>2. /\ Len(Tail(todo)) = Len(todo) - 1 /\ Len(Tail(todo)) > 0
          /\ \A i \in 1..(Len(todo) - 1) : i + 1 \in 1..Len(todo) /\ Tail(todo)[i] = todo[i + 1]
      <4> DEFINE t == todo
      <4> HIDE DEF EventRecords
      <4>0. t \in Seq(EventRecords) /\ Len(t) \in Nat \ {0} /\ Len(t) # 1
        BY <1>0, <2>10
      <4> HIDE DEF t
      <4>1. t \in Seq(EventRecords) /\ Len(t) \in Nat /\ Len(t) > 1
        <5> DEFINE n == Len(t)
        <5>1. n \in Nat \ {0} /\ n # 1
          BY <4>0
        <5> HIDE DEF n
        <5>2. n \in Nat /\ n > 1
          BY <5>1
        <5> QED
          BY <4>0, <5>2 DEF n
      <4>2. t # << >>
        BY <4>1
      <4>3. Len(Tail(t)) = Len(t) - 1 /\ \A i \in 1..Len(Tail(t)) : Tail(t)[i] = t[i + 1]
        BY <4>1, <4>2
      <4>4. \A i \in 1..(Len(t) - 1) : i + 1 \in 1..Len(t)
        BY <4>1
      <4> QED
        BY <4>1, <4>3, <4>4 DEF t
    <3> DEFINE rest == Tail(todo)
               last == Len(todo) - 1
    <3> HIDE DEF rest, todo
    <3>3. \A i \in 1..last : rest[i] = todo[i + 1] /\ i + 1 \in 1..Len(todo)
      BY <3>2 DEF rest
    <3>4. \A i \in 1..last : rest[i].event <= completions'
      BY <1>0, <1>h, <3>3 DEF TodoHolds, todo
    <3>5. \A i, j \in 1..last : i < j => rest[i].event < rest[j].event
      BY <1>0, <2>5, <3>3
    <3>6. ASSUME NEW b \in Decensored, NEW i \in 1..last,
                 backlog[b].state = "completed", backlog[b].event <= rest[i].event, ~OnRecord(b)'
          PROVE  \E j \in 1..last : rest[j].book = b /\ rest[j].event = backlog[b].event
      <4>1. PICK j \in 2..Len(todo) : todo[j].book = b /\ todo[j].event = backlog[b].event
        BY <2>4, <3>3, <3>6
      <4>2. j - 1 \in 1..last /\ (j - 1) + 1 = j
        BY <1>0
      <4> QED
        BY <3>3, <4>1, <4>2
    <3>7. \A b \in Decensored, i \in 1..last :
            backlog'[b].state = "completed" /\ backlog'[b].event <= rest[i].event =>
              OnRecord(b)' \/ \E j \in 1..last : rest[j].book = b /\ rest[j].event = backlog'[b].event
      BY <1>0, <3>6
    <3>8. Len(rest) = last /\ last > 0
      BY <3>2 DEF rest
    <3>9. reconciling'[r].at = "measuring" /\ reconciling'[r].todo = rest
      BY <3>1 DEF rest
    <3>10. TodoHolds(r)'
      BY <3>4, <3>5, <3>7, <3>8, <3>9 DEF TodoHolds
    <3> QED
      BY <2>7, <2>8, <3>10
  <2> QED
    BY <2>9, <2>10
<1> QED
  BY <1>1, <1>2

LEMMA HandoffStep == HandoffInv /\ [HandoffNext]_handoffVars => HandoffInv'
<1> SUFFICES ASSUME HandoffInv, [HandoffNext]_handoffVars PROVE HandoffInv'
  OBVIOUS
<1>1. Progresses /\ ShelfLeads' /\ HandoffTyped'
  BY StepProgresses, ShelfKept DEF Progresses
<1>2. ASSUME cursor' = cursor PROVE PassedIsOnRecord' /\ cursor' <= completions'
  <2>1. cursor \in Nat /\ cursor <= completions /\ completions \in Nat /\ completions' \in Nat
        /\ completions <= completions'
    BY <1>1 DEF HandoffInv, HandoffTyped, Progresses
  <2>2. \A b \in Decensored :
          backlog'[b].state = "completed" /\ backlog'[b].event <= cursor => OnRecord(b)'
    BY <1>1, <2>1, RecordKept DEF HandoffInv, PassedIsOnRecord, OnRecord
  <2> QED
    BY <1>2, <2>1, <2>2 DEF PassedIsOnRecord, OnRecord
<1>3. ASSUME NEW r \in HandoffRuns, BeginReconcile(r) \/ MeasureCandidate(r) \/ ReconcileDies(r)
      PROVE  (\A q \in HandoffRuns : TodoHolds(q)') /\ PassedIsOnRecord' /\ cursor' <= completions'
  <2>1. cursor' = cursor /\ \A q \in HandoffRuns \ {r} : reconciling'[q] = reconciling[q]
    BY <1>3 DEF BeginReconcile, MeasureCandidate, ReconcileDies, ReconcileEnds, HandoffInv,
                HandoffTyped
  <2>2. TodoHolds(r)'
    <3>1. CASE ReconcileDies(r)
      BY <3>1 DEF ReconcileDies, ReconcileEnds, HandoffInv, HandoffTyped, TodoHolds,
                  NotReconciling
    <3> QED
      BY <1>1, <1>3, <3>1, BeginTodo, MeasureTodo
  <2> QED
    BY <1>1, <1>2, <2>1, <2>2, IdleTodo
<1>4. ASSUME NEW r \in HandoffRuns, ReconcileOne(r)
      PROVE  (\A q \in HandoffRuns : TodoHolds(q)') /\ PassedIsOnRecord' /\ cursor' <= completions'
  <2>1. \A q \in HandoffRuns \ {r} : reconciling'[q] = reconciling[q]
    BY <1>4 DEF ReconcileOne, ReconcileEnds, HandoffInv, HandoffTyped
  <2> QED
    BY <1>1, <1>4, <2>1, IdleTodo, RecordTodo
<1>5. CASE UNCHANGED <<cursor, reconciling>>
  BY <1>1, <1>2, <1>5, IdleTodo DEF HandoffInv
<1>6. CASE \A r \in HandoffRuns : ~(BeginReconcile(r) \/ MeasureCandidate(r) \/ ReconcileOne(r)
                                      \/ ReconcileDies(r))
  <2>1. UNCHANGED <<cursor, reconciling>>
    BY <1>6 DEF HandoffNext, handoffVars, CameliaRequeues, CameliaReplaces, CameliaCompletes,
                CameliaGoes, OtherToolChanges, ScanSees, StageHashes, MeasureSource, PrepareOne,
                PrepareEnds
  <2> QED
    BY <1>5, <2>1
<1> QED
  BY <1>1, <1>3, <1>4, <1>6 DEF HandoffInv

LEMMA HandoffAlways == HandoffSpec => []HandoffInv
BY HandoffInvInit, HandoffStep, PTL DEF HandoffSpec

(* What the cursor of the handoff has passed is on record, whatever runs   *)
(* raced, died or set the cursor back, for any number of books, runs and   *)
(* changes by other tools.                                                 *)
THEOREM PassedAlways == HandoffSpec => []PassedIsOnRecord
<1>1. HandoffInv => PassedIsOnRecord
  BY DEF HandoffInv
<1> QED
  BY <1>1, HandoffAlways, PTL

(* No run, preparation or stage ever puts an older digest on record.       *)
THEOREM ForwardAlways == HandoffSpec => RecordsGoForward
<1>1. HandoffInv /\ [HandoffNext]_handoffVars
        => [\A b \in Decensored : catalogued'[b].digest >= catalogued[b].digest]_handoffVars
  <2> SUFFICES ASSUME HandoffInv, [HandoffNext]_handoffVars, NEW b \in Decensored
               PROVE  catalogued'[b].digest >= catalogued[b].digest
    OBVIOUS
  <2>1. Forward(b) /\ catalogued[b].digest \in Nat /\ catalogued'[b].digest \in Nat
    BY StepProgresses DEF Progresses, HandoffInv, HandoffTyped
  <2> QED
    BY <2>1 DEF Forward
<1> QED
  BY <1>1, HandoffAlways, PTL DEF HandoffSpec, RecordsGoForward

(* Both, as the run checks them.                                           *)
THEOREM HandoffIsSafe == HandoffSpec => HandoffSafety
BY PassedAlways, ForwardAlways, PTL DEF HandoffSafety

-----------------------------------------------------------------------------
(* The batch over copies: any comics, methods, batches and interruptions.  *)

MethodSets == SUBSET Methods
Archive == [methods : MethodSets, marked : BOOLEAN, version : Nat]
Children == [to : Slots, base : BOOLEAN, methods : MethodSets]
CameliaStages == {"new", "planning", "running", "completed", "failed"}
Batch == [at : CameliaStages, want : MethodSets, again : BOOLEAN, left : SUBSET Comics,
          jobs : SUBSET [to : Slots, base : BOOLEAN], child : {NoChild} \cup Children]
BatchTyped ==
    /\ book \in [Comics -> Archive] /\ \A c \in Comics : book[c].version >= 1
    /\ output \in [Slots -> Archive]
    /\ batch \in [BatchRuns -> Batch]
    /\ mishaps \in Nat

\* The books no other program has rewritten.
Untouched(c) == book[c].version = 1

\* An untouched book still has the tags it came with, and every marked output of it
\* was made from it, or continued from a base copy that was.
CopyOf(s) ==
    /\ output[s].version = 1
    /\ Sources[s[2]].methods \subseteq output[s].methods
    /\ ~Sources[s[2]].marked /\ s[1] # {} =>
          /\ output[Base(s[2])].marked
          /\ output[Base(s[2])].methods \subseteq output[s].methods
CopiesOfUntouched ==
    /\ \A c \in Comics : Untouched(c) => /\ book[c].methods = Sources[c].methods
                                         /\ book[c].marked = Sources[c].marked
    /\ \A s \in Slots : Untouched(s[2]) /\ output[s].marked => CopyOf(s)

\* A job continues the base copy only of a book without a marker, and then the base
\* copy is there; from the book it makes the base copy of such a book.
Sound(job) ==
    Untouched(job.to[2]) =>
        IF job.base
        THEN /\ ~Sources[job.to[2]].marked /\ job.to[1] # {}
             /\ output[Base(job.to[2])].marked
        ELSE ~Sources[job.to[2]].marked => job.to[1] = {}

JobsSound ==
    \A b \in BatchRuns :
        /\ \A job \in batch[b].jobs : Sound(job)
        /\ batch[b].child # NoChild =>
              /\ batch[b].at = "running" /\ batch[b].child.methods # {}
              /\ Sound(batch[b].child)
              /\ Untouched(batch[b].child.to[2]) =>
                    batch[b].want \subseteq Reads(batch[b].child).methods \cup batch[b].child.methods

\* A book of a batch has what was asked for, or what it has is unknown and not asked
\* about; or work of the batch is still due on it.
Excused(b, c) ==
    ~batch[b].again /\ (UnknownHistory(book[c]) \/ UnknownHistory(output[Base(c)]))
Covered(b, c) ==
    \/ batch[b].want \subseteq book[c].methods
    \/ \E s \in Slots : s[2] = c /\ output[s].version = 1 /\ batch[b].want \subseteq output[s].methods
    \/ Excused(b, c)
StillDue(b, c) ==
    \/ \E job \in batch[b].jobs : job.to[2] = c
    \/ batch[b].child # NoChild /\ batch[b].child.to[2] = c
NoneForgotten ==
    \A b \in BatchRuns, c \in Comics :
        Untouched(c) =>
            /\ batch[b].at = "planning" => c \in batch[b].left \/ Covered(b, c) \/ StillDue(b, c)
            /\ batch[b].at = "running" => Covered(b, c) \/ StillDue(b, c)
            /\ batch[b].at = "completed" => Covered(b, c)

BatchInv == CopiesOfUntouched /\ JobsSound /\ NoneForgotten

\* A slot is the set of its methods and its book.
LEMMA SlotParts ==
  /\ \A s \in Slots : s[1] \in MethodSets /\ s[2] \in Comics /\ s = <<s[1], s[2]>>
  /\ \A ms \in MethodSets, c \in Comics :
        <<ms, c>> \in Slots /\ <<ms, c>>[1] = ms /\ <<ms, c>>[2] = c
  /\ \A c \in Comics : Base(c) \in Slots /\ Base(c)[1] = {} /\ Base(c)[2] = c
  /\ \A s \in Slots : s[1] = {} => s = Base(s[2])
  BY DEF Slots, Base, NoMethods, MethodSets

LEMMA BatchInit == CameliaInit => BatchTyped /\ BatchInv
<1> SUFFICES ASSUME CameliaInit PROVE BatchTyped /\ BatchInv
  OBVIOUS
<1> USE CameliaAssumption DEF CameliaInit, NoOutput, NoMethods
<1>1. BatchTyped
  <2>1. \A c \in Comics : book[c] = [methods |-> Sources[c].methods,
                                   marked |-> Sources[c].marked, version |-> 1]
    OBVIOUS
  <2>2. \A c \in Comics : Sources[c].methods \in MethodSets /\ Sources[c].marked \in BOOLEAN
    BY DEF TagMarks, MethodSets
  <2>3. book \in [Comics -> Archive] /\ \A c \in Comics : book[c].version >= 1
    BY <2>1, <2>2 DEF Archive
  <2>4. output \in [Slots -> Archive] /\ mishaps \in Nat
    BY DEF Archive, MethodSets
  <2>5. batch \in [BatchRuns -> Batch]
    BY DEF Batch, CameliaStages, MethodSets
  <2> QED
    BY <2>3, <2>4, <2>5 DEF BatchTyped
<1>2. CopiesOfUntouched
  BY DEF CopiesOfUntouched, Untouched
<1>3. JobsSound /\ NoneForgotten
  BY DEF JobsSound, NoneForgotten
<1> QED
  BY <1>1, <1>2, <1>3 DEF BatchInv

\* What no step of anyone undoes: an output that is there, and an untouched book.
Kept ==
    /\ \A c \in Comics : Untouched(c)' => Untouched(c) /\ book'[c] = book[c]
    /\ \A s \in Slots : Taken(s) => output'[s] = output[s]

LEMMA MarkedIsTaken ==
  ASSUME BatchTyped, NEW s \in Slots, output[s].marked
  PROVE  Taken(s)
  BY DEF Taken, NoOutput, NoMethods

LEMMA KeptStep == BatchTyped /\ [CameliaNext]_cvars => Kept
<1> SUFFICES ASSUME BatchTyped, [CameliaNext]_cvars PROVE Kept
  OBVIOUS
<1>1. ASSUME NEW b \in BatchRuns, ChildEnds(b) \/ ChildFails(b) PROVE Kept
  BY <1>1 DEF ChildEnds, ChildFails, Kept, BatchTyped, Batch, Taken, Untouched
<1>2. ASSUME NEW c \in Comics, NEW mark, BookRewritten(c, mark) PROVE Kept
  <2>1. \A d \in Comics : d # c => book'[d] = book[d]
    BY <1>2 DEF BookRewritten, BatchTyped, Batch
  <2>2. ~Untouched(c)'
    <3>1. book'[c].version = book[c].version + 1
      BY <1>2 DEF BookRewritten, BatchTyped, Batch, Archive
    <3>2. book[c].version \in Nat /\ book[c].version >= 1
      BY DEF BatchTyped, Batch, Archive
    <3> QED
      BY <3>1, <3>2 DEF Untouched
  <2> QED
    BY <1>2, <2>1, <2>2 DEF BookRewritten, Kept, Untouched
<1>3. CASE UNCHANGED <<book, output>>
  BY <1>3 DEF Kept, Untouched
<1> QED
  BY <1>1, <1>2, <1>3 DEF CameliaNext, StartCamelia, CameliaStops, PlanBook, RunBook, CameliaDone, cvars

LEMMA ReadsType ==
  ASSUME BatchTyped, NEW job, job.to \in Slots
  PROVE  Reads(job) \in Archive
  BY SlotParts DEF Reads, BatchTyped, Batch

\* A batch once a book is planned.
AfterBook(b, c, jobs) ==
    [batch[b] EXCEPT !.left = @ \ {c}, !.jobs = @ \cup jobs,
                     !.at = IF batch[b].left = {c} THEN "running" ELSE @]

\* Planning a book changes the batch's own work only.
LEMMA PlannedType ==
  ASSUME BatchTyped, NEW b \in BatchRuns, NEW c \in Comics,
         NEW jobs \in SUBSET [to : Slots, base : BOOLEAN], BookPlanned(b, c, jobs)
  PROVE  /\ batch' = [batch EXCEPT ![b] = batch'[b]]
         /\ batch'[b] = AfterBook(b, c, jobs)
         /\ batch'[b] \in Batch
<1>1. /\ batch' = [batch EXCEPT ![b] = batch'[b]]
      /\ batch'[b] = AfterBook(b, c, jobs)
  BY DEF BookPlanned, BatchTyped, AfterBook
<1>2. batch[b] \in Batch
  BY DEF BatchTyped
<1>3. /\ batch[b].left \ {c} \in SUBSET Comics
      /\ batch[b].jobs \cup jobs \in SUBSET [to : Slots, base : BOOLEAN]
      /\ (IF batch[b].left = {c} THEN "running" ELSE batch[b].at) \in CameliaStages
  BY <1>2 DEF Batch, CameliaStages
<1>4. batch'[b] \in Batch
  BY <1>1, <1>2, <1>3 DEF Batch, AfterBook
<1> QED
  BY <1>1, <1>4

LEMMA FailsType ==
  ASSUME BatchTyped, NEW b \in BatchRuns, CameliaFails(b)
  PROVE  /\ batch' = [batch EXCEPT ![b] = batch'[b]]
         /\ batch'[b].at = "failed" /\ batch'[b].child = NoChild /\ batch'[b].jobs = {}
         /\ batch'[b] \in Batch
<1> DEFINE over == [at |-> "failed", want |-> {}, again |-> FALSE, left |-> {}, jobs |-> {},
                    child |-> NoChild]
<1>1. batch' = [batch EXCEPT ![b] = over] /\ batch'[b] = over
  BY DEF CameliaFails, BatchTyped
<1>2. over \in Batch
  BY DEF Batch, CameliaStages, MethodSets
<1>3. over.at = "failed" /\ over.child = NoChild /\ over.jobs = {}
  OBVIOUS
<1> HIDE DEF over
<1> QED
  BY <1>1, <1>2, <1>3

\* The parts of the invariant that speak of one batch.
JobsSoundOf(b) ==
    /\ \A job \in batch[b].jobs : Sound(job)
    /\ batch[b].child # NoChild =>
          /\ batch[b].at = "running" /\ batch[b].child.methods # {}
          /\ Sound(batch[b].child)
          /\ Untouched(batch[b].child.to[2]) =>
                batch[b].want \subseteq Reads(batch[b].child).methods \cup batch[b].child.methods
NoneForgottenOf(b) ==
    \A c \in Comics : Untouched(c) =>
        /\ batch[b].at = "planning" => c \in batch[b].left \/ Covered(b, c) \/ StillDue(b, c)
        /\ batch[b].at = "running" => Covered(b, c) \/ StillDue(b, c)
        /\ batch[b].at = "completed" => Covered(b, c)

\* What an archive lacks is what there is to run, unless its history is unknown.
LEMMA RunsTheRest ==
  ASSUME NEW archive, NEW want, NEW again
  PROVE  LET todo == MethodsToRun(archive, want, again)
         IN  \/ want \subseteq archive.methods \cup todo
             \/ ~again /\ UnknownHistory(archive) /\ todo = {}
BY DEF MethodsToRun

\* The archive a sound job reads.
LEMMA SoundReads ==
  ASSUME BatchTyped, CopiesOfUntouched, NEW job,
         job.to \in Slots, job.base \in BOOLEAN, Sound(job), Untouched(job.to[2])
  PROVE  LET c == job.to[2]
         IN  /\ c \in Comics /\ Base(c) \in Slots /\ Base(c)[2] = c
             /\ Reads(job).version = 1 /\ Sources[c].methods \subseteq Reads(job).methods
             /\ job.base => /\ Reads(job) = output[Base(c)] /\ Reads(job).marked
                            /\ ~Sources[c].marked /\ job.to[1] # {}
             /\ ~job.base => Reads(job) = book[c] /\ (~Sources[c].marked => job.to[1] = {})
<1> DEFINE c == job.to[2]
<1>1. c \in Comics /\ Base(c) \in Slots /\ Base(c)[2] = c
  BY SlotParts
<1>2. CASE job.base
  <2>1. Reads(job) = output[Base(c)] /\ output[Base(c)].marked
        /\ ~Sources[c].marked /\ job.to[1] # {}
    BY <1>2 DEF Sound, Reads
  <2>2. CopyOf(Base(c))
    BY <1>1, <2>1 DEF CopiesOfUntouched
  <2> QED
    BY <1>1, <1>2, <2>1, <2>2 DEF CopyOf
<1>3. CASE ~job.base
  BY <1>1, <1>3 DEF Sound, Reads, CopiesOfUntouched, Untouched
<1> QED
  BY <1>2, <1>3

\* A copy that passes verification covers the book, if its methods are all that the
\* archive it was made from lacked.
LEMMA VerifiedCovers ==
  ASSUME BatchTyped, CopiesOfUntouched, NEW b \in BatchRuns, NEW job,
         job.to \in Slots, job.base \in BOOLEAN, Sound(job), Untouched(job.to[2]),
         NEW methods, batch[b].want \subseteq Reads(job).methods \cup methods,
         VerifiedCopy(job.to, Reads(job), methods)
  PROVE  Covered(b, job.to[2])
<1> DEFINE c == job.to[2]
<1>1. /\ output[job.to].marked /\ methods \subseteq output[job.to].methods
  BY DEF VerifiedCopy
<1>2. CopyOf(job.to)
  BY <1>1 DEF CopiesOfUntouched
<1>3. Reads(job).methods \subseteq output[job.to].methods
  BY <1>2, SoundReads DEF CopyOf, CopiesOfUntouched
<1> QED
  BY <1>1, <1>2, <1>3 DEF Covered, CopyOf

\* So does work that is no longer needed, or is not asked about.
LEMMA NothingToRunCovers ==
  ASSUME BatchTyped, CopiesOfUntouched, NEW b \in BatchRuns, NEW job,
         job.to \in Slots, job.base \in BOOLEAN, Sound(job), Untouched(job.to[2]),
         MethodsToRun(Reads(job), batch[b].want, batch[b].again) = {}
  PROVE  Covered(b, job.to[2])
<1> DEFINE c == job.to[2]
<1>1. CASE batch[b].want \subseteq Reads(job).methods
  BY <1>1, SoundReads DEF Covered
<1>2. CASE ~batch[b].again /\ UnknownHistory(Reads(job))
  BY <1>2, SoundReads DEF Covered, Excused
<1> QED
  BY <1>1, <1>2, RunsTheRest

LEMMA SoundKept ==
  ASSUME BatchTyped, Kept, NEW job, job.to \in Slots, Sound(job)
  PROVE  /\ Sound(job)'
         /\ Untouched(job.to[2])' /\ job.base \in BOOLEAN => Reads(job)' = Reads(job)
<1>1. job.to[2] \in Comics /\ Base(job.to[2]) \in Slots
  BY SlotParts
<1>2. output[Base(job.to[2])].marked =>
          output'[Base(job.to[2])] = output[Base(job.to[2])]
  BY <1>1, MarkedIsTaken DEF Kept
<1> QED
  BY <1>1, <1>2 DEF Kept, Sound, Reads, Base

LEMMA CoveredKept ==
  ASSUME BatchTyped, Kept, NEW b \in BatchRuns, NEW c \in Comics,
         batch'[b].want = batch[b].want, batch'[b].again = batch[b].again,
         Untouched(c)', Covered(b, c)
  PROVE  Covered(b, c)'
<1>1. CASE batch[b].want \subseteq book[c].methods
  BY <1>1 DEF Kept, Covered
<1>2. ASSUME NEW s \in Slots, s[2] = c, output[s].version = 1,
             batch[b].want \subseteq output[s].methods
      PROVE  Covered(b, c)'
  <2>1. output'[s] = output[s]
    BY <1>2 DEF Kept, Taken, NoOutput
  <2> QED
    BY <1>2, <2>1 DEF Covered
<1>3. CASE Excused(b, c)
  <2>1. UnknownHistory(output[Base(c)]) => output'[Base(c)] = output[Base(c)]
    BY SlotParts, MarkedIsTaken DEF Kept, UnknownHistory
  <2>2. Base(c)' = Base(c)
    BY DEF Base
  <2> QED
    BY <1>3, <2>1, <2>2 DEF Kept, Covered, Excused
<1> QED
  BY <1>1, <1>2, <1>3 DEF Covered

\* A batch that does not move keeps its part.
LEMMA OthersKeep ==
  ASSUME BatchTyped, BatchInv, Kept, NEW b \in BatchRuns, batch'[b] = batch[b]
  PROVE  JobsSoundOf(b)' /\ NoneForgottenOf(b)'
<1>1. /\ \A job \in batch[b].jobs : job.to \in Slots
      /\ batch[b].child # NoChild => /\ batch[b].child.to \in Slots
                                     /\ batch[b].child.base \in BOOLEAN
  BY DEF BatchTyped, Batch, Children
<1>2. JobsSoundOf(b)'
  <2>1. \A job \in batch[b].jobs : Sound(job)'
    BY <1>1, SoundKept DEF BatchInv, JobsSound
  <2>2. ASSUME batch[b].child # NoChild
        PROVE  /\ batch[b].at = "running" /\ batch[b].child.methods # {}
               /\ Sound(batch[b].child)'
               /\ Untouched(batch[b].child.to[2])' =>
                    batch[b].want \subseteq
                        Reads(batch[b].child)' .methods \cup batch[b].child.methods
    <3> SUFFICES ASSUME NEW job, job = batch[b].child
                 PROVE  /\ batch[b].at = "running" /\ job.methods # {}
                        /\ Sound(job)'
                        /\ Untouched(job.to[2])' =>
                             batch[b].want \subseteq Reads(job)' .methods \cup job.methods
      OBVIOUS
    <3>1. job.to \in Slots /\ Sound(job) /\ job.base \in BOOLEAN
      BY <1>1, <2>2 DEF BatchInv, JobsSound
    <3>2. Sound(job)' /\ (Untouched(job.to[2])' => Reads(job)' = Reads(job))
      BY <3>1, SoundKept
    <3>3. Untouched(job.to[2])' => Untouched(job.to[2])
      BY <3>1, SlotParts DEF Kept
    <3> QED
      BY <2>2, <3>2, <3>3 DEF BatchInv, JobsSound
  <2> QED
    BY <2>1, <2>2 DEF JobsSoundOf
<1>3. NoneForgottenOf(b)'
  <2>1. \A c \in Comics : Untouched(c)' => Untouched(c) /\ (Covered(b, c) => Covered(b, c)')
    BY CoveredKept DEF Kept
  <2>2. \A c \in Comics : StillDue(b, c)' = StillDue(b, c)
    BY DEF StillDue
  <2> QED
    BY <2>1, <2>2 DEF NoneForgottenOf, NoneForgotten, BatchInv
<1> QED
  BY <1>2, <1>3

\* Outputs nobody changes stay what they are.
LEMMA CopiesKept ==
  ASSUME BatchTyped, CopiesOfUntouched, Kept, UNCHANGED output
  PROVE  CopiesOfUntouched'
<1>1. \A s \in Slots : s[2] \in Comics
  BY SlotParts
<1> QED
  BY <1>1 DEF CopiesOfUntouched, CopyOf, Kept, Base

LEMMA InvParts ==
  ASSUME CopiesOfUntouched, \A b \in BatchRuns : JobsSoundOf(b) /\ NoneForgottenOf(b)
  PROVE  BatchInv
  BY DEF BatchInv, JobsSound, JobsSoundOf, NoneForgotten, NoneForgottenOf

\* What planning a book comes to.
LEMMA PlanOutcome ==
  ASSUME BatchTyped, BatchInv, NEW b \in BatchRuns, NEW c \in Comics, PlanBook(b, c)
  PROVE  \/ CameliaFails(b)
         \/ BookPlanned(b, c, {}) /\ (Untouched(c) => Covered(b, c))
         \/ \E job \in [to : Slots, base : BOOLEAN] :
               BookPlanned(b, c, {job}) /\ job.to[2] = c /\ Sound(job)
<1> DEFINE want == batch[b].want
           again == batch[b].again
           pending == MethodsToRun(book[c], want, again)
           missing == pending \ output[Base(c)].methods
<1>0. /\ want \in MethodSets /\ pending \in MethodSets /\ missing \in MethodSets
      /\ Base(c) \in Slots /\ Base(c)[1] = {} /\ Base(c)[2] = c
      /\ Untouched(c) => /\ book[c].methods = Sources[c].methods
                         /\ book[c].marked = Sources[c].marked
  BY SlotParts DEF BatchTyped, Batch, MethodsToRun, MethodSets, BatchInv, CopiesOfUntouched
\* A slot that is there is verified, or the batch refuses.
<1>s. ASSUME NEW job \in [to : Slots, base : BOOLEAN], job.to[2] = c, Sound(job),
             NEW methods, Untouched(c) => want \subseteq Reads(job).methods \cup methods,
             SlotOrRefuse(b, c, job.to, job.base, Reads(job), methods)
      PROVE  \/ CameliaFails(b)
             \/ BookPlanned(b, c, {}) /\ (Untouched(c) => Covered(b, c))
             \/ BookPlanned(b, c, {job})
  <2>1. job = [to |-> job.to, base |-> job.base]
    OBVIOUS
  <2>2. VerifiedCopy(job.to, Reads(job), methods) /\ Untouched(c) => Covered(b, c)
    BY <1>s, VerifiedCovers DEF BatchInv
  <2> QED
    BY <1>s, <2>1, <2>2 DEF SlotOrRefuse
<1>1. CASE pending = {} /\ BookPlanned(b, c, {})
  <2>1. want \subseteq book[c].methods \/ (~again /\ UnknownHistory(book[c]))
    BY <1>1, RunsTheRest
  <2> QED
    BY <1>1, <2>1 DEF Covered, Excused
<1>2. CASE BookPlanned(b, c, {[to |-> Base(c), base |-> FALSE]})
  <2>1. Sound([to |-> Base(c), base |-> FALSE])
    BY <1>0 DEF Sound
  <2> QED
    BY <1>0, <1>2, <2>1
<1>3. CASE /\ pending # {} /\ book[c].marked
           /\ SlotOrRefuse(b, c, <<pending, c>>, FALSE, book[c], pending)
  <2> DEFINE job == [to |-> <<pending, c>>, base |-> FALSE]
  <2>1. job \in [to : Slots, base : BOOLEAN] /\ job.to[2] = c /\ job.to = <<pending, c>>
        /\ job.base = FALSE /\ Reads(job) = book[c]
    BY <1>0, SlotParts DEF Reads
  <2>2. Sound(job)
    BY <1>0, <1>3, <2>1 DEF Sound
  <2>3. want \subseteq book[c].methods \cup pending
    BY <1>3, RunsTheRest
  <2> HIDE DEF job, pending
  <2>4. SlotOrRefuse(b, c, job.to, job.base, Reads(job), pending)
    BY <1>3, <2>1
  <2> QED
    BY <1>s, <2>1, <2>2, <2>3, <2>4
<1>4. CASE /\ pending # {} /\ ~book[c].marked /\ VerifiedCopy(Base(c), book[c], {})
           /\ \/ missing = {} /\ BookPlanned(b, c, {})
              \/ /\ missing # {}
                 /\ SlotOrRefuse(b, c, <<missing, c>>, TRUE, output[Base(c)], missing)
  <2> DEFINE job == [to |-> <<missing, c>>, base |-> TRUE]
  <2>1. job \in [to : Slots, base : BOOLEAN] /\ job.to[2] = c /\ job.to = <<missing, c>>
        /\ job.base = TRUE /\ Reads(job) = output[Base(c)]
        /\ job.to[1] = missing
    BY <1>0, SlotParts DEF Reads
  <2>2. Untouched(c) => want \subseteq output[Base(c)].methods \cup missing
    <3>1. Untouched(c) => book[c].methods \subseteq output[Base(c)].methods
      BY <1>0, <1>4 DEF VerifiedCopy, BatchInv, CopiesOfUntouched, CopyOf
    <3>2. want \subseteq book[c].methods \cup pending
      BY <1>4, RunsTheRest
    <3> QED
      BY <3>1, <3>2
  <2>3. output[Base(c)].marked /\ output[Base(c)].version = book[c].version
    BY <1>4 DEF VerifiedCopy
  <2>4. CASE missing = {} /\ BookPlanned(b, c, {})
    <3>1. Untouched(c) => want \subseteq output[Base(c)].methods
      BY <2>2, <2>4
    <3> QED
      BY <1>0, <2>3, <2>4, <3>1 DEF Covered, Untouched
  <2>5. CASE missing # {} /\ SlotOrRefuse(b, c, <<missing, c>>, TRUE, output[Base(c)], missing)
    <3>1. Sound(job)
      BY <1>0, <1>4, <2>1, <2>3, <2>5 DEF Sound
    <3>2. Untouched(c) => want \subseteq Reads(job).methods \cup missing
      BY <2>1, <2>2
    <3> HIDE DEF job, missing
    <3>3. SlotOrRefuse(b, c, job.to, job.base, Reads(job), missing)
      BY <2>1, <2>5
    <3> QED
      BY <1>s, <2>1, <3>1, <3>2, <3>3
  <2> QED
    BY <1>4, <2>4, <2>5
<1> QED
  <2>1. \/ pending = {} /\ BookPlanned(b, c, {})
        \/ BookPlanned(b, c, {[to |-> Base(c), base |-> FALSE]})
        \/ /\ pending # {} /\ book[c].marked
           /\ SlotOrRefuse(b, c, <<pending, c>>, FALSE, book[c], pending)
        \/ /\ pending # {} /\ ~book[c].marked /\ VerifiedCopy(Base(c), book[c], {})
           /\ \/ missing = {} /\ BookPlanned(b, c, {})
              \/ /\ missing # {}
                 /\ SlotOrRefuse(b, c, <<missing, c>>, TRUE, output[Base(c)], missing)
        \/ CameliaFails(b)
    <3> HIDE DEF missing, pending
    <3> QED
      BY DEF PlanBook, pending, missing
  <2> QED
    BY <2>1, <1>1, <1>2, <1>3, <1>4

\* Where only batch b moves and it keeps its part, the whole invariant is kept.
LEMMA OnlyThisBatch ==
  ASSUME BatchTyped, BatchInv, Kept, NEW b \in BatchRuns, NEW new \in Batch,
         batch' = [batch EXCEPT ![b] = new], CopiesOfUntouched',
         JobsSoundOf(b)', NoneForgottenOf(b)'
  PROVE  BatchInv'
<1>1. \A d \in BatchRuns : d # b => batch'[d] = batch[d]
  BY DEF BatchTyped, Batch
<1>2. \A d \in BatchRuns : JobsSoundOf(d)' /\ NoneForgottenOf(d)'
  BY <1>1, OthersKeep
<1> QED
  BY <1>2 DEF BatchInv, JobsSound, JobsSoundOf, NoneForgotten, NoneForgottenOf

\* A batch that fails has nothing left to answer for.
LEMMA FailedKeeps ==
  ASSUME BatchTyped, BatchInv, Kept, NEW b \in BatchRuns, CameliaFails(b)
  PROVE  JobsSoundOf(b)' /\ NoneForgottenOf(b)'
  BY FailsType DEF JobsSoundOf, NoneForgottenOf

LEMMA PlanStep ==
  ASSUME BatchTyped, BatchInv, Kept, NEW b \in BatchRuns, NEW c \in Comics, PlanBook(b, c)
  PROVE  BatchTyped' /\ BatchInv'
<1>0. /\ UNCHANGED <<book, output, mishaps>> /\ batch[b].at = "planning"
      /\ c \in batch[b].left /\ batch[b].child = NoChild
  BY DEF PlanBook, BatchInv, JobsSound
<1>1. CopiesOfUntouched'
  BY <1>0, CopiesKept DEF BatchInv
<1>2. CASE CameliaFails(b)
  <2>1. batch'[b] \in Batch /\ batch' = [batch EXCEPT ![b] = batch'[b]]
    BY <1>2, FailsType
  <2>2. BatchTyped'
    BY <1>0, <2>1 DEF BatchTyped, Batch
  <2> QED
    BY <1>1, <1>2, <2>1, <2>2, FailedKeeps, OnlyThisBatch
<1>3. ASSUME NEW jobs \in SUBSET [to : Slots, base : BOOLEAN], BookPlanned(b, c, jobs),
             \A job \in jobs : Sound(job),
             (\E job \in jobs : job.to[2] = c) \/ (Untouched(c) => Covered(b, c))
      PROVE  BatchTyped' /\ BatchInv'
  <2>1. /\ batch'[b] \in Batch /\ batch' = [batch EXCEPT ![b] = batch'[b]]
        /\ batch'[b] = AfterBook(b, c, jobs)
    BY <1>3, PlannedType
  <2>2. BatchTyped'
    BY <1>0, <2>1 DEF BatchTyped, Batch
  <2>3. /\ batch'[b].jobs = batch[b].jobs \cup jobs /\ batch'[b].child = NoChild
        /\ batch'[b].want = batch[b].want /\ batch'[b].left = batch[b].left \ {c}
        /\ batch'[b].again = batch[b].again
        /\ \/ batch'[b].at = "planning"
           \/ batch'[b].at = "running" /\ batch[b].left = {c}
    BY <1>0, <2>1 DEF BatchTyped, Batch, AfterBook
  <2>4. \A job \in batch'[b].jobs : Sound(job)'
    <3>1. \A job \in batch'[b].jobs : Sound(job)
      BY <1>3, <2>3 DEF BatchInv, JobsSound
    <3> QED
      BY <1>0, <3>1 DEF Sound, Untouched
  <2>5. ASSUME NEW d \in Comics, Untouched(d)'
        PROVE  d \in batch'[b].left \/ Covered(b, d)' \/ StillDue(b, d)'
    <3>1. Untouched(d) /\ (Covered(b, d) => Covered(b, d)')
      BY <1>0, <2>3, <2>5, CoveredKept DEF Untouched
    <3>2. StillDue(b, d) => StillDue(b, d)'
      BY <1>0, <2>3 DEF StillDue
    <3>3. CASE d = c
      BY <1>3, <2>3, <3>1, <3>3 DEF StillDue
    <3>4. CASE d # c
      BY <1>0, <2>3, <3>1, <3>2, <3>4 DEF BatchInv, NoneForgotten
    <3> QED
      BY <3>3, <3>4
  <2>6. JobsSoundOf(b)'
    BY <2>3, <2>4 DEF JobsSoundOf
  <2>7. NoneForgottenOf(b)'
    BY <2>3, <2>5 DEF NoneForgottenOf
  <2> QED
    BY <1>1, <2>1, <2>2, <2>6, <2>7, OnlyThisBatch
<1> QED
  <2>1. BookPlanned(b, c, {}) /\ (Untouched(c) => Covered(b, c)) => BatchTyped' /\ BatchInv'
    BY <1>3
  <2>2. ASSUME NEW job \in [to : Slots, base : BOOLEAN], BookPlanned(b, c, {job}),
               job.to[2] = c, Sound(job)
        PROVE  BatchTyped' /\ BatchInv'
    BY <2>2, <1>3
  <2> QED
    BY <1>2, <2>1, <2>2, PlanOutcome

LEMMA RunStep ==
  ASSUME BatchTyped, BatchInv, Kept, NEW b \in BatchRuns, NEW job \in batch[b].jobs,
         RunBook(b, job)
  PROVE  BatchTyped' /\ BatchInv'
<1> DEFINE todo == MethodsToRun(Reads(job), batch[b].want, batch[b].again)
           next == [to |-> job.to, base |-> job.base, methods |-> todo]
<1>0. /\ UNCHANGED <<book, output, mishaps>> /\ batch[b].at = "running"
      /\ batch[b].child = NoChild /\ Sound(job)
      /\ job \in [to : Slots, base : BOOLEAN] /\ todo \in MethodSets /\ next \in Children
  BY DEF RunBook, BatchInv, JobsSound, BatchTyped, Batch, MethodsToRun, MethodSets, Children
<1>1. CopiesOfUntouched'
  BY <1>0, CopiesKept DEF BatchInv
<1>2. CASE CameliaFails(b)
  <2>1. batch'[b] \in Batch /\ batch' = [batch EXCEPT ![b] = batch'[b]]
    BY <1>2, FailsType
  <2>2. BatchTyped'
    BY <1>0, <2>1 DEF BatchTyped, Batch
  <2> QED
    BY <1>1, <1>2, <2>1, <2>2, FailedKeeps, OnlyThisBatch
\* The job is dropped or becomes the child.
<1>3. ASSUME NEW new \in Batch, batch' = [batch EXCEPT ![b] = new],
             new.jobs = batch[b].jobs \ {job}, new.want = batch[b].want,
             new.at = "running", new.again = batch[b].again,
             \/ new.child = NoChild /\ (Untouched(job.to[2]) => Covered(b, job.to[2]))
             \/ new.child = next /\ todo # {}
      PROVE  BatchTyped' /\ BatchInv'
  <2> DEFINE child == new.child
  <2>1. batch'[b] = new
    BY <1>3 DEF BatchTyped
  <2>2. BatchTyped'
    BY <1>0, <1>3 DEF BatchTyped
  <2>3. /\ batch'[b].jobs = batch[b].jobs \ {job} /\ batch'[b].child = child
        /\ batch'[b].want = batch[b].want /\ batch'[b].at = "running"
        /\ batch'[b].again = batch[b].again
    BY <1>3, <2>1
  <2> HIDE DEF child
  <2>4. child # NoChild => /\ child.methods = todo /\ child.to = job.to
                           /\ child.base = job.base /\ todo # {}
    BY <1>3 DEF child
  <2>n. child = NoChild => (Untouched(job.to[2]) => Covered(b, job.to[2]))
    <3>1. next.methods = todo /\ NoChild.methods = {}
      BY DEF NoChild
    <3> HIDE DEF next, todo
    <3> QED
      BY <1>3, <3>1 DEF child
  <2>5. JobsSoundOf(b)'
    <3>1. \A j \in batch'[b].jobs : Sound(j)'
      BY <1>0, <2>3 DEF BatchInv, JobsSound, Sound, Untouched
    <3>2. child # NoChild =>
            /\ child.methods # {} /\ Sound(child)'
            /\ batch[b].want \subseteq Reads(child)' .methods \cup child.methods
      <4> SUFFICES ASSUME child # NoChild
                   PROVE  /\ child.methods # {} /\ Sound(child)'
                          /\ batch[b].want \subseteq Reads(child)' .methods \cup child.methods
        OBVIOUS
      <4>1. /\ child.methods = todo /\ child.to = job.to /\ child.base = job.base /\ todo # {}
        BY <2>4
      <4>2. Sound(child)' /\ Reads(child)' = Reads(job)
        BY <1>0, <4>1 DEF Sound, Untouched, Reads
      <4> QED
        BY <4>1, <4>2, RunsTheRest
    <3> QED
      BY <2>3, <3>1, <3>2 DEF JobsSoundOf
  <2>6. NoneForgottenOf(b)'
    <3> SUFFICES ASSUME NEW d \in Comics, Untouched(d)'
                 PROVE  Covered(b, d)' \/ StillDue(b, d)'
      BY <2>3 DEF NoneForgottenOf
    <3>1. Untouched(d) /\ (Covered(b, d) => Covered(b, d)')
      BY <1>0, <2>3, CoveredKept DEF Untouched
    <3>2. CASE Covered(b, d)
      BY <3>1, <3>2
    <3>3. CASE \E j \in batch[b].jobs : j # job /\ j.to[2] = d
      BY <2>3, <3>3 DEF StillDue
    <3>4. CASE d = job.to[2]
      <4>1. CASE child # NoChild
        BY <2>3, <2>4, <3>4, <4>1 DEF StillDue
      <4>2. CASE child = NoChild
        BY <2>n, <3>1, <3>4, <4>2
      <4> QED
        BY <4>1, <4>2
    <3> QED
      BY <1>0, <3>1, <3>2, <3>3, <3>4 DEF BatchInv, NoneForgotten, StillDue
  <2> QED
    BY <1>1, <1>3, <2>2, <2>5, <2>6, OnlyThisBatch
<1> QED
  <2>1. CASE todo = {} \/ VerifiedCopy(job.to, Reads(job), todo)
    <3>1. Untouched(job.to[2]) => Covered(b, job.to[2])
      <4>1. CASE todo = {}
        BY <1>0, <4>1, NothingToRunCovers DEF BatchInv
      <4>2. CASE todo # {}
        <5>1. batch[b].want \subseteq Reads(job).methods \cup todo
          BY <4>2, RunsTheRest
        <5>2. VerifiedCopy(job.to, Reads(job), todo)
          BY <2>1, <4>2
        <5> HIDE DEF todo
        <5> QED
          BY <1>0, <5>1, <5>2, VerifiedCovers DEF BatchInv
      <4> QED
        BY <4>1, <4>2
    <3>2. batch' = [batch EXCEPT ![b].jobs = @ \ {job}]
      BY <2>1 DEF RunBook
    <3> DEFINE new == [batch[b] EXCEPT !.jobs = @ \ {job}]
    <3>3. /\ new \in Batch /\ batch' = [batch EXCEPT ![b] = new]
          /\ new.jobs = batch[b].jobs \ {job} /\ new.want = batch[b].want
          /\ new.at = "running" /\ new.child = NoChild /\ new.again = batch[b].again
      BY <1>0, <3>2 DEF BatchTyped, Batch
    <3> HIDE DEF new, next, todo
    <3> QED
      BY <1>3, <3>1, <3>3
  <2>2. CASE /\ ~(todo = {} \/ VerifiedCopy(job.to, Reads(job), todo))
             /\ batch' = [[batch EXCEPT ![b].jobs = @ \ {job}] EXCEPT ![b].child = next]
    <3> DEFINE new == [batch[b] EXCEPT !.jobs = @ \ {job}, !.child = next]
    <3> HIDE DEF next
    <3>1. next \in Children
      BY <1>0
    <3>2. /\ new \in Batch /\ batch' = [batch EXCEPT ![b] = new]
          /\ new.jobs = batch[b].jobs \ {job} /\ new.want = batch[b].want
          /\ new.at = "running" /\ new.child = next /\ new.again = batch[b].again
      BY <1>0, <2>2, <3>1 DEF BatchTyped, Batch
    <3> HIDE DEF new, todo
    <3> QED
      BY <1>3, <2>2, <3>2
  <2> QED
    BY <1>2, <2>1, <2>2 DEF RunBook

LEMMA StartStep ==
  ASSUME BatchTyped, BatchInv, Kept, NEW b \in BatchRuns, NEW want \in Requested,
         NEW again \in BOOLEAN, StartCamelia(b, want, again)
  PROVE  BatchTyped' /\ BatchInv'
<1> DEFINE new == [batch[b] EXCEPT !.at = "planning", !.want = want, !.again = again,
                              !.left = Comics]
<1>w. want \in MethodSets /\ batch[b] \in Batch
  BY CameliaAssumption DEF MethodSets, BatchTyped
<1>c. batch[b].child = NoChild
  BY DEF StartCamelia, BatchInv, JobsSound
<1>n. new \in Batch /\ new.at = "planning" /\ new.left = Comics /\ new.child = NoChild
      /\ new.jobs = batch[b].jobs
  BY <1>w, <1>c DEF Batch, CameliaStages
<1>0. /\ UNCHANGED <<book, output, mishaps>> /\ batch' = [batch EXCEPT ![b] = new]
      /\ new \in Batch /\ new.at = "planning" /\ new.left = Comics
      /\ batch[b].child = NoChild /\ new.child = NoChild /\ new.jobs = batch[b].jobs
  BY <1>c, <1>n DEF StartCamelia
<1> HIDE DEF new
<1>1. BatchTyped' /\ batch'[b] = new
  BY <1>0 DEF BatchTyped
<1>2. CopiesOfUntouched'
  BY <1>0, CopiesKept DEF BatchInv
<1>3. JobsSoundOf(b)'
  BY <1>0, <1>1 DEF JobsSoundOf, BatchInv, JobsSound, Sound, Untouched
<1>4. NoneForgottenOf(b)'
  BY <1>0, <1>1 DEF NoneForgottenOf
<1> QED
  BY <1>0, <1>1, <1>2, <1>3, <1>4, OnlyThisBatch

LEMMA DoneStep ==
  ASSUME BatchTyped, BatchInv, Kept, NEW b \in BatchRuns, CameliaDone(b)
  PROVE  BatchTyped' /\ BatchInv'
<1> DEFINE new == [batch[b] EXCEPT !.at = "completed"]
<1>0. /\ UNCHANGED <<book, output, mishaps>> /\ batch[b].at = "running"
      /\ batch[b].child = NoChild /\ batch[b].jobs = {}
      /\ batch' = [batch EXCEPT ![b] = new] /\ new \in Batch
      /\ new.at = "completed" /\ new.child = NoChild /\ new.jobs = {}
      /\ new.want = batch[b].want /\ new.again = batch[b].again
  BY DEF CameliaDone, BatchTyped, Batch, CameliaStages
<1> HIDE DEF new
<1>1. BatchTyped' /\ batch'[b] = new
  BY <1>0 DEF BatchTyped
<1>2. CopiesOfUntouched'
  BY <1>0, CopiesKept DEF BatchInv
<1>3. JobsSoundOf(b)'
  BY <1>0, <1>1 DEF JobsSoundOf
<1>4. ASSUME NEW c \in Comics, Untouched(c)' PROVE Covered(b, c)'
  <2>1. Untouched(c) /\ Covered(b, c)
    BY <1>0, <1>4 DEF BatchInv, NoneForgotten, StillDue, Untouched
  <2> QED
    BY <1>0, <1>1, <1>4, <2>1, CoveredKept
<1>5. NoneForgottenOf(b)'
  BY <1>0, <1>1, <1>4 DEF NoneForgottenOf
<1> QED
  BY <1>0, <1>1, <1>2, <1>3, <1>5, OnlyThisBatch

LEMMA StopStep ==
  ASSUME BatchTyped, BatchInv, Kept, NEW b \in BatchRuns, CameliaStops(b)
  PROVE  BatchTyped' /\ BatchInv'
<1>0. CameliaFails(b) /\ UNCHANGED <<book, output, mishaps>>
  BY DEF CameliaStops
<1>1. batch'[b] \in Batch /\ batch' = [batch EXCEPT ![b] = batch'[b]]
  BY <1>0, FailsType
<1>2. BatchTyped'
  BY <1>0, <1>1 DEF BatchTyped
<1>3. CopiesOfUntouched'
  BY <1>0, CopiesKept DEF BatchInv
<1> QED
  BY <1>0, <1>1, <1>2, <1>3, FailedKeeps, OnlyThisBatch

\* Whatever a child leaves that is marked was made of the archive its job reads.
LEMMA CopyMade ==
  ASSUME BatchTyped, BatchInv, Kept, UNCHANGED book,
         NEW child \in Children, Sound(child), ~Taken(child.to),
         NEW methods \in MethodSets,
         output' = [output EXCEPT ![child.to] = CopyWith(child, methods)]
  PROVE  /\ CopyWith(child, methods) \in Archive
         /\ CopyWith(child, methods).methods = Reads(child).methods \cup methods
         /\ output'[child.to] = CopyWith(child, methods)
         /\ Untouched(child.to[2]) => CopyWith(child, methods).version = 1
         /\ CopiesOfUntouched'
<1> DEFINE s == child.to
           c == child.to[2]
           copy == CopyWith(child, methods)
<1>1. /\ s \in Slots /\ c \in Comics /\ Base(c) \in Slots /\ Base(c)[1] = {} /\ Base(c)[2] = c
      /\ child.base \in BOOLEAN /\ (s[1] = {} => s = Base(c))
  BY SlotParts DEF Children
<1>2. Reads(child) \in Archive
  BY <1>1, ReadsType
<1>3. /\ copy \in Archive /\ copy.marked /\ copy.methods = Reads(child).methods \cup methods
      /\ copy.version = Reads(child).version
  BY <1>2 DEF CopyWith, Archive, MethodSets
<1> HIDE DEF copy
<1>4. output'[s] = copy
  BY <1>1 DEF BatchTyped, copy
\* The base copy is the one its continuation was read from.
<1>b. child.base /\ Untouched(c) => /\ output[Base(c)].marked /\ output'[Base(c)] = output[Base(c)]
                                    /\ output[Base(c)] = Reads(child) /\ s[1] # {}
  <2>1. child.base /\ Untouched(c) =>
           Reads(child) = output[Base(c)] /\ Reads(child).marked /\ s[1] # {}
    BY <1>1, SoundReads DEF BatchInv
  <2> QED
    BY <1>1, <2>1, MarkedIsTaken DEF Kept
<1>5. ASSUME Untouched(c)
      PROVE  /\ copy.version = 1 /\ Sources[c].methods \subseteq copy.methods
             /\ ~Sources[c].marked /\ s[1] # {} =>
                  output'[Base(c)].marked /\ output'[Base(c)].methods \subseteq copy.methods
  <2>1. copy.version = 1 /\ Sources[c].methods \subseteq copy.methods
    BY <1>1, <1>3, <1>5, SoundReads DEF BatchInv
  <2>2. ~child.base /\ ~Sources[c].marked => s[1] = {}
    BY <1>1, <1>5, SoundReads DEF BatchInv
  <2> QED
    BY <1>3, <1>5, <1>b, <2>1, <2>2
<1>6. CopiesOfUntouched'
  <2>1. \A d \in Comics : Untouched(d)' => /\ book'[d].methods = Sources[d].methods
                                          /\ book'[d].marked = Sources[d].marked
    BY DEF BatchInv, CopiesOfUntouched, Untouched
  <2>2. ASSUME NEW t \in Slots, Untouched(t[2])', output'[t].marked
        PROVE  CopyOf(t)'
    <3>1. t[2] \in Comics /\ Base(t[2]) \in Slots /\ Untouched(t[2])
      BY <2>2, SlotParts DEF Untouched
    <3>2. CASE t = s
      BY <1>4, <1>5, <3>1, <3>2 DEF CopyOf, Base
    <3>3. CASE t # s
      <4>1. output'[t] = output[t]
        BY <3>3 DEF BatchTyped
      <4>2. output[Base(t[2])].marked => output'[Base(t[2])] = output[Base(t[2])]
        BY <3>1, MarkedIsTaken DEF Kept
      <4>3. CopyOf(t)
        BY <2>2, <3>1, <4>1 DEF BatchInv, CopiesOfUntouched
      <4> QED
        BY <4>1, <4>2, <4>3 DEF CopyOf, Base
    <3> QED
      BY <3>2, <3>3
  <2> QED
    BY <2>1, <2>2 DEF CopiesOfUntouched
<1> QED
  BY <1>3, <1>4, <1>5, <1>6 DEF copy

\* The child's copy holds what its archive held and what was still missing.
LEMMA EndsStep ==
  ASSUME BatchTyped, BatchInv, Kept, NEW b \in BatchRuns, ChildEnds(b)
  PROVE  BatchTyped' /\ BatchInv'
<1> DEFINE child == batch[b].child
           s == child.to
           c == child.to[2]
           copy == CopyWith(child, child.methods)
           new == [batch[b] EXCEPT !.child = NoChild]
<1>0. /\ child # NoChild /\ child \in Children /\ ~Taken(s) /\ UNCHANGED <<book, mishaps>>
      /\ output' = [output EXCEPT ![s] = copy] /\ batch' = [batch EXCEPT ![b] = new]
  BY DEF ChildEnds, BatchTyped, Batch
<1>1. /\ batch[b].at = "running" /\ Sound(child)
      /\ Untouched(c) => batch[b].want \subseteq Reads(child).methods \cup child.methods
  BY <1>0 DEF BatchInv, JobsSound
<1>2. s \in Slots /\ c \in Comics /\ child.methods \in MethodSets
  BY <1>0, SlotParts DEF Children
<1>3. /\ copy \in Archive /\ copy.methods = Reads(child).methods \cup child.methods
      /\ output'[s] = copy /\ (Untouched(c) => copy.version = 1) /\ CopiesOfUntouched'
  <2> HIDE DEF child, copy
  <2> QED
    BY <1>0, <1>1, <1>2, CopyMade DEF copy
<1>4. /\ new \in Batch /\ new.at = "running" /\ new.child = NoChild
      /\ new.jobs = batch[b].jobs /\ new.want = batch[b].want /\ new.again = batch[b].again
  BY <1>1 DEF BatchTyped, Batch
<1> HIDE DEF new, copy
<1>5. BatchTyped' /\ batch'[b] = new
  BY <1>0, <1>2, <1>3, <1>4 DEF BatchTyped
<1>6. JobsSoundOf(b)'
  <2>1. \A job \in batch[b].jobs : Sound(job)'
    BY SoundKept DEF BatchTyped, Batch, BatchInv, JobsSound
  <2> QED
    BY <1>4, <1>5, <2>1 DEF JobsSoundOf
<1>7. NoneForgottenOf(b)'
  <2> SUFFICES ASSUME NEW d \in Comics, Untouched(d)'
               PROVE  Covered(b, d)' \/ StillDue(b, d)'
    BY <1>4, <1>5 DEF NoneForgottenOf
  <2>1. Untouched(d) /\ (Covered(b, d) => Covered(b, d)')
    BY <1>0, <1>4, <1>5, CoveredKept DEF Untouched
  <2>2. CASE d = c
    <3>1. s[2] = d /\ output'[s].version = 1 /\ batch'[b].want \subseteq output'[s].methods
      BY <1>1, <1>3, <1>4, <1>5, <2>1, <2>2
    <3> QED
      BY <1>2, <3>1 DEF Covered
  <2>3. CASE d # c
    <3>1. Covered(b, d) \/ \E job \in batch[b].jobs : job.to[2] = d
      BY <1>1, <2>1, <2>3 DEF BatchInv, NoneForgotten, StillDue
    <3> QED
      BY <1>4, <1>5, <2>1, <3>1 DEF StillDue
  <2> QED
    BY <2>2, <2>3
<1> QED
  BY <1>0, <1>3, <1>4, <1>5, <1>6, <1>7, OnlyThisBatch

LEMMA ChildFailsStep ==
  ASSUME BatchTyped, BatchInv, Kept, NEW b \in BatchRuns, ChildFails(b)
  PROVE  BatchTyped' /\ BatchInv'
<1> DEFINE child == batch[b].child
           s == child.to
<1>0. CameliaFails(b) /\ UNCHANGED book /\ mishaps' \in Nat /\ s \in Slots
      /\ child \in Children /\ Sound(child)
  BY DEF ChildFails, BatchTyped, Batch, Children, BatchInv, JobsSound
<1>1. \/ UNCHANGED output
      \/ \E left \in {NoOutput, Partial} : ~Taken(s) /\ output' = [output EXCEPT ![s] = left]
      \/ \E ms \in SUBSET child.methods :
            ~Taken(s) /\ output' = [output EXCEPT ![s] = CopyWith(child, ms)]
  BY DEF ChildFails
<1>2. NoOutput \in Archive /\ Partial \in Archive /\ ~NoOutput.marked /\ ~Partial.marked
  BY DEF NoOutput, Partial, NoMethods, Archive, MethodSets
<1>3. batch'[b] \in Batch /\ batch' = [batch EXCEPT ![b] = batch'[b]]
  BY <1>0, FailsType
<1>4. output' \in [Slots -> Archive] /\ CopiesOfUntouched'
  <2>1. CASE UNCHANGED output
    BY <2>1, CopiesKept DEF BatchTyped, BatchInv
  <2>2. ASSUME NEW left \in {NoOutput, Partial}, output' = [output EXCEPT ![s] = left]
        PROVE  output' \in [Slots -> Archive] /\ CopiesOfUntouched'
    <3>1. output' \in [Slots -> Archive]
      BY <1>0, <1>2, <2>2 DEF BatchTyped
    <3>2. \A t \in Slots : output'[t].marked => output'[t] = output[t]
      BY <1>0, <1>2, <2>2 DEF BatchTyped
    <3>3. ASSUME NEW t \in Slots, Untouched(t[2])', output'[t].marked PROVE CopyOf(t)'
      <4>1. t[2] \in Comics /\ Base(t[2]) \in Slots /\ Untouched(t[2]) /\ output'[t] = output[t]
        BY <1>0, <3>2, <3>3, SlotParts DEF Untouched
      <4>2. output[Base(t[2])].marked => output'[Base(t[2])] = output[Base(t[2])]
        BY <4>1, MarkedIsTaken DEF Kept
      <4>3. CopyOf(t)
        BY <3>3, <4>1 DEF BatchInv, CopiesOfUntouched
      <4> QED
        BY <4>1, <4>2, <4>3 DEF CopyOf, Base
    <3>4. \A d \in Comics : Untouched(d)' => /\ book'[d].methods = Sources[d].methods
                                            /\ book'[d].marked = Sources[d].marked
      BY <1>0 DEF BatchInv, CopiesOfUntouched, Untouched
    <3> QED
      BY <3>1, <3>3, <3>4 DEF CopiesOfUntouched
  <2>3. ASSUME NEW ms \in SUBSET child.methods, ~Taken(s),
               output' = [output EXCEPT ![s] = CopyWith(child, ms)]
        PROVE  output' \in [Slots -> Archive] /\ CopiesOfUntouched'
    <3>1. ms \in MethodSets
      BY <1>0 DEF Children, MethodSets
    <3>2. CopyWith(child, ms) \in Archive /\ CopiesOfUntouched'
      <4> HIDE DEF child
      <4> QED
        BY <1>0, <2>3, <3>1, CopyMade
    <3> QED
      BY <1>0, <2>3, <3>2 DEF BatchTyped
  <2> QED
    BY <1>1, <2>1, <2>2, <2>3
<1>5. BatchTyped'
  BY <1>0, <1>3, <1>4 DEF BatchTyped
<1> QED
  BY <1>0, <1>3, <1>4, <1>5, FailedKeeps, OnlyThisBatch

LEMMA RewriteStepOfBook ==
  ASSUME BatchTyped, BatchInv, Kept, NEW c \in Comics, NEW mark \in TagMarks,
         BookRewritten(c, mark)
  PROVE  BatchTyped' /\ BatchInv'
<1>0. UNCHANGED <<output, batch>>
  BY DEF BookRewritten
<1>1. BatchTyped'
  <2>1. /\ mark.methods \in MethodSets /\ mark.marked \in BOOLEAN
        /\ book[c].version + 1 \in Nat /\ book[c].version + 1 >= 1
    BY DEF BatchTyped, Archive, TagMarks, MethodSets
  <2>2. book' \in [Comics -> Archive]
    BY <2>1 DEF BookRewritten, BatchTyped, Archive
  <2>3. \A d \in Comics : book'[d].version >= 1
    BY <2>1 DEF BookRewritten, BatchTyped
  <2>4. mishaps' \in Nat
    BY DEF BookRewritten, BatchTyped
  <2> QED
    BY <1>0, <2>2, <2>3, <2>4 DEF BatchTyped
<1>2. CopiesOfUntouched'
  BY <1>0, CopiesKept DEF BatchInv
<1>3. \A b \in BatchRuns : JobsSoundOf(b)' /\ NoneForgottenOf(b)'
  BY <1>0, OthersKeep
<1> QED
  BY <1>1, <1>2, <1>3
     DEF BatchInv, JobsSound, JobsSoundOf, NoneForgotten, NoneForgottenOf

LEMMA BatchStep == BatchTyped /\ BatchInv /\ [CameliaNext]_cvars => (BatchTyped /\ BatchInv)'
<1> SUFFICES ASSUME BatchTyped, BatchInv, [CameliaNext]_cvars PROVE BatchTyped' /\ BatchInv'
  OBVIOUS
<1>k. Kept
  BY KeptStep
<1>1. ASSUME NEW b \in BatchRuns,
             \/ \E want \in Requested, again \in BOOLEAN : StartCamelia(b, want, again)
             \/ CameliaStops(b)
             \/ \E c \in Comics : PlanBook(b, c)
             \/ \E job \in batch[b].jobs : RunBook(b, job)
             \/ ChildEnds(b) \/ ChildFails(b) \/ CameliaDone(b)
      PROVE  BatchTyped' /\ BatchInv'
  BY <1>k, <1>1, StartStep, StopStep, PlanStep, RunStep, EndsStep, ChildFailsStep, DoneStep
<1>2. ASSUME NEW c \in Comics, NEW mark \in TagMarks, BookRewritten(c, mark)
      PROVE  BatchTyped' /\ BatchInv'
  BY <1>k, <1>2, RewriteStepOfBook
<1>3. CASE UNCHANGED cvars
  <2>1. BatchTyped'
    BY <1>3 DEF cvars, BatchTyped
  <2>2. CopiesOfUntouched'
    BY <1>3, <1>k, CopiesKept DEF cvars, BatchInv
  <2>3. \A b \in BatchRuns : JobsSoundOf(b)' /\ NoneForgottenOf(b)'
    BY <1>3, <1>k, OthersKeep DEF cvars
  <2> QED
    BY <2>1, <2>2, <2>3
       DEF BatchInv, JobsSound, JobsSoundOf, NoneForgotten, NoneForgottenOf
<1> QED
  BY <1>1, <1>2, <1>3 DEF CameliaNext

\* A batch that says it completed left no book without a method it was asked for,
\* but where the tags of the book or of its base copy are unknown and it did not
\* reprocess; for any comics, methods, batches and interruptions.
THEOREM CompletedAlways == CameliaSpec => []CompletedIsComplete
<1>1. BatchInv => CompletedIsComplete
  BY DEF BatchInv, NoneForgotten, Untouched, Covered, Excused, CompletedIsComplete
<1> QED
  BY <1>1, BatchInit, BatchStep, PTL DEF CameliaSpec

-----------------------------------------------------------------------------
(* The originals of the AI decensor                                        *)

(* A set of natural numbers has a least one.                              *)
LEMMA LeastExists ==
  ASSUME NEW T, T \subseteq Nat, T # {}
  PROVE  \E m \in T : \A k \in T : m <= k
<1> DEFINE R == OpToRel(<, Nat)
<1>1. \A k, m \in Nat : k < m => <<k, m>> \in R
  BY DEF OpToRel
<1>2. IsWellFoundedOn(R, Nat)
  BY NatLessThanWellFounded
<1> HIDE DEF R
<1>3. PICK m \in T : \A k \in T : <<k, m>> \notin R
  BY <1>2, WFMin
<1>4. \A k \in T : m <= k
  <2> SUFFICES ASSUME NEW k \in T, ~ m <= k PROVE FALSE
    OBVIOUS
  <2>1. k < m /\ k \in Nat /\ m \in Nat
    OBVIOUS
  <2> QED
    BY <1>1, <1>3, <2>1
<1> QED
  BY <1>4

AiRecord == [in : {"import", "library"}, name : {"own", "fallback"}, bytes : {"original", "processed"}]
AiPair == [work : Works, name : {"own", "fallback"}, backup : Works \X Nat]

(* A batch's pair names its archive by the name it has now; what is left   *)
(* to offload has been routed.                                             *)
PairNamed(at, p) == p.backup[1] = p.work /\ at[p.work].name = p.name
PairRouted(p) == p.backup[1] \in Works /\ arrival[p.backup[1]].in = "library"
BatchHolds ==
  \/ aiBatch = NoBatch
  \/ /\ aiBatch.at = "processing"
     /\ aiBatch = [at |-> "processing", todo |-> aiBatch.todo, pairs |-> aiBatch.pairs]
     /\ aiBatch.todo \subseteq Works
     /\ aiBatch.pairs \in Seq(AiPair)
     /\ \A i \in DOMAIN aiBatch.pairs : PairNamed(arrival, aiBatch.pairs[i])
  \/ /\ aiBatch.at = "restoring"
     /\ aiBatch = [at |-> "restoring", pairs |-> aiBatch.pairs]
  \/ /\ aiBatch.at \in {"named", "landed"}
     /\ aiBatch.pairs \in Seq(AiPair)
     /\ \A i \in DOMAIN aiBatch.pairs : PairNamed(arrival, aiBatch.pairs[i])
  \/ /\ aiBatch.at = "offloading"
     /\ aiBatch = [at |-> "offloading", pairs |-> aiBatch.pairs, left |-> aiBatch.left]
     /\ aiBatch.left \subseteq Nat
     /\ \A i \in aiBatch.left : PairRouted(aiBatch.pairs[i])

InVault(w) == \E v \in vault : v[3] = w
MoverHolds(m) ==
  \/ moving[m] = NoBackup
  \/ /\ moving[m].at \in {"staged", "installed"}
     /\ moving[m] = [at |-> moving[m].at, backup |-> moving[m].backup]
     /\ moving[m].at = "installed" => InVault(moving[m].backup[1])
     /\ m = "watcher" => /\ NextInQueue
                         /\ moving[m].backup[1] \in Works
                         /\ arrival[moving[m].backup[1]].in = "library"

AiInv ==
  /\ arrival \in [Works -> AiRecord] /\ aiBatches \in Nat
  /\ BatchHolds
  /\ DOMAIN moving = Movers /\ \A m \in Movers : MoverHolds(m)
  /\ OriginalsSurvive

LEMMA LeastIsIn ==
  ASSUME NEW T, T \subseteq Nat, T # {}
  PROVE  Min(T) \in T
BY LeastExists DEF Min

LEMMA AiInitially == AiInit => AiInv
BY DEF AiInit, AiInv, AiRecord, BatchHolds, MoverHolds, OriginalsSurvive

(* What the movers and the batch still know after arrivals have changed,   *)
(* where none has come back and no original is gone.                       *)
LEMMA MoversHold ==
  ASSUME AiInv, NEW m \in Movers, moving'[m] = moving[m], vault \subseteq vault',
         m = "watcher" /\ moving[m] # NoBackup => NextInQueue',
         \A w \in Works : arrival[w].in = "library" => arrival'[w].in = "library"
  PROVE  MoverHolds(m)'
BY DEF AiInv, MoverHolds, InVault

(* An action of the watcher before it offloads.                            *)
LEMMA BeforeOffload ==
  ASSUME AiInv, aiBatch.at # "offloading", DOMAIN moving' = Movers,
         \A m \in Movers \ {"watcher"} : moving'[m] = moving[m],
         moving'["watcher"] \in {moving["watcher"], NoBackup}, vault' = vault,
         \A w \in Works : arrival[w].in = "library" => arrival'[w].in = "library"
  PROVE  DOMAIN moving' = Movers /\ \A m \in Movers : MoverHolds(m)'
<1>1. moving["watcher"] = NoBackup
  BY DEF AiInv, MoverHolds, NextInQueue, Movers
<1> QED
  BY <1>1 DEF AiInv, MoverHolds, InVault

LEMMA ProcessingBatch ==
  ASSUME NEW todo \in SUBSET Works, NEW pairs \in Seq(AiPair),
         \A i \in DOMAIN pairs : PairNamed(arrival', pairs[i]),
         aiBatch' = [at |-> "processing", todo |-> todo, pairs |-> pairs]
  PROVE  BatchHolds'
<1>1. aiBatch'.at = "processing" /\ aiBatch'.todo = todo /\ aiBatch'.pairs = pairs
  OBVIOUS
<1>2. aiBatch' = [at |-> "processing", todo |-> aiBatch'.todo, pairs |-> aiBatch'.pairs]
  BY <1>1
<1> QED
  BY <1>1, <1>2 DEF BatchHolds

LEMMA NamedBatch ==
  ASSUME aiBatch'.at \in {"named", "landed"}, aiBatch'.pairs \in Seq(AiPair),
         \A i \in DOMAIN aiBatch'.pairs : PairNamed(arrival', aiBatch'.pairs[i])
  PROVE  BatchHolds'
BY DEF BatchHolds

LEMMA ProcessSteps ==
  ASSUME AiInv, NEW w \in Works, RunAiDecensor(w)
  PROVE  AiInv'
<1> DEFINE pair == [work |-> w, name |-> arrival[w].name, backup |-> <<w, aiBatches>>]
<1>1. /\ aiBatch.at = "processing" /\ aiBatch # NoBatch
      /\ aiBatch = [at |-> "processing", todo |-> aiBatch.todo, pairs |-> aiBatch.pairs]
      /\ aiBatch.todo \subseteq Works /\ aiBatch.pairs \in Seq(AiPair)
      /\ \A i \in DOMAIN aiBatch.pairs : PairNamed(arrival, aiBatch.pairs[i])
  BY DEF RunAiDecensor, NoBatch, AiInv, BatchHolds
<1>2. CASE arrival[w].bytes = "processed"
  <2>1. /\ aiBatch' = [aiBatch EXCEPT !.todo = @ \ {w}]
        /\ UNCHANGED <<local, vault, moving, arrival, aiBatches>>
    BY <1>2 DEF RunAiDecensor, DrivesStay
  <2>2. aiBatch' = [at |-> "processing", todo |-> aiBatch.todo \ {w}, pairs |-> aiBatch.pairs]
    BY <1>1, <2>1
  <2>3. BatchHolds'
    <3>1. \A i \in DOMAIN aiBatch.pairs : PairNamed(arrival', aiBatch.pairs[i])
      BY <1>1, <2>1
    <3>2. aiBatch.todo \ {w} \in SUBSET Works
      BY <1>1
    <3> QED
      BY <1>1, <2>2, <3>1, <3>2, ProcessingBatch
  <2>4. DOMAIN moving' = Movers /\ \A m \in Movers : MoverHolds(m)'
    BY <1>1, <2>1, BeforeOffload DEF AiInv
  <2> QED
    BY <2>1, <2>3, <2>4 DEF AiInv, OriginalsSurvive
<1>3. CASE arrival[w].bytes # "processed"
  <2>1. /\ aiBatch' = [aiBatch EXCEPT !.todo = @ \ {w}, !.pairs = Append(@, pair)]
        /\ arrival' = [arrival EXCEPT ![w].bytes = "processed"]
        /\ local' = local \cup {<<w, aiBatches>>}
        /\ UNCHANGED <<vault, moving, aiBatches>>
    BY <1>3 DEF RunAiDecensor, Replaced
  <2>2. pair \in AiPair /\ pair.backup[1] = w /\ pair.work = w /\ pair.name = arrival[w].name
    BY DEF AiInv, AiRecord, AiPair
  <2> HIDE DEF pair
  <2>3. aiBatch' = [at |-> "processing", todo |-> aiBatch.todo \ {w},
                    pairs |-> Append(aiBatch.pairs, pair)]
    BY <1>1, <2>1
  <2>4. /\ arrival' \in [Works -> AiRecord]
        /\ \A v \in Works : arrival'[v].in = arrival[v].in /\ arrival'[v].name = arrival[v].name
        /\ \A v \in Works \ {w} : arrival'[v] = arrival[v]
    BY <2>1 DEF AiInv, AiRecord
  <2>5. /\ aiBatch'.pairs \in Seq(AiPair)
        /\ \A i \in DOMAIN aiBatch'.pairs :
              \/ aiBatch'.pairs[i] = pair
              \/ i \in DOMAIN aiBatch.pairs /\ aiBatch'.pairs[i] = aiBatch.pairs[i]
    BY <1>1, <2>2, <2>3
  <2>6. \A i \in DOMAIN aiBatch.pairs : aiBatch.pairs[i].work \in Works
    <3>1. \A i \in DOMAIN aiBatch.pairs : aiBatch.pairs[i] \in AiPair
      BY <1>1
    <3> QED
      BY <3>1 DEF AiPair
  <2>7. \A i \in DOMAIN aiBatch'.pairs : PairNamed(arrival', aiBatch'.pairs[i])
    <3> SUFFICES ASSUME NEW i \in DOMAIN aiBatch'.pairs PROVE PairNamed(arrival', aiBatch'.pairs[i])
      OBVIOUS
    <3>1. CASE aiBatch'.pairs[i] = pair
      BY <2>2, <2>4, <3>1 DEF PairNamed
    <3>2. CASE i \in DOMAIN aiBatch.pairs /\ aiBatch'.pairs[i] = aiBatch.pairs[i]
      BY <1>1, <2>4, <2>6, <3>2 DEF PairNamed
    <3> QED
      BY <2>5, <3>1, <3>2
  <2>8. BatchHolds'
    <3> DEFINE pairs == Append(aiBatch.pairs, pair)
    <3>1. aiBatch'.pairs = pairs
      BY <2>3
    <3> HIDE DEF pairs
    <3>2. pairs \in Seq(AiPair) /\ aiBatch.todo \ {w} \in SUBSET Works
      BY <1>1, <2>5, <3>1
    <3> QED
      BY <2>3, <2>7, <3>1, <3>2, ProcessingBatch
  <2>9. DOMAIN moving' = Movers /\ \A m \in Movers : MoverHolds(m)'
    BY <1>1, <2>1, <2>4, BeforeOffload DEF AiInv
  <2>10. OriginalsSurvive'
    <3>1. <<w, aiBatches>>[1] = w /\ <<w, aiBatches>> \in local'
      BY <2>1
    <3> QED
      BY <2>1, <2>4, <3>1 DEF AiInv, OriginalsSurvive
  <2> QED
    BY <2>1, <2>4, <2>8, <2>9, <2>10 DEF AiInv
<1> QED
  BY <1>2, <1>3

LEMMA FailSteps ==
  ASSUME AiInv, NEW w \in Works, AiDecensorFails(w)
  PROVE  AiInv'
<1>1. /\ aiBatch.at = "processing" /\ aiBatch' = [at |-> "restoring", pairs |-> aiBatch.pairs]
      /\ aiBatches' = aiBatches /\ vault' = vault /\ moving' = moving
      /\ \/ local' = local /\ arrival' = arrival
         \/ /\ local' = local \cup {<<w, aiBatches>>}
            /\ arrival' = [arrival EXCEPT ![w].bytes = "processed"]
  BY DEF AiDecensorFails, DrivesStay, Replaced
<1>2. /\ arrival' \in [Works -> AiRecord]
      /\ \A v \in Works : arrival'[v].in = arrival[v].in
      /\ \A v \in Works \ {w} : arrival'[v] = arrival[v]
  BY <1>1 DEF AiInv, AiRecord
<1>3. BatchHolds'
  BY <1>1 DEF BatchHolds
<1>4. DOMAIN moving' = Movers /\ \A m \in Movers : MoverHolds(m)'
  BY <1>1, <1>2, BeforeOffload DEF AiInv
<1>5. OriginalsSurvive'
  <2>1. CASE local' = local /\ arrival' = arrival
    BY <1>1, <2>1 DEF AiInv, OriginalsSurvive
  <2>2. CASE local' = local \cup {<<w, aiBatches>>}
    <3>1. <<w, aiBatches>>[1] = w /\ <<w, aiBatches>> \in local'
      BY <2>2
    <3> QED
      BY <1>1, <1>2, <2>2, <3>1 DEF AiInv, OriginalsSurvive
  <2> QED
    BY <1>1, <2>1, <2>2
<1> QED
  BY <1>1, <1>2, <1>3, <1>4, <1>5 DEF AiInv

LEMMA RestoreSteps ==
  ASSUME AiInv, RestoreOne
  PROVE  AiInv'
<1> DEFINE last == Last(aiBatch.pairs)
<1>1. /\ aiBatch.at = "restoring" /\ aiBatches' = aiBatches /\ UNCHANGED <<local, vault, moving>>
      /\ \/ /\ arrival' = [arrival EXCEPT ![last.work].bytes = "original"]
            /\ aiBatch' = [aiBatch EXCEPT !.pairs = Front(@)]
         \/ aiBatch' = NoBatch /\ arrival' = arrival
  BY DEF RestoreOne, DrivesStay
<1> HIDE DEF last
<1>2. /\ arrival' \in [Works -> AiRecord]
      /\ \A v \in Works : arrival'[v].in = arrival[v].in
      /\ \A v \in Works : arrival'[v].bytes = "processed" => arrival[v].bytes = "processed"
  BY <1>1 DEF AiInv, AiRecord
<1>3. BatchHolds'
  BY <1>1 DEF AiInv, BatchHolds, NoBatch
<1>4. DOMAIN moving' = Movers /\ \A m \in Movers : MoverHolds(m)'
  BY <1>1, <1>2, BeforeOffload DEF AiInv
<1>5. OriginalsSurvive'
  BY <1>1, <1>2 DEF AiInv, OriginalsSurvive
<1> QED
  BY <1>1, <1>2, <1>3, <1>4, <1>5 DEF AiInv

LEMMA NameSteps ==
  ASSUME AiInv, NameArrivals
  PROVE  AiInv'
<1>1. PICK renamed \in SUBSET Waiting, refused \in SUBSET Waiting :
        /\ arrival' = [w \in Works |-> IF w \in renamed THEN [arrival[w] EXCEPT !.name = "fallback"]
                                       ELSE arrival[w]]
        /\ aiBatch' = [at |-> "named", refused |-> refused, pairs |-> Rekey(aiBatch.pairs, renamed)]
  BY DEF NameArrivals
<1>2. /\ aiBatch.at = "processing" /\ UNCHANGED <<local, vault, moving, aiBatches>>
      /\ aiBatch.pairs \in Seq(AiPair) /\ \A i \in DOMAIN aiBatch.pairs : PairNamed(arrival, aiBatch.pairs[i])
  BY DEF NameArrivals, DrivesStay, AiInv, BatchHolds, NoBatch
<1>3. /\ arrival' \in [Works -> AiRecord]
      /\ \A v \in Works : arrival'[v].in = arrival[v].in /\ arrival'[v].bytes = arrival[v].bytes
      /\ \A v \in Works : arrival'[v].name = IF v \in renamed THEN "fallback" ELSE arrival[v].name
  BY <1>1 DEF AiInv, AiRecord
<1>4. /\ DOMAIN aiBatch'.pairs = DOMAIN aiBatch.pairs
      /\ \A i \in DOMAIN aiBatch.pairs : aiBatch'.pairs[i] =
            IF aiBatch.pairs[i].work \in renamed THEN [aiBatch.pairs[i] EXCEPT !.name = "fallback"]
            ELSE aiBatch.pairs[i]
  BY <1>1 DEF Rekey
<1>5. \A i \in DOMAIN aiBatch.pairs :
         /\ aiBatch'.pairs[i] \in AiPair /\ aiBatch.pairs[i].work \in Works
         /\ aiBatch'.pairs[i].work = aiBatch.pairs[i].work
         /\ aiBatch'.pairs[i].backup = aiBatch.pairs[i].backup
         /\ aiBatch'.pairs[i].name =
              IF aiBatch.pairs[i].work \in renamed THEN "fallback" ELSE aiBatch.pairs[i].name
  <2>1. \A i \in DOMAIN aiBatch.pairs : aiBatch.pairs[i] \in AiPair
    BY <1>2
  <2> QED
    BY <1>4, <2>1 DEF AiPair
<1>6. aiBatch'.pairs \in Seq(AiPair)
  <2>1. /\ DOMAIN aiBatch'.pairs = 1 .. Len(aiBatch.pairs) /\ Len(aiBatch.pairs) \in Nat
    BY <1>2, <1>4
  <2>2. aiBatch'.pairs = [i \in 1 .. Len(aiBatch.pairs) |-> aiBatch'.pairs[i]]
    BY <1>1, <2>1 DEF Rekey
  <2>3. \A i \in 1 .. Len(aiBatch.pairs) : aiBatch'.pairs[i] \in AiPair
    BY <1>2, <1>5
  <2> QED
    BY <2>1, <2>2, <2>3
<1>7. \A i \in DOMAIN aiBatch'.pairs : PairNamed(arrival', aiBatch'.pairs[i])
  <2> SUFFICES ASSUME NEW i \in DOMAIN aiBatch.pairs PROVE PairNamed(arrival', aiBatch'.pairs[i])
    BY <1>4
  <2>1. /\ aiBatch.pairs[i].backup[1] = aiBatch.pairs[i].work
        /\ arrival[aiBatch.pairs[i].work].name = aiBatch.pairs[i].name
    BY <1>2 DEF PairNamed
  <2> QED
    BY <1>3, <1>5, <2>1 DEF PairNamed
<1>8. BatchHolds'
  <2>1. aiBatch'.at = "named"
    BY <1>1
  <2> QED
    BY <1>6, <1>7, <2>1, NamedBatch
<1>9. DOMAIN moving' = Movers /\ \A m \in Movers : MoverHolds(m)'
  BY <1>2, <1>3, BeforeOffload DEF AiInv
<1>10. OriginalsSurvive'
  BY <1>2, <1>3 DEF AiInv, OriginalsSurvive
<1> QED
  BY <1>2, <1>3, <1>8, <1>9, <1>10 DEF AiInv

LEMMA RouteSteps ==
  ASSUME AiInv, RouteArrivals
  PROVE  AiInv'
<1>1. PICK moved \in SUBSET Waiting :
        /\ arrival' = [w \in Works |-> IF w \in moved THEN [arrival[w] EXCEPT !.in = "library"]
                                       ELSE arrival[w]]
        /\ aiBatch' = IF moved = {} THEN NoBatch ELSE [at |-> "landed", pairs |-> aiBatch.pairs]
  BY DEF RouteArrivals
<1>2. /\ aiBatch.at = "named" /\ UNCHANGED <<local, vault, moving, aiBatches>>
      /\ aiBatch.pairs \in Seq(AiPair) /\ \A i \in DOMAIN aiBatch.pairs : PairNamed(arrival, aiBatch.pairs[i])
  BY DEF RouteArrivals, DrivesStay, AiInv, BatchHolds, NoBatch
<1>3. /\ arrival' \in [Works -> AiRecord]
      /\ \A v \in Works : arrival'[v].name = arrival[v].name /\ arrival'[v].bytes = arrival[v].bytes
      /\ \A v \in Works : arrival[v].in = "library" => arrival'[v].in = "library"
  BY <1>1 DEF AiInv, AiRecord
<1>4. \A i \in DOMAIN aiBatch.pairs : aiBatch.pairs[i].work \in Works
  <2>1. \A i \in DOMAIN aiBatch.pairs : aiBatch.pairs[i] \in AiPair
    BY <1>2
  <2> QED
    BY <2>1 DEF AiPair
<1>5. BatchHolds'
  BY <1>1, <1>2, <1>3, <1>4 DEF BatchHolds, PairNamed
<1>6. DOMAIN moving' = Movers /\ \A m \in Movers : MoverHolds(m)'
  BY <1>2, <1>3, BeforeOffload DEF AiInv
<1>7. OriginalsSurvive'
  BY <1>2, <1>3 DEF AiInv, OriginalsSurvive
<1> QED
  BY <1>2, <1>3, <1>5, <1>6, <1>7 DEF AiInv

LEMMA RoutedSteps ==
  ASSUME AiInv, RoutedBackups
  PROVE  AiInv'
<1> DEFINE pairs == aiBatch.pairs
           left == {i \in DOMAIN pairs : ~BackupThere(pairs[i].work, pairs[i].name)}
<1>1. /\ aiBatch.at = "landed" /\ UNCHANGED <<local, vault, moving, arrival, aiBatches>>
      /\ aiBatch' = [at |-> "offloading", pairs |-> pairs, left |-> left]
      /\ pairs \in Seq(AiPair) /\ \A i \in DOMAIN pairs : PairNamed(arrival, pairs[i])
  BY DEF RoutedBackups, DrivesStay, AiInv, BatchHolds, NoBatch
<1>2. \A i \in DOMAIN pairs : pairs[i] \in AiPair
  BY <1>1
<1>3. ASSUME NEW i \in left PROVE PairRouted(pairs[i])
  <2>1. /\ pairs[i].backup[1] = pairs[i].work /\ arrival[pairs[i].work].name = pairs[i].name
        /\ pairs[i].work \in Works
    BY <1>1, <1>2 DEF PairNamed, AiPair
  <2>2. arrival[pairs[i].work].in \in {"import", "library"}
    BY <2>1 DEF AiInv, AiRecord
  <2>3. arrival[pairs[i].work].in # "import"
    BY <2>1 DEF BackupThere
  <2> QED
    BY <2>1, <2>2, <2>3 DEF PairRouted
<1>4. left \subseteq Nat
  BY <1>1
<1> HIDE DEF left, pairs
<1>5. BatchHolds'
  BY <1>1, <1>3, <1>4 DEF BatchHolds, PairRouted
<1>6. DOMAIN moving' = Movers /\ \A m \in Movers : MoverHolds(m)'
  BY <1>1, BeforeOffload DEF AiInv
<1> QED
  BY <1>1, <1>5, <1>6 DEF AiInv, OriginalsSurvive

(* The batch has offered what it still has to offload.                     *)
LEMMA NextIsRouted ==
  ASSUME AiInv, NextInQueue
  PROVE  /\ aiBatch = [at |-> "offloading", pairs |-> aiBatch.pairs, left |-> aiBatch.left]
         /\ Min(aiBatch.left) \in aiBatch.left /\ PairRouted(NextPair)
<1>1. /\ aiBatch.at = "offloading" /\ aiBatch # NoBatch /\ aiBatch.left # {}
      /\ aiBatch = [at |-> "offloading", pairs |-> aiBatch.pairs, left |-> aiBatch.left]
      /\ aiBatch.left \subseteq Nat /\ \A i \in aiBatch.left : PairRouted(aiBatch.pairs[i])
  BY DEF NextInQueue, NoBatch, AiInv, BatchHolds
<1>2. Min(aiBatch.left) \in aiBatch.left
  BY <1>1, LeastIsIn
<1> QED
  BY <1>1, <1>2 DEF NextPair

LEMMA DequeuedHolds ==
  ASSUME AiInv, NextInQueue, aiBatch' = Dequeued, arrival' = arrival
  PROVE  BatchHolds'
<1> DEFINE rest == aiBatch.left \ {Min(aiBatch.left)}
<1>1. /\ aiBatch = [at |-> "offloading", pairs |-> aiBatch.pairs, left |-> aiBatch.left]
      /\ aiBatch.left \subseteq Nat /\ \A i \in aiBatch.left : PairRouted(aiBatch.pairs[i])
  BY NextIsRouted DEF NoBatch, AiInv, BatchHolds
<1>2. aiBatch' = [aiBatch EXCEPT !.left = rest]
  BY DEF Dequeued
<1>3. rest \subseteq aiBatch.left
  OBVIOUS
<1> HIDE DEF rest
<1>4. aiBatch' = [at |-> "offloading", pairs |-> aiBatch.pairs, left |-> rest]
  BY <1>1, <1>2
<1> QED
  BY <1>1, <1>3, <1>4 DEF BatchHolds, PairRouted

LEMMA CopySteps ==
  ASSUME AiInv, NEW m \in Movers, NEW b, CopyBackup(m, b)
  PROVE  AiInv'
<1>1. /\ moving[m] = NoBackup /\ moving' = [moving EXCEPT ![m] = [at |-> "staged", backup |-> b]]
      /\ m = "watcher" => NextInQueue /\ b = NextPair.backup
      /\ UNCHANGED <<arrival, local, vault, aiBatch, aiBatches>>
  BY DEF CopyBackup
<1>2. MoverHolds(m)'
  <2>1. moving'[m] = [at |-> "staged", backup |-> b]
    BY <1>1 DEF AiInv
  <2>2. m = "watcher" => NextInQueue' /\ b[1] \in Works /\ arrival'[b[1]].in = "library"
    BY <1>1, NextIsRouted DEF PairRouted, NextInQueue
  <2> QED
    BY <2>1, <2>2 DEF MoverHolds
<1>3. \A n \in Movers \ {m} : MoverHolds(n)'
  BY <1>1, MoversHold DEF AiInv, NextInQueue, MoverHolds
<1>4. BatchHolds'
  BY <1>1 DEF AiInv, BatchHolds, PairRouted
<1> QED
  BY <1>1, <1>2, <1>3, <1>4 DEF AiInv, OriginalsSurvive

LEMMA InstallSteps ==
  ASSUME AiInv, NEW m \in Movers, InstallBackup(m)
  PROVE  AiInv'
<1> DEFINE w == moving[m].backup[1]
           k == Candidate(w)
<1>1. /\ moving[m].at = "staged" /\ FreeVersions(w) # {}
      /\ vault' = (IF SlotHolds(BackupName[w], k) # {} THEN vault
                   ELSE vault \cup {<<BackupName[w], k, w>>})
      /\ moving' = [moving EXCEPT ![m].at = "installed"]
      /\ UNCHANGED <<arrival, local, aiBatch, aiBatches>>
  BY DEF InstallBackup
<1>2. SlotHolds(BackupName[w], k) \subseteq {<<BackupName[w], k, w>>}
  <2>1. FreeVersions(w) \subseteq Nat
    BY SlotsAssumption DEF FreeVersions
  <2>2. k \in FreeVersions(w)
    BY <1>1, <2>1, LeastIsIn DEF Candidate
  <2> QED
    BY <2>2 DEF FreeVersions
<1>3. vault \subseteq vault'
  BY <1>1
<1>4. \E v \in vault' : v[3] = w
  <2>1. CASE SlotHolds(BackupName[w], k) # {}
    BY <1>1, <1>2, <2>1 DEF SlotHolds
  <2>2. CASE SlotHolds(BackupName[w], k) = {}
    <3>1. <<BackupName[w], k, w>>[3] = w /\ <<BackupName[w], k, w>> \in vault'
      BY <1>1, <2>2
    <3> QED
      BY <3>1
  <2> QED
    BY <2>1, <2>2
<1>5. /\ moving[m] = [at |-> "staged", backup |-> moving[m].backup]
      /\ m = "watcher" => /\ NextInQueue /\ w \in Works /\ arrival[w].in = "library"
  BY <1>1 DEF AiInv, MoverHolds, NoBackup
<1>6. /\ moving'[m] = [at |-> "installed", backup |-> moving[m].backup]
      /\ moving'[m].backup[1] = w
  BY <1>1, <1>5 DEF AiInv
<1> HIDE DEF w
<1>7. MoverHolds(m)'
  BY <1>1, <1>4, <1>5, <1>6 DEF MoverHolds, InVault, NextInQueue
<1>8. \A n \in Movers \ {m} : MoverHolds(n)'
  BY <1>1, <1>3, MoversHold DEF AiInv, NextInQueue, MoverHolds
<1>9. BatchHolds'
  BY <1>1 DEF AiInv, BatchHolds, PairRouted
<1> QED
  BY <1>1, <1>3, <1>7, <1>8, <1>9 DEF AiInv, OriginalsSurvive

(* A mover is done with an original, whether it took it away or not.       *)
LEMMA StopSteps ==
  ASSUME AiInv, NEW m \in Movers, moving[m] # NoBackup, MoverStops(m),
         UNCHANGED <<arrival, vault, aiBatches>>,
         \/ local' = local
         \/ local' = local \ {moving[m].backup} /\ moving[m].at = "installed"
  PROVE  AiInv'
<1>1. moving' = [moving EXCEPT ![m] = NoBackup]
  BY DEF MoverStops
<1>2. MoverHolds(m)
  BY DEF AiInv
<1>3. BatchHolds'
  <2>1. CASE m = "watcher"
    BY <1>2, <2>1, DequeuedHolds DEF MoverStops, MoverHolds
  <2>2. CASE m # "watcher"
    BY <2>2 DEF MoverStops, AiInv, BatchHolds, PairRouted
  <2> QED
    BY <2>1, <2>2
<1>4. \A n \in Movers : MoverHolds(n)'
  <2>1. MoverHolds(m)'
    BY <1>1 DEF MoverHolds, AiInv
  <2>2. \A n \in Movers \ {m} : n = "watcher" => aiBatch' = aiBatch
    BY DEF MoverStops
  <2>3. \A n \in Movers \ {m} : MoverHolds(n)'
    BY <1>1, <2>2, MoversHold DEF AiInv, NextInQueue, MoverHolds
  <2> QED
    BY <2>1, <2>3
<1>5. OriginalsSurvive'
  <2> SUFFICES ASSUME NEW w \in Works, arrival[w].bytes = "processed"
               PROVE  (\E b \in local' : b[1] = w) \/ (\E v \in vault : v[3] = w)
    BY DEF OriginalsSurvive
  <2>1. CASE \E v \in vault : v[3] = w
    BY <2>1
  <2>2. CASE \E b \in local : b[1] = w
    <3>1. PICK b \in local : b[1] = w
      BY <2>2
    <3> QED
      BY <1>2, <3>1 DEF MoverHolds, InVault
  <2> QED
    BY <2>1, <2>2 DEF AiInv, OriginalsSurvive
<1> QED
  BY <1>1, <1>3, <1>4, <1>5 DEF AiInv

(* The batch is over, with nothing in hand.                                *)
LEMMA BatchIsOver ==
  ASSUME AiInv, aiBatch' = NoBatch, moving["watcher"] = NoBackup \/ moving'["watcher"] = NoBackup,
         moving' = moving \/ moving' = [moving EXCEPT !["watcher"] = NoBackup],
         UNCHANGED <<arrival, local, vault, aiBatches>>
  PROVE  AiInv'
<1>1. moving'["watcher"] = NoBackup /\ DOMAIN moving' = Movers
  BY DEF AiInv, Movers
<1>2. \A m \in Movers \ {"watcher"} : moving'[m] = moving[m]
  BY DEF AiInv
<1>3. \A m \in Movers : MoverHolds(m)'
  BY <1>1, <1>2, MoversHold DEF MoverHolds
<1>4. BatchHolds'
  BY DEF BatchHolds
<1> QED
  BY <1>1, <1>3, <1>4 DEF AiInv, OriginalsSurvive

LEMMA AiSteps ==
  ASSUME AiInv, [AiNext]_aiVars
  PROVE  AiInv'
<1>1. CASE UNCHANGED aiVars
  BY <1>1 DEF aiVars, AiInv, BatchHolds, PairNamed, PairRouted, MoverHolds, InVault, NextInQueue,
              OriginalsSurvive
<1>2. CASE StartAiBatch
  <2>1. /\ aiBatch.at # "offloading" /\ UNCHANGED <<local, vault, moving, arrival>>
        /\ aiBatches' = aiBatches + 1
        /\ aiBatch' = [at |-> "processing", todo |-> Waiting, pairs |-> <<>>]
    BY <1>2 DEF StartAiBatch, DrivesStay, NoBatch
  <2>2. BatchHolds'
    BY <2>1 DEF BatchHolds, Waiting
  <2>3. DOMAIN moving' = Movers /\ \A m \in Movers : MoverHolds(m)'
    BY <2>1, BeforeOffload DEF AiInv
  <2> QED
    BY <2>1, <2>2, <2>3 DEF AiInv, OriginalsSurvive
<1>3. ASSUME aiBatch.at # "offloading", aiBatch' = NoBatch,
             UNCHANGED <<arrival, local, vault, moving, aiBatches>>
      PROVE  AiInv'
  <2>1. moving["watcher"] = NoBackup
    BY <1>3 DEF AiInv, MoverHolds, NextInQueue, Movers
  <2> QED
    BY <1>3, <2>1, BatchIsOver
<1>4. CASE FactsUnreadable \/ RestoreEnds
  BY <1>3, <1>4 DEF FactsUnreadable, RestoreEnds, DrivesStay
<1>5. CASE AiBatchEnds
  <2>1. moving["watcher"] = NoBackup
    BY <1>5 DEF AiBatchEnds, AiInv, MoverHolds, NextInQueue, Movers
  <2> QED
    BY <1>5, <2>1, BatchIsOver DEF AiBatchEnds, DrivesStay
<1>6. CASE AiWatcherDies
  <2>1. moving'["watcher"] = NoBackup
    BY <1>6 DEF AiWatcherDies, AiInv, Movers
  <2> QED
    BY <1>6, <2>1, BatchIsOver DEF AiWatcherDies
<1>7. CASE NothingToOffload
  <2>1. /\ NextInQueue /\ aiBatch' = Dequeued /\ moving["watcher"] = NoBackup
        /\ UNCHANGED <<arrival, local, vault, moving, aiBatches>>
    BY <1>7 DEF NothingToOffload, DrivesStay
  <2>2. BatchHolds'
    BY <2>1, DequeuedHolds
  <2>3. \A m \in Movers : MoverHolds(m)'
    BY <2>1, MoversHold
  <2> QED
    BY <2>1, <2>2, <2>3 DEF AiInv, OriginalsSurvive
<1>8. ASSUME NEW m \in Movers, RemoveLocal(m) \/ OffloadFails(m) \/ NamesExhausted(m)
      PROVE  AiInv'
  <2>1. moving[m] # NoBackup /\ MoverStops(m) /\ UNCHANGED <<arrival, vault, aiBatches>>
    BY <1>8 DEF RemoveLocal, OffloadFails, NamesExhausted, NoBackup
  <2>2. \/ local' = local
        \/ local' = local \ {moving[m].backup} /\ moving[m].at = "installed"
    BY <1>8 DEF RemoveLocal, OffloadFails, NamesExhausted
  <2> QED
    BY <2>1, <2>2, StopSteps
<1> QED
  BY <1>1, <1>2, <1>4, <1>5, <1>6, <1>7, <1>8, ProcessSteps, FailSteps, RestoreSteps, NameSteps,
     RouteSteps, RoutedSteps, CopySteps, InstallSteps DEF AiNext

\* The original of a processed archive is on one of the two drives, and leaves
\* the local one by the watcher's hand only after its archive was routed, for
\* any archives, batches, failures, deaths, names and runs of the migration.
THEOREM AiIsSafe == AiSpec => []AiSafety
<1>1. AiInit => AiInv
  BY AiInitially
<1>2. AiInv /\ [AiNext]_aiVars => AiInv'
  BY AiSteps
<1>3. AiInv => AiSafety
  BY DEF AiInv, AiSafety, OffloadedOnlyRouted, MoverHolds, Movers
<1> QED
  BY <1>1, <1>2, <1>3, PTL DEF AiSpec
=============================================================================
