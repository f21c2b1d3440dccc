-------------------------- MODULE WatcherInstance --------------------------
(***************************************************************************)
(* comic_automation/library/watcher_instance.py: watcher_instance_lock(),  *)
(* which every launcher of the watcher enters before any work.  A Windows  *)
(* mutex named after the identity of the watch directory keeps others out; *)
(* it is recursive for the thread that owns it, so the registry            *)
(* _owned_names keeps out a second watcher of the same process.  Releasing *)
(* and closing may fail, a root may be retargeted (a junction), processes  *)
(* die inside.                                                             *)
(*                                                                         *)
(* Kernel mutexes are external: what waiting for one, releasing it,        *)
(* closing its handle and the end of its owner do.                         *)
(***************************************************************************)
EXTENDS Integers

CONSTANTS
    Locks,            \* uses of the context manager, as numbers: on one thread
                      \* a higher one is nested in a lower one
    ThreadOf,         \* lock -> the thread it is entered on
    ProcessOf,        \* thread -> its process
    WatchRoots,       \* spellings of watch directories
    Identities,       \* identities of directories, which name the mutexes
    NoThread,         \* the owner of a free mutex
    MaxMutexTrouble   \* bound: failing calls, retargeted roots and deaths

LockThreads == {ThreadOf[k] : k \in Locks}
Processes == {ProcessOf[t] : t \in LockThreads}

ASSUME WatcherInstanceAssumption ==
    /\ Locks \subseteq Nat /\ MaxMutexTrouble \in Nat
    /\ NoThread \notin LockThreads

VARIABLES
    identityOf,   \* root -> the directory it leads to
    mutex,        \* identity -> the thread that owns the mutex, and how often
    ownedNames,   \* process -> its _owned_names
    lockAt,       \* lock -> where it is: [at, root, name]
    mutexTrouble

instanceVars == <<identityOf, mutex, ownedNames, lockAt, mutexTrouble>>

FreeMutex == [owner |-> NoThread, count |-> 0]
NotLocked == [at |-> "off", root |-> "none", name |-> "none"]
RegistryOf(k) == ownedNames[ProcessOf[ThreadOf[k]]]

InstanceInit ==
    /\ identityOf \in [WatchRoots -> Identities]
    /\ mutex = [n \in Identities |-> FreeMutex]
    /\ ownedNames = [p \in Processes |-> {}]
    /\ lockAt = [k \in Locks |-> NotLocked]
    /\ mutexTrouble = 0

-----------------------------------------------------------------------------
(* The context manager                                                     *)

\* The thread is in the body of this lock, in none that is nested in it.
Innermost(k) ==
    \A j \in Locks : ThreadOf[j] = ThreadOf[k] /\ j > k => lockAt[j] = NotLocked

LockGoes(k, step) == lockAt' = [lockAt EXCEPT ![k].at = step]
LockEnds(k) == lockAt' = [lockAt EXCEPT ![k] = NotLocked]
Troubled == mutexTrouble < MaxMutexTrouble /\ mutexTrouble' = mutexTrouble + 1

\* The spelling and its resolved path are one directory, which names the mutex.
Identify(k, root) ==
    /\ lockAt[k] = NotLocked /\ Innermost(k)
    /\ lockAt' = [lockAt EXCEPT ![k] =
                     [at |-> "identified", root |-> root, name |-> identityOf[root]]]
    /\ UNCHANGED <<identityOf, mutex, ownedNames, mutexTrouble>>

\* Mutant of Registered: the mutex alone keeps watchers out.
RegisteredNowhere(k) == FALSE

Registered(k) == lockAt[k].name \in RegistryOf(k)

\* WaitForSingleObject does not wait, and grants its owner the mutex again.
Grants(name, t) == mutex[name].owner \in {NoThread, t}

\* Under _owners_lock: the registry, then the mutex, then the registration.
Acquire(k) ==
    LET name == lockAt[k].name
        t == ThreadOf[k] IN
    /\ lockAt[k].at = "identified"
    /\ ~Registered(k) /\ Grants(name, t)
    /\ mutex' = [mutex EXCEPT ![name] = [owner |-> t, count |-> @.count + 1]]
    /\ ownedNames' = [ownedNames EXCEPT ![ProcessOf[t]] = @ \union {name}]
    /\ LockGoes(k, "acquired")
    /\ UNCHANGED <<identityOf, mutexTrouble>>

\* Registered, owned by another thread, or a call of the kernel fails; the
\* handle of a mutex that was not granted is closed.
RefuseLock(k) ==
    /\ lockAt[k].at = "identified"
    /\ \/ /\ Registered(k) \/ ~Grants(lockAt[k].name, ThreadOf[k])
          /\ UNCHANGED mutexTrouble
       \/ Troubled
    /\ LockEnds(k)
    /\ UNCHANGED <<identityOf, mutex, ownedNames>>

\* The identity is read again before any work is done under the name.
RecheckRoot(k) ==
    /\ lockAt[k].at = "acquired"
    /\ LockGoes(k, IF identityOf[lockAt[k].root] = lockAt[k].name THEN "inside" ELSE "leaving")
    /\ UNCHANGED <<identityOf, mutex, ownedNames, mutexTrouble>>

\* The body ends, or raises.
LeaveBody(k) ==
    /\ lockAt[k].at = "inside" /\ Innermost(k)
    /\ LockGoes(k, "leaving")
    /\ UNCHANGED <<identityOf, mutex, ownedNames, mutexTrouble>>

\* Mutant of Unregistered: closing the handle is taken for a release.
UnregisteredIfClosed(released, closed) == closed

\* "Closing a handle alone does not prove ownership released.  Keep uncertain
\* roots blocked for this process's lifetime."
Unregistered(released, closed) == released /\ closed

OnceLess(m) == IF m.count = 1 THEN FreeMutex ELSE [m EXCEPT !.count = @ - 1]

\* The finally clause: ReleaseMutex, CloseHandle, and the registry, whichever
\* of the two fails.  Closing the last handle may free what was not released.
CleanUp(k, released, closed) ==
    LET name == lockAt[k].name IN
    /\ lockAt[k].at = "leaving"
    /\ IF released /\ closed THEN UNCHANGED mutexTrouble ELSE Troubled
    /\ \/ released /\ mutex' = [mutex EXCEPT ![name] = OnceLess(@)]
       \/ ~released /\ UNCHANGED mutex
       \/ ~released /\ closed /\ mutex' = [mutex EXCEPT ![name] = FreeMutex]
    /\ ownedNames' = IF Unregistered(released, closed)
                     THEN [ownedNames EXCEPT ![ProcessOf[ThreadOf[k]]] = @ \ {name}]
                     ELSE ownedNames
    /\ LockEnds(k)
    /\ UNCHANGED identityOf

-----------------------------------------------------------------------------
(* The rest of the machine                                                 *)

\* A process dies: its mutexes are abandoned, and with it goes its registry.
LauncherDies(p) ==
    /\ Troubled
    /\ lockAt' = [k \in Locks |-> IF ProcessOf[ThreadOf[k]] = p THEN NotLocked ELSE lockAt[k]]
    /\ mutex' = [n \in Identities |->
                    IF mutex[n].owner # NoThread /\ ProcessOf[mutex[n].owner] = p
                    THEN FreeMutex ELSE mutex[n]]
    /\ ownedNames' = [ownedNames EXCEPT ![p] = {}]
    /\ UNCHANGED identityOf

Retarget(root, identity) ==
    /\ Troubled
    /\ identityOf' = [identityOf EXCEPT ![root] = identity]
    /\ UNCHANGED <<mutex, ownedNames, lockAt>>

InstanceNext ==
    \/ \E k \in Locks :
         \/ \E root \in WatchRoots : Identify(k, root)
         \/ Acquire(k) \/ RefuseLock(k) \/ RecheckRoot(k) \/ LeaveBody(k)
         \/ \E released, closed \in BOOLEAN : CleanUp(k, released, closed)
    \/ \E p \in Processes : LauncherDies(p)
    \/ \E root \in WatchRoots, identity \in Identities : Retarget(root, identity)

InstanceSpec == InstanceInit /\ [][InstanceNext]_instanceVars

-----------------------------------------------------------------------------
(* Properties                                                              *)

Holds(k) == lockAt[k].at \in {"acquired", "inside", "leaving"}

\* Two launchers never "each believe they exclusively own the same intake",
\* by whatever spelling, thread or process they came, after any failed cleanup.
OneWatcherPerRoot ==
    \A j, k \in Locks :
        Holds(j) /\ Holds(k) /\ lockAt[j].name = lockAt[k].name => j = k

\* Whoever holds the lock owns the mutex, once, so that one release frees it.
HolderOwnsOnce ==
    \A k \in Locks :
        Holds(k) => mutex[lockAt[k].name] = [owner |-> ThreadOf[k], count |-> 1]

\* A mutex that outlived its lock is granted to its thread without a word: the
\* process keeps it registered, so that nothing enters on a root in doubt.
DoubtIsBlocked ==
    \A n \in Identities :
        mutex[n].owner # NoThread => n \in ownedNames[ProcessOf[mutex[n].owner]]

\* One watcher per root, who owns what it holds; what is in doubt stays blocked.
InstanceSafety == OneWatcherPerRoot /\ HolderOwnsOnce /\ DoubtIsBlocked

=============================================================================
