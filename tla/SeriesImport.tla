---------------------------- MODULE SeriesImport ----------------------------
(***************************************************************************)
(* Filing arrivals under their series: stable_series_lock and the ordered  *)
(* locks of scripts/cbz_lock_order.py around the classify -> move -> index *)
(* section of scripts/cbz_watcher.py, with the alias registry of           *)
(* comic_automation/series_resolver.py.                                    *)
(*                                                                         *)
(* Every arrival is one comic directory handled by a thread of its own.    *)
(* What it resolves to depends on the folders and aliases that other       *)
(* imports create, so it resolves, locks, and resolves again.              *)
(***************************************************************************)
EXTENDS Naturals, FiniteSets

CONSTANTS
    Arrivals,     \* comic directories, each with a thread of its own
    Names,        \* directory names
    Key,          \* Key[n]: series_key, the identity a lock stands for
    AliasKey,     \* AliasKey[n]: alias_key, what the registry is indexed by
    Cleaned,      \* Cleaned[a]: the arrival's cleaned name
    Bare,         \* Bare[a]: that name without a trailing number
    Corroborated, \* arrivals whose ComicInfo names the bare series
    Loose,        \* arrivals that are files beside nested directories
    Observed,     \* Observed[a]: the aliases an import of a registers
    LibraryNow,   \* folders of the resolver's library at startup
    KnownNow,     \* KnownNow[n]: the registered aliases of folder n
    ResolverOn,   \* --series-resolver was given
    OutsideNames, \* folders that other tools may create
    NoName, Nobody,
    MaxOutside    \* bound on the changes made outside the watcher

Keys == {Key[n] : n \in Names}
AliasKeys == {AliasKey[n] : n \in Names}
Roots == {"library", "legacy"}

ASSUME SeriesAssumption ==
    /\ NoName \notin Names /\ Nobody \notin Arrivals
    /\ Names = DOMAIN Key /\ Names = DOMAIN AliasKey
    /\ Cleaned \in [Arrivals -> Names] /\ Bare \in [Arrivals -> Names]
    /\ Observed \in [Arrivals -> SUBSET Names]
    /\ LibraryNow \subseteq Names
    /\ \A n, m \in LibraryNow : Key[n] = Key[m] => n = m
    /\ KnownNow \in [Names -> SUBSET Names]
    /\ ResolverOn \in BOOLEAN /\ OutsideNames \subseteq Names
    /\ MaxOutside \in Nat

VARIABLES
    folders,    \* folders[r]: the series folders below root r
    outside,    \* changes made outside the watcher so far
    \* SeriesResolver.registry: the series list and the two alias maps
    known, alias, ambiguous,
    lock,       \* lock[k]: the arrival that holds the series lock of key k
    \* each thread: where it stands, where it looks for evidence, its title,
    \* what it resolved to, and the folder it files into
    pc, evidence, title, identity, root, attempt, target,
    \* history, read by no action
    disturbed

library == <<folders, outside>>
registry == <<known, alias, ambiguous>>
local == <<pc, evidence, title, identity, root, attempt, target>>
vars == <<library, registry, lock, local, disturbed>>

Claimants(k) == {c \in Names : \E v \in known[c] : AliasKey[v] = k}

-----------------------------------------------------------------------------
(* Resolving, which reads and changes nothing.                             *)

Matches(r, n) == {f \in folders[r] : Key[f] = Key[n]}

\* _resolve_series_dir_name: a bare trailing number goes only on evidence.
TitleOf(a, r) ==
    IF a \in Corroborated \/ Matches(r, Bare[a]) # {} THEN Bare[a] ELSE Cleaned[a]

\* _resolve_import_target: the live folders the registry names for a title.
Candidates(n) ==
    LET k == AliasKey[n]
        named == IF ambiguous[k] # {} THEN ambiguous[k]
                 ELSE IF alias[k] # NoName THEN {alias[k]} ELSE {}
    IN  named \cap folders["library"]

\* A single live candidate wins, none leaves the title its own folder, and
\* several leave it to the legacy root for review.
Filing(n) ==
    LET live == Candidates(n)
    IN  CASE ~ResolverOn              -> {<<n, "legacy">>}
          [] ResolverOn /\ live = {}  -> {<<n, "library">>}
          [] ResolverOn /\ (\E c \in live : live = {c}) ->
                {<<c, "library">> : c \in live}
          [] OTHER                    -> {<<n, "legacy">>}

Init ==
    /\ folders = [r \in Roots |-> IF r = "library" THEN LibraryNow ELSE {}]
    /\ outside = 0
    /\ known = [n \in Names |-> IF n \in LibraryNow THEN KnownNow[n] \cup {n} ELSE {}]
    /\ alias = [k \in AliasKeys |->
                   IF \E c \in Claimants(k) : Claimants(k) = {c}
                   THEN CHOOSE c \in Claimants(k) : TRUE ELSE NoName]
    /\ ambiguous = [k \in AliasKeys |->
                       IF \E c, d \in Claimants(k) : c # d THEN Claimants(k) ELSE {}]
    /\ lock = [k \in Keys |-> Nobody]
    /\ pc = [a \in Arrivals |-> "arriving"]
    /\ evidence = [a \in Arrivals |-> "legacy"]
    /\ title = [a \in Arrivals |-> Cleaned[a]]
    /\ identity = [a \in Arrivals |-> NoName]
    /\ root = [a \in Arrivals |-> "legacy"]
    /\ attempt = [a \in Arrivals |-> 0]
    /\ target = [a \in Arrivals |-> NoName]
    /\ disturbed = [a \in Arrivals |-> {}]

Goto(a, label) == pc' = [pc EXCEPT ![a] = label]

\* History: the looks, 0 before any lock and 1 under the first, since which another
\* import or an outside change got in, counted until the next look has ended.
Resolving == {"titling", "targeting", "locking", "retitling", "retargeting"}
Looks == {0, 1}
Moved ==
    disturbed' = [a \in Arrivals |->
                    IF pc[a] \in Resolving
                    THEN disturbed[a] \cup (Looks \cap {attempt[a] - 1, attempt[a]})
                    ELSE disturbed[a]]

\* The legacy or library root in which the evidence for a bare number is
\* sought is that of the preliminary title.
Arrive(a) ==
    /\ pc[a] = "arriving"
    /\ \E f \in Filing(Cleaned[a]) : evidence' = [evidence EXCEPT ![a] = f[2]]
    /\ Goto(a, "titling")
    /\ UNCHANGED <<library, registry, lock, title, identity, root, attempt, target,
                   disturbed>>

\* _resolve_identity, first the title and then its target, without the lock
\* the first time.
Title(a) ==
    /\ pc[a] \in {"titling", "retitling"}
    /\ title' = [title EXCEPT ![a] = TitleOf(a, evidence[a])]
    /\ disturbed' = [disturbed EXCEPT ![a] = @ \ {attempt[a]}]
    /\ Goto(a, IF pc[a] = "titling" THEN "targeting" ELSE "retargeting")
    /\ UNCHANGED <<library, registry, lock, evidence, identity, root, attempt, target>>

Target(a) ==
    /\ pc[a] = "targeting"
    /\ \E f \in Filing(title[a]) :
          /\ identity' = [identity EXCEPT ![a] = f[1]]
          /\ root' = [root EXCEPT ![a] = f[2]]
    /\ attempt' = [attempt EXCEPT ![a] = 1]
    /\ Goto(a, "locking")
    /\ UNCHANGED <<library, registry, lock, evidence, title, target, disturbed>>

-----------------------------------------------------------------------------
(* stable_series_lock.                                                     *)

Acquire(a) ==
    /\ pc[a] = "locking"
    /\ lock[Key[identity[a]]] = Nobody
    /\ lock' = [lock EXCEPT ![Key[identity[a]]] = a]
    /\ Goto(a, "retitling")
    /\ UNCHANGED <<library, registry, evidence, title, identity, root, attempt, target,
                   disturbed>>

Released(a) == [lock EXCEPT ![Key[identity[a]]] = Nobody]

\* Mutant of Confirm: whatever the second look says, the body runs.
ConfirmAnything(a) ==
    /\ pc[a] = "retargeting"
    /\ \E f \in Filing(title[a]) :
          /\ identity' = [identity EXCEPT ![a] = f[1]]
          /\ root' = [root EXCEPT ![a] = f[2]]
    /\ Goto(a, "choosing") /\ UNCHANGED <<lock, attempt>>
    /\ UNCHANGED <<library, registry, evidence, title, target, disturbed>>

\* Mutant of Confirm: the first change of identity is refused.
ConfirmOnce(a) ==
    /\ pc[a] = "retargeting"
    /\ \E f \in Filing(title[a]) :
          /\ identity' = [identity EXCEPT ![a] = f[1]]
          /\ root' = [root EXCEPT ![a] = f[2]]
          /\ IF Key[f[1]] = Key[identity[a]]
             THEN Goto(a, "choosing") /\ UNCHANGED lock
             ELSE Goto(a, "deferred") /\ lock' = Released(a)
    /\ UNCHANGED <<library, registry, evidence, title, attempt, target, disturbed>>

\* Mutant of Confirm: one lock too many is tried.
ConfirmThrice(a) ==
    /\ pc[a] = "retargeting"
    /\ \E f \in Filing(title[a]) :
          /\ identity' = [identity EXCEPT ![a] = f[1]]
          /\ root' = [root EXCEPT ![a] = f[2]]
          /\ \/ /\ Key[f[1]] = Key[identity[a]]
                /\ Goto(a, "choosing")
                /\ UNCHANGED <<lock, attempt>>
             \/ /\ Key[f[1]] # Key[identity[a]]
                /\ lock' = Released(a)
                /\ IF attempt[a] > 2
                   THEN Goto(a, "deferred") /\ UNCHANGED attempt
                   ELSE Goto(a, "locking") /\ attempt' = [attempt EXCEPT ![a] = @ + 1]
    /\ UNCHANGED <<library, registry, evidence, title, target, disturbed>>

\* The look under the lock: the same key runs the body, another one lets go
\* of the lock with nothing changed, and after two locks gives up.
MaxKeyedAcquisitions == 2
Confirm(a) ==
    /\ pc[a] = "retargeting"
    /\ \E f \in Filing(title[a]) :
          /\ identity' = [identity EXCEPT ![a] = f[1]]
          /\ root' = [root EXCEPT ![a] = f[2]]
          /\ \/ /\ Key[f[1]] = Key[identity[a]]
                /\ Goto(a, "choosing")
                /\ UNCHANGED <<lock, attempt>>
             \/ /\ Key[f[1]] # Key[identity[a]]
                /\ lock' = Released(a)
                /\ IF attempt[a] = MaxKeyedAcquisitions
                   THEN Goto(a, "deferred") /\ UNCHANGED attempt
                   ELSE Goto(a, "locking") /\ attempt' = [attempt EXCEPT ![a] = @ + 1]
    /\ UNCHANGED <<library, registry, evidence, title, target, disturbed>>

-----------------------------------------------------------------------------
(* The body: the move and the registration, under the series lock.         *)

\* A refused name leaves the arrival for review.
Refuse(a) ==
    /\ pc[a] = "choosing"
    /\ lock' = Released(a)
    /\ Goto(a, "review")
    /\ UNCHANGED <<library, registry, evidence, title, identity, root, attempt, target,
                   disturbed>>

\* Mutant of Choose: only the exact folder name counts as existing.
ChooseExact(a) ==
    /\ pc[a] = "choosing"
    /\ target' = [target EXCEPT ![a] = identity[a]]
    /\ Goto(a, IF identity[a] \in folders[root[a]] THEN "merging" ELSE "moving")
    /\ UNCHANGED <<library, registry, lock, evidence, title, identity, root, attempt,
                   disturbed>>

\* _move_cbz_dir and _move_loose_files: the folder itself, or one that only
\* differs in case, spacing, punctuation or a censorship marker.
Choose(a) ==
    /\ pc[a] = "choosing"
    /\ LET same == Matches(root[a], identity[a])
       IN  \E n \in IF same = {} \/ (identity[a] \in same /\ a \notin Loose)
                    THEN {identity[a]} ELSE same :
             /\ target' = [target EXCEPT ![a] = n]
             /\ Goto(a, IF n \in folders[root[a]] \/ a \in Loose
                        THEN "merging" ELSE "moving")
    /\ UNCHANGED <<library, registry, lock, evidence, title, identity, root, attempt,
                   disturbed>>

Populate(a) ==
    folders' = [folders EXCEPT ![root[a]] = @ \cup {target[a]}]

\* A merge, or a move of loose files, creates the folder it needs.  A move
\* of the directory into one that has appeared since the check falls back to
\* a merge if the rename itself fails, but shutil.move looks first and puts
\* the directory inside the one it finds: in either case the folder then holds it.
Land(a) ==
    /\ pc[a] \in {"merging", "moving"}
    /\ Populate(a)
    /\ IF target[a] \in folders[root[a]] THEN UNCHANGED disturbed ELSE Moved
    /\ Goto(a, IF root[a] = "library" THEN "registering" ELSE "leaving")
    /\ UNCHANGED <<outside, registry, lock, evidence, title, identity, root, attempt,
                   target>>

\* The move fails, with or without the folder already made: nothing is
\* registered.
LandFails(a) ==
    /\ pc[a] \in {"merging", "moving"}
    /\ \/ UNCHANGED <<folders, disturbed>>
       \/ target[a] \notin folders[root[a]] /\ Populate(a) /\ Moved
    /\ Goto(a, "leaving")
    /\ UNCHANGED <<outside, registry, lock, evidence, title, identity, root, attempt,
                   target>>

\* Mutant of Register: a second claimant takes the alias over.
RegisterLast(a) ==
    /\ pc[a] = "registering"
    /\ LET c == target[a]
           mine == known[c] \cup Observed[a] \cup {title[a], identity[a], c}
       IN  /\ known' = [known EXCEPT ![c] = mine]
           /\ alias' = [k \in AliasKeys |->
                           IF \E v \in mine : AliasKey[v] = k THEN c ELSE alias[k]]
    /\ Moved
    /\ Goto(a, "leaving")
    /\ UNCHANGED <<ambiguous, library, lock, evidence, title, identity, root, attempt,
                   target>>

\* SeriesResolver.register, under the resolver's guard.
Register(a) ==
    /\ pc[a] = "registering"
    /\ LET c == target[a]
           mine == known[c] \cup Observed[a] \cup {title[a], identity[a], c}
           taken == {AliasKey[v] : v \in mine}
           rival(k) == alias[k] # NoName /\ alias[k] # c
       IN  /\ known' = [known EXCEPT ![c] = mine]
           /\ alias' = [k \in AliasKeys |->
                 IF k \notin taken \/ (ambiguous[k] # {} /\ ~rival(k)) THEN alias[k]
                 ELSE IF rival(k) THEN NoName ELSE c]
           /\ ambiguous' = [k \in AliasKeys |->
                 IF k \notin taken THEN ambiguous[k]
                 ELSE IF rival(k) THEN ambiguous[k] \cup {alias[k], c}
                 ELSE IF ambiguous[k] # {} THEN ambiguous[k] \cup {c} ELSE {}]
    /\ Moved
    /\ Goto(a, "leaving")
    /\ UNCHANGED <<library, lock, evidence, title, identity, root, attempt, target>>

\* Mutant of Leave: the lock outlives the transaction.
LeaveLocked(a) ==
    /\ pc[a] = "leaving"
    /\ Goto(a, "done")
    /\ UNCHANGED <<lock, library, registry, evidence, title, identity, root, attempt,
                   target, disturbed>>

Leave(a) ==
    /\ pc[a] = "leaving"
    /\ lock' = Released(a)
    /\ Goto(a, "done")
    /\ UNCHANGED <<library, registry, evidence, title, identity, root, attempt, target,
                   disturbed>>

-----------------------------------------------------------------------------
(* The operator and the other tools, which know nothing of these locks.    *)

Remove(r, n) ==
    /\ outside < MaxOutside /\ n \in folders[r]
    /\ folders' = [folders EXCEPT ![r] = @ \ {n}]
    /\ outside' = outside + 1 /\ Moved
    /\ UNCHANGED <<registry, lock, local>>

Create(r, n) ==
    /\ outside < MaxOutside /\ n \in OutsideNames /\ Matches(r, n) = {}
    /\ folders' = [folders EXCEPT ![r] = @ \cup {n}]
    /\ outside' = outside + 1 /\ Moved
    /\ UNCHANGED <<registry, lock, local>>

Step(a) ==
    \/ Arrive(a) \/ Title(a) \/ Target(a)
    \/ Acquire(a) \/ Confirm(a)
    \/ Refuse(a) \/ Choose(a) \/ Land(a) \/ LandFails(a) \/ Register(a) \/ Leave(a)

Next ==
    \/ \E a \in Arrivals : Step(a)
    \/ \E r \in Roots, n \in Names : Remove(r, n) \/ Create(r, n)

Spec == Init /\ [][Next]_vars

\* Every thread keeps running and the lock does not starve a waiter.
Fairness ==
    \A a \in Arrivals : WF_vars(Step(a)) /\ SF_vars(Acquire(a))

FairSpec == Spec /\ Fairness

-----------------------------------------------------------------------------

Ended == {"done", "deferred", "review"}
Labels ==
    {"arriving", "choosing", "merging", "moving", "registering", "leaving"}
        \cup Resolving \cup Ended

\* Every variable has its type.
TypeOK ==
    /\ folders \in [Roots -> SUBSET Names] /\ outside \in 0 .. MaxOutside
    /\ known \in [Names -> SUBSET Names]
    /\ alias \in [AliasKeys -> Names \cup {NoName}]
    /\ ambiguous \in [AliasKeys -> SUBSET Names]
    /\ lock \in [Keys -> Arrivals \cup {Nobody}]
    /\ pc \in [Arrivals -> Labels]
    /\ evidence \in [Arrivals -> Roots] /\ title \in [Arrivals -> Names]
    /\ identity \in [Arrivals -> Names \cup {NoName}]
    /\ root \in [Arrivals -> Roots] /\ attempt \in [Arrivals -> 0 .. MaxKeyedAcquisitions]
    /\ target \in [Arrivals -> Names \cup {NoName}]
    /\ disturbed \in [Arrivals -> SUBSET Looks]

\* Imports that run at the same time never leave two folders that stand for
\* one series in the same root, although each looks for an existing folder
\* before it moves ("so cosmetic differences don't spawn a duplicate series
\* directory").
OneFolderPerSeries ==
    \A r \in Roots : \A n, m \in folders[r] : Key[n] = Key[m] => n = m

\* No two imports ever move files into the same folder, or register it, at the
\* same time: the lock they agreed on stands for the folder they really file
\* into, whatever both resolved before ("serialized by resolved series
\* identity").
ExclusiveFolders ==
    \A a, b \in Arrivals :
        /\ pc[a] \in {"merging", "moving", "registering"}
        /\ pc[b] \in {"merging", "moving", "registering"}
        /\ root[a] = root[b] /\ target[a] = target[b]
        => a = b

\* The registry's two maps always agree with the aliases its folders claim:
\* a key resolves to a folder only while no other folder claims it, and is
\* ambiguous between exactly the claimants otherwise, in whatever order the
\* imports registered them.
RegistryHonest ==
    \A k \in AliasKeys :
        /\ \A c \in Names : alias[k] = c <=> Claimants(k) = {c}
        /\ ambiguous[k] = {c \in Claimants(k) : Claimants(k) # {c}}

\* Imports at the same time leave one folder to a series, never share one while
\* they file into it, and keep the registry true.
Safety == TypeOK /\ OneFolderPerSeries /\ ExclusiveFolders /\ RegistryHonest

\* An arrival is deferred for an unstable identity only if both answers that
\* differed from the one before did so for a reason: another import or an outside
\* change got in after the earlier look began ("the topology is still moving").
\* One change that falls between the two reads of a look may account for both.
DeferredOnlyIfMoving ==
    \A a \in Arrivals : pc[a] = "deferred" => disturbed[a] = Looks

\* Every arrival is filed, deferred or left for review in the end, whatever
\* locks the others hold.
EveryArrivalEnds == \A a \in Arrivals : <>(pc[a] \in Ended)
=============================================================================
