------------------------------ MODULE AiOriginals ------------------------------
(***************************************************************************)
(* The originals of AI-processed archives.  One import directory is        *)
(* processed archive by archive: the external tool replaces an archive and *)
(* keeps its original in a job directory on the local drive.  A failing    *)
(* archive has the earlier ones restored; after naming and routing, the    *)
(* originals of what was routed are offloaded to the archive drive.  The   *)
(* migration command offloads whatever it finds on the local drive, while  *)
(* the watcher runs.                                                       *)
(***************************************************************************)
EXTENDS Naturals, Sequences, SequencesExt, FiniteSetsExt

CONSTANTS
    Works,          \* archives of one import directory
    BackupName,     \* archive -> name of its original in the series' folder
    MaxAiBatches,   \* bound on settled passes over the directory
    MaxOffloadTrouble,  \* bound on failures and crashes
    MaxSlots,       \* bound on the versions of one name, 1000 in the code
    MaxEarlier      \* bound on other archives' originals under one name

ASSUME SlotsAssumption == MaxSlots \in Nat

Movers == {"watcher", "migration"}
NoBatch == [at |-> "idle"]
NoBackup == [at |-> "none"]

VARIABLES
    arrival,        \* archive -> where it is, under which name, which bytes
    local,          \* originals on the local drive: <<archive, batch>>
    vault,          \* originals on the archive drive: <<name, version, archive>>
    aiBatch,        \* the pass over the directory
    moving,         \* mover -> the original it is offloading
    aiBatches,      \* number of passes
    aiTrouble       \* number of failures

aiVars == <<arrival, local, vault, aiBatch, moving, aiBatches, aiTrouble>>

AiInit ==
    /\ arrival = [w \in Works |->
                     [in |-> "import", name |-> "own", bytes |-> "original"]]
    /\ local = {}
    /\ \E n \in 0 .. MaxEarlier :       \* of earlier originals with these names
          vault = {<<BackupName[w], k, "earlier">> : w \in Works, k \in 1..n}
    /\ aiBatch = NoBatch
    /\ moving = [m \in Movers |-> NoBackup]
    /\ aiBatches = 0 /\ aiTrouble = 0

AiTrouble == aiTrouble < MaxOffloadTrouble /\ aiTrouble' = aiTrouble + 1
AiCalm == UNCHANGED aiTrouble
DrivesStay == UNCHANGED <<local, vault, moving>>
BackupThere(w, name) == arrival[w].in = "import" /\ arrival[w].name = name
Waiting == {w \in Works : arrival[w].in = "import"}

-----------------------------------------------------------------------------
(* Processing                                                              *)

StartAiBatch ==
    /\ aiBatch = NoBatch /\ Waiting # {} /\ aiBatches < MaxAiBatches
    /\ aiBatches' = aiBatches + 1
    /\ aiBatch' = [at |-> "processing", todo |-> Waiting, pairs |-> <<>>]
    /\ AiCalm /\ DrivesStay /\ UNCHANGED arrival

Replaced(w) ==
    /\ arrival' = [arrival EXCEPT ![w].bytes = "processed"]
    /\ local' = local \union {<<w, aiBatches>>}
    /\ UNCHANGED <<vault, moving, aiBatches>>

\* The tool replaces the archive, or skips one it has processed already.
RunAiDecensor(w) ==
    /\ aiBatch.at = "processing" /\ w \in aiBatch.todo /\ AiCalm
    /\ IF arrival[w].bytes = "processed"
       THEN /\ aiBatch' = [aiBatch EXCEPT !.todo = @ \ {w}]
            /\ DrivesStay /\ UNCHANGED <<arrival, aiBatches>>
       ELSE /\ aiBatch' = [aiBatch EXCEPT
                    !.todo = @ \ {w},
                    !.pairs = Append(@, [work |-> w, name |-> arrival[w].name,
                                         backup |-> <<w, aiBatches>>])]
            /\ Replaced(w)

\* It fails, before it replaced the archive or with a record nobody accepts.
AiDecensorFails(w) ==
    /\ aiBatch.at = "processing" /\ w \in aiBatch.todo /\ AiTrouble
    /\ aiBatch' = [at |-> "restoring", pairs |-> aiBatch.pairs]
    /\ \/ DrivesStay /\ UNCHANGED <<arrival, aiBatches>>
       \/ arrival[w].bytes = "original" /\ Replaced(w)

\* The pass returns without restoring: the archive's media facts cannot be read.
FactsUnreadable ==
    /\ aiBatch.at = "processing" /\ aiBatch.todo # {} /\ AiTrouble
    /\ aiBatch' = NoBatch
    /\ DrivesStay /\ UNCHANGED <<arrival, aiBatches>>

\* Latest first; without its backup, or when the copy fails, the pass stops.
RestoreOne ==
    /\ aiBatch.at = "restoring" /\ aiBatch.pairs # <<>>
    /\ LET last == Last(aiBatch.pairs) IN
       \/ /\ last.backup \in local /\ AiCalm
          /\ arrival' = [arrival EXCEPT ![last.work].bytes = "original"]
          /\ aiBatch' = [aiBatch EXCEPT !.pairs = Front(@)]
       \/ /\ IF last.backup \in local THEN AiTrouble ELSE AiCalm
          /\ aiBatch' = NoBatch /\ UNCHANGED arrival
    /\ DrivesStay /\ UNCHANGED aiBatches

RestoreEnds ==
    /\ aiBatch.at = "restoring" /\ aiBatch.pairs = <<>> /\ aiBatch' = NoBatch
    /\ AiCalm /\ DrivesStay /\ UNCHANGED <<arrival, aiBatches>>

-----------------------------------------------------------------------------
(* Naming, routing, offloading                                             *)

\* Mutant of Rekey: the pairs keep the names the archives arrived under.
RekeyNothing(pairs, renamed) == pairs

\* _rekey_ai_backups: a pair follows its archive to the name it has now.
Rekey(pairs, renamed) ==
    [i \in DOMAIN pairs |->
        IF pairs[i].work \in renamed THEN [pairs[i] EXCEPT !.name = "fallback"]
        ELSE pairs[i]]

\* Media and fallback naming rename some archives and refuse some.
NameArrivals ==
    /\ aiBatch.at = "processing" /\ aiBatch.todo = {} /\ AiCalm
    /\ \E renamed \in SUBSET Waiting, refused \in SUBSET Waiting :
          /\ arrival' = [w \in Works |->
                IF w \in renamed THEN [arrival[w] EXCEPT !.name = "fallback"]
                ELSE arrival[w]]
          /\ aiBatch' = [at |-> "named", refused |-> refused,
                         pairs |-> Rekey(aiBatch.pairs, renamed)]
    /\ DrivesStay /\ UNCHANGED aiBatches

\* A mixed directory moves its accepted archives, some of which are held
\* back; any other moves whole, and not at all once an archive is refused.
RouteArrivals ==
    /\ aiBatch.at = "named" /\ AiCalm
    /\ \E moved \in SUBSET Waiting :
          /\ moved \intersect aiBatch.refused = {}
          /\ arrival' = [w \in Works |->
                IF w \in moved THEN [arrival[w] EXCEPT !.in = "library"]
                ELSE arrival[w]]
          /\ aiBatch' = IF moved = {} THEN NoBatch
                        ELSE [at |-> "landed", pairs |-> aiBatch.pairs]
    /\ DrivesStay /\ UNCHANGED aiBatches

\* _routed_ai_backups: what is still there under its own name stays.
RoutedBackups ==
    /\ aiBatch.at = "landed" /\ AiCalm
    /\ aiBatch' = [at |-> "offloading", pairs |-> aiBatch.pairs,
                   left |-> {i \in DOMAIN aiBatch.pairs :
                               ~BackupThere(aiBatch.pairs[i].work, aiBatch.pairs[i].name)}]
    /\ DrivesStay /\ UNCHANGED <<arrival, aiBatches>>

-----------------------------------------------------------------------------
(* archive_backup, by the watcher or the migration                         *)

NextInQueue == aiBatch.at = "offloading" /\ aiBatch.left # {}
NextPair == aiBatch.pairs[Min(aiBatch.left)]
Dequeued == [aiBatch EXCEPT !.left = @ \ {Min(@)}]

\* Copied, hashed and compared with a source nobody changes.
CopyBackup(m, b) ==
    /\ moving[m] = NoBackup /\ b \in local
    /\ m = "watcher" => NextInQueue /\ b = NextPair.backup
    /\ moving' = [moving EXCEPT ![m] = [at |-> "staged", backup |-> b]]
    /\ AiCalm /\ UNCHANGED <<arrival, local, vault, aiBatch, aiBatches>>

SlotHolds(name, k) == {v \in vault : v[1] = name /\ v[2] = k}

\* The versions of its name that are free or hold the same bytes.
FreeVersions(w) ==
    {k \in 1..MaxSlots : SlotHolds(BackupName[w], k) \subseteq {<<BackupName[w], k, w>>}}

\* Mutant of Candidate: whatever has the first name is taken for the copy.
CandidateByName(w) == 1

Candidate(w) == Min(FreeVersions(w))

\* A link, so nothing there is replaced; a finished watcher copy moves on.
InstallBackup(m) ==
    /\ moving[m].at = "staged" /\ FreeVersions(moving[m].backup[1]) # {}
    /\ LET w == moving[m].backup[1]
           slot == <<BackupName[w], Candidate(w)>> IN
       vault' = IF SlotHolds(slot[1], slot[2]) # {} THEN vault
                ELSE vault \union {<<slot[1], slot[2], w>>}
    /\ moving' = [moving EXCEPT ![m].at = "installed"]
    /\ AiCalm /\ UNCHANGED <<arrival, local, aiBatch, aiBatches>>

MoverStops(m) ==
    /\ moving' = [moving EXCEPT ![m] = NoBackup]
    /\ aiBatch' = IF m = "watcher" THEN Dequeued ELSE aiBatch

\* A source another mover removed is an error the caller logs.
RemoveLocal(m) ==
    /\ moving[m].at = "installed" /\ MoverStops(m)
    /\ local' = local \ {moving[m].backup}
    /\ AiCalm /\ UNCHANGED <<arrival, vault, aiBatches>>

OffloadFails(m) ==
    /\ moving[m] # NoBackup /\ MoverStops(m) /\ AiTrouble
    /\ UNCHANGED <<arrival, local, vault, aiBatches>>

\* Every version of the name is another original's.
NamesExhausted(m) ==
    /\ moving[m].at = "staged" /\ FreeVersions(moving[m].backup[1]) = {} /\ MoverStops(m)
    /\ AiCalm /\ UNCHANGED <<arrival, local, vault, aiBatches>>

\* The next pair's backup is gone: logged, the next is tried.
NothingToOffload ==
    /\ NextInQueue /\ moving["watcher"] = NoBackup
    /\ NextPair.backup \notin local
    /\ aiBatch' = Dequeued
    /\ AiCalm /\ DrivesStay /\ UNCHANGED <<arrival, aiBatches>>

AiBatchEnds ==
    /\ aiBatch.at = "offloading" /\ aiBatch.left = {} /\ aiBatch' = NoBatch
    /\ AiCalm /\ DrivesStay /\ UNCHANGED <<arrival, aiBatches>>

AiWatcherDies ==
    /\ aiBatch # NoBatch /\ AiTrouble
    /\ aiBatch' = NoBatch /\ moving' = [moving EXCEPT !["watcher"] = NoBackup]
    /\ UNCHANGED <<arrival, local, vault, aiBatches>>

AiNext ==
    \/ StartAiBatch \/ FactsUnreadable \/ RestoreOne \/ RestoreEnds
    \/ \E w \in Works : RunAiDecensor(w) \/ AiDecensorFails(w)
    \/ NameArrivals \/ RouteArrivals \/ RoutedBackups
    \/ \E m \in Movers : \/ \E b \in local : CopyBackup(m, b)
                         \/ InstallBackup(m) \/ RemoveLocal(m) \/ OffloadFails(m)
                         \/ NamesExhausted(m)
    \/ NothingToOffload \/ AiBatchEnds \/ AiWatcherDies

AiSpec == AiInit /\ [][AiNext]_aiVars

-----------------------------------------------------------------------------
(* Properties                                                              *)

\* Whatever fails, and with the migration running beside the watcher, the
\* original of a processed archive is on one of the two drives.
OriginalsSurvive ==
    \A w \in Works : arrival[w].bytes = "processed" =>
        \/ \E b \in local : b[1] = w
        \/ \E v \in vault : v[3] = w

\* The watcher sends away no original whose archive still waits for its
\* retry in the import directory.
OffloadedOnlyRouted ==
    moving["watcher"] # NoBackup =>
        arrival[moving["watcher"].backup[1]].in = "library"

\* An original outlives its processing, and leaves the local drive only after its
\* archive was routed.
AiSafety == OriginalsSurvive /\ OffloadedOnlyRouted

=============================================================================
