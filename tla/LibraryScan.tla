------------------------------ MODULE LibraryScan ------------------------------
(***************************************************************************)
(* Library discovery: scan_library walks the root with os.walk, records    *)
(* what it finds in batches of BatchSize, each batch in one transaction    *)
(* with the checkpoint, and retires the locations it did not see.  A batch *)
(* that was limited, crashed or raised can be resumed from its checkpoint. *)
(*                                                                         *)
(* A path is visited in the order of the walk (the files of a directory    *)
(* before those of its subdirectories) and compared with the checkpoint by *)
(* its case-folded text: WalkOrder and KeyOrder are the two orders.        *)
(***************************************************************************)
EXTENDS Naturals, Sequences, FiniteSets

CONSTANTS
    Paths,          \* archive paths under the library root
    WalkOrder,      \* position of a path in os.walk, a number from 1
    KeyOrder,       \* position of a path in the order of _path_key
    BatchSize,      \* batch_size of scan_library
    Limits,         \* values of --limit the operator uses; 0 is no limit
    Faults,         \* subset of {"crash", "exception", "unreadable"}
    MaxBatches,     \* bound on source_batches rows
    MaxScans,       \* bound on scans started
    MaxLibraryChanges   \* bound on changes of the library; also the last stamp

Absent == 0
NoPath == "none"

ASSUME ScanAssumption ==
    /\ WalkOrder \in [Paths -> Nat \ {0}] /\ KeyOrder \in [Paths -> Nat \ {0}]
    /\ \A p, q \in Paths : WalkOrder[p] = WalkOrder[q] => p = q
    /\ NoPath \notin Paths /\ Limits \subseteq Nat

VARIABLES
    tree,       \* path -> Absent or the stamp (size, mtime) of its file
    locations,  \* file_locations: path -> [status, stamp]
    batches,    \* source_batches with their discovery_checkpoints
    scan,       \* the running scan_library
    scans,      \* number of scans started
    libraryChanges, \* number of changes made to the library so far
    settled     \* paths not changed, and read without an error, since the
                \* newest batch began

scanVars == <<tree, locations, batches, scan, scans, libraryChanges, settled>>

Idle == [phase |-> "idle"]
NoRow == [status |-> "unknown", stamp |-> Absent]

ScanInit ==
    /\ tree \in [Paths -> 0..1]
    /\ locations = [p \in Paths |-> NoRow]
    /\ batches = <<>>
    /\ scan = Idle
    /\ scans = 0
    /\ libraryChanges = 1
    /\ settled = {}

Key(p) == IF p = NoPath THEN 0 ELSE KeyOrder[p]

-----------------------------------------------------------------------------
(* start_batch and find_resumable_batch                                    *)

Resumable == {b \in DOMAIN batches : batches[b].status # "completed"}
Newest(bs) == CHOOSE b \in bs : \A c \in bs : c <= b

Begin(b, resumed, limit) ==
    /\ scan' = [phase |-> "walking", batch |-> b, resumed |-> resumed,
                limited |-> FALSE, limit |-> limit, at |-> 0,
                from |-> batches'[b].last, last |-> batches'[b].last,
                scanned |-> batches'[b].scanned, seen |-> {}, pending |-> <<>>]
    /\ scans' = scans + 1
    /\ UNCHANGED <<tree, locations, libraryChanges>>

StartScan(limit) ==
    /\ scan = Idle /\ scans < MaxScans /\ Len(batches) < MaxBatches
    /\ batches' = Append(batches,
                         [status |-> "running", last |-> NoPath, scanned |-> 0])
    /\ settled' = Paths
    /\ Begin(Len(batches) + 1, FALSE, limit)

ResumeScan(limit) ==
    /\ scan = Idle /\ scans < MaxScans /\ Resumable # {}
    /\ LET b == Newest(Resumable)
       IN /\ batches' = [batches EXCEPT ![b].status = "running"]
          /\ Begin(b, TRUE, limit)
    /\ UNCHANGED settled

-----------------------------------------------------------------------------
(* The walk                                                                *)

Ahead == {p \in Paths : WalkOrder[p] > scan.at}
Comes(p) == p \in Ahead /\ \A q \in Ahead : WalkOrder[p] <= WalkOrder[q]

FlushDue == \/ Len(scan.pending) >= BatchSize
            \/ scan.pending # <<>> /\ (scan.limited \/ Ahead = {})
Walking == scan.phase = "walking" /\ ~scan.limited /\ ~FlushDue

\* Mutant of Visit: compared with the newest path, not with the checkpoint.
VisitAfterNewest(p) ==
    /\ Walking /\ Comes(p) /\ tree[p] # Absent
    /\ scan' =
         IF Key(p) <= Key(scan.last)
         THEN [scan EXCEPT !.at = WalkOrder[p], !.seen = @ \union {p}]
         ELSE IF scan.limit # 0 /\ scan.scanned >= scan.limit
         THEN [scan EXCEPT !.limited = TRUE]
         ELSE [scan EXCEPT !.at = WalkOrder[p], !.seen = @ \union {p},
                           !.scanned = @ + 1, !.last = p,
                           !.pending = Append(@, [path |-> p, stamp |-> tree[p]])]
    /\ UNCHANGED <<tree, locations, batches, scans, libraryChanges, settled>>

\* A file the walk yields: passed over when its key is not after the
\* checkpoint, otherwise counted against the limit and queued for the flush.
Visit(p) ==
    /\ Walking /\ Comes(p) /\ tree[p] # Absent
    /\ scan' =
         IF Key(p) <= Key(scan.from)
         THEN [scan EXCEPT !.at = WalkOrder[p], !.seen = @ \union {p}]
         ELSE IF scan.limit # 0 /\ scan.scanned >= scan.limit
         THEN [scan EXCEPT !.limited = TRUE]
         ELSE [scan EXCEPT !.at = WalkOrder[p], !.seen = @ \union {p},
                           !.scanned = @ + 1, !.last = p,
                           !.pending = Append(@, [path |-> p,
                                                  stamp |-> tree[p]])]
    /\ UNCHANGED <<tree, locations, batches, scans, libraryChanges, settled>>

\* No file is there, or it came after its directory was listed.
PassBy(p) ==
    /\ Walking /\ Comes(p) /\ (tree[p] = Absent \/ p \notin settled)
    /\ scan' = [scan EXCEPT !.at = WalkOrder[p]]
    /\ UNCHANGED <<tree, locations, batches, scans, libraryChanges, settled>>

\* walk_error, or stat failing: the error is counted and the walk goes on.
Unreadable(p) ==
    /\ "unreadable" \in Faults
    /\ Walking /\ Comes(p) /\ tree[p] # Absent
    /\ scan' = [scan EXCEPT !.at = WalkOrder[p]]
    /\ settled' = settled \ {p}
    /\ UNCHANGED <<tree, locations, batches, scans, libraryChanges>>

-----------------------------------------------------------------------------
(* Transactions                                                            *)

Checkpoint(status) ==
    [batches EXCEPT ![scan.batch] =
        [status |-> status, last |-> scan.last, scanned |-> scan.scanned]]

Found(p) == \E i \in DOMAIN scan.pending : scan.pending[i].path = p
StampFound(p) == LET i == CHOOSE j \in DOMAIN scan.pending :
                              scan.pending[j].path = p
                 IN scan.pending[i].stamp

\* record_archive of every pending file and update_checkpoint, atomically.
Flush ==
    /\ scan.phase = "walking" /\ FlushDue
    /\ locations' = [p \in Paths |->
                        IF Found(p)
                        THEN [status |-> "current", stamp |-> StampFound(p)]
                        ELSE locations[p]]
    /\ batches' = Checkpoint("running")
    /\ scan' = [scan EXCEPT !.pending = <<>>]
    /\ UNCHANGED <<tree, scans, libraryChanges, settled>>

WalkEnds == scan.phase = "walking" /\ ~FlushDue /\ (scan.limited \/ Ahead = {})

\* Mutant of MarkMissing: also after a walk that the limit cut short.
MarkMissingWhenLimited ==
    /\ WalkEnds /\ ~scan.resumed
    /\ locations' = [p \in Paths |->
                        IF locations[p].status = "current" /\ p \notin scan.seen
                        THEN [locations[p] EXCEPT !.status = "retired"]
                        ELSE locations[p]]
    /\ scan' = [scan EXCEPT !.phase = "finishing"]
    /\ UNCHANGED <<tree, batches, scans, libraryChanges, settled>>

\* mark_missing: only after a complete walk that was not resumed.
MarkMissing ==
    /\ WalkEnds /\ ~scan.limited /\ ~scan.resumed
    /\ locations' = [p \in Paths |->
                        IF locations[p].status = "current" /\ p \notin scan.seen
                        THEN [locations[p] EXCEPT !.status = "retired"]
                        ELSE locations[p]]
    /\ scan' = [scan EXCEPT !.phase = "finishing"]
    /\ UNCHANGED <<tree, batches, scans, libraryChanges, settled>>

\* A limited scan leaves its batch running with its checkpoint.
EndLimited ==
    /\ WalkEnds /\ scan.limited
    /\ batches' = Checkpoint("running")
    /\ scan' = Idle
    /\ UNCHANGED <<tree, locations, scans, libraryChanges, settled>>

CompleteBatch ==
    /\ \/ scan.phase = "finishing"
       \/ WalkEnds /\ ~scan.limited /\ scan.resumed
    /\ batches' = [batches EXCEPT ![scan.batch].status = "completed"]
    /\ scan' = Idle
    /\ UNCHANGED <<tree, locations, scans, libraryChanges, settled>>

\* An exception (a busy database, the progress callback): the transaction is
\* rolled back, then last_path, the pending files' too, becomes the checkpoint.
ScanRaises ==
    /\ "exception" \in Faults /\ scan # Idle
    /\ batches' = Checkpoint("failed")
    /\ scan' = Idle
    /\ UNCHANGED <<tree, locations, scans, libraryChanges, settled>>

ScanCrashes ==
    /\ "crash" \in Faults /\ scan # Idle
    /\ scan' = Idle
    /\ UNCHANGED <<tree, locations, batches, scans, libraryChanges, settled>>

-----------------------------------------------------------------------------
(* The library's other users                                               *)

ChangeFile(p) ==
    /\ libraryChanges < MaxLibraryChanges
    /\ \E stamp \in {Absent, libraryChanges + 1} :
          stamp # tree[p] /\ tree' = [tree EXCEPT ![p] = stamp]
    /\ libraryChanges' = libraryChanges + 1
    /\ settled' = settled \ {p}
    /\ UNCHANGED <<locations, batches, scan, scans>>

ScanNext ==
    \/ \E limit \in Limits : StartScan(limit) \/ ResumeScan(limit)
    \/ \E p \in Paths : Visit(p) \/ PassBy(p) \/ Unreadable(p) \/ ChangeFile(p)
    \/ Flush \/ MarkMissing \/ EndLimited \/ CompleteBatch
    \/ ScanRaises \/ ScanCrashes

ScanSpec == ScanInit /\ [][ScanNext]_scanVars

-----------------------------------------------------------------------------
(* Properties                                                              *)

Completes == scan' = Idle /\ \E b \in DOMAIN batches :
                 batches[b].status # "completed" /\ batches'[b].status = "completed"
Recorded(p) == locations[p] = [status |-> "current", stamp |-> tree[p]]

\* A batch that ran from its start to its end describes the library: what
\* stayed where it was is current with its stamp, what stayed away is not.
FreshScanIsExact ==
    [][Completes /\ ~scan.resumed =>
          \A p \in settled : IF tree[p] = Absent
                             THEN locations[p].status # "current"
                             ELSE Recorded(p)]_scanVars

\* A location is retired only when its file was away, changed or unreadable
\* at some time since the batch began, whatever was limited or interrupted.
RetiredIsGone ==
    [][locations' # locations => \A p \in Paths :
          locations[p].status = "current" /\ locations'[p].status = "retired"
              => p \notin settled \/ tree[p] = Absent]_scanVars

\* What a scan and what a retired path leave on record, together: the listing of
\* a fresh scan is the library's, and a path is given up only when it is gone.
ScanSafety == FreshScanIsExact /\ RetiredIsGone

=============================================================================
