---------------------------- MODULE CatalogueProofs ----------------------------
(***************************************************************************)
(* What holds of the tools that keep the catalogue and the library in step *)
(* with each other: discovery, the stages that record a file's bytes, the  *)
(* two that take files away, the verdicts on superseded members of a       *)
(* family, the cases staged for review, the census, the decisions to       *)
(* retire or supersede an archive, and the plan of what history to keep.   *)
(***************************************************************************)
EXTENDS LibraryScan, ArchiveStages, Removals, Supersession, ReviewCases, Census, Dispositions,
        Retention, FiniteSetTheorems, WellFoundedInduction, TLAPS

-----------------------------------------------------------------------------
(* Numbers                                                                 *)

(* A set of natural numbers has a least one, and a greatest if bounded.   *)
LEMMA LeastExists ==
  ASSUME NEW T, T \subseteq Nat, T # {}
  PROVE  \E m \in T : \A k \in T : m <= k
<1> DEFINE R == OpToRel(<, Nat)
<1>1. \A k, m \in Nat : k < m => <<k, m>> \in R
  BY DEF OpToRel
<1>2. IsWellFoundedOn(R, Nat)
  BY NatLessThanWellFounded
<1> HIDE DEF R
<1>3. PICK m \in T : \A k \in T : <<k, m>> \notin R
  BY <1>2, WFMin
<1>4. \A k \in T : m <= k
  <2> SUFFICES ASSUME NEW k \in T, ~ m <= k PROVE FALSE
    OBVIOUS
  <2>1. k < m /\ k \in Nat /\ m \in Nat
    OBVIOUS
  <2> QED
    BY <1>1, <1>3, <2>1
<1> QED
  BY <1>4

LEMMA GreatestExists ==
  ASSUME NEW T, NEW n \in Nat, T \subseteq 0..n, T # {}
  PROVE  \E m \in T : \A k \in T : k <= m
<1> DEFINE Rest == {n - k : k \in T}
<1>1. Rest \subseteq Nat
  OBVIOUS
<1>2. PICK k \in T : TRUE
  OBVIOUS
<1>3. n - k \in Rest
  OBVIOUS
<1>4. PICK m \in Rest : \A l \in Rest : m <= l
  <2> HIDE DEF Rest
  <2> QED
    BY <1>1, <1>3, LeastExists
<1>5. PICK g \in T : m = n - g
  BY <1>4
<1>6. \A l \in T : n - g <= n - l
  BY <1>4, <1>5
<1>7. \A l \in T : l <= g
  BY <1>6
<1> QED
  BY <1>7

-----------------------------------------------------------------------------
(* Library discovery                                                       *)

ScanPlaces == Paths \cup {NoPath}
LocationRows == [status : {"unknown", "current", "retired"}, stamp : Nat]
BatchRows == [status : {"running", "failed", "completed"}, last : ScanPlaces, scanned : Nat]
Entries == [path : Paths, stamp : Nat]
Scans ==
  [phase : {"walking", "finishing"}, batch : Nat \ {0}, resumed : BOOLEAN, limited : BOOLEAN,
   limit : Nat, at : Nat, from : ScanPlaces, last : ScanPlaces, scanned : Nat,
   seen : SUBSET Paths, pending : Seq(Entries)]
ScanTyped ==
  /\ tree \in [Paths -> Nat] /\ locations \in [Paths -> LocationRows]
  /\ batches \in Seq(BatchRows)
  /\ scan \in {Idle} \cup Scans
  /\ scan # Idle => scan.batch \in DOMAIN batches
  /\ libraryChanges \in Nat /\ settled \subseteq Paths

(* What the walk has seen of the files nobody touched since the newest     *)
(* batch began: all that it has passed and that are there, and no others,  *)
(* with the stamps they have.                                              *)
WalkHolds ==
  \A p \in settled :
    /\ p \in scan.seen => tree[p] # Absent
    /\ WalkOrder[p] <= scan.at /\ tree[p] # Absent => p \in scan.seen
    /\ \A i \in DOMAIN scan.pending : scan.pending[i].path = p => scan.pending[i].stamp = tree[p]

Exact(p) == IF tree[p] = Absent THEN locations[p].status # "current" ELSE Recorded(p)

(* A batch that was not resumed began before every path, so that each file *)
(* it has seen waits for a flush or is recorded; once the missing ones are *)
(* marked, the locations are the library's.                                *)
FreshHolds ==
  /\ ~scan.resumed => scan.from = NoPath
  /\ ~scan.resumed /\ scan.phase = "walking" =>
       \A p \in settled \cap scan.seen : Found(p) \/ Recorded(p)
  /\ scan.phase = "finishing" /\ ~scan.resumed => \A p \in settled : Exact(p)

ScanInv == ScanTyped /\ (scan # Idle => WalkHolds /\ FreshHolds)

LEMMA ScanBegins == ScanInit => ScanInv
  BY DEF ScanInit, ScanInv, ScanTyped, LocationRows, NoRow, Absent

LEMMA Kinds ==
  /\ Idle.phase = "idle" /\ Idle \notin Scans
  /\ ScanTyped => (scan # Idle <=> scan \in Scans)
<1>1. Idle.phase = "idle" /\ \A s \in Scans : s.phase # "idle"
  BY DEF Idle, Scans
<1> QED
  BY <1>1 DEF ScanTyped

(* A scan that starts has passed nothing and seen nothing.                 *)
LEMMA StartsHold ==
  ASSUME ScanInv, NEW limit \in Limits, StartScan(limit) \/ ResumeScan(limit)
  PROVE  ScanInv'
<1>1. PICK b \in DOMAIN batches', resumed \in BOOLEAN :
        /\ Begin(b, resumed, limit) /\ batches' \in Seq(BatchRows) /\ settled' \subseteq Paths
        /\ ~resumed => batches'[b].last = NoPath
  <2>1. CASE StartScan(limit)
    <3>1. [status |-> "running", last |-> NoPath, scanned |-> 0] \in BatchRows
      BY DEF BatchRows, ScanPlaces
    <3>2. /\ batches' \in Seq(BatchRows) /\ Len(batches) + 1 \in DOMAIN batches'
          /\ batches'[Len(batches) + 1].last = NoPath
      BY <2>1, <3>1 DEF StartScan, ScanInv, ScanTyped
    <3> QED
      BY <2>1, <3>2 DEF StartScan
  <2>2. CASE ResumeScan(limit)
    <3> DEFINE b == Newest(Resumable)
    <3>1. b \in Resumable
      <4>1. Resumable \subseteq 0..Len(batches) /\ Len(batches) \in Nat /\ Resumable # {}
        BY <2>2 DEF ResumeScan, Resumable, ScanInv, ScanTyped
      <4> QED
        BY <4>1, GreatestExists DEF Newest
    <3>2. batches' = [batches EXCEPT ![b].status = "running"] /\ Begin(b, TRUE, limit) /\ UNCHANGED settled
      BY <2>2 DEF ResumeScan
    <3>3. batches[b] \in BatchRows /\ b \in DOMAIN batches
      BY <3>1 DEF Resumable, ScanInv, ScanTyped
    <3> HIDE DEF b
    <3>4. [batches[b] EXCEPT !.status = "running"] \in BatchRows
      BY <3>3 DEF BatchRows
    <3>5. batches' \in Seq(BatchRows) /\ b \in DOMAIN batches'
      BY <3>2, <3>3, <3>4 DEF ScanInv, ScanTyped
    <3> QED
      BY <3>2, <3>5 DEF ScanInv, ScanTyped
  <2> QED
    BY <2>1, <2>2
<1>2. batches'[b] \in BatchRows /\ b \in Nat \ {0}
  BY <1>1
<1>3. scan' \in Scans /\ scan' # Idle /\ scan'.batch = b
  BY <1>1, <1>2, Kinds, ScanAssumption DEF Begin, Scans, BatchRows
<1>4. ScanTyped'
  BY <1>1, <1>3 DEF Begin, ScanInv, ScanTyped
<1>5. WalkHolds'
  BY <1>1, <1>4, ScanAssumption DEF Begin, WalkHolds, ScanTyped
<1>6. FreshHolds'
  BY <1>1 DEF Begin, FreshHolds
<1> QED
  BY <1>4, <1>5, <1>6 DEF ScanInv

(* A step of the walk is past one path more, unless the limit ends it.     *)
LEMMA WalksHold ==
  ASSUME ScanInv, NEW p \in Paths, Visit(p) \/ PassBy(p) \/ Unreadable(p)
  PROVE  ScanInv'
<1>1. /\ scan \in Scans /\ scan.phase = "walking" /\ Comes(p) /\ WalkHolds /\ FreshHolds /\ ScanTyped
      /\ UNCHANGED <<tree, locations, batches, libraryChanges>> /\ settled' \subseteq settled
  BY Kinds DEF Visit, PassBy, Unreadable, Walking, Idle, ScanInv, ScanTyped, scanVars
<1>2. \A q \in Paths : WalkOrder[q] <= WalkOrder[p] => q = p \/ WalkOrder[q] <= scan.at
  <2> SUFFICES ASSUME NEW q \in Paths, WalkOrder[q] <= WalkOrder[p], ~ WalkOrder[q] <= scan.at
               PROVE  q = p
    OBVIOUS
  <2>1. scan.at \in Nat /\ WalkOrder[p] \in Nat /\ WalkOrder[q] \in Nat
    BY <1>1, ScanAssumption DEF Scans
  <2>2. WalkOrder[p] <= WalkOrder[q]
    BY <1>1, <2>1 DEF Comes, Ahead
  <2> QED
    BY <2>1, <2>2, ScanAssumption
<1>3. \A q \in settled' : /\ q \in scan.seen => tree[q] # Absent
                          /\ WalkOrder[q] <= scan.at /\ tree[q] # Absent => q \in scan.seen
                          /\ \A i \in DOMAIN scan.pending :
                               scan.pending[i].path = q => scan.pending[i].stamp = tree[q]
                          /\ q \in Paths
  BY <1>1 DEF WalkHolds, ScanTyped
<1>4. CASE PassBy(p) \/ Unreadable(p)
  <2>1. scan' = [scan EXCEPT !.at = WalkOrder[p]] /\ (p \in settled' => tree[p] = Absent)
    BY <1>4 DEF PassBy, Unreadable
  <2>2. ScanTyped'
    BY <1>1, <2>1, Kinds, ScanAssumption DEF ScanTyped, Scans
  <2>3. /\ scan'.at = WalkOrder[p] /\ scan'.seen = scan.seen /\ scan'.pending = scan.pending
        /\ scan'.resumed = scan.resumed /\ scan'.from = scan.from /\ scan'.phase = "walking"
    BY <1>1, <2>1 DEF Scans
  <2>4. WalkHolds'
    BY <1>1, <1>2, <1>3, <2>1, <2>3 DEF WalkHolds
  <2>5. FreshHolds'
    BY <1>1, <2>3 DEF FreshHolds, Found, Recorded
  <2> QED
    BY <2>2, <2>4, <2>5 DEF ScanInv
<1>5. CASE Visit(p)
  <2> DEFINE entry == [path |-> p, stamp |-> tree[p]]
  <2>1. tree[p] # Absent /\ entry \in Entries /\ UNCHANGED settled
    BY <1>1, <1>5 DEF Visit, ScanTyped, Entries
  <2>2. CASE Key(p) <= Key(scan.from)
    <3>1. scan' = [scan EXCEPT !.at = WalkOrder[p], !.seen = @ \union {p}]
      BY <1>5, <2>2 DEF Visit
    <3>2. ScanTyped'
      BY <1>1, <3>1, Kinds, ScanAssumption DEF ScanTyped, Scans
    <3>3. /\ scan'.at = WalkOrder[p] /\ scan'.seen = scan.seen \cup {p} /\ scan'.pending = scan.pending
          /\ scan'.resumed = scan.resumed /\ scan'.from = scan.from /\ scan'.phase = "walking"
      BY <1>1, <3>1 DEF Scans
    <3>4. scan.resumed
      BY <1>1, <2>2, ScanAssumption DEF FreshHolds, Key, Scans
    <3>5. WalkHolds'
      BY <1>1, <1>2, <1>3, <2>1, <3>3 DEF WalkHolds
    <3>6. FreshHolds'
      BY <3>3, <3>4 DEF FreshHolds
    <3> QED
      BY <3>2, <3>5, <3>6 DEF ScanInv
  <2>3. CASE ~(Key(p) <= Key(scan.from)) /\ scan.limit # 0 /\ scan.scanned >= scan.limit
    <3>1. scan' = [scan EXCEPT !.limited = TRUE]
      BY <1>5, <2>3 DEF Visit
    <3>2. ScanTyped'
      BY <1>1, <3>1, Kinds DEF ScanTyped, Scans
    <3>3. /\ scan'.at = scan.at /\ scan'.seen = scan.seen /\ scan'.pending = scan.pending
          /\ scan'.resumed = scan.resumed /\ scan'.from = scan.from /\ scan'.phase = "walking"
      BY <1>1, <3>1 DEF Scans
    <3>4. WalkHolds'
      BY <1>1, <1>3, <3>3 DEF WalkHolds
    <3>5. FreshHolds'
      BY <1>1, <2>1, <3>3 DEF FreshHolds, Found, Recorded
    <3> QED
      BY <3>2, <3>4, <3>5 DEF ScanInv
  <2>4. CASE ~(Key(p) <= Key(scan.from)) /\ ~(scan.limit # 0 /\ scan.scanned >= scan.limit)
    <3>1. scan' = [scan EXCEPT !.at = WalkOrder[p], !.seen = @ \union {p}, !.scanned = @ + 1,
                               !.last = p, !.pending = Append(@, entry)]
      BY <1>5, <2>4 DEF Visit
    <3>2. Append(scan.pending, entry) \in Seq(Entries)
      BY <1>1, <2>1 DEF Scans
    <3> HIDE DEF entry
    <3>3. ScanTyped'
      <4>1. scan.seen \union {p} \in SUBSET Paths /\ WalkOrder[p] \in Nat /\ scan.scanned + 1 \in Nat
        BY <1>1, ScanAssumption DEF Scans
      <4>2. scan' \in Scans /\ scan'.batch = scan.batch
        BY <1>1, <3>1, <3>2, <4>1 DEF Scans, ScanPlaces
      <4> QED
        BY <1>1, <2>1, <4>2, Kinds DEF ScanTyped
    <3>4. /\ scan'.at = WalkOrder[p] /\ scan'.seen = scan.seen \cup {p}
          /\ scan'.pending = Append(scan.pending, entry)
          /\ scan'.resumed = scan.resumed /\ scan'.from = scan.from /\ scan'.phase = "walking"
      BY <1>1, <3>1 DEF Scans
    <3>5. /\ \A i \in DOMAIN scan'.pending :
               \/ i \in DOMAIN scan.pending /\ scan'.pending[i] = scan.pending[i]
               \/ scan'.pending[i] = entry
          /\ \A i \in DOMAIN scan.pending : i \in DOMAIN scan'.pending /\ scan'.pending[i] = scan.pending[i]
          /\ \E i \in DOMAIN scan'.pending : scan'.pending[i] = entry
      BY <1>1, <2>1, <3>4 DEF Scans
    <3>6. entry.path = p /\ entry.stamp = tree[p]
      BY DEF entry
    <3>7. WalkHolds'
      BY <1>1, <1>2, <1>3, <2>1, <3>4, <3>5, <3>6 DEF WalkHolds
    <3>8. FreshHolds'
      <4>1. \A q \in Paths : Found(q) \/ q = p => Found(q)'
        BY <3>5, <3>6 DEF Found
      <4>2. \A q \in Paths : Recorded(q) => Recorded(q)'
        BY <1>1 DEF Recorded
      <4> QED
        BY <1>1, <2>1, <3>4, <4>1, <4>2 DEF FreshHolds, ScanTyped
    <3> QED
      BY <3>3, <3>7, <3>8 DEF ScanInv
  <2> QED
    BY <2>2, <2>3, <2>4
<1> QED
  BY <1>4, <1>5

(* What is flushed is recorded as it was seen.                             *)
LEMMA FlushHolds ==
  ASSUME ScanInv, Flush
  PROVE  ScanInv' /\ \A p \in Paths : locations'[p] # locations[p] => locations'[p].status = "current"
<1>1. /\ scan \in Scans /\ scan.phase = "walking" /\ WalkHolds /\ FreshHolds /\ ScanTyped
      /\ UNCHANGED <<tree, libraryChanges, settled>>
  BY Kinds DEF Flush, Idle, ScanInv, ScanTyped
<1>2. \A p \in Paths : Found(p) => StampFound(p) \in Nat /\ (p \in settled => StampFound(p) = tree[p])
  <2> SUFFICES ASSUME NEW p \in Paths, Found(p)
               PROVE  StampFound(p) \in Nat /\ (p \in settled => StampFound(p) = tree[p])
    OBVIOUS
  <2> DEFINE i == CHOOSE j \in DOMAIN scan.pending : scan.pending[j].path = p
  <2>1. i \in DOMAIN scan.pending /\ scan.pending[i].path = p
    BY DEF Found
  <2>2. StampFound(p) = scan.pending[i].stamp
    BY DEF StampFound
  <2> HIDE DEF i
  <2>3. scan.pending[i].stamp \in Nat
    <3>1. scan.pending \in Seq(Entries)
      BY <1>1 DEF Scans
    <3>2. scan.pending[i] \in Entries
      BY <2>1, <3>1
    <3> QED
      BY <3>2 DEF Entries
  <2> QED
    BY <1>1, <2>1, <2>2, <2>3 DEF WalkHolds
<1>3. /\ locations' \in [Paths -> LocationRows]
      /\ \A p \in Paths : locations'[p] = IF Found(p) THEN [status |-> "current", stamp |-> StampFound(p)]
                                          ELSE locations[p]
  <2>1. \A p \in Paths : Found(p) => [status |-> "current", stamp |-> StampFound(p)] \in LocationRows
    BY <1>2 DEF LocationRows
  <2> QED
    BY <1>1, <2>1 DEF Flush, ScanTyped
<1>4. batches' \in Seq(BatchRows) /\ DOMAIN batches' = DOMAIN batches
  <2>1. [status |-> "running", last |-> scan.last, scanned |-> scan.scanned] \in BatchRows
    BY <1>1 DEF Scans, BatchRows
  <2> QED
    BY <1>1, <2>1, Kinds DEF Flush, Checkpoint, ScanTyped
<1>5. scan' = [scan EXCEPT !.pending = <<>>]
  BY DEF Flush
<1>6. /\ scan' \in Scans /\ scan'.at = scan.at /\ scan'.seen = scan.seen /\ scan'.pending = <<>>
      /\ scan'.resumed = scan.resumed /\ scan'.from = scan.from /\ scan'.phase = "walking"
      /\ scan'.batch = scan.batch
  <2>1. <<>> \in Seq(Entries)
    OBVIOUS
  <2> QED
    BY <1>1, <1>5, <2>1 DEF Scans
<1>7. ScanTyped'
  BY <1>1, <1>3, <1>4, <1>6, Kinds DEF ScanTyped
<1>8. WalkHolds'
  BY <1>1, <1>6 DEF WalkHolds
<1>9. FreshHolds'
  <2>1. \A p \in settled : Found(p) \/ Recorded(p) => Recorded(p)'
    BY <1>1, <1>2, <1>3 DEF Recorded, ScanTyped
  <2> QED
    BY <1>1, <1>6, <2>1 DEF FreshHolds
<1> QED
  BY <1>3, <1>7, <1>8, <1>9 DEF ScanInv

(* The walk is over: everything is passed, and nothing waits.              *)
LEMMA WalkedAll ==
  ASSUME ScanInv, WalkEnds, ~scan.limited
  PROVE  /\ scan \in Scans /\ scan.pending = <<>>
         /\ \A p \in settled : tree[p] # Absent <=> p \in scan.seen
<1>1. scan \in Scans /\ WalkHolds /\ ScanTyped
  BY Kinds DEF WalkEnds, Idle, ScanInv, ScanTyped
<1>2. Ahead = {} /\ scan.pending = <<>>
  BY <1>1 DEF WalkEnds, FlushDue
<1>3. \A p \in Paths : WalkOrder[p] <= scan.at
  BY <1>1, <1>2, ScanAssumption DEF Ahead, Scans
<1> QED
  BY <1>1, <1>2, <1>3 DEF WalkHolds, ScanTyped

(* What is marked missing is away, unless it changed meanwhile; and of a   *)
(* batch that began with this scan all is recorded by then.                *)
LEMMA MarkHolds ==
  ASSUME ScanInv, MarkMissing
  PROVE  /\ ScanInv'
         /\ \A p \in settled : locations[p].status = "current" /\ locations'[p].status = "retired" =>
              tree[p] = Absent
<1>1. /\ scan \in Scans /\ scan.phase = "walking" /\ WalkHolds /\ FreshHolds /\ ScanTyped /\ ~scan.resumed
      /\ UNCHANGED <<tree, batches, libraryChanges, settled>>
  BY Kinds DEF MarkMissing, WalkEnds, Idle, ScanInv, ScanTyped
<1>2. scan.pending = <<>> /\ \A p \in settled : tree[p] # Absent <=> p \in scan.seen
  BY WalkedAll DEF MarkMissing
<1>3. /\ locations' \in [Paths -> LocationRows]
      /\ \A p \in Paths : locations'[p] = IF locations[p].status = "current" /\ p \notin scan.seen
                                          THEN [locations[p] EXCEPT !.status = "retired"]
                                          ELSE locations[p]
  <2>1. \A p \in Paths : [locations[p] EXCEPT !.status = "retired"] \in LocationRows
    BY <1>1 DEF ScanTyped, LocationRows
  <2> QED
    BY <1>1, <2>1 DEF MarkMissing, ScanTyped
<1>4. scan' = [scan EXCEPT !.phase = "finishing"]
  BY DEF MarkMissing
<1>5. /\ scan' \in Scans /\ scan'.at = scan.at /\ scan'.seen = scan.seen /\ scan'.pending = scan.pending
      /\ scan'.resumed = scan.resumed /\ scan'.from = scan.from /\ scan'.phase = "finishing"
      /\ scan'.batch = scan.batch
  BY <1>1, <1>4 DEF Scans
<1>6. ScanTyped'
  BY <1>1, <1>3, <1>5, Kinds DEF ScanTyped
<1>7. WalkHolds'
  BY <1>1, <1>5 DEF WalkHolds
<1>8. \A p \in settled : Exact(p)'
  <2> SUFFICES ASSUME NEW p \in settled PROVE Exact(p)'
    OBVIOUS
  <2>1. p \in Paths /\ locations[p] \in LocationRows
    BY <1>1 DEF ScanTyped
  <2>2. CASE p \in scan.seen
    <3>1. Recorded(p) /\ tree[p] # Absent /\ locations'[p] = locations[p]
      BY <1>1, <1>2, <1>3, <2>1, <2>2 DEF FreshHolds, Found
    <3> QED
      BY <1>1, <3>1 DEF Exact, Recorded
  <2>3. CASE p \notin scan.seen
    <3>1. tree[p] = Absent /\ locations'[p].status # "current"
      BY <1>2, <1>3, <2>1, <2>3 DEF LocationRows
    <3> QED
      BY <1>1, <3>1 DEF Exact
  <2> QED
    BY <2>2, <2>3
<1>9. FreshHolds'
  BY <1>1, <1>5, <1>8 DEF FreshHolds
<1> QED
  BY <1>1, <1>2, <1>3, <1>6, <1>7, <1>9 DEF ScanInv, ScanTyped

LEMMA EndsHold ==
  ASSUME ScanInv, EndLimited \/ CompleteBatch \/ ScanRaises \/ ScanCrashes
  PROVE  ScanInv'
<1>1. /\ ScanTyped /\ scan \in Scans /\ scan.batch \in DOMAIN batches /\ batches[scan.batch] \in BatchRows
      /\ scan' = Idle /\ UNCHANGED <<tree, locations, libraryChanges, settled>>
  BY Kinds DEF EndLimited, CompleteBatch, ScanRaises, ScanCrashes, WalkEnds, Idle, ScanInv, ScanTyped
<1>2. \A status \in {"running", "failed"} : Checkpoint(status) \in Seq(BatchRows)
  <2> SUFFICES ASSUME NEW status \in {"running", "failed"} PROVE Checkpoint(status) \in Seq(BatchRows)
    OBVIOUS
  <2>1. [status |-> status, last |-> scan.last, scanned |-> scan.scanned] \in BatchRows
    BY <1>1 DEF Scans, BatchRows
  <2> QED
    BY <1>1, <2>1 DEF Checkpoint, ScanTyped
<1>3. [batches EXCEPT ![scan.batch].status = "completed"] \in Seq(BatchRows)
  <2>1. [batches[scan.batch] EXCEPT !.status = "completed"] \in BatchRows
    BY <1>1 DEF BatchRows
  <2> QED
    BY <1>1, <2>1 DEF ScanTyped
<1>4. batches' \in Seq(BatchRows)
  BY <1>1, <1>2, <1>3 DEF EndLimited, CompleteBatch, ScanRaises, ScanCrashes, ScanTyped
<1> QED
  BY <1>1, <1>4 DEF ScanInv, ScanTyped

LEMMA ChangesHold ==
  ASSUME ScanInv, NEW p \in Paths, ChangeFile(p)
  PROVE  ScanInv'
<1>1. /\ ScanTyped /\ settled' = settled \ {p} /\ libraryChanges' = libraryChanges + 1
      /\ UNCHANGED <<locations, batches, scan>>
      /\ \A q \in settled' : tree'[q] = tree[q]
  BY DEF ChangeFile, ScanInv, ScanTyped
<1>2. tree' \in [Paths -> Nat]
  BY <1>1 DEF ChangeFile, ScanTyped, Absent
<1>3. scan # Idle => WalkHolds'
  BY <1>1 DEF WalkHolds, ScanInv
<1>4. scan # Idle => FreshHolds'
  BY <1>1 DEF FreshHolds, ScanInv, Found, Recorded, Exact
<1> QED
  BY <1>1, <1>2, <1>3, <1>4 DEF ScanInv, ScanTyped

LEMMA ScanStep == ScanInv /\ [ScanNext]_scanVars => ScanInv'
<1> SUFFICES ASSUME ScanInv, [ScanNext]_scanVars PROVE ScanInv'
  OBVIOUS
<1>1. CASE UNCHANGED scanVars
  BY <1>1 DEF scanVars, ScanInv, ScanTyped, WalkHolds, FreshHolds, Found, Recorded, Exact
<1> QED
  BY <1>1, StartsHold, WalksHold, FlushHolds, MarkHolds, EndsHold, ChangesHold DEF ScanNext

(* A fresh scan that completes describes the library, except for what      *)
(* changed under it; and nothing is retired that was there all the time,   *)
(* however the walks before it were limited, interrupted or resumed.       *)
THEOREM ScansAreTrue == ScanSpec => ScanSafety
<1> DEFINE FreshStep == Completes /\ ~scan.resumed =>
             \A p \in settled : IF tree[p] = Absent THEN locations[p].status # "current" ELSE Recorded(p)
           RetireStep == locations' # locations => \A p \in Paths :
             locations[p].status = "current" /\ locations'[p].status = "retired"
               => p \notin settled \/ tree[p] = Absent
<1>1. ScanInv /\ [ScanNext]_scanVars => [FreshStep /\ RetireStep]_scanVars
  <2> SUFFICES ASSUME ScanInv, ScanNext PROVE FreshStep /\ RetireStep
    OBVIOUS
  <2>1. FreshStep
    <3> SUFFICES ASSUME Completes, ~scan.resumed PROVE \A p \in settled : Exact(p)
      BY DEF Exact
    <3>1. CompleteBatch
      <4>1. CASE EndLimited \/ ScanRaises
        BY <4>1 DEF EndLimited, ScanRaises, Checkpoint, Completes
      <4>2. CASE \E limit \in Limits : StartScan(limit) \/ ResumeScan(limit)
        <5>1. scan'.phase = "walking"
          BY <4>2 DEF StartScan, ResumeScan, Begin
        <5> QED
          BY <5>1 DEF Completes, Idle
      <4>3. CASE Flush
        BY <4>3, Kinds DEF Flush, Completes, Idle, ScanInv, ScanTyped, Scans
      <4>4. CASE MarkMissing
        BY <4>4 DEF MarkMissing, Completes
      <4>5. CASE ScanCrashes \/ \E p \in Paths : Visit(p) \/ PassBy(p) \/ Unreadable(p) \/ ChangeFile(p)
        BY <4>5 DEF Visit, PassBy, Unreadable, ChangeFile, ScanCrashes, Completes
      <4> QED
        BY <4>1, <4>2, <4>3, <4>4, <4>5 DEF ScanNext
    <3>2. scan.phase = "finishing" /\ scan # Idle
      BY <3>1 DEF CompleteBatch, Idle
    <3> QED
      BY <3>2 DEF ScanInv, FreshHolds
  <2>2. RetireStep
    <3> SUFFICES ASSUME locations' # locations, NEW p \in Paths, p \in settled,
                        locations[p].status = "current", locations'[p].status = "retired"
                 PROVE  tree[p] = Absent
      OBVIOUS
    <3>1. Flush \/ MarkMissing
      BY DEF ScanNext, StartScan, ResumeScan, Begin, Visit, PassBy, Unreadable, ChangeFile, EndLimited,
             CompleteBatch, ScanRaises, ScanCrashes
    <3> QED
      BY <3>1, FlushHolds, MarkHolds
  <2> QED
    BY <2>1, <2>2
<1> QED
  BY <1>1, ScanBegins, ScanStep, PTL DEF ScanSpec, ScanSafety, FreshScanIsExact, RetiredIsGone

-----------------------------------------------------------------------------
(* Removals                                                                *)

Dests == Names \X Numbers
Kepts == (1..MaxRuns) \X ArchivePaths
FileBytes == {Stored[p] : p \in ArchivePaths} \cup {"old", NoFile, NewBytes}
NextMovers == [phase : {"next"}, queue : Seq(ArchivePaths), names : SUBSET Dests]
MovedMovers ==
  [phase : {"moved"}, archive : ArchivePaths, to : Dests, queue : Seq(ArchivePaths), names : SUBSET Dests]
Pairs == ArchivePaths \X ArchivePaths
Dedupers == [phase : {"next", "verified", "moved"}, queue : Seq(Pairs)]
FilesTyped ==
  /\ library \in [ArchivePaths -> FileBytes] /\ quarantine \in [Dests -> FileBytes]
  /\ backup \in [Kepts -> FileBytes]
RecordsTyped ==
  /\ rowCurrent \subseteq ArchivePaths /\ removed \subseteq ArchivePaths
  /\ DOMAIN quarantined \subseteq ArchivePaths /\ strayed \subseteq ArchivePaths
  /\ meddled \in Nat
ToolsTyped ==
  /\ mover \in {Off} \cup NextMovers \cup MovedMovers
  /\ deduper \in {Off} \cup Dedupers
  /\ deduper.phase \in {"verified", "moved"} => deduper.queue # <<>>
  /\ runs \in 0..MaxRuns
  /\ deduper # Off => runs # 0
RemovalsTyped == FilesTyped /\ RecordsTyped /\ ToolsTyped

(* Each tool knows which of the names it moves to are taken.               *)
NamesHold ==
  /\ mover.phase \in {"next", "moved"} =>
       \A d \in Dests : quarantine[d] # NoFile => d \in mover.names
  /\ mover.phase = "moved" =>
       /\ quarantine[mover.to] # NoFile
       /\ \A a \in DOMAIN quarantined \ strayed : quarantined[a] # mover.to
  /\ deduper.phase = "verified" => backup[Kept] = NoFile
  /\ deduper.phase = "moved" => backup[Kept] # NoFile

(* Where an archive is, of which nobody lost track: in its place, with one *)
(* of the tools, or where the tool's record says it has put it.            *)
WithMover(a) == mover.phase = "moved" /\ mover.archive = a
WithDeduper(a) == deduper.phase = "moved" /\ Source = a
InPlace(a) ==
  /\ library[a] = Stored[a] /\ a \in rowCurrent /\ a \notin removed \cup DOMAIN quarantined
  /\ ~WithMover(a) /\ ~WithDeduper(a)
BeingQuarantined(a) ==
  /\ library[a] = NoFile /\ a \in rowCurrent /\ a \notin removed \cup DOMAIN quarantined
  /\ WithMover(a) /\ ~WithDeduper(a) /\ quarantine[mover.to] = Stored[a]
BeingRemoved(a) ==
  /\ library[a] = NoFile /\ a \in rowCurrent /\ a \notin removed \cup DOMAIN quarantined
  /\ ~WithMover(a) /\ WithDeduper(a) /\ backup[<<runs, a>>] = Stored[a]
IsQuarantined(a) ==
  /\ library[a] = NoFile /\ a \notin rowCurrent /\ a \notin removed /\ a \in DOMAIN quarantined
  /\ ~WithMover(a) /\ ~WithDeduper(a)
  /\ quarantined[a] \in Dests /\ quarantine[quarantined[a]] = Stored[a]
IsRemoved(a) ==
  /\ library[a] = NoFile /\ a \notin rowCurrent /\ a \in removed /\ a \notin DOMAIN quarantined
  /\ ~WithMover(a) /\ ~WithDeduper(a)
  /\ \E r \in 1..MaxRuns : backup[<<r, a>>] = Stored[a]
Accounted(a) == \/ InPlace(a) \/ BeingQuarantined(a) \/ BeingRemoved(a)
                \/ IsQuarantined(a) \/ IsRemoved(a)

RemovalsInv == RemovalsTyped /\ NamesHold /\ \A a \in ArchivePaths \ strayed : Accounted(a)

(* The queue made of a set holds what the set does.                        *)
LEMMA QueueOf ==
  ASSUME NEW S, IsFiniteSet(S)
  PROVE  SetToSeq(S) \in Seq(S)
<1>1. ExistsBijection(1..Cardinality(S), S) /\ Cardinality(S) \in Nat
  BY FS_CardinalityType
<1>2. \E f \in [1..Cardinality(S) -> S] : IsInjective(f)
  BY <1>1 DEF ExistsBijection, Bijection, Injection, IsInjective
<1>3. SetToSeq(S) \in [1..Cardinality(S) -> S]
  BY <1>2 DEF SetToSeq
<1> QED
  BY <1>1, <1>3

LEMMA ToolKinds ==
  /\ Off.phase = "off"
  /\ ToolsTyped => /\ mover = Off <=> mover.phase = "off"
                   /\ mover.phase = "next" => mover \in NextMovers
                   /\ mover.phase = "moved" => mover \in MovedMovers
                   /\ deduper = Off <=> deduper.phase = "off"
                   /\ deduper.phase # "off" => deduper \in Dedupers
<1>1. /\ Off.phase = "off" /\ \A m \in NextMovers : m.phase = "next"
      /\ \A m \in MovedMovers : m.phase = "moved"
      /\ \A m \in Dedupers : m.phase \in {"next", "verified", "moved"}
  BY DEF Off, NextMovers, MovedMovers, Dedupers
<1> QED
  BY <1>1 DEF ToolsTyped

(* The number chosen for a candidate is one that is not taken.             *)
LEMMA DestinationIsFree ==
  ASSUME RemovalsTyped, HasNext
  PROVE  /\ Head(mover.queue) \in ArchivePaths /\ Tail(mover.queue) \in Seq(ArchivePaths)
         /\ Destination(Head(mover.queue)) \in Dests \ mover.names
         /\ mover \in NextMovers
<1> DEFINE a == Head(mover.queue)
           k == CHOOSE j \in FreeNumbers(a) : \A l \in FreeNumbers(a) : j <= l
<1>1. mover \in NextMovers /\ mover.queue \in Seq(ArchivePaths) /\ mover.queue # <<>>
  BY ToolKinds DEF HasNext, RemovalsTyped, NextMovers
<1>2. a \in ArchivePaths /\ Tail(mover.queue) \in Seq(ArchivePaths)
  BY <1>1
<1>3. FreeNumbers(a) \subseteq Nat /\ FreeNumbers(a) # {}
  BY FS_CardinalityType, RemovalsAssumption DEF HasNext, FreeNumbers, Numbers
<1>4. k \in FreeNumbers(a)
  <2>1. \E j \in FreeNumbers(a) : \A l \in FreeNumbers(a) : j <= l
    BY <1>3, LeastExists
  <2> QED
    BY <2>1
<1>5. NameAt[a] \in Names
  BY <1>2 DEF Names
<1> HIDE DEF k
<1>6. Destination(a) = <<NameAt[a], k>>
  BY DEF Destination, k
<1> QED
  BY <1>1, <1>2, <1>4, <1>5, <1>6 DEF FreeNumbers, Dests

LEMMA PairsTyped ==
  ASSUME RemovalsTyped, deduper.phase # "off"
  PROVE  /\ deduper \in Dedupers /\ runs \in 1..MaxRuns
         /\ deduper.queue # <<>> => /\ Source \in ArchivePaths /\ Twin \in ArchivePaths
                                    /\ Kept \in Kepts /\ Tail(deduper.queue) \in Seq(Pairs)
         /\ deduper.phase \in {"verified", "moved"} => deduper.queue # <<>>
<1>1. deduper \in Dedupers /\ deduper.queue \in Seq(Pairs) /\ runs \in 1..MaxRuns
  BY ToolKinds, RemovalsAssumption DEF RemovalsTyped, ToolsTyped, Dedupers
<1>2. ASSUME deduper.queue # <<>> PROVE Head(deduper.queue) \in Pairs /\ Tail(deduper.queue) \in Seq(Pairs)
  BY <1>1, <1>2
<1>3. deduper.queue # <<>> => Source \in ArchivePaths /\ Twin \in ArchivePaths
  BY <1>2 DEF Source, Twin, Pairs
<1> QED
  BY <1>1, <1>2, <1>3 DEF Kept, Kepts, RemovalsTyped, ToolsTyped

LEMMA MovedTyped ==
  ASSUME RemovalsTyped, mover.phase = "moved"
  PROVE  /\ mover \in MovedMovers /\ mover.archive \in ArchivePaths /\ mover.to \in Dests
         /\ NextCandidate \in NextMovers /\ NextCandidate.names = mover.names
         /\ NextCandidate.phase = "next"
  BY ToolKinds DEF RemovalsTyped, MovedMovers, NextMovers, NextCandidate

LEMMA FilesStayTyped ==
  ASSUME RemovalsTyped, RemovalsNext PROVE FilesTyped'
<1>1. CASE StartQuarantine
  BY <1>1 DEF StartQuarantine, files, FilesTyped, RemovalsTyped
<1>2. CASE QuarantineSkips
  BY <1>2 DEF QuarantineSkips, files, FilesTyped, RemovalsTyped
<1>3. CASE QuarantineMoves
  BY <1>3, DestinationIsFree DEF QuarantineMoves, FilesTyped, RemovalsTyped, FileBytes
<1>4. CASE RecordQuarantine
  BY <1>4 DEF RecordQuarantine, files, FilesTyped, RemovalsTyped
<1>5. CASE QuarantineRestores
  BY <1>5, MovedTyped DEF QuarantineRestores, FilesTyped, RemovalsTyped, FileBytes
<1>6. CASE QuarantineStrands
  BY <1>6 DEF QuarantineStrands, files, FilesTyped, RemovalsTyped
<1>7. CASE QuarantineEnds
  BY <1>7 DEF QuarantineEnds, files, FilesTyped, RemovalsTyped
<1>8. CASE StartDeduping
  BY <1>8 DEF StartDeduping, files, FilesTyped, RemovalsTyped
<1>9. CASE VerifyDuplicate
  BY <1>9 DEF VerifyDuplicate, files, FilesTyped, RemovalsTyped
<1>10. CASE MoveDuplicate
  <2>1. Source \in ArchivePaths /\ Kept \in Kepts
    BY <1>10, PairsTyped DEF MoveDuplicate
  <2> QED
    BY <1>10, <2>1 DEF MoveDuplicate, FilesTyped, RemovalsTyped, FileBytes
<1>11. CASE MoveDuplicateFails
  BY <1>11 DEF MoveDuplicateFails, files, FilesTyped, RemovalsTyped
<1>12. CASE RecordRemoval
  BY <1>12 DEF RecordRemoval, files, FilesTyped, RemovalsTyped
<1>13. CASE DuplicateRestores
  <2>1. Source \in ArchivePaths /\ Kept \in Kepts
    BY <1>13, PairsTyped DEF DuplicateRestores
  <2> QED
    BY <1>13, <2>1 DEF DuplicateRestores, FilesTyped, RemovalsTyped, FileBytes
<1>14. CASE DuplicateStrands
  BY <1>14 DEF DuplicateStrands, files, FilesTyped, RemovalsTyped
<1>15. CASE DedupingEnds
  BY <1>15 DEF DedupingEnds, files, FilesTyped, RemovalsTyped
<1>16. ASSUME NEW p \in ArchivePaths, Rediscover(p) PROVE FilesTyped'
  BY <1>16 DEF Rediscover, files, FilesTyped, RemovalsTyped
<1>17. ASSUME NEW p \in ArchivePaths, Meddle(p) PROVE FilesTyped'
  BY <1>17 DEF Meddle, FilesTyped, RemovalsTyped, FileBytes
<1>18. ASSUME NEW p \in ArchivePaths, JobChanges(p) PROVE FilesTyped'
  BY <1>18 DEF JobChanges, files, FilesTyped, RemovalsTyped
<1> QED
  BY <1>1, <1>2, <1>3, <1>4, <1>5, <1>6, <1>7, <1>8, <1>9, <1>10, <1>11, <1>12, <1>13, <1>14, <1>15,
       <1>16, <1>17, <1>18 DEF RemovalsNext, QuarantineStep, DedupeStep

LEMMA RecordsStayTyped ==
  ASSUME RemovalsTyped, RemovalsNext PROVE RecordsTyped'
<1>1. CASE StartQuarantine
  BY <1>1 DEF StartQuarantine, records, RecordsTyped, RemovalsTyped
<1>2. CASE QuarantineSkips
  BY <1>2 DEF QuarantineSkips, records, RecordsTyped, RemovalsTyped
<1>3. CASE QuarantineMoves
  BY <1>3 DEF QuarantineMoves, records, RecordsTyped, RemovalsTyped
<1>4. CASE RecordQuarantine
  BY <1>4, MovedTyped DEF RecordQuarantine, records, RecordsTyped, RemovalsTyped
<1>5. CASE QuarantineRestores
  BY <1>5, MovedTyped DEF QuarantineRestores, records, RecordsTyped, RemovalsTyped
<1>6. CASE QuarantineStrands
  BY <1>6, MovedTyped DEF QuarantineStrands, records, RecordsTyped, RemovalsTyped
<1>7. CASE QuarantineEnds
  BY <1>7, MovedTyped DEF QuarantineEnds, records, RecordsTyped, RemovalsTyped
<1>8. CASE StartDeduping
  BY <1>8 DEF StartDeduping, records, RecordsTyped, RemovalsTyped
<1>9. CASE VerifyDuplicate
  BY <1>9 DEF VerifyDuplicate, records, RecordsTyped, RemovalsTyped
<1>10. CASE MoveDuplicate
  BY <1>10 DEF MoveDuplicate, records, RecordsTyped, RemovalsTyped
<1>11. CASE MoveDuplicateFails
  BY <1>11 DEF MoveDuplicateFails, records, RecordsTyped, RemovalsTyped
<1>12. CASE RecordRemoval
  BY <1>12, PairsTyped DEF RecordRemoval, records, RecordsTyped, RemovalsTyped
<1>13. CASE DuplicateRestores
  BY <1>13, PairsTyped DEF DuplicateRestores, records, RecordsTyped, RemovalsTyped
<1>14. CASE DuplicateStrands
  BY <1>14, PairsTyped DEF DuplicateStrands, records, RecordsTyped, RemovalsTyped
<1>15. CASE DedupingEnds
  BY <1>15, PairsTyped DEF DedupingEnds, records, RecordsTyped, RemovalsTyped
<1>16. ASSUME NEW p \in ArchivePaths, Rediscover(p) PROVE RecordsTyped'
  BY <1>16 DEF Rediscover, records, RecordsTyped, RemovalsTyped
<1>17. ASSUME NEW p \in ArchivePaths, Meddle(p) PROVE RecordsTyped'
  BY <1>17 DEF Meddle, records, RecordsTyped, RemovalsTyped
<1>18. ASSUME NEW p \in ArchivePaths, JobChanges(p) PROVE RecordsTyped'
  BY <1>18 DEF JobChanges, records, RecordsTyped, RemovalsTyped
<1> QED
  BY <1>1, <1>2, <1>3, <1>4, <1>5, <1>6, <1>7, <1>8, <1>9, <1>10, <1>11, <1>12, <1>13, <1>14, <1>15,
       <1>16, <1>17, <1>18 DEF RemovalsNext, QuarantineStep, DedupeStep

LEMMA ToolsStayTyped ==
  ASSUME RemovalsTyped, RemovalsNext PROVE ToolsTyped'
<1>1. CASE StartQuarantine
  <2>1. IsFiniteSet(QuarantineCandidates) /\ QuarantineCandidates \subseteq ArchivePaths
    BY FS_Subset, RemovalsAssumption, ExtraneousAssumption DEF QuarantineCandidates
  <2>2. SetToSeq(QuarantineCandidates) \in Seq(ArchivePaths)
    BY <2>1, QueueOf
  <2>3. {d \in Names \X Numbers : quarantine[d] # NoFile} \subseteq Dests
    BY DEF Dests
  <2> QED
    BY <1>1, <2>2, <2>3, ToolKinds DEF StartQuarantine, ToolsTyped, RemovalsTyped, NextMovers
<1>2. CASE QuarantineSkips
  <2>1. TakeName \in NextMovers
    BY <1>2, DestinationIsFree DEF QuarantineSkips, TakeName, NextMovers
  <2> QED
    BY <1>2, <2>1, ToolKinds DEF QuarantineSkips, ToolsTyped, RemovalsTyped
<1>3. CASE QuarantineMoves
  <2>1. TakeName \in NextMovers
    BY <1>3, DestinationIsFree DEF QuarantineMoves, TakeName, NextMovers
  <2>2. mover' \in MovedMovers
    BY <1>3, <2>1, DestinationIsFree DEF QuarantineMoves, NextMovers, MovedMovers
  <2> QED
    BY <1>3, <2>2, ToolKinds DEF QuarantineMoves, ToolsTyped, RemovalsTyped
<1>4. CASE RecordQuarantine
  BY <1>4, ToolKinds, MovedTyped DEF RecordQuarantine, Off, ToolsTyped, RemovalsTyped
<1>5. CASE QuarantineRestores
  BY <1>5, ToolKinds, MovedTyped DEF QuarantineRestores, Off, ToolsTyped, RemovalsTyped
<1>6. CASE QuarantineStrands
  BY <1>6, ToolKinds, MovedTyped DEF QuarantineStrands, Off, ToolsTyped, RemovalsTyped
<1>7. CASE QuarantineEnds
  BY <1>7, ToolKinds, MovedTyped DEF QuarantineEnds, Off, ToolsTyped, RemovalsTyped
<1>8. CASE StartDeduping
  <2> DEFINE pairs == {<<a, CHOOSE o \in Twins(a) : TRUE>> : a \in DuplicateCandidates}
  <2>1. IsFiniteSet(DuplicateCandidates)
    BY FS_Subset, RemovalsAssumption DEF DuplicateCandidates, RemovalsTyped, RecordsTyped
  <2>2. IsFiniteSet(pairs)
    <3> DEFINE pair == [a \in DuplicateCandidates |-> <<a, CHOOSE o \in Twins(a) : TRUE>>]
    <3>1. pair \in Surjection(DuplicateCandidates, pairs)
      BY DEF Surjection
    <3> HIDE DEF pair, pairs
    <3> QED
      BY <2>1, <3>1, FS_Surjection DEF ExistsSurjection
  <2>3. pairs \subseteq Pairs
    <3> SUFFICES ASSUME NEW a \in DuplicateCandidates PROVE <<a, CHOOSE o \in Twins(a) : TRUE>> \in Pairs
      OBVIOUS
    <3>1. Twins(a) # {}
      <4> SUFFICES ASSUME Twins(a) = {} PROVE FALSE
        OBVIOUS
      <4>1. Cardinality(Twins(a)) = 0
        BY FS_EmptySet
      <4> QED
        BY <4>1 DEF DuplicateCandidates
    <3>2. Twins(a) \subseteq ArchivePaths /\ a \in ArchivePaths
      BY DEF Twins, DuplicateCandidates, RemovalsTyped, RecordsTyped
    <3> QED
      BY <3>1, <3>2 DEF Pairs
  <2>4. SetToSeq(pairs) \in Seq(Pairs)
    <3>1. SetToSeq(pairs) \in Seq(pairs)
      BY <2>2, QueueOf
    <3> HIDE DEF pairs
    <3> QED
      BY <2>3, <3>1
  <2>5. deduper' = [phase |-> "next", queue |-> SetToSeq(pairs)]
    BY <1>8 DEF StartDeduping
  <2> HIDE DEF pairs
  <2>6. deduper' \in Dedupers /\ deduper'.phase = "next"
    BY <2>4, <2>5 DEF Dedupers
  <2> QED
    BY <1>8, <2>6, RemovalsAssumption DEF StartDeduping, ToolsTyped, RemovalsTyped
<1>9. CASE VerifyDuplicate
  BY <1>9, ToolKinds, PairsTyped DEF VerifyDuplicate, NextDuplicate, Off, ToolsTyped, RemovalsTyped,
       Dedupers
<1>10. CASE MoveDuplicate
  BY <1>10, ToolKinds, PairsTyped DEF MoveDuplicate, NextDuplicate, Off, ToolsTyped, RemovalsTyped,
       Dedupers
<1>11. CASE MoveDuplicateFails
  BY <1>11, ToolKinds, PairsTyped DEF MoveDuplicateFails, NextDuplicate, Off, ToolsTyped,
       RemovalsTyped, Dedupers
<1>12. CASE RecordRemoval
  BY <1>12, ToolKinds, PairsTyped DEF RecordRemoval, NextDuplicate, Off, ToolsTyped, RemovalsTyped,
       Dedupers
<1>13. CASE DuplicateRestores
  BY <1>13, ToolKinds, PairsTyped DEF DuplicateRestores, NextDuplicate, Off, ToolsTyped, RemovalsTyped,
       Dedupers
<1>14. CASE DuplicateStrands
  BY <1>14, ToolKinds, PairsTyped DEF DuplicateStrands, NextDuplicate, Off, ToolsTyped, RemovalsTyped,
       Dedupers
<1>15. CASE DedupingEnds
  BY <1>15, ToolKinds, PairsTyped DEF DedupingEnds, NextDuplicate, Off, ToolsTyped, RemovalsTyped,
       Dedupers
<1>16. ASSUME NEW p \in ArchivePaths, Rediscover(p) PROVE ToolsTyped'
  BY <1>16 DEF Rediscover, ToolsTyped, RemovalsTyped
<1>17. ASSUME NEW p \in ArchivePaths, Meddle(p) PROVE ToolsTyped'
  BY <1>17 DEF Meddle, ToolsTyped, RemovalsTyped
<1>18. ASSUME NEW p \in ArchivePaths, JobChanges(p) PROVE ToolsTyped'
  BY <1>18 DEF JobChanges, ToolsTyped, RemovalsTyped
<1> QED
  BY <1>1, <1>2, <1>3, <1>4, <1>5, <1>6, <1>7, <1>8, <1>9, <1>10, <1>11, <1>12, <1>13, <1>14, <1>15,
       <1>16, <1>17, <1>18 DEF RemovalsNext, QuarantineStep, DedupeStep

LEMMA NamesStay ==
  ASSUME RemovalsInv, RemovalsNext PROVE NamesHold'
<1> USE DEF RemovalsInv
<1>1. CASE StartQuarantine
  BY <1>1 DEF StartQuarantine, files, Dests, Kept, Source, NamesHold
<1>2. CASE QuarantineSkips
  <2>1. mover'.phase = "next" /\ mover.names \subseteq mover'.names
    BY <1>2, DestinationIsFree DEF QuarantineSkips, TakeName, NextMovers
  <2> QED
    BY <1>2, <2>1 DEF QuarantineSkips, HasNext, files, records, Kept, Source, NamesHold
<1>3. CASE QuarantineMoves
  <2> DEFINE a == Head(mover.queue)
             d == Destination(a)
  <2>1. a \in ArchivePaths /\ d \in Dests \ mover.names /\ mover \in NextMovers /\ library[a] # NoFile
    BY <1>3, DestinationIsFree DEF QuarantineMoves
  <2>2. /\ mover'.phase = "moved" /\ mover'.to = d /\ mover'.names = mover.names \cup {d}
        /\ quarantine' = [quarantine EXCEPT ![d] = library[a]]
    BY <1>3, <2>1 DEF QuarantineMoves, TakeName, NextMovers
  <2> HIDE DEF a, d
  <2>3. quarantine[d] = NoFile /\ quarantine'[d] # NoFile
    BY <2>1, <2>2 DEF NamesHold, NextMovers, RemovalsTyped, FilesTyped
  <2>4. \A b \in DOMAIN quarantined \ strayed : quarantined[b] # d
    <3> SUFFICES ASSUME NEW b \in DOMAIN quarantined \ strayed PROVE quarantine[quarantined[b]] # NoFile
      BY <2>3
    <3>1. IsQuarantined(b) /\ b \in ArchivePaths
      BY DEF RemovalsInv, Accounted, InPlace, BeingQuarantined, BeingRemoved, IsRemoved,
             RemovalsTyped, RecordsTyped
    <3> QED
      BY <3>1, StoredAssumption DEF IsQuarantined
  <2> QED
    BY <1>3, <2>1, <2>2, <2>3, <2>4 DEF QuarantineMoves, records, NamesHold, RemovalsTyped, FilesTyped,
         NextMovers, Kept, Source
<1>4. CASE RecordQuarantine
  BY <1>4, ToolKinds, MovedTyped DEF RecordQuarantine, files, records, Kept, Source, NamesHold,
       RemovalsTyped
<1>5. CASE QuarantineRestores
  BY <1>5, ToolKinds, MovedTyped DEF QuarantineRestores, files, records, Kept, Source, NamesHold,
       RemovalsTyped
<1>6. CASE QuarantineStrands
  BY <1>6, ToolKinds, MovedTyped DEF QuarantineStrands, files, records, Kept, Source, NamesHold,
       RemovalsTyped
<1>7. CASE QuarantineEnds
  BY <1>7, ToolKinds, MovedTyped DEF QuarantineEnds, files, records, Kept, Source, NamesHold,
       RemovalsTyped
<1>8. CASE StartDeduping
  BY <1>8, ToolKinds, PairsTyped DEF StartDeduping, NextDuplicate, files, records, Kept, Source,
       NamesHold, RemovalsTyped
<1>9. CASE VerifyDuplicate
  <2>1. deduper'.phase = "verified" => Verified /\ Kept' = Kept
    BY <1>9, PairsTyped DEF VerifyDuplicate, NextDuplicate, Kept, Source, Dedupers
  <2>2. deduper'.phase \in {"next", "verified"}
    BY <1>9, PairsTyped DEF VerifyDuplicate, NextDuplicate, Dedupers
  <2> QED
    BY <1>9, <2>1, <2>2 DEF VerifyDuplicate, Verified, files, records, NamesHold
<1>10. CASE MoveDuplicate
  <2>1. Kept \in Kepts /\ deduper \in Dedupers
    BY <1>10, PairsTyped DEF MoveDuplicate
  <2>2. deduper'.phase = "moved" /\ Kept' = Kept /\ backup'[Kept] # NoFile
    BY <1>10, <2>1 DEF MoveDuplicate, Kept, Source, Dedupers, RemovalsTyped, FilesTyped
  <2> QED
    BY <1>10, <2>2 DEF MoveDuplicate, records, NamesHold
<1>11. CASE MoveDuplicateFails
  BY <1>11, ToolKinds, PairsTyped DEF MoveDuplicateFails, NextDuplicate, files, records, Kept, Source,
       NamesHold, RemovalsTyped
<1>12. CASE RecordRemoval
  BY <1>12, ToolKinds, PairsTyped DEF RecordRemoval, NextDuplicate, files, records, Kept, Source,
       NamesHold, RemovalsTyped
<1>13. CASE DuplicateRestores
  BY <1>13, ToolKinds, PairsTyped DEF DuplicateRestores, NextDuplicate, files, records, Kept, Source,
       NamesHold, RemovalsTyped
<1>14. CASE DuplicateStrands
  BY <1>14, ToolKinds, PairsTyped DEF DuplicateStrands, NextDuplicate, files, records, Kept, Source,
       NamesHold, RemovalsTyped
<1>15. CASE DedupingEnds
  BY <1>15, ToolKinds, PairsTyped DEF DedupingEnds, NextDuplicate, files, records, Kept, Source,
       NamesHold, RemovalsTyped
<1>16. ASSUME NEW p \in ArchivePaths, Rediscover(p) PROVE NamesHold'
  BY <1>16 DEF Rediscover, files, records, Kept, Source, NamesHold
<1>17. ASSUME NEW p \in ArchivePaths, Meddle(p) PROVE NamesHold'
  BY <1>17 DEF Meddle, files, records, Kept, Source, NamesHold
<1>18. ASSUME NEW p \in ArchivePaths, JobChanges(p) PROVE NamesHold'
  BY <1>18 DEF JobChanges, files, records, Kept, Source, NamesHold
<1> QED
  BY <1>1, <1>2, <1>3, <1>4, <1>5, <1>6, <1>7, <1>8, <1>9, <1>10, <1>11, <1>12, <1>13, <1>14, <1>15,
       <1>16, <1>17, <1>18 DEF RemovalsNext, QuarantineStep, DedupeStep


(* What a step leaves alone of an archive stays where it is.               *)
LEMMA OthersStay ==
  ASSUME NEW a \in ArchivePaths, Accounted(a),
         library'[a] = library[a], (a \in rowCurrent)' <=> a \in rowCurrent,
         (a \in removed)' <=> a \in removed, (a \in DOMAIN quarantined)' <=> a \in DOMAIN quarantined,
         WithMover(a)' <=> WithMover(a), WithDeduper(a)' <=> WithDeduper(a),
         WithMover(a) => quarantine'[mover'.to] = quarantine[mover.to],
         WithDeduper(a) => runs' = runs,
         IsQuarantined(a) => quarantined'[a] = quarantined[a]
                             /\ quarantine'[quarantined[a]] = quarantine[quarantined[a]],
         \A r \in Nat : backup[<<r, a>>] = Stored[a] => backup'[<<r, a>>] = Stored[a],
         runs \in Nat
  PROVE  Accounted(a)'
<1>1. CASE InPlace(a)
  BY <1>1 DEF Accounted, InPlace
<1>2. CASE BeingQuarantined(a)
  BY <1>2 DEF Accounted, BeingQuarantined
<1>3. CASE BeingRemoved(a)
  BY <1>3 DEF Accounted, BeingRemoved
<1>4. CASE IsQuarantined(a)
  BY <1>4 DEF Accounted, IsQuarantined
<1>5. CASE IsRemoved(a)
  BY <1>5 DEF Accounted, IsRemoved
<1> QED
  BY <1>1, <1>2, <1>3, <1>4, <1>5 DEF Accounted

LEMMA AccountsStay ==
  ASSUME RemovalsInv, NEW a \in ArchivePaths \ strayed', RemovalsNext PROVE Accounted(a)'
<1>0. a \in ArchivePaths \ strayed /\ Accounted(a) /\ FilesTyped /\ NamesHold /\ RemovalsTyped
      /\ runs \in Nat
  <2>1. strayed \subseteq strayed'
    BY DEF RemovalsNext, QuarantineStep, DedupeStep, StartQuarantine, QuarantineSkips, QuarantineMoves,
         RecordQuarantine,
       QuarantineRestores, QuarantineStrands, QuarantineEnds, StartDeduping, VerifyDuplicate, MoveDuplicate, MoveDuplicateFails,
       RecordRemoval, DuplicateRestores, DuplicateStrands, DedupingEnds, Rediscover, Meddle, JobChanges
  <2> QED
    BY <2>1, RemovalsAssumption DEF RemovalsInv, RemovalsTyped, ToolsTyped
<1> USE <1>0
<1>1. CASE StartQuarantine
  BY <1>1, OthersStay, ToolKinds DEF StartQuarantine, WithMover, WithDeduper, Source, files, records
<1>2. CASE QuarantineSkips
  BY <1>2, OthersStay DEF QuarantineSkips, HasNext, TakeName, WithMover, WithDeduper, Source, files,
       records
<1>3. CASE QuarantineMoves
  <2> DEFINE h == Head(mover.queue)
             d == Destination(h)
  <2>1. h \in ArchivePaths /\ d \in Dests \ mover.names /\ mover \in NextMovers /\ library[h] # NoFile
    BY <1>3, DestinationIsFree DEF QuarantineMoves
  <2>2. /\ mover'.phase = "moved" /\ mover'.to = d /\ mover'.archive = h /\ ~WithMover(a)
        /\ quarantine' = [quarantine EXCEPT ![d] = library[h]]
        /\ library' = [library EXCEPT ![h] = NoFile]
        /\ UNCHANGED <<backup, records, runs, deduper, strayed>>
    BY <1>3, <2>1 DEF QuarantineMoves, NextMovers, WithMover
  <2> HIDE DEF h, d
  <2>3. quarantine[d] = NoFile /\ quarantine'[d] = library[h]
    BY <2>1, <2>2 DEF NamesHold, NextMovers, FilesTyped
  <2>4. CASE a = h
    <3>1. InPlace(a)
      BY <2>1, <2>4 DEF Accounted, InPlace, BeingQuarantined, BeingRemoved, IsQuarantined, IsRemoved
    <3>2. library'[a] = NoFile /\ quarantine'[mover'.to] = Stored[a]
      BY <2>1, <2>2, <2>3, <2>4, <3>1 DEF InPlace, FilesTyped
    <3> QED
      BY <2>2, <2>4, <3>1, <3>2 DEF Accounted, InPlace, BeingQuarantined, WithMover, WithDeduper,
           records, Source
  <2>5. CASE a # h
    <3>1. IsQuarantined(a) => quarantine'[quarantined[a]] = quarantine[quarantined[a]]
      BY <2>2, <2>3, StoredAssumption DEF IsQuarantined, FilesTyped
    <3>2. library'[a] = library[a] /\ ~WithMover(a)' /\ (WithDeduper(a)' <=> WithDeduper(a))
      BY <2>2, <2>5 DEF FilesTyped, WithMover, WithDeduper, Source
    <3> QED
      BY <2>2, <3>1, <3>2, OthersStay DEF records
  <2> QED
    BY <2>4, <2>5
<1>4. CASE RecordQuarantine
  <2>1. CASE WithMover(a)
    <3>1. BeingQuarantined(a)
      BY <2>1 DEF Accounted, InPlace, BeingRemoved, IsQuarantined, IsRemoved
    <3> QED
      BY <1>4, <2>1, <3>1, MovedTyped DEF RecordQuarantine, files, Accounted, BeingQuarantined,
           IsQuarantined,
         WithMover, WithDeduper, Source
  <2>2. CASE ~WithMover(a)
    <3>1. a # mover.archive /\ ~WithMover(a)'
      BY <1>4, <2>2, MovedTyped DEF RecordQuarantine, WithMover
    <3>2. IsQuarantined(a) => quarantined'[a] = quarantined[a]
      BY <1>4, <3>1 DEF RecordQuarantine, IsQuarantined
    <3>3. (a \in DOMAIN quarantined)' <=> a \in DOMAIN quarantined
      BY <1>4, <3>1 DEF RecordQuarantine
    <3> QED
      BY <1>4, <2>2, <3>1, <3>2, <3>3, OthersStay DEF RecordQuarantine, files, WithDeduper, Source
  <2> QED
    BY <2>1, <2>2
<1>5. CASE QuarantineRestores
  <2>1. CASE WithMover(a)
    <3>1. BeingQuarantined(a)
      BY <2>1 DEF Accounted, InPlace, BeingRemoved, IsQuarantined, IsRemoved
    <3>2. library'[a] = Stored[a] /\ ~WithMover(a)'
      BY <1>5, <2>1, <3>1, MovedTyped DEF QuarantineRestores, BeingQuarantined, WithMover, FilesTyped
    <3> QED
      BY <1>5, <3>1, <3>2 DEF QuarantineRestores, records, Accounted, BeingQuarantined, InPlace,
           WithDeduper, Source
  <2>2. CASE ~WithMover(a)
    <3>1. a # mover.archive /\ ~WithMover(a)' /\ library'[a] = library[a]
      BY <1>5, <2>2, MovedTyped DEF QuarantineRestores, WithMover, FilesTyped
    <3>2. IsQuarantined(a) => quarantine'[quarantined[a]] = quarantine[quarantined[a]]
      BY <1>5, MovedTyped DEF QuarantineRestores, IsQuarantined, NamesHold, FilesTyped
    <3> QED
      BY <1>5, <2>2, <3>1, <3>2, OthersStay DEF QuarantineRestores, records, WithDeduper, Source
  <2> QED
    BY <2>1, <2>2
<1>6. CASE QuarantineStrands
  <2>1. ~WithMover(a) /\ ~WithMover(a)'
    BY <1>6, MovedTyped DEF QuarantineStrands, WithMover
  <2> QED
    BY <1>6, <2>1, OthersStay DEF QuarantineStrands, files, records, WithDeduper, Source
<1>7. CASE QuarantineEnds
  <2>1. ~WithMover(a) /\ ~WithMover(a)'
    BY <1>7, ToolKinds DEF QuarantineEnds, WithMover
  <2> QED
    BY <1>7, <2>1, OthersStay DEF QuarantineEnds, files, records, WithDeduper, Source
<1>8. CASE StartDeduping
  <2>1. ~WithDeduper(a) /\ ~WithDeduper(a)'
    BY <1>8, ToolKinds DEF StartDeduping, WithDeduper
  <2> QED
    BY <1>8, <2>1, OthersStay DEF StartDeduping, files, records, WithMover
<1>9. CASE VerifyDuplicate
  <2>1. ~WithDeduper(a) /\ ~WithDeduper(a)'
    BY <1>9, PairsTyped DEF VerifyDuplicate, NextDuplicate, WithDeduper, Dedupers
  <2> QED
    BY <1>9, <2>1, OthersStay DEF VerifyDuplicate, files, records, WithMover
<1>10. CASE MoveDuplicate
  <2>1. Source \in ArchivePaths /\ Kept \in Kepts /\ deduper \in Dedupers /\ library[Source] # NoFile
    BY <1>10, PairsTyped DEF MoveDuplicate
  <2>2. /\ deduper'.phase = "moved" /\ Source' = Source /\ ~WithDeduper(a)
        /\ backup' = [backup EXCEPT ![Kept] = library[Source]]
        /\ library' = [library EXCEPT ![Source] = NoFile]
        /\ UNCHANGED <<quarantine, records, runs, mover, strayed>>
    BY <1>10, <2>1 DEF MoveDuplicate, Source, WithDeduper, Dedupers
  <2>3. CASE a = Source
    <3>1. InPlace(a)
      BY <2>1, <2>3 DEF Accounted, InPlace, BeingQuarantined, BeingRemoved, IsQuarantined, IsRemoved
    <3>2. library'[a] = NoFile /\ backup'[<<runs, a>>] = Stored[a]
      BY <2>1, <2>2, <2>3, <3>1 DEF InPlace, FilesTyped, Kept
    <3> QED
      BY <2>2, <2>3, <3>1, <3>2 DEF Accounted, InPlace, BeingRemoved, WithMover, WithDeduper, records
  <2>4. CASE a # Source
    <3>1. library'[a] = library[a] /\ ~WithDeduper(a)' /\ \A r \in Nat : backup'[<<r, a>>] = backup[<<r, a>>]
      BY <2>1, <2>2, <2>4 DEF FilesTyped, WithDeduper, Kept
    <3> QED
      BY <2>2, <3>1, OthersStay DEF records, WithMover
  <2> QED
    BY <2>3, <2>4
<1>11. CASE MoveDuplicateFails
  <2>1. ~WithDeduper(a) /\ ~WithDeduper(a)'
    BY <1>11 DEF MoveDuplicateFails, NextDuplicate, WithDeduper
  <2> QED
    BY <1>11, <2>1, OthersStay DEF MoveDuplicateFails, files, records, WithMover
<1>12. CASE RecordRemoval
  <2>1. ~WithDeduper(a)' /\ (WithDeduper(a) <=> a = Source)
    BY <1>12 DEF RecordRemoval, NextDuplicate, WithDeduper
  <2>2. CASE a = Source
    <3>1. BeingRemoved(a) /\ runs \in 1..MaxRuns
      BY <1>12, <2>1, <2>2, PairsTyped DEF RecordRemoval, Accounted, InPlace, BeingQuarantined,
           IsQuarantined, IsRemoved
    <3> QED
      BY <1>12, <2>1, <2>2, <3>1 DEF RecordRemoval, files, Accounted, BeingRemoved, IsRemoved, WithMover
  <2>3. CASE a # Source
    BY <1>12, <2>1, <2>3, OthersStay DEF RecordRemoval, files, WithMover
  <2> QED
    BY <2>2, <2>3
<1>13. CASE DuplicateRestores
  <2>1. ~WithDeduper(a)' /\ (WithDeduper(a) <=> a = Source)
    BY <1>13 DEF DuplicateRestores, NextDuplicate, WithDeduper
  <2>2. Source \in ArchivePaths /\ Kept \in Kepts
    BY <1>13, PairsTyped DEF DuplicateRestores
  <2>3. CASE a = Source
    <3>1. BeingRemoved(a)
      BY <2>1, <2>3 DEF Accounted, InPlace, BeingQuarantined, IsQuarantined, IsRemoved
    <3>2. library'[a] = Stored[a]
      BY <1>13, <2>3, <3>1 DEF DuplicateRestores, BeingRemoved, FilesTyped, Kept
    <3> QED
      BY <1>13, <2>1, <3>1, <3>2 DEF DuplicateRestores, records, Accounted, BeingRemoved, InPlace,
           WithMover
  <2>4. CASE a # Source
    <3>1. library'[a] = library[a] /\ \A r \in Nat : backup'[<<r, a>>] = backup[<<r, a>>]
      BY <1>13, <2>2, <2>4 DEF DuplicateRestores, FilesTyped, Kept
    <3> QED
      BY <1>13, <2>1, <2>4, <3>1, OthersStay DEF DuplicateRestores, records, WithMover
  <2> QED
    BY <2>3, <2>4
<1>14. CASE DuplicateStrands
  <2>1. ~WithDeduper(a)' /\ ~WithDeduper(a)
    BY <1>14 DEF DuplicateStrands, NextDuplicate, WithDeduper
  <2> QED
    BY <1>14, <2>1, OthersStay DEF DuplicateStrands, files, records, WithMover
<1>15. CASE DedupingEnds
  <2>1. ~WithDeduper(a)' /\ ~WithDeduper(a)
    BY <1>15, ToolKinds DEF DedupingEnds, WithDeduper
  <2> QED
    BY <1>15, <2>1, OthersStay DEF DedupingEnds, files, records, WithMover
<1>16. ASSUME NEW p \in ArchivePaths, Rediscover(p) PROVE Accounted(a)'
  <2>1. /\ UNCHANGED <<files, quarantined, removed, mover, runs, deduper>>
        /\ rowCurrent' = IF library[p] = NoFile THEN rowCurrent \ {p} ELSE rowCurrent \cup {p}
        /\ p \in Underway => a # p
    BY <1>16 DEF Rediscover
  <2>2. (a \in rowCurrent)' <=> a \in rowCurrent
    BY <2>1, StoredAssumption DEF Accounted, InPlace, BeingQuarantined, BeingRemoved, IsQuarantined,
         IsRemoved,
       Underway, WithMover, WithDeduper
  <2> QED
    BY <2>1, <2>2, OthersStay DEF files, WithMover, WithDeduper, Source
<1>17. ASSUME NEW p \in ArchivePaths, Meddle(p) PROVE Accounted(a)'
  <2>1. library'[a] = library[a]
    BY <1>17 DEF Meddle, FilesTyped
  <2> QED
    BY <1>17, <2>1, OthersStay DEF Meddle, records, WithMover, WithDeduper, Source
<1>18. ASSUME NEW p \in ArchivePaths, JobChanges(p) PROVE Accounted(a)'
  BY <1>18, OthersStay DEF JobChanges, files, records, WithMover, WithDeduper, Source
<1> QED
  BY <1>1, <1>2, <1>3, <1>4, <1>5, <1>6, <1>7, <1>8, <1>9, <1>10, <1>11, <1>12, <1>13, <1>14, <1>15,
       <1>16, <1>17, <1>18 DEF RemovalsNext, QuarantineStep, DedupeStep

LEMMA RemovalsBegin == RemovalsInit => RemovalsInv
<1> SUFFICES ASSUME RemovalsInit PROVE RemovalsInv
  OBVIOUS
<1>1. RemovalsTyped
  <2>1. FilesTyped
    BY StoredAssumption DEF RemovalsInit, FilesTyped, FileBytes, Dests, Kepts
  <2>2. RecordsTyped
    BY DEF RemovalsInit, RecordsTyped
  <2>3. ToolsTyped
    BY ToolKinds, RemovalsAssumption DEF RemovalsInit, ToolsTyped
  <2> QED
    BY <2>1, <2>2, <2>3 DEF RemovalsTyped
<1>2. mover.phase = "off" /\ deduper.phase = "off"
  BY ToolKinds DEF RemovalsInit
<1>3. NamesHold
  BY <1>2 DEF NamesHold
<1>4. \A a \in ArchivePaths : InPlace(a)
  BY <1>2 DEF RemovalsInit, InPlace, WithMover, WithDeduper
<1> QED
  BY <1>1, <1>3, <1>4 DEF RemovalsInv, Accounted

LEMMA RemovalsStep == RemovalsInv /\ [RemovalsNext]_removalVars => RemovalsInv'
<1> SUFFICES ASSUME RemovalsInv, [RemovalsNext]_removalVars PROVE RemovalsInv'
  OBVIOUS
<1>1. CASE RemovalsNext
  <2>1. RemovalsTyped'
    BY <1>1, FilesStayTyped, RecordsStayTyped, ToolsStayTyped DEF RemovalsInv, RemovalsTyped
  <2> QED
    BY <1>1, <2>1, NamesStay, AccountsStay DEF RemovalsInv
<1>2. CASE UNCHANGED removalVars
  <2>1. RemovalsTyped' /\ NamesHold'
    BY <1>2 DEF removalVars, files, records, RemovalsInv, RemovalsTyped, FilesTyped, RecordsTyped,
         ToolsTyped,
       NamesHold, Kept, Source
  <2>2. \A a \in ArchivePaths \ strayed : Accounted(a)'
    BY <1>2, OthersStay, RemovalsAssumption DEF removalVars, files, records, RemovalsInv,
         RemovalsTyped, ToolsTyped,
       WithMover, WithDeduper, Source
  <2> QED
    BY <1>2, <2>1, <2>2 DEF RemovalsInv, removalVars
<1> QED
  BY <1>1, <1>2

LEMMA AccountsTell == RemovalsInv => RowsTellWhere
<1> SUFFICES ASSUME RemovalsInv, NEW a \in ArchivePaths \ (Underway \cup strayed)
             PROVE  /\ a \in rowCurrent <=> library[a] # NoFile
                    /\ a \in rowCurrent \/ a \in removed \/ a \in DOMAIN quarantined
                    /\ a \in DOMAIN quarantined => quarantine[quarantined[a]] = Stored[a]
                    /\ a \in removed => \E r \in 1..MaxRuns : backup[<<r, a>>] = Stored[a]
  BY DEF RowsTellWhere
<1>1. InPlace(a) \/ IsQuarantined(a) \/ IsRemoved(a)
  BY DEF RemovalsInv, Accounted, Underway, BeingQuarantined, BeingRemoved, WithMover, WithDeduper
<1> QED
  BY <1>1, StoredAssumption DEF InPlace, IsQuarantined, IsRemoved

(* A file that moves to a free name is one file less here and one there.   *)
Holding(f) == {x \in DOMAIN f : f[x] # NoFile}
LEMMA OneMoves ==
  ASSUME NEW f, NEW g, IsFiniteSet(DOMAIN f), IsFiniteSet(DOMAIN g),
         f = [x \in DOMAIN f |-> f[x]], g = [x \in DOMAIN g |-> g[x]],
         NEW x \in DOMAIN f, NEW y \in DOMAIN g, f[x] # NoFile, g[y] = NoFile
  PROVE  Cardinality(Holding([f EXCEPT ![x] = NoFile])) + Cardinality(Holding([g EXCEPT ![y] = f[x]]))
           = Cardinality(Holding(f)) + Cardinality(Holding(g))
<1>1. IsFiniteSet(Holding(f)) /\ IsFiniteSet(Holding(g))
  BY FS_Subset DEF Holding
<1>2. Holding([f EXCEPT ![x] = NoFile]) = Holding(f) \ {x} /\ x \in Holding(f)
  BY DEF Holding
<1>3. Holding([g EXCEPT ![y] = f[x]]) = Holding(g) \cup {y} /\ y \notin Holding(g)
  BY DEF Holding
<1> QED
  <2>1. Cardinality(Holding(f) \ {x}) = Cardinality(Holding(f)) - 1
    BY <1>1, <1>2, FS_RemoveElement
  <2>2. Cardinality(Holding(g) \cup {y}) = Cardinality(Holding(g)) + 1
    BY <1>1, <1>3, FS_AddElement
  <2>3. Cardinality(Holding(f)) \in Nat /\ Cardinality(Holding(g)) \in Nat
    BY <1>1, FS_CardinalityType
  <2> DEFINE f1 == [f EXCEPT ![x] = NoFile]
             g1 == [g EXCEPT ![y] = f[x]]
  <2>4. Holding(f1) = Holding(f) \ {x} /\ Holding(g1) = Holding(g) \cup {y}
    BY <1>2, <1>3
  <2> HIDE DEF f1, g1
  <2>5. Cardinality(Holding(f1)) + Cardinality(Holding(g1)) = Cardinality(Holding(f))
             + Cardinality(Holding(g))
    BY <2>1, <2>2, <2>3, <2>4
  <2> QED
    BY <2>5 DEF f1, g1

LEMMA PlacesAreFinite == IsFiniteSet(Dests) /\ IsFiniteSet(Kepts)
<1>1. IsFiniteSet(Names)
  <2> DEFINE name == [p \in ArchivePaths |-> NameAt[p]]
  <2>2. name \in Surjection(ArchivePaths, Names)
    BY DEF Surjection, Names
  <2> HIDE DEF name
  <2> QED
    BY <2>2, FS_Surjection, RemovalsAssumption DEF ExistsSurjection
<1>2. IsFiniteSet(Numbers)
  BY FS_Interval, FS_CardinalityType, RemovalsAssumption DEF Numbers
<1>3. IsFiniteSet(1..MaxRuns)
  BY FS_Interval, RemovalsAssumption
<1> QED
  BY <1>1, <1>2, <1>3, FS_Product, RemovalsAssumption DEF Dests, Kepts

OverwriteStep ==
  <<library, quarantine, backup>>' # <<library, quarantine, backup>> /\ meddled' = meddled =>
    \/ FileCount' = FileCount
    \/ \E p \in Underway : library[p] # NoFile

LEMMA NoneOverwritten == RemovalsInv /\ RemovalsNext => OverwriteStep
<1> SUFFICES ASSUME RemovalsInv, RemovalsNext,
                    <<library, quarantine, backup>>' # <<library, quarantine, backup>>, meddled' = meddled,
                    \A p \in Underway : library[p] = NoFile
             PROVE  FileCount' = FileCount
  BY DEF OverwriteStep
<1>1. /\ FileCount = Cardinality(Holding(library)) + Cardinality(Holding(quarantine))
           + Cardinality(Holding(backup))
      /\ FileCount' = Cardinality(Holding(library')) + Cardinality(Holding(quarantine'))
           + Cardinality(Holding(backup'))
  <2>1. DOMAIN library = ArchivePaths /\ DOMAIN library' = ArchivePaths
    BY FilesStayTyped DEF RemovalsInv, RemovalsTyped, FilesTyped
  <2> QED
    BY <2>1 DEF FileCount, Holding
<1>2. FilesTyped /\ RemovalsTyped /\ NamesHold /\ IsFiniteSet(ArchivePaths) /\ IsFiniteSet(Dests)
      /\ IsFiniteSet(Kepts)
  BY PlacesAreFinite, RemovalsAssumption DEF RemovalsInv, RemovalsTyped
<1>3. \A f : IsFiniteSet(DOMAIN f) => Cardinality(Holding(f)) \in Nat
  BY FS_Subset, FS_CardinalityType DEF Holding
<1> DEFINE SizesTyped == /\ Cardinality(Holding(library)) \in Nat /\ Cardinality(Holding(quarantine)) \in Nat
                         /\ Cardinality(Holding(backup)) \in Nat
<1>9. SizesTyped
  BY <1>2, <1>3 DEF FilesTyped
<1>8. SizesTyped'
  BY <1>2, <1>3, FilesStayTyped DEF FilesTyped
<1>4. CASE QuarantineMoves
  <2> DEFINE h == Head(mover.queue)
             d == Destination(h)
  <2>1. h \in ArchivePaths /\ d \in Dests \ mover.names /\ mover \in NextMovers /\ library[h] # NoFile
    BY <1>4, DestinationIsFree, <1>2 DEF QuarantineMoves
  <2>2. /\ quarantine' = [quarantine EXCEPT ![d] = library[h]]
        /\ library' = [library EXCEPT ![h] = NoFile] /\ backup' = backup
    BY <1>4 DEF QuarantineMoves
  <2> HIDE DEF h, d
  <2>3. quarantine[d] = NoFile
    BY <1>2, <2>1 DEF NamesHold, NextMovers
  <2>4. Cardinality(Holding(library')) + Cardinality(Holding(quarantine'))
          = Cardinality(Holding(library)) + Cardinality(Holding(quarantine))
    <3>1. /\ IsFiniteSet(DOMAIN library) /\ IsFiniteSet(DOMAIN quarantine) /\ h \in DOMAIN library
          /\ d \in DOMAIN quarantine
          /\ library = [z \in DOMAIN library |-> library[z]]
          /\ quarantine = [z \in DOMAIN quarantine |-> quarantine[z]]
          /\ library[h] # NoFile /\ quarantine[d] = NoFile
      BY <1>2, <2>1, <2>2, <2>3 DEF FilesTyped
    <3>2. Cardinality(Holding([library EXCEPT ![h] = NoFile]))
               + Cardinality(Holding([quarantine EXCEPT ![d] = library[h]]))
            = Cardinality(Holding(library)) + Cardinality(Holding(quarantine))
      BY <3>1, OneMoves
    <3> QED
      BY <2>2, <3>2
  <2> QED
    BY <1>1, <1>8, <1>9, <2>2, <2>4
<1>5. CASE QuarantineRestores
  <2>1. /\ mover.archive \in ArchivePaths /\ mover.to \in Dests /\ mover.phase = "moved"
        /\ quarantine[mover.to] # NoFile /\ library[mover.archive] = NoFile
    BY <1>5, <1>2, MovedTyped DEF QuarantineRestores, NamesHold, Underway
  <2>2. /\ library' = [library EXCEPT ![mover.archive] = quarantine[mover.to]]
        /\ quarantine' = [quarantine EXCEPT ![mover.to] = NoFile] /\ backup' = backup
    BY <1>5 DEF QuarantineRestores
  <2>3. Cardinality(Holding(quarantine')) + Cardinality(Holding(library'))
          = Cardinality(Holding(quarantine)) + Cardinality(Holding(library))
    <3>1. /\ IsFiniteSet(DOMAIN quarantine) /\ IsFiniteSet(DOMAIN library)
          /\ mover.to \in DOMAIN quarantine /\ mover.archive \in DOMAIN library
          /\ quarantine = [z \in DOMAIN quarantine |-> quarantine[z]]
          /\ library = [z \in DOMAIN library |-> library[z]]
          /\ quarantine[mover.to] # NoFile /\ library[mover.archive] = NoFile
      BY <1>2, <2>1, <2>2 DEF FilesTyped
    <3>2. Cardinality(Holding([quarantine EXCEPT ![mover.to] = NoFile]))
               + Cardinality(Holding([library EXCEPT ![mover.archive] = quarantine[mover.to]]))
            = Cardinality(Holding(quarantine)) + Cardinality(Holding(library))
      BY <3>1, OneMoves
    <3> QED
      BY <2>2, <3>2
  <2> QED
    BY <1>1, <1>8, <1>9, <2>2, <2>3
<1>6. CASE MoveDuplicate
  <2>1. Source \in ArchivePaths /\ Kept \in Kepts /\ library[Source] # NoFile /\ backup[Kept] = NoFile
    BY <1>6, <1>2, PairsTyped DEF MoveDuplicate, NamesHold
  <2>2. /\ backup' = [backup EXCEPT ![Kept] = library[Source]]
        /\ library' = [library EXCEPT ![Source] = NoFile] /\ quarantine' = quarantine
    BY <1>6 DEF MoveDuplicate
  <2>3. Cardinality(Holding(library')) + Cardinality(Holding(backup'))
          = Cardinality(Holding(library)) + Cardinality(Holding(backup))
    <3>1. /\ IsFiniteSet(DOMAIN library) /\ IsFiniteSet(DOMAIN backup) /\ Source \in DOMAIN library
          /\ Kept \in DOMAIN backup
          /\ library = [z \in DOMAIN library |-> library[z]] /\ backup = [z \in DOMAIN backup |-> backup[z]]
          /\ library[Source] # NoFile /\ backup[Kept] = NoFile
      BY <1>2, <2>1, <2>2 DEF FilesTyped
    <3>2. Cardinality(Holding([library EXCEPT ![Source] = NoFile]))
               + Cardinality(Holding([backup EXCEPT ![Kept] = library[Source]]))
            = Cardinality(Holding(library)) + Cardinality(Holding(backup))
      BY <3>1, OneMoves
    <3> QED
      BY <2>2, <3>2
  <2> QED
    BY <1>1, <1>8, <1>9, <2>2, <2>3
<1>7. CASE DuplicateRestores
  <2>1. Source \in ArchivePaths /\ Kept \in Kepts /\ backup[Kept] # NoFile /\ library[Source] = NoFile
    BY <1>7, <1>2, PairsTyped DEF DuplicateRestores, NamesHold, Underway
  <2>2. /\ library' = [library EXCEPT ![Source] = backup[Kept]]
        /\ backup' = [backup EXCEPT ![Kept] = NoFile] /\ quarantine' = quarantine
    BY <1>7 DEF DuplicateRestores
  <2>3. Cardinality(Holding(backup')) + Cardinality(Holding(library'))
          = Cardinality(Holding(backup)) + Cardinality(Holding(library))
    <3>1. /\ IsFiniteSet(DOMAIN backup) /\ IsFiniteSet(DOMAIN library) /\ Kept \in DOMAIN backup
          /\ Source \in DOMAIN library
          /\ backup = [z \in DOMAIN backup |-> backup[z]] /\ library = [z \in DOMAIN library |-> library[z]]
          /\ backup[Kept] # NoFile /\ library[Source] = NoFile
      BY <1>2, <2>1, <2>2 DEF FilesTyped
    <3>2. Cardinality(Holding([backup EXCEPT ![Kept] = NoFile]))
               + Cardinality(Holding([library EXCEPT ![Source] = backup[Kept]]))
            = Cardinality(Holding(backup)) + Cardinality(Holding(library))
      BY <3>1, OneMoves
    <3> QED
      BY <2>2, <3>2
  <2> QED
    BY <1>1, <1>8, <1>9, <2>2, <2>3
<1> QED
  <2>1. QuarantineMoves \/ QuarantineRestores \/ MoveDuplicate \/ DuplicateRestores \/ \E p \in ArchivePaths : Meddle(p)
    BY DEF RemovalsNext, QuarantineStep, DedupeStep, files, StartQuarantine, QuarantineSkips,
         RecordQuarantine,
       QuarantineStrands, QuarantineEnds, StartDeduping, VerifyDuplicate, MoveDuplicateFails, RecordRemoval,
       DuplicateStrands, DedupingEnds, Rediscover, JobChanges
  <2>2. \A p \in ArchivePaths : ~Meddle(p)
    BY <1>2 DEF Meddle, RemovalsTyped, RecordsTyped
  <2> QED
    BY <1>4, <1>5, <1>6, <1>7, <2>1, <2>2

(* Whatever fails, crashes or moves back at the wrong time: the rows tell  *)
(* where each archive is that neither a crash nor a failed move back left  *)
(* out of place, and no move of either tool puts a file over another,      *)
(* save for one that arrived where a file is being moved back to.          *)
THEOREM RemovalsAreSafe == RemovalsSpec => RemovalsSafety
<1>1. RemovalsInv /\ [RemovalsNext]_removalVars => [OverwriteStep]_removalVars
  BY NoneOverwritten
<1> QED
  BY <1>1, RemovalsBegin, RemovalsStep, AccountsTell, PTL
     DEF RemovalsSpec, RemovalsSafety, NothingOverwritten, OverwriteStep

-----------------------------------------------------------------------------
(* Supersession                                                            *)

(* What older holds that newer does not carry on: nothing.                 *)
Carries(older, newer) ==
    /\ Subsequence(older.pages, newer.pages) /\ BeginsWith(older.pages, newer.pages)
    /\ older.extras \subseteq newer.extras
    /\ UNION {Filled[d] : d \in Documents(older)} \subseteq UNION {Filled[d] : d \in Documents(newer)}

Settled(m) == bound[m].read /\ bound[m].checked

(* What was read of a member stays, and once it is comparable that is what *)
(* the file held when it was checked, and its stored rows are those pages. *)
EvidenceHolds(m) ==
    /\ file[m] \in Contents
    /\ bound[m].read => bound[m].content \in Contents
    /\ Settled(m) /\ bound[m].comparable =>
          stored[m] = bound[m].content.pages /\ atCheck[m] = bound[m].content

SupersessionInv ==
    /\ file = [m \in Members |-> file[m]] /\ bound = [m \in Members |-> bound[m]]
    /\ atCheck = [m \in Members |-> atCheck[m]]
    /\ \A m \in Members : EvidenceHolds(m)
    /\ review.status = "supersession" => \A m \in Members : Settled(m)
    /\ KeeperCarriesAll

(* Pages                                                                   *)

LEMMA BeginningIsSubsequence ==
    ASSUME NEW S, NEW T, NEW older \in Seq(S), NEW newer \in Seq(T),
           Len(older) <= Len(newer), BeginsWith(older, newer)
    PROVE  Subsequence(older, newer)
<1> DEFINE at == [i \in 1..Len(older) |-> i]
<1>1. at \in [1..Len(older) -> 1..Len(newer)]
  OBVIOUS
<1>2. \A i, j \in 1..Len(older) : i < j => at[i] < at[j]
  OBVIOUS
<1>3. \A i \in 1..Len(older) : newer[at[i]] = older[i]
  BY DEF BeginsWith
<1> HIDE DEF at
<1> QED
  BY <1>1, <1>2, <1>3 DEF Subsequence

LEMMA CarriesItself ==
    ASSUME NEW c \in Contents
    PROVE  Carries(c, c)
<1>1. c.pages \in Seq(Range(c.pages))
  BY ContentsAssumption
<1>2. BeginsWith(c.pages, c.pages)
  BY <1>1 DEF BeginsWith
<1>3. Len(c.pages) <= Len(c.pages)
  BY <1>1
<1> QED
  BY <1>1, <1>2, <1>3, BeginningIsSubsequence DEF Carries

-----------------------------------------------------------------------------
(* The relation of a pair                                                  *)

(* Nothing but its pages is unique to older: its ComicInfo is in newer, or *)
(* newer fills every field of it.                                          *)
LEMMA NoPayloadIsCarried ==
    ASSUME NEW older, NEW newer, UniquePayload(older, newer) = {}
    PROVE  /\ older.extras \subseteq newer.extras
           /\ UNION {Filled[d] : d \in Documents(older)}
                \subseteq UNION {Filled[d] : d \in Documents(newer)}
<1>1. older.extras \subseteq newer.extras
  BY DEF UniquePayload
<1>2. CASE accept /\ ~DropRefused(older, newer)
  <2>1. Documents(newer) # {}
    BY <1>2, FS_EmptySet DEF DropRefused, UsableComicInfo
  <2> QED
    BY <1>1, <1>2, <2>1 DEF DropRefused
<1>3. CASE ~(accept /\ ~DropRefused(older, newer))
  <2>1. MissingComicInfo(older, newer) = {}
    BY <1>3 DEF UniquePayload
  <2>2. Documents(older) \subseteq Documents(newer)
    BY <2>1 DEF MissingComicInfo, Documents, Range
  <2> QED
    BY <1>1, <2>2
<1> QED
  BY <1>2, <1>3

LEMMA SupersededIsCarried ==
    ASSUME NEW a, NEW b, bound[a].content \in Contents, bound[b].content \in Contents,
           Outcome(a, b) = "superseded"
    PROVE  Carries(bound[a].content, bound[b].content)
<1> DEFINE older == bound[a].content  newer == bound[b].content
<1>1. older.pages \in Seq(Range(older.pages)) /\ newer.pages \in Seq(Range(newer.pages))
  BY ContentsAssumption
<1>2. Len(older.pages) \in Nat /\ Len(newer.pages) \in Nat
  BY <1>1
<1>3. /\ Len(older.pages) < Len(newer.pages)
      /\ UniquePayload(older, newer) = {}
      /\ BeginsWith(older.pages, newer.pages)
  BY <1>2 DEF Outcome
<1> HIDE DEF older, newer
<1>4. Subsequence(older.pages, newer.pages)
  BY <1>1, <1>2, <1>3, BeginningIsSubsequence
<1>5. Carries(older, newer)
  BY <1>3, <1>4, NoPayloadIsCarried DEF Carries
<1> QED
  BY <1>5 DEF older, newer

-----------------------------------------------------------------------------
(* The invariant                                                           *)

LEMMA SupersessionInvInit == SupersessionInit => SupersessionInv
BY DEF SupersessionInit, SupersessionInv, EvidenceHolds, Settled, KeeperCarriesAll, Unread, NoReview

(* A member is read once, and after the verdict none is.                   *)
LEMMA ReadingKeeps ==
    ASSUME SupersessionInv, NEW m \in Members, BindArchive(m) \/ CheckArchive(m)
    PROVE  SupersessionInv'
<1>1. ~Settled(m) /\ UNCHANGED <<file, stored, review>>
  BY DEF BindArchive, CheckArchive, Settled, Unread
<1>2. review.status # "supersession"
  BY <1>1 DEF SupersessionInv
<1>3. /\ bound' = [n \in Members |-> bound'[n]] /\ atCheck' = [n \in Members |-> atCheck'[n]]
      /\ \A n \in Members \ {m} : bound'[n] = bound[n] /\ atCheck'[n] = atCheck[n]
  BY DEF SupersessionInv, BindArchive, CheckArchive
<1>4. EvidenceHolds(m)'
  <2>1. CASE BindArchive(m)
    <3>1. bound'[m] = [read |-> TRUE, checked |-> FALSE, content |-> file[m]]
      BY <2>1 DEF BindArchive, SupersessionInv
    <3> QED
      BY <1>1, <3>1 DEF SupersessionInv, EvidenceHolds, Settled
  <2>2. CASE CheckArchive(m)
    <3> DEFINE c == bound[m].content
               usable == c = file[m] /\ c.pages # <<>> /\ stored[m] = c.pages
    <3>1. bound'[m] = [read |-> TRUE, checked |-> TRUE, content |-> c, comparable |-> usable]
      BY <2>2 DEF CheckArchive, SupersessionInv
    <3>2. c \in Contents /\ file[m] \in Contents
      BY <2>2 DEF CheckArchive, SupersessionInv, EvidenceHolds
    <3>3. usable => stored[m] = c.pages /\ atCheck'[m] = c
      BY <2>2 DEF CheckArchive, SupersessionInv
    <3> HIDE DEF c, usable
    <3>4. bound'[m].content = c /\ bound'[m].comparable = usable
      BY <3>1
    <3> QED
      BY <1>1, <3>2, <3>3, <3>4 DEF EvidenceHolds
  <2> QED
    BY <2>1, <2>2
<1>5. \A n \in Members : EvidenceHolds(n)'
  BY <1>1, <1>3, <1>4 DEF SupersessionInv, EvidenceHolds, Settled
<1> QED
  BY <1>1, <1>2, <1>3, <1>5 DEF SupersessionInv, KeeperCarriesAll

LEMMA RewriteKeeps ==
    ASSUME SupersessionInv, NEW m \in Members, Rewrite(m)
    PROVE  SupersessionInv'
<1>1. UNCHANGED <<stored, bound, review, atCheck>>
  BY DEF Rewrite
<1>2. file' = [n \in Members |-> file'[n]] /\ \A n \in Members : file'[n] \in Contents
  BY DEF Rewrite, SupersessionInv, EvidenceHolds
<1> QED
  BY <1>1, <1>2 DEF SupersessionInv, EvidenceHolds, Settled, KeeperCarriesAll

(* The verdict: the keeper is above every other member, and by a relation  *)
(* that asks no human.                                                     *)
LEMMA VerdictKeeps ==
    ASSUME SupersessionInv, Evaluate
    PROVE  SupersessionInv'
<1>1. UNCHANGED <<file, stored, bound, atCheck>> /\ \A m \in Members : Settled(m)
  BY DEF Evaluate, Settled
<1>2. ASSUME review'.status = "supersession" PROVE (KeeperCarriesAll)'
  <2> DEFINE keeper == CHOOSE m \in Maximal : TRUE
  <2>1. \A m \in Members : bound[m].comparable
    BY <1>2 DEF Evaluate
  <2>2. Maximal # {}
    BY <1>2, FS_EmptySet DEF Evaluate
  <2>3. keeper \in Members
    BY <2>2 DEF Maximal
  <2>4. review'.keeper = keeper
    BY <1>2 DEF Evaluate
  <2>5. \A m \in Members \ {keeper} : IsEdge(m, keeper) /\ Outcome(m, keeper) # "inserted"
    BY <1>2, <2>3 DEF Evaluate
  <2> HIDE DEF keeper
  <2>6. \A m \in Members \ {keeper} : Outcome(m, keeper) = "superseded"
    BY <2>5 DEF IsEdge
  <2>7. \A m \in Members : /\ bound[m].content \in Contents /\ atCheck[m] = bound[m].content
                           /\ stored[m] = bound[m].content.pages
    BY <1>1, <2>1 DEF SupersessionInv, EvidenceHolds, Settled
  <2>8. \A m \in Members : Carries(atCheck[m], atCheck[keeper])
    BY <2>3, <2>6, <2>7, CarriesItself, SupersededIsCarried
  <2> QED
    BY <1>1, <2>4, <2>7, <2>8 DEF KeeperCarriesAll, Carries
<1>3. (KeeperCarriesAll)'
  BY <1>2 DEF KeeperCarriesAll
<1> QED
  BY <1>1, <1>3 DEF SupersessionInv, EvidenceHolds, Settled

(* Whichever files change while the family is read: the file of a member   *)
(* reported as superseded, as it was when its evaluation ended, had nothing *)
(* that the keeper's lacked, neither a page in its order nor another member *)
(* nor a field of its ComicInfo.                                           *)
THEOREM KeeperAlwaysCarriesAll == SupersessionSpec => []KeeperCarriesAll
<1>1. SupersessionInv /\ [SupersessionNext]_supersessionVars => SupersessionInv'
  <2>1. SupersessionInv /\ UNCHANGED supersessionVars => SupersessionInv'
    BY DEF supersessionVars, SupersessionInv, EvidenceHolds, Settled, KeeperCarriesAll
  <2> QED
    BY <2>1, ReadingKeeps, RewriteKeeps, VerdictKeeps DEF SupersessionNext
<1>2. SupersessionInv => KeeperCarriesAll
  BY DEF SupersessionInv
<1> QED
  BY <1>1, <1>2, SupersessionInvInit, PTL DEF SupersessionSpec

-----------------------------------------------------------------------------
(* Review cases                                                            *)

CarrierSteps ==
  {"idle", "begin", "copy", "verify", "gate", "move", "publish", "record", "release", "delete",
   "complete", "resume_publication", "publish_partial", "restart_from_source"}
RecordStates == {"none"} \cup InFlight \cup Terminal
ReviewTyped ==
  /\ method \in {"rename", "copy_verify"}
  /\ upstream \subseteq Chapters /\ shelf \subseteq Chapters
  /\ scaffolds \subseteq Cases /\ published \subseteq Cases
  /\ partial \in [Cases -> SUBSET Chapters] /\ pending \in [Cases -> SUBSET Chapters]
  /\ rejected \in [Cases -> SUBSET Chapters]
  /\ record \in [Cases -> RecordStates]
  /\ carrier \in [at : CarrierSteps, case : SUBSET Chapters, run : {"transfer", "recovery"},
                  release : {"keep", "release"}]
  /\ carrier.at # "idle" => carrier.case \in Cases
  /\ operator \in [at : {"idle", "moving", "waiting", "finish"}, case : SUBSET Chapters,
                   action : {"promote", "reject", "rollback"}]
  /\ operator.at # "idle" => operator.case \in Cases

(* Nothing lies in a directory that is not there, and what is staged, or   *)
(* carried, has a manifest.  A rename never copies or releases, a copy is  *)
(* never renamed away or rolled back.                                      *)
StagesHold ==
  /\ \A c \in Cases : /\ c \notin scaffolds => partial[c] = {}
                      /\ c \notin published => pending[c] = {}
                      /\ c \in scaffolds \cup published => record[c] # "none"
  /\ carrier.at \in {"copy", "verify", "gate", "move"} => carrier.case \in scaffolds
  /\ carrier.at \notin {"idle", "begin"} => record[carrier.case] # "none"
  /\ method = "rename" =>
       /\ carrier.at \notin {"copy", "verify", "release", "delete", "resume_publication"}
       /\ carrier.release = "keep"
  /\ method = "copy_verify" =>
       /\ carrier.at \notin {"move", "publish_partial"} /\ operator.action # "rollback"

(* What has left the carrier's hands: at one of the places of an outcome.  *)
Delivered == shelf \cup UNION {pending[c] \cup rejected[c] : c \in Cases}

(* Across volumes the source outlives the copy: what is in it may only go  *)
(* once the case that was made of it is kept.                              *)
CopiesHold ==
  method = "copy_verify" =>
    /\ arrived \ raced \subseteq upstream \cup Delivered
    /\ carrier.at \in {"gate", "publish"} => partial[carrier.case] = carrier.case
    /\ carrier.at \in {"record", "release", "delete"} => carrier.case \subseteq Delivered
    /\ carrier.at = "delete" => upstream \subseteq carrier.case \cup raced

(* What an operator's command knows of its case.                           *)
OperatorHolds ==
  LET c == operator.case IN
  /\ operator.at # "idle" => record[c] \notin Terminal
  /\ operator.at = "moving" /\ operator.action # "reject" =>
       c \in published /\ pending[c] \subseteq c \cup raced
  /\ operator.at = "finish" => c \in touched

(* A case that has begun, and its payload, while nobody disturbed it.      *)
Begun(c) == c \in scaffolds \cup published \/ record[c] \in InFlight
AtSource(c) == upstream = c /\ (method = "rename" => partial[c] = {})
Moved(c) == method = "rename" /\ upstream = {} /\ partial[c] = c
Recoverable(c) ==
  /\ record[c] \in InFlight
  /\ \/ c \in published /\ pending[c] = c
     \/ c \notin published /\ record[c] # "pending_review" /\ (AtSource(c) \/ Moved(c))

CasesHold == \A c \in Cases \ touched : Begun(c) => Recoverable(c)

(* What the carrier knows of the case it carries, and that no other case   *)
(* waits for the source it is about to take away.                          *)
CarrierHolds ==
  LET d == carrier.case IN
  /\ d \notin touched =>
       /\ carrier.at \in {"begin", "copy", "verify", "gate", "move"} => upstream = d
       /\ carrier.at \in {"copy", "verify", "gate", "move", "publish", "resume_publication",
                          "publish_partial", "restart_from_source"} =>
            d \notin published /\ record[d] \in InFlight
       /\ carrier.at = "publish" => partial[d] = d
       /\ carrier.at \in {"record", "release", "delete", "complete"} => d \in published
  /\ carrier.at \in {"move", "delete"} =>
       \A c \in Cases \ touched : c # d /\ Begun(c) /\ c \notin published => upstream # c

ReviewInv ==
  /\ ReviewTyped /\ StagesHold /\ NothingIsLost /\ CopiesHold /\ OperatorHolds
  /\ CasesHold /\ CarrierHolds

LEMMA CasesNonEmpty == \A c \in Cases : c # {} /\ c \subseteq Chapters
<1> SUFFICES ASSUME NEW c \in Cases PROVE c # {} /\ c \subseteq Chapters
  OBVIOUS
<1>1. c \in SUBSET Chapters /\ c \notin {{}}
  BY DEF Cases
<1>2. c # {}
  <2> SUFFICES ASSUME c = {} PROVE FALSE
    OBVIOUS
  <2> QED
    BY <1>1
<1> QED
  BY <1>1, <1>2

(* Types.                                                                 *)
LEMMA TypedHolds ==
  ASSUME ReviewTyped, ReviewNext PROVE ReviewTyped'
<1>1. ASSUME NEW release \in {"keep", "release"}, PlanCase(release) PROVE ReviewTyped'
  <2>1. upstream \in SUBSET Chapters /\ upstream \notin {{}}
    BY <1>1, ZenonT(20) DEF PlanCase, ReviewTyped
  <2>2. upstream \in Cases
    BY <2>1 DEF Cases
  <2> QED
    BY <1>1, <2>1, <2>2 DEF PlanCase, CarrierOnly, diskVars, ReviewTyped, CarrierSteps
<1>2. ASSUME NEW c \in Cases, NEW release \in {"keep", "release"}, RecoverStart(c, release)
      PROVE  ReviewTyped'
  <2>1. Assess(c) \in {"resume_publication", "restart_from_source", "publish_partial", "complete"}
    BY <1>2 DEF RecoverStart, Automatic
  <2>2. c \subseteq Chapters
    BY CasesNonEmpty
  <2> HIDE DEF Assess
  <2> QED
    BY <1>2, <2>1, <2>2 DEF RecoverStart, CarrierOnly, diskVars, ReviewTyped, CarrierSteps
<1>3. CASE BeginTransfer
  BY <1>3 DEF CarrierAt, CarrierGoes, CarrierStops, CarrierOnly, IdleCarrier, diskVars, BeginTransfer,
       ManifestBefore, ReviewTyped, CarrierSteps, RecordStates, InFlight
<1>4. CASE CopyTree
  BY <1>4 DEF CarrierAt, CarrierGoes, CarrierOnly, CopyTree, ReviewTyped, CarrierSteps
<1>5. CASE VerifyCopy
  BY <1>5 DEF CarrierAt, CarrierGoes, CarrierStops, CarrierOnly, IdleCarrier, VerifyCopy, ReviewTyped,
       CarrierSteps, RecordStates, InFlight
<1>6. CASE RevalidateSource
  BY <1>6 DEF CarrierAt, CarrierGoes, CarrierStops, CarrierOnly, IdleCarrier, diskVars,
       RevalidateSource, ReviewTyped, CarrierSteps
<1>7. CASE MoveSource
  BY <1>7 DEF CarrierAt, CarrierGoes, CarrierStops, CarrierOnly, IdleCarrier, MoveSource, ReviewTyped,
       CarrierSteps
<1>8. CASE MoveWaits
  BY <1>8 DEF CarrierAt, CarrierGoes, CarrierOnly, diskVars, MoveWaits, ReviewTyped, CarrierSteps
<1>9. CASE Publish
  BY <1>9 DEF CarrierGoes, CarrierStops, CarrierOnly, IdleCarrier, Publish, ReviewTyped, CarrierSteps
<1>10. CASE RecordPublished
  BY <1>10 DEF CarrierAt, CarrierGoes, CarrierStops, CarrierOnly, IdleCarrier, RecordPublished,
       ReviewTyped, CarrierSteps, RecordStates, InFlight
<1>11. CASE CheckRelease
  BY <1>11 DEF CarrierAt, CarrierGoes, CarrierStops, CarrierOnly, IdleCarrier, diskVars, CheckRelease,
       ReviewTyped, CarrierSteps
<1>12. CASE DeleteSource
  BY <1>12 DEF CarrierStops, CarrierOnly, IdleCarrier, DeleteSource, ReviewTyped, CarrierSteps
<1>13. CASE CarrierDies
  BY <1>13 DEF CarrierStops, CarrierOnly, IdleCarrier, diskVars, CarrierDies, ReviewTyped, CarrierSteps
<1>14. CASE RecoverComplete
  BY <1>14 DEF CarrierStops, CarrierOnly, IdleCarrier, RecoverComplete, ReviewTyped, CarrierSteps,
       RecordStates, InFlight
<1>15. CASE RecoverPublish
  BY <1>15 DEF CarrierAt, CarrierGoes, CarrierStops, CarrierOnly, IdleCarrier, diskVars,
       RecoverPublish, ReviewTyped, CarrierSteps
<1>16. CASE RecoverRestart
  BY <1>16 DEF CarrierAt, CarrierGoes, CarrierStops, CarrierOnly, IdleCarrier, RecoverRestart,
       ReviewTyped, CarrierSteps
<1>17. ASSUME NEW c \in Cases, NEW action \in {"promote", "reject", "rollback"}, Decide(c, action)
       PROVE  ReviewTyped'
  <2>1. c \subseteq Chapters
    BY CasesNonEmpty
  <2> QED
    BY <1>17, <2>1 DEF Decide, OperatorOnly, diskVars, ReviewTyped
<1>18. CASE LockWait
  BY <1>18 DEF OperatorOnly, diskVars, LockWait, ReviewTyped
<1>19. CASE RetryMove
  BY <1>19 DEF OperatorOnly, IdleOperator, diskVars, RetryMove, ReviewTyped
<1>20. CASE OperatorMove
  BY <1>20 DEF OperatorOnly, OperatorMove, ReviewTyped
<1>21. CASE Finish
  BY <1>21 DEF OperatorOnly, IdleOperator, Finish, ReviewTyped, RecordStates, Terminal
<1>22. CASE OperatorDies
  BY <1>22 DEF OperatorOnly, IdleOperator, diskVars, OperatorDies, ReviewTyped
<1>23. ASSUME NEW ch \in Chapters, Arrive(ch) PROVE ReviewTyped'
  BY <1>23 DEF Arrive, ReviewTyped
<1>24. ASSUME NEW c \in Cases, NEW ch \in Chapters, Edit(c, ch) PROVE ReviewTyped'
  BY <1>24 DEF Edit, ReviewTyped
<1> QED
  BY <1>1, <1>2, <1>3, <1>4, <1>5, <1>6, <1>7, <1>8, <1>9, <1>10, <1>11, <1>12, <1>13, <1>14, <1>15,
       <1>16, <1>17, <1>18, <1>19, <1>20, <1>21, <1>22, <1>23, <1>24 DEF ReviewNext

(* Directories come and go with their payloads, and a method's own steps.  *)
LEMMA StagesKeep ==
  ASSUME ReviewTyped, StagesHold, ReviewNext PROVE StagesHold'
<1>1. ASSUME NEW release \in {"keep", "release"}, PlanCase(release) PROVE StagesHold'
  BY <1>1 DEF CarrierOnly, diskVars, PlanCase, StagesHold
<1>2. ASSUME NEW c \in Cases, NEW release \in {"keep", "release"}, RecoverStart(c, release)
      PROVE  StagesHold'
  BY <1>2 DEF CarrierOnly, diskVars, RecoverStart, Automatic, Assess, AssessCopy, AssessRename,
       StagesHold
<1>3. CASE BeginTransfer
  BY <1>3 DEF CarrierAt, CarrierGoes, CarrierStops, CarrierOnly, IdleCarrier, diskVars, BeginTransfer,
       ManifestBefore, ReviewTyped, StagesHold
<1>4. CASE CopyTree
  BY <1>4 DEF CarrierAt, CarrierGoes, CarrierOnly, CopyTree, StagesHold
<1>5. CASE VerifyCopy
  BY <1>5 DEF CarrierAt, CarrierGoes, CarrierStops, CarrierOnly, IdleCarrier, VerifyCopy, ReviewTyped,
       StagesHold
<1>6. CASE RevalidateSource
  BY <1>6 DEF CarrierAt, CarrierGoes, CarrierStops, CarrierOnly, IdleCarrier, diskVars,
       RevalidateSource, ReviewTyped, StagesHold
<1>7. CASE MoveSource
  BY <1>7 DEF CarrierAt, CarrierGoes, CarrierStops, CarrierOnly, IdleCarrier, MoveSource, ReviewTyped,
       StagesHold
<1>8. CASE MoveWaits
  BY <1>8 DEF CarrierAt, CarrierGoes, CarrierOnly, diskVars, MoveWaits, StagesHold
<1>9. CASE Publish
  BY <1>9 DEF CarrierGoes, CarrierStops, CarrierOnly, IdleCarrier, Publish, ReviewTyped, StagesHold
<1>10. CASE RecordPublished
  BY <1>10 DEF CarrierAt, CarrierGoes, CarrierStops, CarrierOnly, IdleCarrier, RecordPublished,
       ReviewTyped, StagesHold
<1>11. CASE CheckRelease
  BY <1>11 DEF CarrierAt, CarrierGoes, CarrierStops, CarrierOnly, IdleCarrier, diskVars, CheckRelease,
       ReviewTyped, StagesHold
<1>12. CASE DeleteSource
  BY <1>12 DEF CarrierStops, CarrierOnly, IdleCarrier, DeleteSource, StagesHold
<1>13. CASE CarrierDies
  BY <1>13 DEF CarrierStops, CarrierOnly, IdleCarrier, diskVars, CarrierDies, StagesHold
<1>14. CASE RecoverComplete
  BY <1>14 DEF CarrierStops, CarrierOnly, IdleCarrier, RecoverComplete, StagesHold
<1>15. CASE RecoverPublish
  BY <1>15 DEF CarrierAt, CarrierGoes, CarrierStops, CarrierOnly, IdleCarrier, diskVars,
       RecoverPublish, ReviewTyped, StagesHold
<1>16. CASE RecoverRestart
  BY <1>16 DEF CarrierAt, CarrierGoes, CarrierStops, CarrierOnly, IdleCarrier, RecoverRestart,
       ReviewTyped, StagesHold
<1>17. ASSUME NEW c \in Cases, NEW action \in {"promote", "reject", "rollback"}, Decide(c, action)
       PROVE  StagesHold'
  BY <1>17 DEF OperatorOnly, diskVars, Decide, Permitted, StagesHold
<1>18. CASE LockWait
  BY <1>18 DEF OperatorOnly, diskVars, LockWait, StagesHold
<1>19. CASE RetryMove
  BY <1>19 DEF OperatorOnly, IdleOperator, diskVars, RetryMove, StagesHold
<1>20. CASE OperatorMove
  BY <1>20 DEF OperatorOnly, OperatorMove, ReviewTyped, StagesHold
<1>21. CASE Finish
  BY <1>21 DEF OperatorOnly, IdleOperator, Finish, ReviewTyped, StagesHold
<1>22. CASE OperatorDies
  BY <1>22 DEF OperatorOnly, IdleOperator, diskVars, OperatorDies, StagesHold
<1>23. ASSUME NEW ch \in Chapters, Arrive(ch) PROVE StagesHold'
  BY <1>23 DEF Arrive, StagesHold
<1>24. ASSUME NEW c \in Cases, NEW ch \in Chapters, Edit(c, ch) PROVE StagesHold'
  BY <1>24 DEF Edit, StagesHold
<1> QED
  BY <1>1, <1>2, <1>3, <1>4, <1>5, <1>6, <1>7, <1>8, <1>9, <1>10, <1>11, <1>12, <1>13, <1>14, <1>15,
       <1>16, <1>17, <1>18, <1>19, <1>20, <1>21, <1>22, <1>23, <1>24 DEF ReviewNext

(* No step takes away a payload that is nowhere else.                      *)
LEMMA LossKeep ==
  ASSUME ReviewTyped, StagesHold, CopiesHold, NothingIsLost, ReviewNext PROVE NothingIsLost'
<1>1. ASSUME NEW release \in {"keep", "release"}, PlanCase(release) PROVE NothingIsLost'
  BY <1>1 DEF CarrierOnly, diskVars, PlanCase, NothingIsLost
<1>2. ASSUME NEW c \in Cases, NEW release \in {"keep", "release"}, RecoverStart(c, release)
      PROVE  NothingIsLost'
  BY <1>2 DEF CarrierOnly, diskVars, RecoverStart, NothingIsLost
<1>3. CASE BeginTransfer
  BY <1>3 DEF CarrierOnly, diskVars, BeginTransfer, MayDiscardPartial, ReviewTyped, StagesHold,
       CopiesHold, NothingIsLost, Delivered
<1>4. CASE CopyTree
  BY <1>4 DEF CarrierAt, CarrierOnly, CopyTree, ReviewTyped, StagesHold, CopiesHold, NothingIsLost,
       Delivered
<1>5. CASE VerifyCopy
  BY <1>5 DEF CarrierOnly, VerifyCopy, NothingIsLost
<1>6. CASE RevalidateSource
  BY <1>6 DEF CarrierOnly, diskVars, RevalidateSource, NothingIsLost
<1>7. CASE MoveSource
  BY <1>7 DEF CarrierAt, CarrierOnly, MoveSource, ReviewTyped, NothingIsLost
<1>8. CASE MoveWaits
  BY <1>8 DEF CarrierOnly, diskVars, MoveWaits, NothingIsLost
<1>9. CASE Publish
  BY <1>9 DEF CarrierOnly, Publish, ReviewTyped, StagesHold, NothingIsLost
<1>10. CASE RecordPublished
  BY <1>10 DEF CarrierOnly, RecordPublished, NothingIsLost
<1>11. CASE CheckRelease
  BY <1>11 DEF CarrierOnly, diskVars, CheckRelease, NothingIsLost
<1>12. CASE DeleteSource
  BY <1>12 DEF CarrierAt, CarrierOnly, DeleteSource, ReviewTyped, StagesHold, CopiesHold,
       NothingIsLost, Delivered
<1>13. CASE CarrierDies
  BY <1>13 DEF CarrierOnly, diskVars, CarrierDies, NothingIsLost
<1>14. CASE RecoverComplete
  BY <1>14 DEF CarrierOnly, RecoverComplete, NothingIsLost
<1>15. CASE RecoverPublish
  BY <1>15 DEF CarrierOnly, diskVars, RecoverPublish, NothingIsLost
<1>16. CASE RecoverRestart
  BY <1>16 DEF CarrierOnly, RecoverRestart, ReviewTyped, CopiesHold, NothingIsLost, Delivered
<1>17. ASSUME NEW c \in Cases, NEW action \in {"promote", "reject", "rollback"}, Decide(c, action)
       PROVE  NothingIsLost'
  BY <1>17 DEF OperatorOnly, diskVars, Decide, NothingIsLost
<1>18. CASE LockWait
  BY <1>18 DEF OperatorOnly, diskVars, LockWait, NothingIsLost
<1>19. CASE RetryMove
  BY <1>19 DEF OperatorOnly, diskVars, RetryMove, NothingIsLost
<1>20. CASE OperatorMove
  BY <1>20 DEF OperatorOnly, OperatorMove, ReviewTyped, NothingIsLost
<1>21. CASE Finish
  BY <1>21 DEF OperatorOnly, Finish, NothingIsLost
<1>22. CASE OperatorDies
  BY <1>22 DEF OperatorOnly, diskVars, OperatorDies, NothingIsLost
<1>23. ASSUME NEW ch \in Chapters, Arrive(ch) PROVE NothingIsLost'
  BY <1>23 DEF Arrive, NothingIsLost
<1>24. ASSUME NEW c \in Cases, NEW ch \in Chapters, Edit(c, ch) PROVE NothingIsLost'
  BY <1>24 DEF Edit, ReviewTyped, NothingIsLost
<1> QED
  BY <1>1, <1>2, <1>3, <1>4, <1>5, <1>6, <1>7, <1>8, <1>9, <1>10, <1>11, <1>12, <1>13, <1>14, <1>15,
       <1>16, <1>17, <1>18, <1>19, <1>20, <1>21, <1>22, <1>23, <1>24 DEF ReviewNext

(* Across volumes the source is taken away last.                           *)
LEMMA CopiesKeep ==
  ASSUME ReviewTyped, StagesHold, CopiesHold, ReviewNext PROVE CopiesHold'
<1>1. ASSUME NEW release \in {"keep", "release"}, PlanCase(release) PROVE CopiesHold'
  BY <1>1 DEF CarrierOnly, diskVars, PlanCase, CopiesHold, Delivered
<1>2. ASSUME NEW c \in Cases, NEW release \in {"keep", "release"}, RecoverStart(c, release)
      PROVE  CopiesHold'
  BY <1>2 DEF CarrierOnly, diskVars, RecoverStart, Assess, AssessCopy, CopiesHold, Delivered
<1>3. CASE BeginTransfer
  BY <1>3 DEF CarrierGoes, CarrierStops, CarrierOnly, IdleCarrier, diskVars, BeginTransfer,
       ReviewTyped, CopiesHold, Delivered
<1>4. CASE CopyTree
  BY <1>4 DEF CarrierGoes, CarrierOnly, CopyTree, CopiesHold, Delivered
<1>5. CASE VerifyCopy
  BY <1>5 DEF CarrierGoes, CarrierStops, CarrierOnly, IdleCarrier, VerifyCopy, ReviewTyped, CopiesHold,
       Delivered
<1>6. CASE RevalidateSource
  BY <1>6 DEF CarrierAt, CarrierGoes, CarrierStops, CarrierOnly, IdleCarrier, diskVars,
       RevalidateSource, ReviewTyped, CopiesHold, Delivered
<1>7. CASE MoveSource
  BY <1>7 DEF CarrierAt, CarrierOnly, MoveSource, StagesHold, CopiesHold
<1>8. CASE MoveWaits
  BY <1>8 DEF CarrierAt, CarrierOnly, MoveWaits, StagesHold, CopiesHold
<1>9. CASE Publish
  BY <1>9 DEF CarrierAt, CarrierGoes, CarrierStops, CarrierOnly, IdleCarrier, Publish, ReviewTyped,
       StagesHold, CopiesHold, Delivered
<1>10. CASE RecordPublished
  BY <1>10 DEF CarrierAt, CarrierGoes, CarrierStops, CarrierOnly, IdleCarrier, RecordPublished,
       ReviewTyped, CopiesHold, Delivered
<1>11. CASE CheckRelease
  BY <1>11 DEF CarrierAt, CarrierGoes, CarrierStops, CarrierOnly, IdleCarrier, diskVars, CheckRelease,
       SourceIsStill, ReviewTyped, CopiesHold, Delivered
<1>12. CASE DeleteSource
  BY <1>12 DEF CarrierAt, CarrierStops, CarrierOnly, IdleCarrier, DeleteSource, CopiesHold, Delivered
<1>13. CASE CarrierDies
  BY <1>13 DEF CarrierStops, CarrierOnly, IdleCarrier, diskVars, CarrierDies, CopiesHold, Delivered
<1>14. CASE RecoverComplete
  BY <1>14 DEF CarrierStops, CarrierOnly, IdleCarrier, RecoverComplete, CopiesHold, Delivered
<1>15. CASE RecoverPublish
  BY <1>15 DEF CarrierGoes, CarrierStops, CarrierOnly, IdleCarrier, diskVars, RecoverPublish,
       ReviewTyped, CopiesHold, Delivered
<1>16. CASE RecoverRestart
  BY <1>16 DEF CarrierGoes, CarrierOnly, RecoverRestart, ReviewTyped, CopiesHold, Delivered
<1>17. ASSUME NEW c \in Cases, NEW action \in {"promote", "reject", "rollback"}, Decide(c, action)
       PROVE  CopiesHold'
  BY <1>17 DEF OperatorOnly, diskVars, Decide, CopiesHold, Delivered
<1>18. CASE LockWait
  BY <1>18 DEF OperatorOnly, diskVars, LockWait, CopiesHold, Delivered
<1>19. CASE RetryMove
  BY <1>19 DEF OperatorOnly, diskVars, RetryMove, CopiesHold, Delivered
<1>20. CASE OperatorMove
  BY <1>20 DEF OperatorOnly, OperatorMove, ReviewTyped, StagesHold, CopiesHold, Delivered
<1>21. CASE Finish
  BY <1>21 DEF OperatorOnly, Finish, CopiesHold, Delivered
<1>22. CASE OperatorDies
  BY <1>22 DEF OperatorOnly, diskVars, OperatorDies, CopiesHold, Delivered
<1>23. ASSUME NEW ch \in Chapters, Arrive(ch) PROVE CopiesHold'
  BY <1>23 DEF Arrive, CarrierAt, CopiesHold, Delivered
<1>24. ASSUME NEW c \in Cases, NEW ch \in Chapters, Edit(c, ch) PROVE CopiesHold'
  BY <1>24 DEF Edit, ReviewTyped, CopiesHold, Delivered
<1> QED
  BY <1>1, <1>2, <1>3, <1>4, <1>5, <1>6, <1>7, <1>8, <1>9, <1>10, <1>11, <1>12, <1>13, <1>14, <1>15,
       <1>16, <1>17, <1>18, <1>19, <1>20, <1>21, <1>22, <1>23, <1>24 DEF ReviewNext

(* No other step decides a case, or changes what an operator is moving     *)
(* without a trace.                                                        *)
LEMMA OperatorKeep ==
  ASSUME ReviewTyped, StagesHold, OperatorHolds, ReviewNext PROVE OperatorHolds'
<1>1. ASSUME NEW release \in {"keep", "release"}, PlanCase(release) PROVE OperatorHolds'
  BY <1>1 DEF CarrierOnly, diskVars, PlanCase, OperatorHolds
<1>2. ASSUME NEW c \in Cases, NEW release \in {"keep", "release"}, RecoverStart(c, release)
      PROVE  OperatorHolds'
  BY <1>2 DEF CarrierOnly, diskVars, RecoverStart, OperatorHolds
<1>3. CASE BeginTransfer
  BY <1>3 DEF CarrierOnly, diskVars, BeginTransfer, ManifestBefore, ReviewTyped, OperatorHolds, Terminal
<1>4. CASE CopyTree
  BY <1>4 DEF CarrierOnly, CopyTree, OperatorHolds
<1>5. CASE VerifyCopy
  BY <1>5 DEF CarrierOnly, VerifyCopy, ReviewTyped, OperatorHolds, Terminal
<1>6. CASE RevalidateSource
  BY <1>6 DEF CarrierOnly, diskVars, RevalidateSource, OperatorHolds
<1>7. CASE MoveSource
  BY <1>7 DEF CarrierOnly, MoveSource, OperatorHolds
<1>8. CASE MoveWaits
  BY <1>8 DEF CarrierOnly, diskVars, MoveWaits, OperatorHolds
<1>9. CASE Publish
  BY <1>9 DEF CarrierOnly, Publish, ReviewTyped, OperatorHolds
<1>10. CASE RecordPublished
  BY <1>10 DEF CarrierOnly, RecordPublished, OperatorHolds, Terminal
<1>11. CASE CheckRelease
  BY <1>11 DEF CarrierOnly, diskVars, CheckRelease, OperatorHolds
<1>12. CASE DeleteSource
  BY <1>12 DEF CarrierOnly, DeleteSource, OperatorHolds
<1>13. CASE CarrierDies
  BY <1>13 DEF CarrierOnly, diskVars, CarrierDies, OperatorHolds
<1>14. CASE RecoverComplete
  BY <1>14 DEF CarrierOnly, RecoverComplete, OperatorHolds, Terminal
<1>15. CASE RecoverPublish
  BY <1>15 DEF CarrierOnly, diskVars, RecoverPublish, OperatorHolds
<1>16. CASE RecoverRestart
  BY <1>16 DEF CarrierOnly, RecoverRestart, OperatorHolds
<1>17. ASSUME NEW c \in Cases, NEW action \in {"promote", "reject", "rollback"}, Decide(c, action)
       PROVE  OperatorHolds'
  BY <1>17, CasesNonEmpty DEF diskVars, Decide, Permitted, StagesHold, OperatorHolds, Terminal
<1>18. CASE LockWait
  BY <1>18 DEF diskVars, LockWait, OperatorHolds
<1>19. CASE RetryMove
  BY <1>19, CasesNonEmpty DEF IdleOperator, diskVars, RetryMove, Recheck, Permitted, ReviewTyped,
       StagesHold, OperatorHolds
<1>20. CASE OperatorMove
  BY <1>20 DEF OperatorMove, OperatorHolds
<1>21. CASE Finish
  BY <1>21 DEF IdleOperator, Finish, OperatorHolds
<1>22. CASE OperatorDies
  BY <1>22 DEF IdleOperator, OperatorDies, OperatorHolds
<1>23. ASSUME NEW ch \in Chapters, Arrive(ch) PROVE OperatorHolds'
  BY <1>23 DEF Arrive, OperatorHolds
<1>24. ASSUME NEW c \in Cases, NEW ch \in Chapters, Edit(c, ch) PROVE OperatorHolds'
  BY <1>24 DEF Edit, OperatorHolds
<1> QED
  BY <1>1, <1>2, <1>3, <1>4, <1>5, <1>6, <1>7, <1>8, <1>9, <1>10, <1>11, <1>12, <1>13, <1>14, <1>15,
       <1>16, <1>17, <1>18, <1>19, <1>20, <1>21, <1>22, <1>23, <1>24 DEF ReviewNext

(* A step leaves each undisturbed case where recovery can take it up.      *)
LEMMA CasesKeep ==
  ASSUME ReviewTyped, StagesHold, OperatorHolds, CasesHold, CarrierHolds, ReviewNext PROVE CasesHold'
<1>1. ASSUME NEW release \in {"keep", "release"}, PlanCase(release) PROVE CasesHold'
  BY <1>1 DEF CarrierOnly, diskVars, PlanCase, CasesHold, Begun, Recoverable, AtSource, Moved
<1>2. ASSUME NEW c \in Cases, NEW release \in {"keep", "release"}, RecoverStart(c, release)
      PROVE  CasesHold'
  BY <1>2 DEF CarrierOnly, diskVars, RecoverStart, CasesHold, Begun, Recoverable, AtSource, Moved
<1>3. CASE BeginTransfer
  BY <1>3 DEF CarrierAt, CarrierOnly, diskVars, BeginTransfer, ManifestBefore, ReviewTyped, CasesHold,
       CarrierHolds, Begun, Recoverable, AtSource, Moved, InFlight
<1>4. CASE CopyTree
  BY <1>4 DEF CarrierAt, CarrierOnly, CopyTree, StagesHold, CasesHold, Begun, Recoverable, AtSource,
       Moved
<1>5. CASE VerifyCopy
  BY <1>5 DEF CarrierAt, CarrierOnly, VerifyCopy, ReviewTyped, CasesHold, CarrierHolds, Begun,
       Recoverable, AtSource, Moved, InFlight
<1>6. CASE RevalidateSource
  BY <1>6 DEF CarrierOnly, diskVars, RevalidateSource, CasesHold, Begun, Recoverable, AtSource, Moved
<1>7. CASE MoveSource
  BY <1>7 DEF CarrierAt, CarrierOnly, MoveSource, ReviewTyped, StagesHold, CasesHold, CarrierHolds,
       Begun, Recoverable, AtSource, Moved
<1>8. CASE MoveWaits
  BY <1>8 DEF CarrierOnly, diskVars, MoveWaits, CasesHold, Begun, Recoverable, AtSource, Moved
<1>9. CASE Publish
  BY <1>9 DEF CarrierAt, CarrierOnly, Publish, ReviewTyped, CasesHold, CarrierHolds, Begun,
       Recoverable, AtSource, Moved
<1>10. CASE RecordPublished
  BY <1>10 DEF CarrierAt, CarrierOnly, RecordPublished, CasesHold, CarrierHolds, Begun, Recoverable,
       AtSource, Moved, InFlight
<1>11. CASE CheckRelease
  BY <1>11 DEF CarrierOnly, diskVars, CheckRelease, CasesHold, Begun, Recoverable, AtSource, Moved
<1>12. CASE DeleteSource
  BY <1>12 DEF CarrierAt, CarrierOnly, DeleteSource, CasesHold, CarrierHolds, Begun, Recoverable,
       AtSource, Moved
<1>13. CASE CarrierDies
  BY <1>13 DEF CarrierOnly, diskVars, CarrierDies, CasesHold, Begun, Recoverable, AtSource, Moved
<1>14. CASE RecoverComplete
  BY <1>14 DEF CarrierAt, CarrierOnly, RecoverComplete, CasesHold, CarrierHolds, Begun, Recoverable,
       AtSource, Moved, InFlight
<1>15. CASE RecoverPublish
  BY <1>15 DEF CarrierOnly, diskVars, RecoverPublish, CasesHold, Begun, Recoverable, AtSource, Moved
<1>16. CASE RecoverRestart
  BY <1>16 DEF CarrierAt, CarrierOnly, RecoverRestart, SourceIsStill, ReviewTyped, CasesHold,
       CarrierHolds, Begun, Recoverable, AtSource, Moved
<1>17. ASSUME NEW c \in Cases, NEW action \in {"promote", "reject", "rollback"}, Decide(c, action)
       PROVE  CasesHold'
  BY <1>17 DEF OperatorOnly, diskVars, Decide, CasesHold, Begun, Recoverable, AtSource, Moved
<1>18. CASE LockWait
  BY <1>18 DEF OperatorOnly, diskVars, LockWait, CasesHold, Begun, Recoverable, AtSource, Moved
<1>19. CASE RetryMove
  BY <1>19 DEF OperatorOnly, diskVars, RetryMove, CasesHold, Begun, Recoverable, AtSource, Moved
<1>20. CASE OperatorMove
  BY <1>20 DEF OperatorOnly, OperatorMove, SourceUsers, CasesHold, Begun, Recoverable, AtSource, Moved
<1>21. CASE Finish
  BY <1>21 DEF OperatorOnly, Finish, OperatorHolds, CasesHold, Begun, Recoverable, AtSource, Moved
<1>22. CASE OperatorDies
  BY <1>22 DEF OperatorOnly, diskVars, OperatorDies, CasesHold, Begun, Recoverable, AtSource, Moved
<1>23. ASSUME NEW ch \in Chapters, Arrive(ch) PROVE CasesHold'
  BY <1>23 DEF Arrive, SourceUsers, CasesHold, Begun, Recoverable
<1>24. ASSUME NEW c \in Cases, NEW ch \in Chapters, Edit(c, ch) PROVE CasesHold'
  BY <1>24 DEF Edit, CasesHold, Begun, Recoverable, AtSource, Moved
<1> QED
  BY <1>1, <1>2, <1>3, <1>4, <1>5, <1>6, <1>7, <1>8, <1>9, <1>10, <1>11, <1>12, <1>13, <1>14, <1>15,
       <1>16, <1>17, <1>18, <1>19, <1>20, <1>21, <1>22, <1>23, <1>24 DEF ReviewNext

(* What the carrier checked holds until it acts, or the case is disturbed. *)
LEMMA CarrierKeep ==
  ASSUME ReviewTyped, StagesHold, CopiesHold, OperatorHolds, CasesHold, CarrierHolds, ReviewNext
  PROVE  CarrierHolds'
<1>1. ASSUME NEW release \in {"keep", "release"}, PlanCase(release) PROVE CarrierHolds'
  BY <1>1 DEF diskVars, PlanCase, CarrierHolds
<1>2. ASSUME NEW c \in Cases, NEW release \in {"keep", "release"}, RecoverStart(c, release)
      PROVE  CarrierHolds'
  <2>1. carrier'.at = Assess(c) /\ carrier'.case = c
    BY <1>2 DEF RecoverStart
  <2>2. Assess(c) \in {"resume_publication", "restart_from_source", "publish_partial"} =>
          c \notin published /\ record[c] \notin Terminal \cup {"none"}
    BY DEF Assess
  <2>3. Assess(c) = "complete" => c \in published
    BY DEF Assess, AssessCopy, AssessRename
  <2>4. Assess(c) \in {"resume_publication", "restart_from_source", "publish_partial", "complete"}
    BY <1>2 DEF RecoverStart, Automatic
  <2>5. record[c] \in RecordStates /\ UNCHANGED <<diskVars, touched>>
    BY <1>2 DEF RecoverStart, CarrierOnly, ReviewTyped
  <2> HIDE DEF Assess
  <2> QED
    BY <2>1, <2>2, <2>3, <2>4, <2>5 DEF CarrierHolds, diskVars, RecordStates
<1>3. CASE BeginTransfer
  BY <1>3 DEF CarrierAt, CarrierGoes, CarrierStops, CarrierOnly, IdleCarrier, BeginTransfer, Collides,
       ManifestBefore, ReviewTyped, CarrierHolds, InFlight
<1>4. CASE CopyTree
  BY <1>4 DEF CarrierAt, CarrierGoes, CarrierOnly, CopyTree, CarrierHolds
<1>5. CASE VerifyCopy
  BY <1>5 DEF CarrierAt, CarrierGoes, CarrierStops, CarrierOnly, IdleCarrier, VerifyCopy, ReviewTyped,
       CarrierHolds, InFlight
<1>6. CASE RevalidateSource
  BY <1>6 DEF CarrierAt, CarrierGoes, CarrierStops, CarrierOnly, IdleCarrier, diskVars,
       RevalidateSource, SourceIsStill, ReviewTyped, CopiesHold, CarrierHolds
<1>7. CASE MoveSource
  BY <1>7 DEF CarrierAt, CarrierGoes, CarrierStops, CarrierOnly, IdleCarrier, MoveSource, ReviewTyped,
       CarrierHolds
<1>8. CASE MoveWaits
  BY <1>8 DEF CarrierAt, CarrierGoes, CarrierOnly, diskVars, MoveWaits, CarrierHolds
<1>9. CASE Publish
  BY <1>9 DEF CarrierGoes, CarrierStops, IdleCarrier, Publish, ReviewTyped, CarrierHolds
<1>10. CASE RecordPublished
  BY <1>10 DEF CarrierAt, CarrierGoes, CarrierStops, CarrierOnly, IdleCarrier, RecordPublished,
       ReviewTyped, CarrierHolds
<1>11. CASE CheckRelease
  BY <1>11 DEF CarrierAt, CarrierGoes, CarrierStops, CarrierOnly, IdleCarrier, diskVars, CheckRelease,
       SourceIsStill, ReviewTyped, CarrierHolds
<1>12. CASE DeleteSource
  BY <1>12 DEF CarrierStops, IdleCarrier, DeleteSource, CarrierHolds
<1>13. CASE CarrierDies
  BY <1>13 DEF CarrierStops, IdleCarrier, CarrierDies, CarrierHolds
<1>14. CASE RecoverComplete
  BY <1>14 DEF CarrierStops, IdleCarrier, RecoverComplete, CarrierHolds
<1>15. CASE RecoverPublish
  BY <1>15 DEF CarrierAt, CarrierGoes, CarrierStops, CarrierOnly, IdleCarrier, diskVars,
       RecoverPublish, ReviewTyped, CarrierHolds
<1>16. CASE RecoverRestart
  BY <1>16 DEF CarrierAt, CarrierGoes, CarrierStops, CarrierOnly, IdleCarrier, RecoverRestart,
       SourceIsStill, ReviewTyped, CarrierHolds
<1>17. ASSUME NEW c \in Cases, NEW action \in {"promote", "reject", "rollback"}, Decide(c, action)
       PROVE  CarrierHolds'
  BY <1>17 DEF OperatorOnly, diskVars, Decide, CarrierHolds, Begun
<1>18. CASE LockWait
  BY <1>18 DEF OperatorOnly, diskVars, LockWait, CarrierHolds, Begun
<1>19. CASE RetryMove
  BY <1>19 DEF OperatorOnly, diskVars, RetryMove, CarrierHolds, Begun
<1>20. CASE OperatorMove
  BY <1>20 DEF OperatorOnly, OperatorMove, SourceUsers, ReviewTyped, CasesHold, CarrierHolds, Begun,
       Recoverable
<1>21. CASE Finish
  BY <1>21 DEF OperatorOnly, Finish, OperatorHolds, CarrierHolds, Begun
<1>22. CASE OperatorDies
  BY <1>22 DEF OperatorOnly, diskVars, OperatorDies, CarrierHolds, Begun
<1>23. ASSUME NEW ch \in Chapters, Arrive(ch) PROVE CarrierHolds'
  BY <1>23 DEF Arrive, SourceUsers, ReviewTyped, CasesHold, CarrierHolds, Begun, Recoverable
<1>24. ASSUME NEW c \in Cases, NEW ch \in Chapters, Edit(c, ch) PROVE CarrierHolds'
  BY <1>24 DEF Edit, CarrierHolds, Begun
<1> QED
  BY <1>1, <1>2, <1>3, <1>4, <1>5, <1>6, <1>7, <1>8, <1>9, <1>10, <1>11, <1>12, <1>13, <1>14, <1>15,
       <1>16, <1>17, <1>18, <1>19, <1>20, <1>21, <1>22, <1>23, <1>24 DEF ReviewNext

(* The invariant, and the property.                                        *)
LEMMA ReviewBegins == ReviewInit => ReviewInv
<1> SUFFICES ASSUME ReviewInit PROVE ReviewInv
  OBVIOUS
<1>1. upstream \subseteq Chapters
  BY ReviewCasesAssumption DEF ReviewInit
<1>2. ReviewTyped
  BY <1>1 DEF ReviewInit, ReviewTyped, CarrierSteps, RecordStates, IdleCarrier, IdleOperator
<1>3. NothingIsLost /\ CopiesHold
  BY DEF ReviewInit, NothingIsLost, CopiesHold, IdleCarrier
<1>4. StagesHold /\ OperatorHolds
  BY DEF ReviewInit, StagesHold, OperatorHolds, IdleCarrier, IdleOperator
<1>5. CasesHold /\ CarrierHolds
  BY DEF ReviewInit, CasesHold, CarrierHolds, Begun, InFlight, IdleCarrier
<1> QED
  BY <1>2, <1>3, <1>4, <1>5 DEF ReviewInv

LEMMA ReviewIdles == ReviewInv /\ UNCHANGED reviewVars => ReviewInv'
<1> SUFFICES ASSUME ReviewInv, UNCHANGED reviewVars PROVE ReviewInv'
  OBVIOUS
<1>1. ReviewTyped' /\ StagesHold' /\ OperatorHolds'
  BY DEF ReviewInv, ReviewTyped, StagesHold, OperatorHolds, reviewVars, diskVars
<1>2. NothingIsLost' /\ CopiesHold'
  BY DEF ReviewInv, NothingIsLost, CopiesHold, Delivered, reviewVars, diskVars
<1>3. CasesHold' /\ CarrierHolds'
  BY DEF ReviewInv, CasesHold, CarrierHolds, Begun, Recoverable, AtSource, Moved, reviewVars, diskVars
<1> QED
  BY <1>1, <1>2, <1>3 DEF ReviewInv

LEMMA ReviewSteps == ReviewInv /\ [ReviewNext]_reviewVars => ReviewInv'
  BY ReviewIdles, TypedHolds, StagesKeep, LossKeep, CopiesKeep, OperatorKeep, CasesKeep, CarrierKeep
     DEF ReviewInv

LEMMA ReviewInvariant == ReviewSpec => []ReviewInv
  BY ReviewBegins, ReviewSteps, PTL DEF ReviewSpec

(* What CasesHold says of a case is what recovery looks for.               *)
LEMMA RecoveryIsAutomatic == ReviewInv => InterruptionsRecover
<1> SUFFICES ASSUME ReviewInv, NEW c \in Cases, c \notin touched, Begun(c)
             PROVE Assess(c) \in Automatic
  BY DEF InterruptionsRecover, Begun
<1>1. Recoverable(c) /\ c # {} /\ record[c] \in InFlight /\ method \in {"rename", "copy_verify"}
  BY CasesNonEmpty DEF ReviewInv, CasesHold, Recoverable, ReviewTyped
<1>2. record[c] \notin Terminal \cup {"none"}
  BY <1>1 DEF InFlight, Terminal
<1>3. CASE c \in published
  BY <1>1, <1>2, <1>3 DEF Assess, Recoverable, Automatic
<1>4. CASE c \notin published
  BY <1>1, <1>2, <1>4 DEF Assess, AssessCopy, AssessRename, Recoverable, AtSource, Moved, Automatic
<1> QED
  BY <1>3, <1>4

DecisionStep ==
  record' # record => \A c \in Cases :
          record[c] \in Terminal /\ (carrier.case # c \/ carrier.at = "begin") => record'[c] = record[c]
ReviewedStep ==
  operator.at = "moving" /\ operator'.at = "finish" /\ operator.action # "reject" =>
    pending[operator.case] \subseteq operator.case \cup raced

(* Three steps write a record beside the carrier's own case.               *)
LEMMA DecisionsKept == ReviewInv /\ ReviewNext => DecisionStep
<1> SUFFICES ASSUME ReviewInv, ReviewNext, record' # record PROVE DecisionStep
  BY DEF DecisionStep
<1>1. \/ BeginTransfer \/ VerifyCopy \/ RecordPublished \/ RecoverComplete \/ Finish
  BY DEF ReviewNext, diskVars, PlanCase, RecoverStart, CopyTree, RevalidateSource, MoveSource,
       MoveWaits,
         Publish, CheckRelease, DeleteSource, CarrierDies, RecoverPublish, RecoverRestart, Decide,
         LockWait, RetryMove, OperatorMove, OperatorDies, Arrive, Edit
<1>2. CASE BeginTransfer
  BY <1>2 DEF BeginTransfer, Collides, ManifestBefore, diskVars, DecisionStep, ReviewInv, ReviewTyped
<1>3. CASE VerifyCopy
  BY <1>3 DEF VerifyCopy, CarrierAt, DecisionStep, ReviewInv, ReviewTyped
<1>4. CASE RecordPublished
  BY <1>4 DEF RecordPublished, CarrierAt, DecisionStep
<1>5. CASE RecoverComplete
  BY <1>5 DEF RecoverComplete, CarrierAt, DecisionStep
<1>6. CASE Finish
  BY <1>6 DEF Finish, DecisionStep, ReviewInv, OperatorHolds
<1> QED
  BY <1>1, <1>2, <1>3, <1>4, <1>5, <1>6

(* A promoted or returned payload is what was reviewed.                    *)
LEMMA ReviewedMoves == ReviewInv => ReviewedStep
  BY DEF ReviewInv, OperatorHolds, ReviewedStep

(* Whatever is interrupted, raced or edited: no chapter is lost but those  *)
(* that land behind a last check, an undisturbed case can be recovered     *)
(* without an operator, and no recorded decision is taken back.            *)
THEOREM ReviewIsSafe == ReviewSpec => ReviewSafety
<1>1. ReviewInv => NothingIsLost /\ InterruptionsRecover
  BY RecoveryIsAutomatic DEF ReviewInv
<1>2. ReviewInv /\ [ReviewNext]_reviewVars => [DecisionStep /\ ReviewedStep]_reviewVars
  BY DecisionsKept, ReviewedMoves
<1> QED
  BY ReviewInvariant, <1>1, <1>2, PTL DEF ReviewSpec, ReviewSafety, DecisionsStand, DecisionStep,
       ReviewedStep

-----------------------------------------------------------------------------
(* Stages                                                                  *)

StampedBytes == [bytes : Bytes, stamp : Nat]
(* A handler knows where its file is, and its bytes once it has read them. *)
HandlerHolds(s) ==
  /\ worker[s].phase \in {"free", "located", "read"}
  /\ worker[s].phase \in {"located", "read"} => worker[s].path \in Places
  /\ worker[s].phase = "read" => Result(s) \in StampedBytes
StagesTyped ==
  /\ disk \in [Places -> {None} \cup StampedBytes]
  /\ hash \in {None} \cup StampedBytes /\ signature \in {None} \cup StampedBytes
  /\ lineage \in Seq(Bytes) /\ changes \in Nat
  /\ DOMAIN worker = Stages /\ \A s \in Stages : HandlerHolds(s)
  /\ repair # Free => repair.to \in Places
  /\ drift # Free => drift.path \in Places

(* A stamp tells the bytes of every file it was seen on.                   *)
Tells(content, n, x) == x.stamp \in 1 .. n /\ content[x.stamp] = x.bytes
StampsTell(content) ==
  /\ \A p \in Places : Present(p) => Tells(content, changes, disk[p])
  /\ \A s \in Stages : worker[s].phase = "read" => Tells(content, changes, Result(s))
  /\ hash # None => Tells(content, changes, hash)
  /\ signature # None /\ ~overtaken => Tells(content, changes, signature)

(* A repair was planned on a hash and a signature of the same bytes, and   *)
(* they are still those unless evidence was saved since.                   *)
PlanIsSound ==
  repair # Free /\ ~overtaken =>
    /\ hash # None /\ signature # None
    /\ hash.bytes = repair.bytes /\ signature.bytes = repair.bytes

StagesInv ==
  /\ StagesTyped /\ PlanIsSound
  /\ \E content \in [1 .. changes -> Bytes] : StampsTell(content)
  /\ hash # None => current \in DOMAIN lineage /\ lineage[current] = hash.bytes
  /\ \A i, j \in DOMAIN lineage : lineage[i] = lineage[j] => i = j

LEMMA StagesInitially == StagesInit => StagesInv
<1> SUFFICES ASSUME StagesInit PROVE StagesInv
  OBVIOUS
<1> DEFINE content == [n \in 1 .. 1 |-> Original]
           first == [bytes |-> Original, stamp |-> 1]
<1>1. /\ disk = [p \in Places |-> IF p = Home THEN first ELSE None]
      /\ hash = None /\ signature = None /\ lineage = <<>> /\ current = 0 /\ changes = 1
      /\ worker = [s \in Stages |-> Free] /\ repair = Free /\ drift = Free
  BY DEF StagesInit
<1>2. first \in StampedBytes /\ first.stamp = 1 /\ first.bytes = Original
  BY PageNamesAssumption DEF StampedBytes
<1> HIDE DEF first
<1>3. StagesTyped
  BY <1>1, <1>2 DEF StagesTyped, HandlerHolds, Free
<1>4. content \in [1 .. changes -> Bytes] /\ content[1] = Original /\ 1 \in 1 .. changes
  BY <1>1, PageNamesAssumption
<1> HIDE DEF content
<1>5. StampsTell(content)
  BY <1>1, <1>2, <1>4 DEF StampsTell, Tells, Present, Free
<1> QED
  BY <1>1, <1>3, <1>4, <1>5 DEF StagesInv, PlanIsSound

(* A new stamp can be told the bytes of whatever was written under it.     *)
LEMMA ContentGrows ==
  ASSUME NEW n \in Nat, NEW content \in [1 .. n -> Bytes], NEW b \in Bytes
  PROVE  \E more \in [1 .. (n + 1) -> Bytes] :
            /\ more[n + 1] = b
            /\ \A x : Tells(content, n, x) => Tells(more, n + 1, x)
<1> DEFINE more == [i \in 1 .. (n + 1) |-> IF i <= n THEN content[i] ELSE b]
<1>1. more \in [1 .. (n + 1) -> Bytes] /\ more[n + 1] = b
  OBVIOUS
<1>2. \A i \in 1 .. n : i \in 1 .. (n + 1) /\ more[i] = content[i]
  OBVIOUS
<1> HIDE DEF more
<1>3. \A x : Tells(content, n, x) => Tells(more, n + 1, x)
  BY <1>2 DEF Tells
<1> QED
  BY <1>1, <1>3

LEMMA SomeBytes == Original \in Bytes
BY PageNamesAssumption

(* What was told is told after a change, of these bytes or of none.        *)
LEMMA StillTold ==
  ASSUME StagesInv, NEW b \in Bytes, changes' \in {changes, changes + 1}
  PROVE  \E content \in [1 .. changes -> Bytes], more \in [1 .. changes' -> Bytes] :
            /\ StampsTell(content)
            /\ changes' = changes + 1 => more[changes'] = b
            /\ \A x : Tells(content, changes, x) => Tells(more, changes', x)
<1>1. PICK content \in [1 .. changes -> Bytes] : StampsTell(content)
  BY DEF StagesInv
<1>2. changes \in Nat
  BY DEF StagesInv, StagesTyped
<1>3. CASE changes' = changes
  BY <1>1, <1>2, <1>3
<1>4. CASE changes' = changes + 1
  <2>1. PICK more \in [1 .. (changes + 1) -> Bytes] :
           /\ more[changes + 1] = b
           /\ \A x : Tells(content, changes, x) => Tells(more, changes + 1, x)
    BY <1>2, ContentGrows
  <2> QED
    BY <1>1, <1>4, <2>1
<1> QED
  BY <1>3, <1>4

(* A step that saves no hash and no signature, and reads and changes no    *)
(* found.                                                                   *)
LEMMA EvidenceStays ==
  ASSUME StagesInv, UNCHANGED <<disk, hash, signature, lineage, current, repair, overtaken>>,
         changes' \in {changes, changes + 1}, DOMAIN worker' = Stages,
         \A s \in Stages :
            \/ worker'[s] = worker[s] \/ worker'[s].phase = "free"
            \/ worker'[s].phase = "located" /\ worker'[s].path \in Places,
         drift' = drift \/ drift' = Free \/ drift'.path \in Places
  PROVE  StagesInv'
<1>1. PICK content \in [1 .. changes -> Bytes], more \in [1 .. changes' -> Bytes] :
         /\ StampsTell(content)
         /\ \A x : Tells(content, changes, x) => Tells(more, changes', x)
  BY SomeBytes, StillTold
<1>2. StampsTell(more)'
  BY <1>1 DEF StampsTell, Present, Result
<1>3. StagesTyped'
  BY DEF StagesInv, StagesTyped, HandlerHolds, Result
<1> QED
  BY <1>2, <1>3 DEF StagesInv, PlanIsSound

LEMMA LocationIsAPlace ==
  ASSUME MyPlaces # {}
  PROVE  CurrentLocation \in Places
BY DEF CurrentLocation, MyPlaces

LEMMA ReadKeeps ==
  ASSUME StagesInv, NEW s \in Stages, Read(s)
  PROVE  StagesInv'
<1> DEFINE p == worker[s].path
           new == [phase |-> "read", path |-> p, recorded |-> worker[s].recorded,
                   bytes |-> disk[p].bytes, stamp |-> disk[p].stamp]
<1>1. /\ worker[s].phase = "located" /\ Present(p) /\ worker' = [worker EXCEPT ![s] = new]
      /\ UNCHANGED <<disk, hash, signature, lineage, current, repair, drift, changes, overtaken>>
  BY DEF Read, stageEvidence, tools
<1>2. p \in Places /\ disk[p] \in StampedBytes
  BY <1>1 DEF StagesInv, StagesTyped, HandlerHolds, Present
<1>3. worker'[s] = new /\ DOMAIN worker' = Stages /\ \A t \in Stages \ {s} : worker'[t] = worker[t]
  BY <1>1 DEF StagesInv, StagesTyped
<1>4. /\ worker'[s].phase = "read" /\ worker'[s].path = p
      /\ worker'[s].bytes = disk[p].bytes /\ worker'[s].stamp = disk[p].stamp
  BY <1>3
<1> HIDE DEF p, new
<1>5. Result(s)' \in StampedBytes /\ Result(s)'.bytes = disk[p].bytes /\ Result(s)'.stamp = disk[p].stamp
  BY <1>2, <1>4 DEF Result, StampedBytes
<1>6. \A t \in Stages : HandlerHolds(t)'
  BY <1>2, <1>3, <1>4, <1>5 DEF StagesInv, StagesTyped, HandlerHolds, Result
<1>7. PICK content \in [1 .. changes -> Bytes] : StampsTell(content)
  BY DEF StagesInv
<1>8. StampsTell(content)'
  BY <1>1, <1>2, <1>3, <1>5, <1>7 DEF StampsTell, Tells, Present, Result
<1> QED
  BY <1>1, <1>3, <1>6, <1>7, <1>8 DEF StagesInv, StagesTyped, PlanIsSound

(* The revision that bytes have, or are given.                             *)
LEMMA Established ==
  ASSUME StagesInv, NEW b \in Bytes, Establish(b)
  PROVE  /\ lineage' \in Seq(Bytes) /\ current' \in DOMAIN lineage' /\ lineage'[current'] = b
         /\ \A i, j \in DOMAIN lineage' : lineage'[i] = lineage'[j] => i = j
<1> DEFINE known == {i \in DOMAIN lineage : lineage[i] = b}
<1>1. /\ lineage \in Seq(Bytes)
      /\ \A i, j \in DOMAIN lineage : lineage[i] = lineage[j] => i = j
  BY DEF StagesInv, StagesTyped
<1>2. /\ lineage' = IF known = {} THEN Append(lineage, b) ELSE lineage
      /\ current' = CHOOSE i \in DOMAIN lineage' : lineage'[i] = b
  BY DEF Establish
<1>3. CASE known = {}
  <2>1. lineage' \in Seq(Bytes)
    BY <1>1, <1>2, <1>3
  <2>2. \A i \in DOMAIN lineage' :
           \/ i = Len(lineage) + 1
           \/ i \in DOMAIN lineage /\ lineage'[i] = lineage[i]
    BY <1>1, <1>2, <1>3
  <2>3. Len(lineage) + 1 \in DOMAIN lineage' /\ lineage'[Len(lineage) + 1] = b
    BY <1>1, <1>2, <1>3
  <2>4. \A i \in DOMAIN lineage : lineage[i] # b
    BY <1>3
  <2> QED
    BY <1>1, <1>2, <2>1, <2>2, <2>3, <2>4
<1>4. CASE known # {}
  BY <1>1, <1>2, <1>4
<1> QED
  BY <1>3, <1>4

(* Evidence saved from what a found was seen to hold.                       *)
LEMMA SavedKeeps ==
  ASSUME StagesInv, UNCHANGED <<disk, repair, changes>>, NEW seen \in StampedBytes,
         \A content : StampsTell(content) => Tells(content, changes, seen),
         hash' \in {hash, seen}, signature' \in {signature, seen},
         overtaken' = (overtaken \/ repair # Free),
         \/ hash' = hash /\ UNCHANGED <<lineage, current>>
         \/ hash' = seen /\ Establish(seen.bytes),
         DOMAIN worker' = Stages, \A s \in Stages : worker'[s] = worker[s] \/ worker'[s].phase = "free",
         drift' = drift \/ drift' = Free
  PROVE  StagesInv'
<1>1. PICK content \in [1 .. changes -> Bytes] : StampsTell(content)
  BY DEF StagesInv
<1>2. Tells(content, changes, seen)
  BY <1>1
<1>3. StampsTell(content)'
  BY <1>1, <1>2 DEF StampsTell, Present, Result
<1>4. seen.bytes \in Bytes
  BY DEF StampedBytes
<1>5. /\ lineage' \in Seq(Bytes)
      /\ hash' # None => current' \in DOMAIN lineage' /\ lineage'[current'] = hash'.bytes
      /\ \A i, j \in DOMAIN lineage' : lineage'[i] = lineage'[j] => i = j
  <2>1. CASE hash' = hash /\ UNCHANGED <<lineage, current>>
    BY <2>1 DEF StagesInv, StagesTyped
  <2>2. CASE hash' = seen /\ Establish(seen.bytes)
    BY <1>4, <2>2, Established
  <2> QED
    BY <2>1, <2>2
<1>6. StagesTyped'
  BY <1>5 DEF StagesInv, StagesTyped, HandlerHolds, Result
<1> QED
  BY <1>1, <1>3, <1>5, <1>6 DEF StagesInv, PlanIsSound

LEMMA HashKeeps ==
  ASSUME StagesInv, SaveHash
  PROVE  StagesInv'
<1> DEFINE w == worker["hash"]
           seen == Result("hash")
<1>1. /\ w.phase = "read" /\ hash' = seen /\ Establish(w.bytes) /\ signature' = signature
      /\ overtaken' = (overtaken \/ repair # Free) /\ worker' = [worker EXCEPT !["hash"] = Free]
      /\ UNCHANGED <<disk, repair, drift, changes>>
  BY DEF SaveHash, tools
<1>2. "hash" \in Stages
  BY DEF Stages
<1>3. seen \in StampedBytes /\ seen.bytes = w.bytes
  BY <1>1, <1>2 DEF StagesInv, StagesTyped, HandlerHolds, Result
<1>4. \A content : StampsTell(content) => Tells(content, changes, seen)
  BY <1>1, <1>2 DEF StampsTell
<1>5. DOMAIN worker' = Stages /\ \A s \in Stages : worker'[s] = worker[s] \/ worker'[s].phase = "free"
  BY <1>1 DEF StagesInv, StagesTyped, Free
<1> HIDE DEF w, seen
<1> QED
  BY <1>1, <1>3, <1>4, <1>5, SavedKeeps

LEMMA PagesKeep ==
  ASSUME StagesInv, SavePages
  PROVE  StagesInv'
<1> DEFINE seen == Result("pages")
<1>1. /\ worker["pages"].phase = "read" /\ signature' = seen /\ hash' = hash
      /\ overtaken' = (overtaken \/ repair # Free) /\ worker' = [worker EXCEPT !["pages"] = Free]
      /\ UNCHANGED <<disk, repair, drift, changes, lineage, current>>
  BY DEF SavePages, Done, tools
<1>2. "pages" \in Stages
  BY DEF Stages
<1>3. seen \in StampedBytes
  BY <1>1, <1>2 DEF StagesInv, StagesTyped, HandlerHolds
<1>4. \A content : StampsTell(content) => Tells(content, changes, seen)
  BY <1>1, <1>2 DEF StampsTell
<1>5. DOMAIN worker' = Stages /\ \A s \in Stages : worker'[s] = worker[s] \/ worker'[s].phase = "free"
  BY <1>1 DEF StagesInv, StagesTyped, Free
<1> HIDE DEF seen
<1> QED
  BY <1>1, <1>3, <1>4, <1>5, SavedKeeps

LEMMA PlanKeeps ==
  ASSUME StagesInv, NEW p \in Places, PlanRepair(p)
  PROVE  StagesInv'
<1>1. /\ Coherent /\ repair' # Free /\ repair'.to \in Places /\ repair'.bytes = hash.bytes
      /\ UNCHANGED <<disk, hash, signature, lineage, current, worker, drift, changes, overtaken>>
  BY DEF PlanRepair, stageEvidence, Free
<1>2. PICK content \in [1 .. changes -> Bytes] : StampsTell(content)
  BY DEF StagesInv
<1>3. StampsTell(content)'
  BY <1>1, <1>2 DEF StampsTell, Present, Result
<1>4. PlanIsSound'
  BY <1>1, <1>2 DEF PlanIsSound, Coherent, StampsTell, Tells
<1> QED
  BY <1>1, <1>2, <1>3, <1>4 DEF StagesInv, StagesTyped, HandlerHolds, Result

LEMMA RepairKeeps ==
  ASSUME StagesInv, ApplyRepair
  PROVE  StagesInv'
<1> DEFINE to == repair.to
<1>1. /\ repair # Free /\ repair' = Free
      /\ UNCHANGED <<disk, hash, lineage, current, worker, drift, changes, overtaken>>
      /\ \/ signature' = signature
         \/ /\ Present(to) /\ disk[to].bytes = repair.bytes
            /\ signature' = IF signature = None THEN None ELSE [signature EXCEPT !.stamp = disk[to].stamp]
  BY DEF ApplyRepair
<1>2. PICK content \in [1 .. changes -> Bytes] : StampsTell(content)
  BY DEF StagesInv
<1>3. signature' \in {None} \cup StampedBytes /\ (signature' # None /\ ~overtaken => Tells(content, changes, signature'))
  <2>1. CASE signature' = signature
    BY <1>2, <2>1 DEF StagesInv, StagesTyped, StampsTell
  <2>2. CASE signature = None /\ signature' = None
    BY <2>2
  <2>3. CASE /\ Present(to) /\ disk[to].bytes = repair.bytes /\ signature # None
             /\ signature' = [signature EXCEPT !.stamp = disk[to].stamp]
    <3>1. /\ signature \in StampedBytes /\ to \in Places /\ disk[to] \in StampedBytes
          /\ Tells(content, changes, disk[to])
      BY <1>1, <1>2, <2>3 DEF StagesInv, StagesTyped, Present, StampsTell
    <3>2. /\ signature' \in StampedBytes /\ signature'.bytes = signature.bytes
          /\ signature'.stamp = disk[to].stamp
      BY <2>3, <3>1 DEF StampedBytes
    <3>3. ~overtaken => signature.bytes = disk[to].bytes
      BY <1>1, <2>3 DEF StagesInv, PlanIsSound
    <3> QED
      BY <3>1, <3>2, <3>3 DEF Tells
  <2> QED
    BY <1>1, <2>1, <2>2, <2>3
<1>4. StampsTell(content)'
  BY <1>1, <1>2, <1>3 DEF StampsTell, Present, Result
<1>5. StagesTyped'
  BY <1>1, <1>3 DEF StagesInv, StagesTyped, HandlerHolds, Result
<1> QED
  BY <1>1, <1>2, <1>4, <1>5 DEF StagesInv, PlanIsSound

LEMMA DriftKeeps ==
  ASSUME StagesInv, ApplyDrift
  PROVE  StagesInv'
<1> DEFINE p == drift.path
           found == disk[p]
<1>1. /\ drift # Free /\ drift' = Free /\ UNCHANGED <<disk, worker, repair, changes>>
      /\ \/ UNCHANGED <<hash, signature, lineage, current, overtaken>>
         \/ /\ Present(p) /\ hash' = found /\ signature' = found /\ Establish(found.bytes)
            /\ overtaken' = (overtaken \/ repair # Free)
  BY DEF ApplyDrift, stageEvidence
<1>2. p \in Places /\ DOMAIN worker = Stages
  BY <1>1 DEF StagesInv, StagesTyped
<1>3. CASE UNCHANGED <<hash, signature, lineage, current, overtaken>>
  BY <1>1, <1>2, <1>3, EvidenceStays
<1>4. CASE /\ Present(p) /\ hash' = found /\ signature' = found /\ Establish(found.bytes)
           /\ overtaken' = (overtaken \/ repair # Free)
  <2>1. found \in StampedBytes /\ \A content : StampsTell(content) => Tells(content, changes, found)
    BY <1>2, <1>4 DEF StagesInv, StagesTyped, Present, StampsTell
  <2> HIDE DEF found
  <2> QED
    BY <1>1, <1>2, <1>4, <2>1, SavedKeeps
<1> QED
  BY <1>1, <1>3, <1>4

LEMMA FilesKeep ==
  ASSUME StagesInv, FileChanges
  PROVE  StagesInv'
<1>1. /\ changes' = changes + 1
      /\ UNCHANGED <<hash, signature, lineage, current, worker, repair, drift, overtaken>>
  BY DEF FileChanges, stageEvidence, tools
<1>2. ASSUME NEW b \in Bytes, disk' \in [Places -> {None} \cup StampedBytes],
             \A p \in Places : \/ disk'[p] = None \/ \E q \in Places : disk'[p] = disk[q]
                               \/ disk'[p] = [bytes |-> b, stamp |-> changes + 1]
      PROVE  StagesInv'
  <2>1. PICK content \in [1 .. changes -> Bytes], more \in [1 .. changes' -> Bytes] :
           /\ StampsTell(content) /\ more[changes'] = b
           /\ \A x : Tells(content, changes, x) => Tells(more, changes', x)
    BY <1>1, StillTold
  <2>2. Tells(more, changes', [bytes |-> b, stamp |-> changes + 1])
    BY <1>1, <2>1 DEF Tells, StagesInv, StagesTyped
  <2>3. \A p \in Places : disk'[p] # None => Tells(more, changes', disk'[p])
    BY <1>2, <2>1, <2>2 DEF StampsTell, Present
  <2>4. StampsTell(more)'
    BY <1>1, <2>1, <2>3 DEF StampsTell, Present, Result
  <2>5. StagesTyped'
    BY <1>1, <1>2 DEF StagesInv, StagesTyped, HandlerHolds, Result
  <2> QED
    BY <1>1, <2>1, <2>4, <2>5 DEF StagesInv, PlanIsSound
<1>3. disk \in [Places -> {None} \cup StampedBytes] /\ changes + 1 \in Nat
  BY DEF StagesInv, StagesTyped
<1>4. ASSUME NEW p \in Places, NEW b \in Bytes,
             disk' = [disk EXCEPT ![p] = [bytes |-> b, stamp |-> changes + 1]]
      PROVE  StagesInv'
  <2> DEFINE new == [bytes |-> b, stamp |-> changes + 1]
  <2>1. new \in StampedBytes
    BY <1>3 DEF StampedBytes
  <2> HIDE DEF new
  <2>2. disk' = [disk EXCEPT ![p] = new]
    BY <1>4 DEF new
  <2>3. /\ disk' \in [Places -> {None} \cup StampedBytes]
        /\ \A q \in Places : disk'[q] = disk[q] \/ disk'[q] = new
    BY <1>3, <2>1, <2>2
  <2> QED
    BY <1>2, <2>3 DEF new
<1>5. ASSUME NEW p \in Places, NEW q \in Places, disk' = [disk EXCEPT ![p] = None, ![q] = disk[p]]
      PROVE  StagesInv'
  <2>1. /\ disk' \in [Places -> {None} \cup StampedBytes]
        /\ \A r \in Places : disk'[r] \in {disk[r], None, disk[p]}
    BY <1>3, <1>5
  <2> QED
    BY <1>2, <2>1, SomeBytes
<1>6. ASSUME NEW p \in Places, disk' = [disk EXCEPT ![p] = None]
      PROVE  StagesInv'
  <2>1. /\ disk' \in [Places -> {None} \cup StampedBytes]
        /\ \A r \in Places : disk'[r] \in {disk[r], None}
    BY <1>3, <1>6
  <2> QED
    BY <1>2, <2>1, SomeBytes
<1> QED
  BY <1>4, <1>5, <1>6 DEF FileChanges

(* The steps of a handler that save neither.                               *)
LEMMA HandlerKeeps ==
  ASSUME StagesInv, NEW s \in Stages,
         \/ EnqueueMissing(s) \/ Locate(s) \/ SourceFails(s) \/ NoLocation(s) \/ WorkerDies(s)
         \/ SaveInspection \/ SavePerceptual \/ InventoryDiffers
  PROVE  StagesInv'
<1> DEFINE Quiet == UNCHANGED <<disk, hash, signature, lineage, current, repair, overtaken, drift>>
<1>1. DOMAIN worker = Stages
  BY DEF StagesInv, StagesTyped
<1>2. ASSUME NEW t \in Stages, NEW new, worker' = [worker EXCEPT ![t] = new],
             new.phase = "free" \/ (new.phase = "located" /\ new.path \in Places),
             Quiet, changes' \in {changes, changes + 1}
      PROVE  StagesInv'
  <2>1. DOMAIN worker' = Stages /\ worker'[t] = new /\ \A u \in Stages \ {t} : worker'[u] = worker[u]
    BY <1>1, <1>2
  <2> QED
    BY <1>2, <2>1, EvidenceStays
<1>3. CASE EnqueueMissing(s) \/ NoLocation(s)
  BY <1>1, <1>3, EvidenceStays DEF EnqueueMissing, NoLocation, stageEvidence, tools
<1>4. CASE Locate(s)
  <2> DEFINE new == [phase |-> "located", path |-> CurrentLocation,
                     recorded |-> rows[CurrentLocation].stamp]
  <2>1. worker' = [worker EXCEPT ![s] = new] /\ Quiet /\ changes' = changes /\ MyPlaces # {}
    BY <1>4 DEF Locate, stageEvidence, tools
  <2>2. new.phase = "located" /\ new.path \in Places
    BY <2>1, LocationIsAPlace
  <2> HIDE DEF new, Quiet
  <2> QED
    BY <1>2, <2>1, <2>2
<1>5. Free.phase = "free"
  BY DEF Free
<1>6. CASE SourceFails(s) \/ WorkerDies(s)
  <2>1. worker' = [worker EXCEPT ![s] = Free] /\ Quiet /\ changes' \in {changes, changes + 1}
    BY <1>6 DEF SourceFails, WorkerDies, stageEvidence, tools
  <2> QED
    BY <1>2, <1>5, <2>1
<1>7. CASE SaveInspection \/ SavePerceptual \/ InventoryDiffers
  <2>1. /\ \E t \in Stages : worker' = [worker EXCEPT ![t] = Free]
        /\ Quiet /\ changes' = changes
    BY <1>7 DEF SaveInspection, SavePerceptual, InventoryDiffers, Done, Stages, stageEvidence, tools
  <2> QED
    BY <1>2, <1>5, <2>1
<1> QED
  BY <1>3, <1>4, <1>6, <1>7

LEMMA StagesSteps ==
  ASSUME StagesInv, [StagesNext]_stageVars
  PROVE  StagesInv'
<1>1. DOMAIN worker = Stages
  BY DEF StagesInv, StagesTyped
<1>2. CASE UNCHANGED stageVars
  BY <1>1, <1>2, EvidenceStays DEF stageVars, stageEvidence, tools
<1>3. CASE Scan \/ Retire
  BY <1>1, <1>3, EvidenceStays DEF Scan, ScanRecords, ScanRetires, Retire, stageEvidence, tools
<1>4. CASE AnalyzeDrift
  <2>1. /\ drift'.path \in Places
        /\ UNCHANGED <<disk, hash, signature, lineage, current, repair, overtaken, changes, worker>>
    BY <1>4, LocationIsAPlace DEF AnalyzeDrift, stageEvidence
  <2> QED
    BY <1>1, <2>1, EvidenceStays
<1>5. ASSUME NEW s \in Stages, EnqueueMissing(s) \/ Handler(s) \/ WorkerDies(s)
      PROVE  StagesInv'
  BY <1>5, HandlerKeeps, ReadKeeps, HashKeeps, PagesKeep DEF Handler
<1> QED
  BY <1>2, <1>3, <1>4, <1>5, PlanKeeps, RepairKeeps, DriftKeeps, FilesKeep DEF StagesNext

\* The digest names the current revision, no bytes have two, and a hash and a
\* signature of one stamp are of the same bytes, for any places, contents,
\* workers that die, moves, rewrites, repairs and recoveries.
THEOREM StagesAreSafe == StagesSpec => []StagesSafety
<1>1. StagesInit => StagesInv
  BY StagesInitially
<1>2. StagesInv /\ [StagesNext]_stageVars => StagesInv'
  BY StagesSteps
<1>3. StagesInv => StagesSafety
  <2> SUFFICES ASSUME StagesInv PROVE StagesSafety
    OBVIOUS
  <2>1. hash # None => current > 0
    BY DEF StagesInv, StagesTyped
  <2>2. EvidenceAgrees
    BY DEF EvidenceAgrees, Coherent, StagesInv, StampsTell, Tells
  <2> QED
    BY <2>1, <2>2 DEF StagesSafety, HashNamesRevision, StagesInv
<1> QED
  BY <1>1, <1>2, <1>3, PTL DEF StagesSpec

-----------------------------------------------------------------------------
(* The census                                                              *)

CensusJob == [status : ActiveStatuses \cup Ends, ended : Nat]
CensusTyped ==
  /\ IsFiniteSet(currentStamps) /\ inventory.pages \in Nat /\ unhashed \in Nat
  /\ decided \in {"active", "archive_retired", "archive_superseded"}
  /\ jobs \in Seq(CensusJob) /\ endings \in Nat

(* Jobs end one at a time, and the newest ending is that of the row that   *)
(* ended last.                                                             *)
EndingsInOrder ==
  /\ \A i \in Ended : jobs[i].ended \in 1 .. endings
  /\ \A i, j \in Ended : jobs[i].ended = jobs[j].ended => i = j
  /\ Ended = {} => newest = "never_enqueued"
  /\ Ended # {} => \E i \in Ended : jobs[i].ended = endings /\ jobs[i].status = newest

CensusInv == CensusTyped /\ EndingsInOrder

LEMMA JobsTyped ==
  ASSUME CensusTyped, NEW i \in DOMAIN jobs
  PROVE  /\ jobs[i] \in CensusJob /\ jobs[i].status \in ActiveStatuses \cup Ends
         /\ jobs[i] = [status |-> jobs[i].status, ended |-> jobs[i].ended]
<1>1. jobs[i] \in CensusJob
  BY DEF CensusTyped
<1> QED
  BY <1>1 DEF CensusJob

LEMMA OneStamp ==
  ASSUME CensusTyped
  PROVE  /\ Cardinality(currentStamps) \in Nat
         /\ Cardinality(currentStamps) = 0 <=> currentStamps = {}
BY FS_CardinalityType, FS_EmptySet DEF CensusTyped

LEMMA Partitioned ==
  ASSUME CensusTyped
  PROVE  Partition
<1>1. ExclusionReasons = {} <=>
        /\ inventory # NoSignature
        /\ ~(inventory # NoSignature /\ inventory.pages = 0)
        /\ currentStamps # {} /\ ~ Cardinality(currentStamps) > 1
        /\ ~(/\ inventory # NoSignature /\ Cardinality(currentStamps) = 1
             /\ inventory.stamp \notin currentStamps)
        /\ unhashed # 0
        /\ ~HasJob(ActiveStatuses \cup {"failed"})
  BY DEF ExclusionReasons, Because
<1>2. inventory = NoSignature => inventory.pages = 0
  BY DEF NoSignature
<1>3. /\ Cardinality(currentStamps) = 1 <=> currentStamps # {} /\ ~ Cardinality(currentStamps) > 1
      /\ Cardinality(currentStamps) = 1 => currentStamps # {}
  BY OneStamp
<1> QED
  BY <1>1, <1>2, <1>3 DEF Partition, Eligible, CensusTyped

LEMMA OfferedIsPresent ==
  ASSUME CensusTyped
  PROVE  EligibleIsPresent
<1> SUFFICES ASSUME NEW scope \in Scopes, SelectionAxis(scope) = "eligible"
             PROVE  Availability(scope) \in {"present_matching", "present_drifted"}
  BY DEF EligibleIsPresent
<1>1. Eligible /\ RefusedFor(scope) = {}
  BY DEF SelectionAxis
<1>2. Cardinality(currentStamps) = 1 /\ currentStamps # {}
  BY <1>1, OneStamp DEF Eligible
<1>3. scope # "reachable" => Availability(scope) = NotLookedAt[scope]
  BY <1>2 DEF Availability
<1>4. ~Unobservable(scope) /\ Refusals(TRUE) = {}
  BY <1>1 DEF RefusedFor
<1>5. scope = "reachable"
  BY <1>3, <1>4 DEF Unobservable
<1>6. onDisk.kind = "file"
  BY <1>2, <1>4 DEF Refusals
<1> QED
  BY <1>2, <1>5, <1>6 DEF Availability

LEMMA LastIsNewest ==
  ASSUME CensusInv
  PROVE  WorkIsChronological
<1>1. CASE HasJob(ActiveStatuses) \/ Ended = {}
  BY <1>1 DEF WorkIsChronological, PerceptualWork, CensusInv, EndingsInOrder
<1>2. CASE ~HasJob(ActiveStatuses) /\ Ended # {}
  <2>1. PICK i \in Ended : jobs[i].ended = endings /\ jobs[i].status = newest
    BY <1>2 DEF CensusInv, EndingsInOrder
  <2>2. \A j \in Ended : jobs[j].ended \in Nat /\ jobs[j].ended <= endings
    BY DEF CensusInv, EndingsInOrder
  <2>3. LatestTerminal \in Ended /\ \A j \in Ended : jobs[j].ended <= jobs[LatestTerminal].ended
    BY <2>1, <2>2 DEF LatestTerminal
  <2>4. jobs[LatestTerminal].ended = endings
    BY <2>1, <2>2, <2>3
  <2>5. LatestTerminal = i
    BY <2>1, <2>3, <2>4 DEF CensusInv, EndingsInOrder
  <2> QED
    BY <1>2, <2>1, <2>5 DEF WorkIsChronological, PerceptualWork
<1> QED
  BY <1>1, <1>2

(* The endings stay those they were.                                       *)
LEMMA NothingEnds ==
  ASSUME EndingsInOrder, Ended' = Ended, endings' = endings, newest' = newest,
         \A i \in Ended : jobs'[i] = jobs[i]
  PROVE  EndingsInOrder'
BY DEF EndingsInOrder

LEMMA EnqueueKeeps ==
  ASSUME CensusInv, NEW c \in Commands, EnqueueCandidate(c)
  PROVE  CensusInv'
<1> DEFINE new == [status |-> "pending", ended |-> 0]
<1>1. /\ jobs' = jobs \/ jobs' = Append(jobs, new)
      /\ UNCHANGED <<currentStamps, inventory, unhashed, endings, decided, newest>>
  BY DEF EnqueueCandidate
<1>2. new \in CensusJob /\ new.status \notin Ends
  BY DEF CensusJob, ActiveStatuses, Ends
<1> HIDE DEF new
<1>3. jobs \in Seq(CensusJob)
  BY DEF CensusInv, CensusTyped
<1>4. CensusTyped'
  BY <1>1, <1>2, <1>3 DEF CensusInv, CensusTyped
<1>5. CASE jobs' = jobs
  BY <1>1, <1>4, <1>5 DEF CensusInv, EndingsInOrder, Ended
<1>6. CASE jobs' = Append(jobs, new)
  <2>1. /\ \A i \in DOMAIN jobs' : i \in DOMAIN jobs \/ jobs'[i] = new
        /\ \A i \in DOMAIN jobs : i \in DOMAIN jobs' /\ jobs'[i] = jobs[i]
    BY <1>2, <1>3, <1>6
  <2>2. Ended' = Ended
    BY <1>2, <2>1 DEF Ended
  <2>3. \A i \in Ended : jobs'[i] = jobs[i]
    BY <2>1 DEF Ended
  <2> QED
    BY <1>1, <1>4, <2>2, <2>3, NothingEnds DEF CensusInv
<1> QED
  BY <1>1, <1>5, <1>6

LEMMA JobReplaced ==
  ASSUME NEW i \in DOMAIN jobs, NEW row \in CensusJob, jobs \in Seq(CensusJob),
         jobs' = [jobs EXCEPT ![i] = row]
  PROVE  /\ jobs' \in Seq(CensusJob) /\ DOMAIN jobs' = DOMAIN jobs /\ jobs'[i] = row
         /\ \A j \in DOMAIN jobs \ {i} : jobs'[j] = jobs[j]
OBVIOUS

LEMMA ClaimKeeps ==
  ASSUME CensusInv, NEW i \in DOMAIN jobs, ClaimJob(i)
  PROVE  CensusInv'
<1> DEFINE row == [status |-> "running", ended |-> jobs[i].ended]
<1>1. /\ jobs[i].status = "pending" /\ jobs' = [jobs EXCEPT ![i].status = "running"]
      /\ UNCHANGED <<currentStamps, inventory, unhashed, endings, decided, newest>>
  BY DEF ClaimJob
<1>2. jobs[i] \in CensusJob /\ jobs[i] = [status |-> jobs[i].status, ended |-> jobs[i].ended]
  BY JobsTyped DEF CensusInv
<1>3. row \in CensusJob /\ row.status \notin Ends
  BY <1>2 DEF CensusJob, ActiveStatuses, Ends
<1>4. jobs' = [jobs EXCEPT ![i] = row]
  <2>1. [jobs[i] EXCEPT !.status = "running"] = row
    BY <1>2
  <2> QED
    BY <1>1, <2>1
<1> HIDE DEF row
<1>5. /\ jobs' \in Seq(CensusJob) /\ DOMAIN jobs' = DOMAIN jobs /\ jobs'[i] = row
      /\ \A j \in DOMAIN jobs \ {i} : jobs'[j] = jobs[j]
  BY <1>3, <1>4, JobReplaced DEF CensusInv, CensusTyped
<1>6. CensusTyped'
  BY <1>1, <1>5 DEF CensusInv, CensusTyped
<1>7. i \notin Ended
  BY <1>1 DEF Ended, Ends
<1>8. Ended' = Ended
  BY <1>3, <1>5, <1>7 DEF Ended
<1>9. \A j \in Ended : jobs'[j] = jobs[j]
  BY <1>5, <1>7 DEF Ended
<1> QED
  BY <1>1, <1>6, <1>8, <1>9, NothingEnds DEF CensusInv

LEMMA EndKeeps ==
  ASSUME CensusInv, NEW i \in DOMAIN jobs, NEW status \in Ends, EndJob(i, status)
  PROVE  CensusInv'
<1> DEFINE row == [status |-> status, ended |-> endings']
<1>1. /\ jobs[i].status \in {"running", "pending"} /\ endings' = endings + 1
      /\ jobs' = [jobs EXCEPT ![i] = row] /\ unhashed' \in {0, unhashed} /\ newest' = status
      /\ UNCHANGED <<currentStamps, inventory, decided>>
  BY DEF EndJob
<1>2. row \in CensusJob /\ row.status = status /\ row.ended = endings'
  BY <1>1 DEF CensusJob, CensusInv, CensusTyped
<1> HIDE DEF row
<1>3. /\ jobs' \in Seq(CensusJob) /\ DOMAIN jobs' = DOMAIN jobs /\ jobs'[i] = row
      /\ \A j \in DOMAIN jobs \ {i} : jobs'[j] = jobs[j]
  BY <1>1, <1>2, JobReplaced DEF CensusInv, CensusTyped
<1>4. CensusTyped'
  BY <1>1, <1>3 DEF CensusInv, CensusTyped
<1>5. i \notin Ended
  BY <1>1 DEF Ended, Ends
<1>6. Ended' = Ended \cup {i}
  BY <1>2, <1>3, <1>5 DEF Ended
<1>7. \A j \in Ended : jobs'[j] = jobs[j] /\ jobs[j].ended \in 1 .. endings
  BY <1>3, <1>5 DEF Ended, CensusInv, EndingsInOrder
<1>8. endings \in Nat /\ jobs'[i].ended = endings + 1 /\ jobs'[i].status = newest'
  BY <1>1, <1>2, <1>3 DEF CensusInv, CensusTyped
<1>9. \A j \in Ended' : jobs'[j].ended \in 1 .. endings'
  BY <1>1, <1>6, <1>7, <1>8
<1>10. \A j, k \in Ended' : jobs'[j].ended = jobs'[k].ended => j = k
  BY <1>6, <1>7, <1>8 DEF CensusInv, EndingsInOrder
<1> QED
  BY <1>1, <1>4, <1>6, <1>8, <1>9, <1>10 DEF CensusInv, EndingsInOrder

(* A step of another component.                                            *)
LEMMA FactsKeep ==
  ASSUME CensusInv, UNCHANGED <<jobs, endings, newest>>,
         IsFiniteSet(currentStamps'), inventory'.pages \in Nat, unhashed' \in Nat,
         decided' \in {"active", "archive_retired", "archive_superseded"}
  PROVE  CensusInv'
BY DEF CensusInv, CensusTyped, EndingsInOrder, Ended

LEMMA CensusInitially == CensusInit => CensusInv
<1> SUFFICES ASSUME CensusInit PROVE CensusInv
  OBVIOUS
<1>1. IsFiniteSet(currentStamps)
  BY FS_Singleton DEF CensusInit
<1>2. Ended = {}
  BY DEF CensusInit, Ended
<1> QED
  BY <1>1, <1>2 DEF CensusInit, CensusInv, CensusTyped, EndingsInOrder, NoSignature

LEMMA CensusSteps ==
  ASSUME CensusInv, [CensusNext]_censusVars
  PROVE  CensusInv'
<1>1. CASE UNCHANGED censusVars
  BY <1>1, FactsKeep DEF censusVars, CensusInv, CensusTyped
<1>2. ASSUME NEW c \in Commands, SelectCandidates(c) \/ Revalidate(c)
      PROVE  CensusInv'
  BY <1>2, FactsKeep DEF SelectCandidates, Revalidate, CensusInv, CensusTyped
<1>3. CASE LocationsChange
  <2>1. IsFiniteSet(currentStamps')
    <3>1. \/ \E stamp : currentStamps' = {stamp}
          \/ currentStamps' = {}
          \/ \E stamp : currentStamps' = currentStamps \cup {stamp}
      BY <1>3 DEF LocationsChange
    <3>2. IsFiniteSet(currentStamps)
      BY DEF CensusInv, CensusTyped
    <3>3. CASE \E stamp : currentStamps' = currentStamps \cup {stamp}
      BY <3>2, <3>3, FS_AddElement
    <3>4. CASE (\E stamp : currentStamps' = {stamp}) \/ currentStamps' = {}
      BY <3>4, FS_EmptySet, FS_Singleton
    <3> QED
      BY <3>1, <3>3, <3>4
  <2> QED
    BY <1>3, <2>1, FactsKeep DEF LocationsChange, CensusInv, CensusTyped
<1>4. CASE DiskChanges
  BY <1>4, FactsKeep DEF DiskChanges, CensusInv, CensusTyped
<1>5. CASE PagesSaved
  BY <1>5, FactsKeep DEF PagesSaved, CensusInv, CensusTyped
<1>6. CASE DecideArchive
  BY <1>6, FactsKeep DEF DecideArchive, CensusInv, CensusTyped
<1> QED
  BY <1>1, <1>2, <1>3, <1>4, <1>5, <1>6, EnqueueKeeps, ClaimKeeps, EndKeeps DEF CensusNext

\* The eligible and the excluded partition the library, what is offered has
\* been seen on disk, and the work axis tells the last ending, for any commands
\* that race and any number of jobs and of changes by other components.
THEOREM CensusIsSafe == CensusSpec => []CensusSafety
<1>1. CensusInit => CensusInv
  BY CensusInitially
<1>2. CensusInv /\ [CensusNext]_censusVars => CensusInv'
  BY CensusSteps
<1>3. CensusInv => CensusSafety
  BY Partitioned, OfferedIsPresent, LastIsNewest DEF CensusInv, CensusSafety
<1> QED
  BY <1>1, <1>2, <1>3, PTL DEF CensusSpec

-----------------------------------------------------------------------------
(* Decisions and reversals                                                 *)

EventsTyped ==
  events \in Seq([archive : ArchiveIds, counterpart : ArchiveIds \cup {"none"},
                  disposition : Dispositions, action : {"recorded", "reversed"}, reason : Nat])
DispositionsTyped ==
  /\ retirements \subseteq ArchiveIds
  /\ Superseded \subseteq ArchiveIds /\ successor \in [Superseded -> ArchiveIds]
  /\ reasons \in Nat /\ EventsTyped
  /\ context # NoContext => context.reason \in 0 .. reasons

(* Every chain has an end, whoever it starts from, and no link leads to an *)
(* archive that is retired.                                                *)
ChainsEnd ==
  /\ retirements \cap Superseded = {}
  /\ \A a \in Superseded : successor[a] \notin retirements
  /\ \A a \in ArchiveIds : \E b \in Chain(a) : b \notin Superseded

(* No two events have one reason, and the published one is of none yet.    *)
ReasonsUsedOnce ==
  /\ \A i \in DOMAIN events : events[i].reason <= reasons
  /\ \A i, j \in DOMAIN events : i # j => events[i].reason # events[j].reason
  /\ context # NoContext => \A i \in DOMAIN events : events[i].reason # context.reason

(* The last event of an archive and a disposition says whether it has it.  *)
About(s, a, d) == {i \in DOMAIN s : s[i].archive = a /\ s[i].disposition = d}
IsLast(s, a, d, i) == i \in About(s, a, d) /\ \A j \in About(s, a, d) : j <= i
RowsAreTheEvents ==
  \A a \in ArchiveIds, d \in Dispositions :
    /\ HasDisposition(a, d) <=> \E i \in DOMAIN events : IsLast(events, a, d, i) /\ events[i].action = "recorded"
    /\ \A i \in DOMAIN events :
         IsLast(events, a, d, i) /\ HasDisposition(a, d) /\ d = "superseded"
           => events[i].counterpart = successor[a]

DispositionsInv == DispositionsTyped /\ ChainsEnd /\ ReasonsUsedOnce /\ RowsAreTheEvents

(* The nodes from an archive on, as the trigger's query finds them.        *)
LEMMA ChainStarts ==
  ASSUME NEW to, NEW a \in ArchiveIds
  PROVE  a \in ChainIn(to, a)
BY DEF ChainIn

LEMMA ChainGoesOn ==
  ASSUME NEW to, NEW a, NEW b \in ChainIn(to, a), b \in DOMAIN to, to[b] \in ArchiveIds
  PROVE  to[b] \in ChainIn(to, a)
BY DEF ChainIn, Follows

LEMMA ChainIsLeast ==
  ASSUME NEW to, NEW a, NEW S \in SUBSET ArchiveIds, a \in S, Follows(S, to)
  PROVE  ChainIn(to, a) \subseteq S
BY DEF ChainIn

LEMMA ChainFollows ==
  ASSUME NEW to, NEW a \in ArchiveIds, \A b \in DOMAIN to : to[b] \in ArchiveIds
  PROVE  /\ ChainIn(to, a) \in SUBSET ArchiveIds /\ a \in ChainIn(to, a)
         /\ Follows(ChainIn(to, a), to)
<1>1. ChainIn(to, a) \in SUBSET ArchiveIds
  BY DEF ChainIn
<1>2. \A b \in ChainIn(to, a) \cap DOMAIN to : to[b] \in ChainIn(to, a)
  BY ChainGoesOn
<1> QED
  BY <1>1, <1>2, ChainStarts DEF Follows

LEMMA ChainWithin ==
  ASSUME NEW to, NEW a \in ArchiveIds, NEW b \in ChainIn(to, a),
         \A c \in DOMAIN to : to[c] \in ArchiveIds
  PROVE  ChainIn(to, b) \subseteq ChainIn(to, a)
BY ChainFollows, ChainIsLeast

LEMMA BeyondTheStart ==
  ASSUME NEW to, NEW a \in ArchiveIds, NEW b \in ChainIn(to, a), b # a,
         \A c \in DOMAIN to : to[c] \in ArchiveIds
  PROVE  \E c \in DOMAIN to : to[c] = b
<1> DEFINE S == {a} \cup {to[c] : c \in DOMAIN to}
<1>1. S \in SUBSET ArchiveIds /\ a \in S
  OBVIOUS
<1>2. Follows(S, to)
  BY DEF Follows
<1>3. b \in S
  BY <1>1, <1>2, ChainIsLeast
<1> QED
  BY <1>3

(* A link to an archive that does not lead back keeps every chain ending.  *)
LEMMA LinkedChainsEnd ==
  ASSUME NEW to, NEW a \in ArchiveIds, NEW b \in ArchiveIds,
         a \notin DOMAIN to, a \notin ChainIn(to, b), \A c \in DOMAIN to : to[c] \in ArchiveIds,
         \A c \in ArchiveIds : \E e \in ChainIn(to, c) : e \notin DOMAIN to,
         NEW next, DOMAIN next = DOMAIN to \cup {a}, next[a] = b,
         \A c \in DOMAIN to : next[c] = to[c]
  PROVE  \A c \in ArchiveIds : \E e \in ChainIn(next, c) : e \notin DOMAIN next
<1>1. \A c \in DOMAIN next : next[c] \in ArchiveIds
  OBVIOUS
<1>2. ASSUME NEW c \in ArchiveIds PROVE ChainIn(to, c) \subseteq ChainIn(next, c)
  <2>1. Follows(ChainIn(next, c), to)
    BY <1>1, ChainFollows DEF Follows
  <2> QED
    BY <1>1, <2>1, ChainFollows, ChainIsLeast
<1> SUFFICES ASSUME NEW c \in ArchiveIds
             PROVE  \E e \in ChainIn(next, c) : e \notin DOMAIN next
  OBVIOUS
<1>3. PICK e \in ChainIn(to, c) : e \notin DOMAIN to
  OBVIOUS
<1>4. CASE e # a
  BY <1>2, <1>3, <1>4
<1>5. CASE e = a
  <2>1. b \in ChainIn(next, c)
    BY <1>2, <1>5, ChainGoesOn
  <2>2. PICK f \in ChainIn(to, b) : f \notin DOMAIN to
    OBVIOUS
  <2>3. f \in ChainIn(next, c)
    BY <1>1, <1>2, <2>1, ChainWithin
  <2> QED
    BY <2>2, <2>3
<1> QED
  BY <1>4, <1>5

(* So does a link that is taken away.                                      *)
LEMMA CutChainsEnd ==
  ASSUME NEW to, NEW a, \A c \in DOMAIN to : to[c] \in ArchiveIds,
         \A c \in ArchiveIds : \E e \in ChainIn(to, c) : e \notin DOMAIN to,
         NEW next, DOMAIN next = DOMAIN to \ {a}, \A c \in DOMAIN next : next[c] = to[c]
  PROVE  \A c \in ArchiveIds : \E e \in ChainIn(next, c) : e \notin DOMAIN next
<1> SUFFICES ASSUME NEW c \in ArchiveIds
             PROVE  \E e \in ChainIn(next, c) : e \notin DOMAIN next
  OBVIOUS
<1>1. CASE a \in ChainIn(next, c)
  BY <1>1
<1>2. CASE a \notin ChainIn(next, c)
  <2>1. /\ ChainIn(next, c) \in SUBSET ArchiveIds /\ c \in ChainIn(next, c)
        /\ Follows(ChainIn(next, c), next)
    BY ChainFollows
  <2>2. Follows(ChainIn(next, c), to)
    BY <1>2, <2>1 DEF Follows
  <2>3. PICK e \in ChainIn(to, c) : e \notin DOMAIN to
    OBVIOUS
  <2> QED
    BY <2>1, <2>2, <2>3, ChainIsLeast
<1> QED
  BY <1>1, <1>2

LEMMA EventAppended ==
  ASSUME NEW T, NEW s \in Seq(T), NEW e \in T
  PROVE  \A i \in DOMAIN Append(s, e) :
            \/ i = Len(s) + 1 /\ Append(s, e)[i] = e
            \/ i \in DOMAIN s /\ Append(s, e)[i] = s[i]
<1>1. \A i \in DOMAIN Append(s, e) : i = Len(s) + 1 \/ i \in DOMAIN s
  OBVIOUS
<1>2. Append(s, e)[Len(s) + 1] = e /\ \A i \in DOMAIN s : Append(s, e)[i] = s[i]
  OBVIOUS
<1> QED
  BY <1>1, <1>2

(* An event is the last of its own, and leaves the last of the others.     *)
LEMMA LastOfOthers ==
  ASSUME NEW T, NEW s \in Seq(T), NEW e \in T, NEW a, NEW d, e.archive # a \/ e.disposition # d, NEW i
  PROVE  /\ IsLast(Append(s, e), a, d, i) <=> IsLast(s, a, d, i)
         /\ IsLast(s, a, d, i) => i \in DOMAIN s /\ i \in DOMAIN Append(s, e) /\ Append(s, e)[i] = s[i]
<1>1. \A j \in DOMAIN Append(s, e) : j = Len(s) + 1 \/ j \in DOMAIN s
  OBVIOUS
<1>2. \A j \in DOMAIN s : j \in DOMAIN Append(s, e) /\ Append(s, e)[j] = s[j]
  OBVIOUS
<1>3. Append(s, e)[Len(s) + 1] = e
  OBVIOUS
<1>4. About(Append(s, e), a, d) = About(s, a, d)
  BY <1>1, <1>2, <1>3 DEF About
<1> QED
  BY <1>2, <1>4 DEF IsLast, About

LEMMA LastIsItsOwn ==
  ASSUME NEW T, NEW s \in Seq(T), NEW e \in T, NEW i
  PROVE  /\ IsLast(Append(s, e), e.archive, e.disposition, i) <=> i = Len(s) + 1
         /\ Len(s) + 1 \in DOMAIN Append(s, e) /\ Append(s, e)[Len(s) + 1] = e
<1>1. \A j \in DOMAIN Append(s, e) : j \in Int /\ j <= Len(s) + 1
  OBVIOUS
<1>2. Append(s, e)[Len(s) + 1] = e /\ Len(s) + 1 \in DOMAIN Append(s, e)
  OBVIOUS
<1>3. Len(s) + 1 \in About(Append(s, e), e.archive, e.disposition)
  BY <1>2 DEF About
<1>4. \A j \in About(Append(s, e), e.archive, e.disposition) : j \in Int /\ j <= Len(s) + 1
  BY <1>1 DEF About
<1> QED
  BY <1>2, <1>3, <1>4 DEF IsLast

(* What an event that is appended must agree with.                         *)
LEMMA EventsStayRows ==
  ASSUME DispositionsTyped, RowsAreTheEvents,
         NEW e \in [archive : ArchiveIds, counterpart : ArchiveIds \cup {"none"},
                    disposition : Dispositions, action : {"recorded", "reversed"}, reason : Nat],
         events' = Append(events, e),
         HasDisposition(e.archive, e.disposition)' <=> e.action = "recorded",
         e.action = "recorded" /\ e.disposition = "superseded" => successor'[e.archive] = e.counterpart,
         \A a \in ArchiveIds, d \in Dispositions : a # e.archive \/ d # e.disposition
            => /\ HasDisposition(a, d)' <=> HasDisposition(a, d)
               /\ d = "superseded" /\ HasDisposition(a, d) => successor'[a] = successor[a]
  PROVE  RowsAreTheEvents'
<1> DEFINE T == [archive : ArchiveIds, counterpart : ArchiveIds \cup {"none"},
                 disposition : Dispositions, action : {"recorded", "reversed"}, reason : Nat]
<1>1. events \in Seq(T) /\ e \in T
  BY DEF DispositionsTyped, EventsTyped
<1> HIDE DEF T
<1> SUFFICES ASSUME NEW a \in ArchiveIds, NEW d \in Dispositions
    PROVE /\ HasDisposition(a, d)' <=>
                \E i \in DOMAIN events' : IsLast(events', a, d, i) /\ events'[i].action = "recorded"
          /\ \A i \in DOMAIN events' :
               IsLast(events', a, d, i) /\ HasDisposition(a, d)' /\ d = "superseded"
                 => events'[i].counterpart = successor'[a]
  BY DEF RowsAreTheEvents
<1>2. CASE a # e.archive \/ d # e.disposition
  <2>1. \A i : /\ IsLast(events', a, d, i) <=> IsLast(events, a, d, i)
               /\ IsLast(events, a, d, i)
                     => i \in DOMAIN events /\ i \in DOMAIN events' /\ events'[i] = events[i]
    BY <1>1, <1>2, LastOfOthers
  <2> QED
    BY <1>2, <2>1 DEF RowsAreTheEvents
<1>3. CASE a = e.archive /\ d = e.disposition
  <2>1. \A i : IsLast(events', a, d, i) <=> i = Len(events) + 1
    BY <1>1, <1>3, LastIsItsOwn
  <2>2. Len(events) + 1 \in DOMAIN events' /\ events'[Len(events) + 1] = e
    BY <1>1, LastIsItsOwn
  <2> QED
    BY <1>3, <2>1, <2>2
<1> QED
  BY <1>2, <1>3

LEMMA EventsStayApart ==
  ASSUME DispositionsTyped, ReasonsUsedOnce,
         NEW e \in [archive : ArchiveIds, counterpart : ArchiveIds \cup {"none"},
                    disposition : Dispositions, action : {"recorded", "reversed"}, reason : Nat],
         events' = Append(events, e), reasons' \in Nat, reasons' >= reasons, e.reason <= reasons',
         \A i \in DOMAIN events : events[i].reason # e.reason,
         \/ context' = NoContext
         \/ context' = context /\ e.reason = reasons' /\ reasons' > reasons
  PROVE  ReasonsUsedOnce' /\ EventsTyped'
<1> DEFINE T == [archive : ArchiveIds, counterpart : ArchiveIds \cup {"none"},
                 disposition : Dispositions, action : {"recorded", "reversed"}, reason : Nat]
<1>1. events \in Seq(T) /\ e \in T /\ \A x \in T : x.reason \in Nat
  BY DEF DispositionsTyped, EventsTyped
<1>2. EventsTyped'
  BY <1>1 DEF EventsTyped
<1> HIDE DEF T
<1>3. \A i \in DOMAIN events' : \/ i = Len(events) + 1 /\ events'[i] = e
                                \/ i \in DOMAIN events /\ events'[i] = events[i]
  BY <1>1, EventAppended
<1>4. \A i \in DOMAIN events : events[i].reason \in Nat
  BY <1>1
<1>5. \A i \in DOMAIN events' : events'[i].reason <= reasons'
  BY <1>1, <1>3, <1>4 DEF ReasonsUsedOnce, DispositionsTyped
<1>6. \A i, j \in DOMAIN events' : i # j => events'[i].reason # events'[j].reason
  BY <1>3 DEF ReasonsUsedOnce
<1>7. context' # NoContext => \A i \in DOMAIN events' : events'[i].reason # context'.reason
  BY <1>1, <1>3 DEF ReasonsUsedOnce, DispositionsTyped
<1> QED
  BY <1>2, <1>5, <1>6, <1>7 DEF ReasonsUsedOnce

LEMMA DispositionsInitially == DispositionsInit => DispositionsInv
<1> SUFFICES ASSUME DispositionsInit PROVE DispositionsInv
  OBVIOUS
<1>1. /\ retirements \subseteq ArchiveIds /\ successor = <<>> /\ context = NoContext /\ reasons = 0
      /\ \A a, b \in retirements : a = b
  BY DEF DispositionsInit
<1>2. Superseded = {}
  BY <1>1 DEF Superseded
<1>3. ChainsEnd
  BY <1>2, ChainStarts DEF ChainsEnd, Chain
<1>4. CASE retirements = {}
  <2>1. events = <<>> /\ DOMAIN events = {}
    BY <1>4 DEF DispositionsInit
  <2>2. EventsTyped /\ ReasonsUsedOnce
    BY <2>1 DEF EventsTyped, ReasonsUsedOnce
  <2>3. RowsAreTheEvents
    BY <1>2, <1>4, <2>1 DEF RowsAreTheEvents, HasDisposition
  <2> QED
    BY <1>1, <1>2, <1>3, <2>2, <2>3 DEF DispositionsInv, DispositionsTyped
<1>5. CASE retirements # {}
  <2> DEFINE a == CHOOSE a \in retirements : TRUE
             e == DispositionEvent(a, "none", "retired", "recorded", 0)
  <2>1. a \in retirements /\ retirements = {a}
    BY <1>1, <1>5
  <2>2. events = <<e>> /\ e.archive = a /\ e.disposition = "retired" /\ e.action = "recorded"
        /\ e.reason = 0
    BY <1>5 DEF DispositionsInit, DispositionEvent
  <2>3. e \in [archive : ArchiveIds, counterpart : ArchiveIds \cup {"none"},
               disposition : Dispositions, action : {"recorded", "reversed"}, reason : Nat]
    BY <1>1, <2>1 DEF DispositionEvent, Dispositions
  <2> HIDE DEF a, e
  <2>4. DOMAIN events = {1} /\ events[1] = e
    BY <2>2
  <2>5. EventsTyped
    BY <2>2, <2>3 DEF EventsTyped
  <2>6. ReasonsUsedOnce
    BY <1>1, <2>2, <2>4 DEF ReasonsUsedOnce
  <2>7. \A b, d : About(events, b, d) = IF b = a /\ d = "retired" THEN {1} ELSE {}
    BY <2>2, <2>4 DEF About
  <2>8. \A b, d, i : IsLast(events, b, d, i) <=> b = a /\ d = "retired" /\ i = 1
    BY <2>7 DEF IsLast
  <2>9. RowsAreTheEvents
    BY <1>2, <2>1, <2>2, <2>4, <2>8 DEF RowsAreTheEvents, HasDisposition
  <2> QED
    BY <1>1, <1>2, <1>3, <2>5, <2>6, <2>9 DEF DispositionsInv, DispositionsTyped
<1> QED
  BY <1>4, <1>5

LEMMA RetireSteps ==
  ASSUME DispositionsInv, NEW a \in ArchiveIds, RetireArchive(a)
  PROVE  DispositionsInv'
<1> DEFINE e == DispositionEvent(a, "none", "retired", "recorded", reasons')
<1>1. /\ a \notin retirements /\ a \notin Superseded /\ a \notin Range(successor)
      /\ reasons' = reasons + 1 /\ retirements' = retirements \cup {a} /\ events' = Append(events, e)
      /\ successor' = successor /\ context' = context /\ Superseded' = Superseded
  BY DEF RetireArchive, RefusesRetirement, GiveReason, Superseded
<1>2. /\ e \in [archive : ArchiveIds, counterpart : ArchiveIds \cup {"none"},
                disposition : Dispositions, action : {"recorded", "reversed"}, reason : Nat]
      /\ e.archive = a /\ e.disposition = "retired" /\ e.action = "recorded" /\ e.reason = reasons'
  BY <1>1 DEF DispositionEvent, Dispositions, DispositionsInv, DispositionsTyped
<1> HIDE DEF e
<1>3. \A b \in Superseded : successor[b] # a
  BY <1>1 DEF Range, Superseded
<1>4. ChainsEnd'
  BY <1>1, <1>3 DEF DispositionsInv, ChainsEnd, Chain
<1>5. RowsAreTheEvents'
  BY <1>1, <1>2, EventsStayRows DEF DispositionsInv, HasDisposition
<1>6. \A i \in DOMAIN events : events[i].reason # e.reason
  BY <1>1, <1>2 DEF DispositionsInv, ReasonsUsedOnce, DispositionsTyped
<1>7. ReasonsUsedOnce' /\ EventsTyped'
  BY <1>1, <1>2, <1>6, EventsStayApart DEF DispositionsInv, DispositionsTyped
<1> QED
  BY <1>1, <1>4, <1>5, <1>7 DEF DispositionsInv, DispositionsTyped

LEMMA SupersedeSteps ==
  ASSUME DispositionsInv, NEW a \in ArchiveIds, NEW b \in ArchiveIds, Supersede(a, b)
  PROVE  DispositionsInv'
<1> DEFINE e == DispositionEvent(a, b, "superseded", "recorded", reasons')
<1>1. /\ a \notin retirements /\ b \notin retirements /\ a \notin Superseded /\ a \notin Chain(b)
      /\ reasons' = reasons + 1 /\ retirements' = retirements /\ events' = Append(events, e)
      /\ context' = context
      /\ successor' = [c \in Superseded \cup {a} |-> IF c = a THEN b ELSE successor[c]]
  BY DEF Supersede, RefusesSupersession, GiveReason
<1>2. /\ e \in [archive : ArchiveIds, counterpart : ArchiveIds \cup {"none"},
                disposition : Dispositions, action : {"recorded", "reversed"}, reason : Nat]
      /\ e.archive = a /\ e.disposition = "superseded" /\ e.action = "recorded"
      /\ e.reason = reasons' /\ e.counterpart = b
  BY <1>1 DEF DispositionEvent, Dispositions, DispositionsInv, DispositionsTyped
<1> HIDE DEF e
<1>3. /\ Superseded' = Superseded \cup {a} /\ successor'[a] = b
      /\ \A c \in Superseded : successor'[c] = successor[c]
  BY <1>1 DEF Superseded
<1>4. \A c \in ArchiveIds : \E f \in Chain(c)' : f \notin Superseded'
  <2>1. DOMAIN successor' = DOMAIN successor \cup {a}
    BY <1>3 DEF Superseded
  <2> QED
    BY <1>1, <1>3, <2>1, LinkedChainsEnd
       DEF DispositionsInv, DispositionsTyped, ChainsEnd, Chain, Superseded
<1>5. ChainsEnd'
  BY <1>1, <1>3, <1>4 DEF DispositionsInv, ChainsEnd
<1>6. RowsAreTheEvents'
  BY <1>1, <1>2, <1>3, EventsStayRows DEF DispositionsInv, HasDisposition, Dispositions
<1>7. \A i \in DOMAIN events : events[i].reason # e.reason
  BY <1>1, <1>2 DEF DispositionsInv, ReasonsUsedOnce, DispositionsTyped
<1>8. ReasonsUsedOnce' /\ EventsTyped'
  BY <1>1, <1>2, <1>7, EventsStayApart DEF DispositionsInv, DispositionsTyped
<1>9. Superseded' \subseteq ArchiveIds /\ successor' \in [Superseded' -> ArchiveIds]
  BY <1>1, <1>3 DEF DispositionsInv, DispositionsTyped
<1> QED
  BY <1>1, <1>5, <1>6, <1>8, <1>9 DEF DispositionsInv, DispositionsTyped

(* A reversal under a reason that is new, given now or published before.   *)
LEMMA ReversalSteps ==
  ASSUME DispositionsInv, NEW a \in ArchiveIds, NEW d \in Dispositions, NEW c, DeleteDisposition(a, d, c),
         reasons' \in Nat, reasons' >= reasons, c.reason \in 0 .. reasons',
         \A i \in DOMAIN events : events[i].reason # c.reason
  PROVE  DispositionsInv'
<1> DEFINE other == IF d = "retired" THEN "none" ELSE successor[a]
           e == DispositionEvent(a, other, d, "reversed", c.reason)
<1>1. events' = Append(events, e) /\ context' = NoContext /\ HasDisposition(a, d)
  BY DEF DeleteDisposition
<1>2. /\ e \in [archive : ArchiveIds, counterpart : ArchiveIds \cup {"none"},
                disposition : Dispositions, action : {"recorded", "reversed"}, reason : Nat]
      /\ e.archive = a /\ e.disposition = d /\ e.action = "reversed" /\ e.reason = c.reason
  BY <1>1 DEF DispositionEvent, DispositionsInv, DispositionsTyped, HasDisposition
<1> HIDE DEF e
<1>3. ReasonsUsedOnce' /\ EventsTyped'
  BY <1>1, <1>2, EventsStayApart DEF DispositionsInv
<1>4. CASE d = "retired"
  <2>1. /\ retirements' = retirements \ {a} /\ successor' = successor /\ Superseded' = Superseded
    BY <1>4 DEF DeleteDisposition, Superseded
  <2>2. ChainsEnd'
    BY <2>1 DEF DispositionsInv, ChainsEnd, Chain
  <2>3. RowsAreTheEvents'
    BY <1>1, <1>2, <1>4, <2>1, EventsStayRows DEF DispositionsInv, HasDisposition
  <2> QED
    BY <1>1, <1>3, <2>1, <2>2, <2>3 DEF DispositionsInv, DispositionsTyped
<1>5. CASE d = "superseded"
  <2>1. retirements' = retirements /\ successor' = Without(a)
    BY <1>5 DEF DeleteDisposition
  <2>2. Superseded' = Superseded \ {a} /\ \A b \in Superseded' : successor'[b] = successor[b]
    BY <2>1 DEF Superseded, Without
  <2>3. \A b \in ArchiveIds : \E f \in Chain(b)' : f \notin Superseded'
    <3>1. DOMAIN successor' = DOMAIN successor \ {a}
      BY <2>2 DEF Superseded
    <3>2. /\ \A b \in DOMAIN successor : successor[b] \in ArchiveIds
          /\ \A b \in ArchiveIds : \E f \in ChainIn(successor, b) : f \notin DOMAIN successor
          /\ \A b \in DOMAIN successor' : successor'[b] = successor[b]
      BY <2>2 DEF DispositionsInv, DispositionsTyped, ChainsEnd, Chain, Superseded
    <3> QED
      BY <3>1, <3>2, CutChainsEnd DEF Chain, Superseded
  <2>4. ChainsEnd'
    BY <2>1, <2>2, <2>3 DEF DispositionsInv, ChainsEnd
  <2>5. RowsAreTheEvents'
    BY <1>1, <1>2, <1>5, <2>1, <2>2, EventsStayRows DEF DispositionsInv, HasDisposition, Dispositions
  <2>6. Superseded' \subseteq ArchiveIds /\ successor' \in [Superseded' -> ArchiveIds]
    BY <2>1, <2>2 DEF DispositionsInv, DispositionsTyped, Without
  <2> QED
    BY <1>1, <1>3, <2>1, <2>4, <2>5, <2>6 DEF DispositionsInv, DispositionsTyped
<1> QED
  BY <1>4, <1>5 DEF Dispositions

LEMMA PublishSteps ==
  ASSUME DispositionsInv, NEW a \in ArchiveIds, NEW d \in Dispositions, PublishReason(a, d)
  PROVE  DispositionsInv'
<1>1. /\ reasons' = reasons + 1 /\ context'.reason = reasons'
      /\ retirements' = retirements /\ successor' = successor /\ events' = events
      /\ Superseded' = Superseded
  BY DEF PublishReason, GiveReason, Superseded
<1>2. ChainsEnd' /\ RowsAreTheEvents'
  BY <1>1 DEF DispositionsInv, ChainsEnd, Chain, RowsAreTheEvents, HasDisposition
<1>3. \A i \in DOMAIN events : events[i].reason \in Nat
  <2>1. EventsTyped
    BY DEF DispositionsInv, DispositionsTyped
  <2> DEFINE T == [archive : ArchiveIds, counterpart : ArchiveIds \cup {"none"},
                   disposition : Dispositions, action : {"recorded", "reversed"}, reason : Nat]
  <2>2. events \in Seq(T) /\ \A x \in T : x.reason \in Nat
    BY <2>1 DEF EventsTyped
  <2> HIDE DEF T
  <2> QED
    BY <2>2
<1>4. ReasonsUsedOnce'
  BY <1>1, <1>3 DEF DispositionsInv, DispositionsTyped, ReasonsUsedOnce
<1> QED
  BY <1>1, <1>2, <1>4 DEF DispositionsInv, DispositionsTyped, EventsTyped

LEMMA DispositionsSteps ==
  ASSUME DispositionsInv, [DispositionsNext]_dispositionVars
  PROVE  DispositionsInv'
<1>1. CASE UNCHANGED dispositionVars
  BY <1>1 DEF dispositionVars, DispositionsInv, DispositionsTyped, EventsTyped, ChainsEnd, Chain,
              ReasonsUsedOnce, RowsAreTheEvents, HasDisposition, Superseded
<1>2. ASSUME NEW a \in ArchiveIds, NEW d \in Dispositions, ReverseDisposition(a, d)
      PROVE  DispositionsInv'
  <2> DEFINE c == [archive |-> a, disposition |-> d, reason |-> reasons']
  <2>1. DeleteDisposition(a, d, c) /\ reasons' = reasons + 1 /\ c.reason = reasons'
    BY <1>2 DEF ReverseDisposition, GiveReason
  <2>2. \A i \in DOMAIN events : events[i].reason # c.reason
    BY <2>1 DEF DispositionsInv, DispositionsTyped, ReasonsUsedOnce
  <2> HIDE DEF c
  <2> QED
    BY <2>1, <2>2, ReversalSteps DEF DispositionsInv, DispositionsTyped
<1>3. ASSUME NEW a \in ArchiveIds, NEW d \in Dispositions, DeleteRow(a, d)
      PROVE  DispositionsInv'
  <2>1. DeleteDisposition(a, d, context) /\ reasons' = reasons /\ context # NoContext
    BY <1>3 DEF DeleteRow, DeleteDisposition
  <2>2. \A i \in DOMAIN events : events[i].reason # context.reason
    BY <2>1 DEF DispositionsInv, ReasonsUsedOnce
  <2> QED
    BY <2>1, <2>2, ReversalSteps DEF DispositionsInv, DispositionsTyped
<1> QED
  BY <1>1, <1>2, <1>3, RetireSteps, SupersedeSteps, PublishSteps DEF DispositionsNext

LEMMA DispositionsKept ==
  ASSUME DispositionsInv
  PROVE  DispositionsSafety
<1>1. ChainsEndInScope
  <2>1. ASSUME NEW a \in Superseded
        PROVE  Resolves(a) /\ ResolveSuccessor(a) \notin retirements
    <3>1. a \in ArchiveIds /\ \E b \in Chain(a) : b \notin Superseded
      BY DEF DispositionsInv, DispositionsTyped, ChainsEnd
    <3>2. Resolves(a) /\ ResolveSuccessor(a) \in Chain(a) /\ ResolveSuccessor(a) \notin Superseded
      BY <3>1 DEF Resolves, ResolveSuccessor
    <3>3. \E c \in Superseded : successor[c] = ResolveSuccessor(a)
      BY <3>1, <3>2, BeyondTheStart DEF DispositionsInv, DispositionsTyped, Chain
    <3> QED
      BY <3>2, <3>3 DEF DispositionsInv, ChainsEnd
  <2> QED
    BY <2>1 DEF ChainsEndInScope, ConflictingRows, DispositionsInv, ChainsEnd
<1>2. OwnReasons
  BY DEF OwnReasons, DispositionsInv, ReasonsUsedOnce
<1>3. ASSUME NEW a \in ArchiveIds, NEW d \in Dispositions
      PROVE  HasDisposition(a, d) <=> LastRecorded(a, d)
  <2> DEFINE mine == {i \in DOMAIN events : events[i].archive = a /\ events[i].disposition = d}
  <2>1. mine = About(events, a, d)
    BY DEF About
  <2>2. LastRecorded(a, d) <=> \E i \in mine : /\ events[i].action = "recorded"
                                               /\ \A j \in mine : j <= i
                                               /\ d = "superseded" => events[i].counterpart = successor[a]
    BY DEF LastRecorded
  <2>3. mine \subseteq DOMAIN events
    OBVIOUS
  <2> HIDE DEF mine
  <2> QED
    BY <2>1, <2>2, <2>3 DEF DispositionsInv, RowsAreTheEvents, IsLast
<1> QED
  BY <1>1, <1>2, <1>3 DEF DispositionsSafety, HistoryIsTheTables

\* Every chain of supersessions ends at an archive in scope, each decision and
\* reversal has a reason of its own, and the events replay to the tables, for
\* any archives and decisions, by call or by raw SQL.
THEOREM DispositionsAreSafe == DispositionsSpec => []DispositionsSafety
<1>1. DispositionsInit => DispositionsInv
  BY DispositionsInitially
<1>2. DispositionsInv /\ [DispositionsNext]_dispositionVars => DispositionsInv'
  BY DispositionsSteps
<1>3. DispositionsInv => DispositionsSafety
  BY DispositionsKept
<1> QED
  BY <1>1, <1>2, <1>3, PTL DEF DispositionsSpec

-----------------------------------------------------------------------------
(* Retention                                                               *)

(* Steps from a start on, each from the one before.                        *)
Steps(V, start, g, k) ==
  \E h \in [0..k -> V] : h[0] = start /\ \A n \in 1..k : h[n] = g[h[n - 1]]

LEMMA StepsExist ==
  ASSUME NEW V, NEW start \in V, NEW g \in [V -> V], NEW k \in Nat
  PROVE  Steps(V, start, g, k)
<1> DEFINE Good(m) == \E h \in [0..m -> V] : h[0] = start /\ \A n \in 1..m : h[n] = g[h[n - 1]]
           T == {m \in Nat : ~Good(m)}
<1>1. SUFFICES ASSUME k \in T PROVE FALSE
  BY DEF Steps
<1>2. PICK m \in T : \A n \in T : ~(n < m)
  <2>1. T \subseteq Nat /\ T # {}
    BY <1>1
  <2> HIDE DEF T
  <2>2. PICK m \in T : \A n \in T : m <= n
    BY <2>1, LeastExists
  <2> QED
    BY <2>1, <2>2
<1>3. m \in Nat /\ ~Good(m)
  BY <1>2
<1>4. CASE m = 0
  <2> DEFINE h == [n \in 0..0 |-> start]
  <2>1. h \in [0..0 -> V] /\ h[0] = start /\ \A n \in 1..0 : h[n] = g[h[n - 1]]
    OBVIOUS
  <2>2. Good(0)
    BY <2>1
  <2> QED
    BY <1>3, <1>4, <2>2
<1>5. CASE m # 0
  <2>1. m - 1 \in Nat /\ m - 1 < m
    BY <1>3, <1>5
  <2>2. Good(m - 1)
    BY <1>2, <2>1
  <2>3. PICK h \in [0..m - 1 -> V] : h[0] = start /\ \A n \in 1..m - 1 : h[n] = g[h[n - 1]]
    BY <2>2
  <2> DEFINE e == [n \in 0..m |-> IF n = m THEN g[h[m - 1]] ELSE h[n]]
  <2>4. e \in [0..m -> V]
    BY <1>3, <2>1, <2>3
  <2>5. e[0] = start
    BY <1>3, <1>5, <2>3
  <2>6. \A n \in 1..m : e[n] = g[e[n - 1]]
    BY <1>3, <2>1, <2>3
  <2>7. Good(m)
    BY <2>4, <2>5, <2>6
  <2> QED
    BY <1>3, <2>7
<1> QED
  BY <1>4, <1>5

RevisionIds == [archive : Catalogued, ordinal : 1..MaxOrdinal]
Linked == RevisionIds \union {NoRevision}
InputsTyped(i) ==
  /\ RevisionsOf(i) \subseteq RevisionIds
  /\ i.previous \in [RevisionsOf(i) -> Linked]
  /\ i.pointer \in [Catalogued -> RevisionsOf(i)]
  /\ i.evidence \in [Catalogued -> SUBSET EvidenceKinds]

WalksBack(all, links, start, a, keep) ==
  \A n \in 0..keep : all[n] = IF n = 0 THEN start ELSE Before(links, a, all[n - 1])

LEMMA GenerationsAre ==
  ASSUME NEW a, NEW keep \in Nat, NEW links, NEW start \in Linked,
         DOMAIN links \subseteq RevisionIds
  PROVE  WalksBack(GenerationsBack(links, start, a, keep), links, start, a, keep)
<1> DEFINE g == [r \in Linked |-> Before(links, a, r)]
<1>1. g \in [Linked -> Linked]
  BY DEF Before, Linked
<1> HIDE DEF g
<1>2. Steps(Linked, start, g, keep)
  BY <1>1, StepsExist
<1>3. PICK h \in [0..keep -> Linked] : h[0] = start /\ \A n \in 1..keep : h[n] = g[h[n - 1]]
  BY <1>2 DEF Steps
<1>4. \A n \in 1..keep : h[n] = Before(links, a, h[n - 1])
  <2>1. \A n \in 1..keep : n - 1 \in 0..keep
    OBVIOUS
  <2> QED
    BY <1>3, <2>1 DEF g
<1>5. h = [n \in 0..keep |-> IF n = 0 THEN start ELSE Before(links, a, h[n - 1])]
  BY <1>3, <1>4
<1> DEFINE all == GenerationsBack(links, start, a, keep)
<1>6. all = [n \in 0..keep |-> IF n = 0 THEN start ELSE Before(links, a, all[n - 1])]
  BY <1>5 DEF GenerationsBack
<1> HIDE DEF all
<1>7. \A n \in 0..keep : all[n] = IF n = 0 THEN start ELSE Before(links, a, all[n - 1])
  BY <1>6
<1> QED
  BY <1>7 DEF WalksBack, all

(* With the lineage unbroken, the walk goes down the ordinals.             *)
LEMMA GenerationsDescend ==
  ASSUME NEW i, InputsTyped(i), NEW a \in Catalogued, OwnPointer(i, a),
         \A r \in RevisionsOf(i) : ~LineageBroken(i, r),
         NEW keep \in Nat, NEW n \in 0..keep, n < i.pointer[a].ordinal
  PROVE  GenerationsBack(i.previous, Start(i, a), a, keep)[n] =
            [archive |-> a, ordinal |-> i.pointer[a].ordinal - n]
<1> DEFINE all == GenerationsBack(i.previous, Start(i, a), a, keep)
           p == i.pointer[a]
           At(m) == [archive |-> a, ordinal |-> p.ordinal - m]
           T == {m \in 0..keep : m < p.ordinal /\ all[m] # At(m)}
<1>1. /\ p \in RevisionsOf(i) /\ p.archive = a /\ Start(i, a) = p /\ p \in RevisionIds
      /\ RevisionsOf(i) = DOMAIN i.previous /\ RevisionsOf(i) \subseteq RevisionIds
  BY DEF OwnPointer, Start, InputsTyped, RevisionsOf
<1>2. \A m \in 0..keep : all[m] = IF m = 0 THEN p ELSE Before(i.previous, a, all[m - 1])
  <2>1. p \in Linked /\ DOMAIN i.previous \subseteq RevisionIds
    BY <1>1 DEF Linked
  <2>2. all = GenerationsBack(i.previous, p, a, keep)
    BY <1>1
  <2> HIDE DEF all, p
  <2>3. WalksBack(GenerationsBack(i.previous, p, a, keep), i.previous, p, a, keep)
    BY <2>1, GenerationsAre
  <2>4. WalksBack(all, i.previous, p, a, keep)
    BY <2>2, <2>3
  <2> QED
    BY <2>4 DEF WalksBack
<1>3. p.ordinal \in Nat /\ p = At(0)
  <2>1. p.ordinal \in Nat
    BY <1>1, RetentionAssumption DEF RevisionIds
  <2>2. p = [archive |-> p.archive, ordinal |-> p.ordinal]
    BY <1>1 DEF RevisionIds
  <2>3. p.ordinal - 0 = p.ordinal
    BY <2>1
  <2> QED
    BY <1>1, <2>1, <2>2, <2>3
<1> HIDE DEF all, p
<1>4. SUFFICES ASSUME n \in T PROVE FALSE
  BY DEF p, all
<1>5. PICK m \in T : \A l \in T : ~(l < m)
  <2>1. T \subseteq Nat /\ T # {}
    BY <1>4
  <2> HIDE DEF T
  <2>2. PICK m \in T : \A l \in T : m <= l
    BY <2>1, LeastExists
  <2> QED
    BY <2>1, <2>2
<1>6. m \in 0..keep /\ m < p.ordinal /\ all[m] # At(m) /\ m # 0
  <2>1. m \in 0..keep /\ m < p.ordinal /\ all[m] # At(m)
    BY <1>5
  <2>2. 0 \in 0..keep
    OBVIOUS
  <2>3. all[0] = At(0)
    BY <1>2, <1>3, <2>2
  <2> HIDE DEF At
  <2> QED
    BY <2>1, <2>3
<1>7. m - 1 \in 0..keep /\ m - 1 < p.ordinal /\ m - 1 < m /\ p.ordinal - (m - 1) >= 2
  BY <1>3, <1>6
<1>8. all[m - 1] = At(m - 1)
  <2>1. m - 1 \notin T
    BY <1>5, <1>7
  <2> QED
    BY <1>7, <2>1
<1> DEFINE r == At(m - 1)
<1>9. r \in RevisionsOf(i)
  <2>1. CASE m - 1 = 0
    BY <1>1, <1>3, <2>1
  <2>2. CASE m - 1 # 0
    <3>1. all[m - 1] = Before(i.previous, a, all[m - 1 - 1])
      BY <1>2, <1>7, <2>2
    <3>2. r # NoRevision
      <4>1. r.ordinal # 0
        BY <1>3, <1>7
      <4> QED
        BY <4>1 DEF NoRevision
    <3> QED
      BY <1>1, <1>8, <3>1, <3>2 DEF Before
  <2> QED
    BY <2>1, <2>2
<1>10. r.archive = a /\ r.ordinal = p.ordinal - (m - 1) /\ r.ordinal # 1 /\ r # NoRevision
  <2>1. r.archive = a /\ r.ordinal = p.ordinal - (m - 1)
    OBVIOUS
  <2>2. r.ordinal # 1 /\ r.ordinal # 0
    BY <1>7, <2>1
  <2> QED
    BY <2>1, <2>2 DEF NoRevision
<1> DEFINE b == i.previous[r]
<1>11. b \in RevisionsOf(i) /\ b.archive = a /\ b.ordinal = r.ordinal - 1
  BY <1>9, <1>10 DEF LineageBroken
<1>12. b = At(m)
  <2>1. b = [archive |-> b.archive, ordinal |-> b.ordinal]
    BY <1>1, <1>11 DEF RevisionIds
  <2>2. b.ordinal = p.ordinal - m
    BY <1>3, <1>6, <1>10, <1>11
  <2> QED
    BY <1>11, <2>1, <2>2
<1>13. all[m] = Before(i.previous, a, r)
  BY <1>2, <1>6, <1>8
<1> HIDE DEF r
<1>14. Before(i.previous, a, r) = b
  BY <1>1, <1>10, <1>11 DEF Before
<1> QED
  BY <1>6, <1>12, <1>13, <1>14

(* What a plan that passes the gate does not offer.                        *)
KeptBy(p) ==
  p.status = "planned" /\ p.clean =>
     \A r \in p.candidates :
        LET now == p.digest.current[r.archive]
        IN /\ now.archive = r.archive
           /\ r.ordinal + p.policy.keep < now.ordinal
           /\ r \notin p.policy.pins
           /\ \A row \in p.digest.revisions : row.id = r => ~row.observations
           /\ p.digest.statuses[r.archive] \subseteq {"completed", "rejected"}

LEMMA RetentionPlanKeeps ==
  ASSUME NEW i, InputsTyped(i), NEW policy, policy.keep \in Nat
  PROVE  KeptBy(PlanFor(i, policy))
<1> DEFINE p == PlanFor(i, policy)
<1>1. /\ p.clean = GatePasses(i, policy) /\ p.candidates = Candidates(i, policy)
      /\ p.policy = policy /\ p.digest = Digest(i, policy)
  BY DEF PlanFor
<1>2. /\ p.digest.current = i.pointer /\ p.digest.statuses = i.evidence
      /\ p.digest.revisions = {[id |-> r, previous |-> i.previous[r],
                                observations |-> r \in i.observed] : r \in RevisionsOf(i)}
  BY <1>1 DEF Digest
<1> HIDE DEF p
<1> SUFFICES ASSUME GatePasses(i, policy), NEW r \in Candidates(i, policy)
             PROVE  LET now == i.pointer[r.archive]
                    IN /\ now.archive = r.archive
                       /\ r.ordinal + policy.keep < now.ordinal
                       /\ r \notin policy.pins
                       /\ \A row \in p.digest.revisions : row.id = r => ~row.observations
                       /\ i.evidence[r.archive] \subseteq {"completed", "rejected"}
  BY <1>1, <1>2 DEF KeptBy, p
<1> DEFINE a == r.archive
           q == i.pointer[a]
<1>3. r \in RevisionsOf(i) /\ Classify(i, r, policy) = "candidate"
  BY DEF Candidates
<1>4. /\ q # r /\ r \notin Window(i, a, policy.keep) /\ ~NewerThanCurrent(i, r)
      /\ r \notin i.observed /\ r \notin policy.pins /\ ProxyReasons(i, a) = {}
  BY <1>3 DEF Classify
<1>5. \A s \in RevisionsOf(i) : ~Uninterpreted(i, s)
  BY DEF GatePasses
<1>6. \A s \in RevisionsOf(i) : ~LineageBroken(i, s)
  BY <1>5 DEF Uninterpreted
<1>7. OwnPointer(i, a) /\ "unheard" \notin i.evidence[a]
  BY <1>3, <1>5 DEF Uninterpreted
<1>8. a \in Catalogued /\ r.ordinal \in Nat \ {0} /\ r = [archive |-> a, ordinal |-> r.ordinal]
  <2>1. r \in RevisionIds
    BY <1>3 DEF InputsTyped
  <2> QED
    BY <2>1, RetentionAssumption DEF RevisionIds
<1>9. q.archive = a /\ q.ordinal \in Nat /\ q = [archive |-> a, ordinal |-> q.ordinal]
  <2>1. q \in RevisionIds /\ q.archive = a
    BY <1>7 DEF OwnPointer, InputsTyped
  <2> QED
    BY <2>1, RetentionAssumption DEF RevisionIds
<1>10. r.ordinal <= q.ordinal
  BY <1>4, <1>7, <1>8, <1>9 DEF NewerThanCurrent
<1>11. r.ordinal # q.ordinal
  BY <1>4, <1>8, <1>9
<1> HIDE DEF a, q
<1>12. r.ordinal + policy.keep < q.ordinal
  <2>1. SUFFICES ASSUME r.ordinal + policy.keep >= q.ordinal PROVE FALSE
    BY <1>8, <1>9
  <2> DEFINE n == q.ordinal - r.ordinal
             all == GenerationsBack(i.previous, Start(i, a), a, policy.keep)
  <2>2. n \in 0..policy.keep /\ n \in 1..policy.keep /\ n < q.ordinal /\ q.ordinal - n = r.ordinal
    BY <1>8, <1>9, <1>10, <1>11, <2>1
  <2>3. all[n] = [archive |-> a, ordinal |-> q.ordinal - n]
    <3> HIDE DEF n
    <3> QED
      BY <1>6, <1>7, <1>8, <2>2, GenerationsDescend DEF q
  <2>4. all[n] = r
    BY <1>8, <2>2, <2>3
  <2>5. r # NoRevision
    <3>1. NoRevision.ordinal = 0
      BY DEF NoRevision
    <3> QED
      BY <1>8, <3>1
  <2>6. r \in Window(i, a, policy.keep)
    <3> HIDE DEF n
    <3> QED
      BY <2>2, <2>4, <2>5 DEF Window
  <2> QED
    BY <1>4, <2>6 DEF a
<1>13. \A row \in p.digest.revisions : row.id = r => ~row.observations
  <2>1. SUFFICES ASSUME NEW row \in p.digest.revisions, row.id = r, row.observations PROVE FALSE
    OBVIOUS
  <2>2. PICK s \in RevisionsOf(i) :
           row = [id |-> s, previous |-> i.previous[s], observations |-> s \in i.observed]
    BY <1>2
  <2>3. s = r /\ row.observations = (s \in i.observed)
    BY <2>1, <2>2
  <2> QED
    BY <1>4, <2>1, <2>3
<1>14. i.evidence[a] \subseteq {"completed", "rejected"}
  <2>1. i.evidence[a] \subseteq EvidenceKinds
    BY <1>8 DEF InputsTyped
  <2> QED
    BY <1>4, <1>7, <2>1 DEF ProxyReasons, EvidenceKinds, a
<1> QED
  BY <1>4, <1>9, <1>12, <1>13, <1>14 DEF a, q

(* The digest decides what is planned.                                     *)
LEMMA DigestDecides ==
  ASSUME NEW i, InputsTyped(i), NEW j, InputsTyped(j), NEW policy,
         Digest(i, policy) = Digest(j, policy)
  PROVE  Candidates(i, policy) = Candidates(j, policy) /\ GatePasses(i, policy) = GatePasses(j, policy)
<1> DEFINE Row(k, r) == [id |-> r, previous |-> k.previous[r], observations |-> r \in k.observed]
           Rows(k) == {Row(k, r) : r \in RevisionsOf(k)}
<1>1. /\ Rows(i) = Rows(j) /\ i.pointer = j.pointer /\ i.evidence = j.evidence
  BY DEF Digest
<1>2. ASSUME NEW k, NEW l, Rows(k) = Rows(l), NEW r \in RevisionsOf(k)
      PROVE  /\ r \in RevisionsOf(l) /\ k.previous[r] = l.previous[r]
             /\ (r \in k.observed) = (r \in l.observed)
  <2>1. Row(k, r) \in Rows(l)
    BY <1>2
  <2>2. PICK s \in RevisionsOf(l) : Row(l, s) = Row(k, r)
    BY <2>1
  <2>3. /\ Row(k, r).id = r /\ Row(l, s).id = s
        /\ Row(k, r).previous = k.previous[r] /\ Row(l, s).previous = l.previous[s]
        /\ Row(k, r).observations = (r \in k.observed) /\ Row(l, s).observations = (s \in l.observed)
    OBVIOUS
  <2> HIDE DEF Row
  <2> QED
    BY <2>2, <2>3
<1> HIDE DEF Rows
<1>3. RevisionsOf(i) = RevisionsOf(j)
  <2>1. \A r \in RevisionsOf(i) : r \in RevisionsOf(j)
    BY <1>1, <1>2
  <2>2. \A r \in RevisionsOf(j) : r \in RevisionsOf(i)
    BY <1>1, <1>2
  <2> QED
    BY <2>1, <2>2
<1>4. i.previous = j.previous
  <2>1. /\ i.previous \in [RevisionsOf(i) -> Linked]
        /\ j.previous \in [RevisionsOf(i) -> Linked]
    BY <1>3 DEF InputsTyped
  <2>2. \A r \in RevisionsOf(i) : i.previous[r] = j.previous[r]
    BY <1>1, <1>2
  <2> QED
    BY <2>1, <2>2
<1>5. \A r \in RevisionsOf(i) : r \in i.observed <=> r \in j.observed
  BY <1>1, <1>2
<1>6. \A a : OwnPointer(i, a) = OwnPointer(j, a) /\ Start(i, a) = Start(j, a)
  BY <1>1, <1>3 DEF OwnPointer, Start
<1>7. \A a, keep : Window(i, a, keep) = Window(j, a, keep)
  BY <1>4, <1>6 DEF Window
<1>8. \A r : /\ LineageBroken(i, r) = LineageBroken(j, r)
             /\ NewerThanCurrent(i, r) = NewerThanCurrent(j, r)
             /\ ProxyReasons(i, r.archive) = ProxyReasons(j, r.archive)
  BY <1>1, <1>3, <1>4, <1>6 DEF LineageBroken, NewerThanCurrent, ProxyReasons
<1>9. \A r : Uninterpreted(i, r) = Uninterpreted(j, r)
  BY <1>1, <1>6, <1>8 DEF Uninterpreted
<1>10. \A r \in RevisionsOf(i) : Classify(i, r, policy) = Classify(j, r, policy)
  BY <1>1, <1>5, <1>7, <1>8, <1>9 DEF Classify
<1> QED
  BY <1>3, <1>9, <1>10 DEF Candidates, GatePasses

(* A plan in hand is the plan for inputs that could be read; the read still *)
(* going on has the plan of now, unless somebody committed meanwhile.      *)
IsPlanned(p) == p.policy \in Policies /\ \E i : InputsTyped(i) /\ p = PlanFor(i, p.policy)
SampledRead ==
  planner.at = "sampled" => /\ planner.version \in Nat /\ planner.version <= commits
                            /\ planner.policy \in Policies
FinishedRead ==
  planner.at = "read" =>
     /\ planner.version \in Nat /\ planner.version <= commits /\ IsPlanned(planner.result)
     /\ planner.version = commits => planner.result = PlanFor(Inputs, planner.result.policy)
RetentionInv ==
  /\ InputsTyped(Inputs)
  /\ \A a \in Catalogued : First(a) \in RetentionRevisions
  /\ commits \in Nat
  /\ SampledRead
  /\ FinishedRead
  /\ plan = NoPlan \/ IsPlanned(plan)

LEMMA InputsAre ==
  /\ Inputs.previous = previous /\ Inputs.pointer = pointer
  /\ Inputs.observed = observed /\ Inputs.evidence = evidence
  /\ RevisionsOf(Inputs) = RetentionRevisions
  /\ Inputs' = [previous |-> previous', pointer |-> pointer', observed |-> observed',
                evidence |-> evidence']
BY DEF Inputs, RevisionsOf, RetentionRevisions

(* Another connection commits tables that are still tables.                *)
LEMMA CommitKeeps ==
  ASSUME RetentionInv, Commit, InputsTyped(Inputs)', RetentionRevisions \subseteq RetentionRevisions'
  PROVE  RetentionInv'
<1>1. /\ commits' = commits + 1 /\ commits \in Nat /\ commits' \in Nat
      /\ planner' = planner /\ plan' = plan
  BY DEF Commit, RetentionInv
<1>2. SampledRead'
  BY <1>1 DEF RetentionInv, SampledRead
<1>3. FinishedRead'
  <2>1. SUFFICES ASSUME planner.at = "read"
                 PROVE  /\ planner.version \in Nat /\ planner.version <= commits'
                        /\ IsPlanned(planner.result) /\ planner.version # commits'
    BY <1>1 DEF FinishedRead, IsPlanned
  <2> QED
    BY <1>1, <2>1 DEF RetentionInv, FinishedRead
<1>4. \A a \in Catalogued : First(a) \in RetentionRevisions'
  BY DEF RetentionInv
<1>5. plan' = NoPlan \/ IsPlanned(plan')
  BY <1>1 DEF RetentionInv
<1> QED
  BY <1>1, <1>2, <1>3, <1>4, <1>5 DEF RetentionInv, IsPlanned, First

LEMMA RetentionInvInit == RetentionInit => RetentionInv
<1> SUFFICES ASSUME RetentionInit PROVE RetentionInv
  OBVIOUS
<1> USE DEF RetentionInit
<1>1. RetentionRevisions = {First(a) : a \in Catalogued}
  BY DEF RetentionRevisions
<1>2. {First(a) : a \in Catalogued} \subseteq RevisionIds
  <2>1. 1 \in 1..MaxOrdinal
    BY RetentionAssumption
  <2> QED
    BY <2>1 DEF First, RevisionIds
<1>3. previous \in [RetentionRevisions -> Linked]
  <2>1. NoRevision \in Linked
    BY DEF Linked
  <2> QED
    BY <1>1, <2>1
<1>4. pointer \in [Catalogued -> RetentionRevisions] /\ evidence \in [Catalogued -> SUBSET EvidenceKinds]
  BY <1>1
<1>5. InputsTyped(Inputs)
  BY <1>1, <1>2, <1>3, <1>4, InputsAre DEF InputsTyped
<1>6. planner.at = "idle" /\ plan = NoPlan /\ commits = 0
  OBVIOUS
<1> QED
  BY <1>1, <1>5, <1>6 DEF RetentionInv, SampledRead, FinishedRead

LEMMA AppendRevisionKeeps ==
  ASSUME RetentionInv, NEW a \in Catalogued, AppendRevision(a)
  PROVE  RetentionInv'
<1> DEFINE ordinals == {r.ordinal : r \in {s \in RetentionRevisions : s.archive = a}}
           last == CHOOSE n \in ordinals : \A m \in ordinals : m <= n
           new == [archive |-> a, ordinal |-> last + 1]
<1>1. /\ Commit /\ last < MaxOrdinal
      /\ previous' = [r \in RetentionRevisions \union {new} |->
                         IF r = new THEN [archive |-> a, ordinal |-> last] ELSE previous[r]]
      /\ pointer' = [pointer EXCEPT ![a] = new]
      /\ observed' = observed /\ evidence' = evidence
  BY DEF AppendRevision
<1>2. InputsTyped(Inputs) /\ First(a) \in RetentionRevisions
  BY DEF RetentionInv
<1>3. /\ RetentionRevisions \subseteq RevisionIds /\ previous \in [RetentionRevisions -> Linked]
      /\ pointer \in [Catalogued -> RetentionRevisions]
      /\ evidence \in [Catalogued -> SUBSET EvidenceKinds]
  BY <1>2, InputsAre DEF InputsTyped
<1>4. ordinals \subseteq 1..MaxOrdinal /\ ordinals # {}
  <2>1. ordinals \subseteq 1..MaxOrdinal
    BY <1>3 DEF RevisionIds
  <2>2. First(a).archive = a
    BY DEF First
  <2>3. First(a).ordinal \in ordinals
    BY <1>2, <2>2
  <2> QED
    BY <2>1, <2>3
<1>5. last \in ordinals
  <2> HIDE DEF ordinals
  <2>1. ordinals \subseteq 0..MaxOrdinal /\ MaxOrdinal \in Nat
    BY <1>4, RetentionAssumption
  <2>2. \E n \in ordinals : \A m \in ordinals : m <= n
    BY <1>4, <2>1, GreatestExists
  <2> QED
    BY <2>2
<1>6. last \in 1..MaxOrdinal /\ last + 1 \in 1..MaxOrdinal
  <2>1. last \in 1..MaxOrdinal
    BY <1>4, <1>5
  <2> HIDE DEF last
  <2> QED
    BY <1>1, <2>1, RetentionAssumption
<1>7. new \in RevisionIds /\ [archive |-> a, ordinal |-> last] \in Linked
  BY <1>6 DEF RevisionIds, Linked
<1> HIDE DEF last
<1>8. RetentionRevisions' = RetentionRevisions \union {new}
  BY <1>1 DEF RetentionRevisions
<1> HIDE DEF new
<1>9. previous' \in [RetentionRevisions' -> Linked]
  BY <1>1, <1>3, <1>7, <1>8
<1>10. pointer' \in [Catalogued -> RetentionRevisions']
  BY <1>1, <1>3, <1>8
<1>11. InputsTyped(Inputs)'
  BY <1>1, <1>3, <1>7, <1>8, <1>9, <1>10 DEF InputsTyped, Inputs, RevisionsOf, RetentionRevisions
<1> QED
  BY <1>1, <1>8, <1>11, CommitKeeps

LEMMA TablesChange ==
  ASSUME RetentionInv, Commit,
         \/ \E r \in RetentionRevisions : SetCurrent(r) \/ Observe(r) \/ Damage(r)
         \/ \E a \in Catalogued, e \in Evidence : EvidenceChanges(a, e)
  PROVE  RetentionInv'
<1>1. /\ RetentionRevisions \subseteq RevisionIds /\ previous \in [RetentionRevisions -> Linked]
      /\ pointer \in [Catalogued -> RetentionRevisions]
      /\ evidence \in [Catalogued -> SUBSET EvidenceKinds]
  BY InputsAre DEF InputsTyped, RetentionInv
<1>2. SUFFICES /\ previous' \in [RetentionRevisions -> Linked]
               /\ pointer' \in [Catalogued -> RetentionRevisions]
               /\ evidence' \in [Catalogued -> SUBSET EvidenceKinds]
  <2>1. RetentionRevisions' = DOMAIN previous'
    BY DEF RetentionRevisions
  <2>2. RetentionRevisions' = RetentionRevisions
    BY <1>2, <2>1
  <2>3. InputsTyped(Inputs)'
    BY <1>1, <1>2, <2>2 DEF InputsTyped, Inputs, RevisionsOf, RetentionRevisions
  <2> QED
    BY <2>2, <2>3, CommitKeeps
<1>3. ASSUME NEW r \in RetentionRevisions, SetCurrent(r)
      PROVE  /\ previous' = previous /\ evidence' = evidence
             /\ pointer' \in [Catalogued -> RetentionRevisions]
  BY <1>1, <1>3 DEF SetCurrent
<1>4. ASSUME NEW r \in RetentionRevisions, Observe(r)
      PROVE  previous' = previous /\ evidence' = evidence /\ pointer' = pointer
  BY <1>4 DEF Observe
<1>5. ASSUME NEW r \in RetentionRevisions, Damage(r)
      PROVE  /\ previous' \in [RetentionRevisions -> Linked] /\ evidence' = evidence
             /\ pointer' \in [Catalogued -> RetentionRevisions]
  <2>1. NoRevision \in Linked
    BY DEF Linked
  <2> QED
    BY <1>1, <1>5, <2>1 DEF Damage
<1>6. ASSUME NEW a \in Catalogued, NEW e \in Evidence, EvidenceChanges(a, e)
      PROVE  /\ previous' = previous /\ pointer' = pointer
             /\ evidence' \in [Catalogued -> SUBSET EvidenceKinds]
  <2>1. e \in EvidenceKinds /\ evidence[a] \subseteq EvidenceKinds
    BY <1>1, EvidenceAssumption
  <2> QED
    BY <1>1, <1>6, <2>1 DEF EvidenceChanges
<1> QED
  BY <1>1, <1>3, <1>4, <1>5, <1>6

LEMMA PlannerKeeps ==
  ASSUME RetentionInv,
         (\E policy \in Policies : StartPlan(policy)) \/ ReadInputs \/ FinishPlan
  PROVE  RetentionInv'
<1>1. previous' = previous /\ pointer' = pointer /\ observed' = observed /\ evidence' = evidence
      /\ commits' = commits
  BY DEF StartPlan, ReadInputs, FinishPlan, tables
<1>2. Inputs' = Inputs /\ RetentionRevisions' = RetentionRevisions
  BY <1>1 DEF Inputs, RetentionRevisions
<1>3. SUFFICES SampledRead' /\ FinishedRead' /\ (plan' = NoPlan \/ IsPlanned(plan'))
  BY <1>1, <1>2, <1>3 DEF RetentionInv, IsPlanned
<1>4. ASSUME NEW policy \in Policies, StartPlan(policy)
      PROVE  SampledRead' /\ FinishedRead' /\ (plan' = NoPlan \/ IsPlanned(plan'))
  <2>1. /\ planner'.at = "sampled" /\ planner'.version = commits /\ planner'.policy = policy
        /\ plan' = plan
    BY <1>4 DEF StartPlan
  <2> QED
    BY <1>1, <2>1 DEF SampledRead, FinishedRead, RetentionInv
<1>5. CASE ReadInputs
  <2>1. planner.at = "sampled" /\ plan' = plan
    BY <1>5 DEF ReadInputs
  <2>2. planner.version \in Nat /\ planner.version <= commits /\ planner.policy \in Policies
    BY <2>1 DEF RetentionInv, SampledRead
  <2> DEFINE result == PlanFor(Inputs, planner.policy)
  <2>3. result.policy = planner.policy
    BY DEF PlanFor
  <2>4. IsPlanned(result)
    BY <2>2, <2>3 DEF IsPlanned, RetentionInv
  <2>5. CASE planner' = [at |-> "idle"]
    BY <2>1, <2>5 DEF SampledRead, FinishedRead, RetentionInv
  <2>6. CASE planner' = [at |-> "read", version |-> planner.version, result |-> result]
    <3> HIDE DEF result
    <3>1. planner'.at = "read" /\ planner'.version = planner.version /\ planner'.result = result
      BY <2>6
    <3>2. result = PlanFor(Inputs', result.policy)
      BY <1>2, <2>3 DEF result
    <3>3. FinishedRead'
      BY <1>1, <2>2, <2>4, <3>1, <3>2 DEF FinishedRead, IsPlanned
    <3>4. SampledRead'
      BY <3>1 DEF SampledRead
    <3> QED
      BY <2>1, <3>3, <3>4 DEF RetentionInv
  <2> QED
    BY <1>5, <2>5, <2>6 DEF ReadInputs
<1>6. CASE FinishPlan
  <2>1. planner.at = "read" /\ planner'.at = "idle" /\ (plan' = planner.result \/ plan' = plan)
    BY <1>6 DEF FinishPlan
  <2>2. IsPlanned(planner.result)
    BY <2>1 DEF RetentionInv, FinishedRead
  <2> QED
    BY <2>1, <2>2 DEF SampledRead, FinishedRead, RetentionInv
<1> QED
  BY <1>4, <1>5, <1>6

LEMMA RetentionInvNext == RetentionInv /\ [RetentionNext]_retentionVars => RetentionInv'
<1> SUFFICES ASSUME RetentionInv, [RetentionNext]_retentionVars PROVE RetentionInv'
  OBVIOUS
<1>1. ASSUME NEW a \in Catalogued, AppendRevision(a) PROVE RetentionInv'
  BY <1>1, AppendRevisionKeeps
<1>2. CASE (\E policy \in Policies : StartPlan(policy)) \/ ReadInputs \/ FinishPlan
  BY <1>2, PlannerKeeps
<1>3. ASSUME NEW r \in RetentionRevisions, SetCurrent(r) \/ Observe(r) \/ Damage(r)
      PROVE  RetentionInv'
  <2>1. Commit
    BY <1>3 DEF SetCurrent, Observe, Damage
  <2> QED
    BY <1>3, <2>1, TablesChange
<1>4. ASSUME NEW a \in Catalogued, NEW e \in Evidence, EvidenceChanges(a, e)
      PROVE  RetentionInv'
  <2>1. Commit
    BY <1>4 DEF EvidenceChanges
  <2> QED
    BY <1>4, <2>1, TablesChange
<1>5. CASE UNCHANGED retentionVars
  <2>1. Inputs' = Inputs /\ commits' = commits /\ planner' = planner /\ plan' = plan
        /\ RetentionRevisions' = RetentionRevisions
    BY <1>5 DEF retentionVars, tables, Inputs, RetentionRevisions
  <2> QED
    BY <2>1 DEF RetentionInv, SampledRead, FinishedRead, IsPlanned
<1> QED
  BY <1>1, <1>2, <1>3, <1>4, <1>5 DEF RetentionNext

LEMMA RetentionInvSafe == RetentionInv => RollbackIsKept /\ DigestBindsPlan
<1> SUFFICES ASSUME RetentionInv PROVE RollbackIsKept /\ DigestBindsPlan
  OBVIOUS
<1>1. CASE plan = NoPlan
  BY <1>1 DEF NoPlan, RollbackIsKept, DigestBindsPlan
<1>2. CASE IsPlanned(plan)
  <2>1. PICK i : InputsTyped(i) /\ plan = PlanFor(i, plan.policy)
    BY <1>2 DEF IsPlanned
  <2>2. plan.policy.keep \in Nat
    BY <1>2, RetentionAssumption DEF IsPlanned, Policies
  <2>3. RollbackIsKept
    BY <2>1, <2>2, RetentionPlanKeeps DEF RollbackIsKept, KeptBy
  <2>4. /\ plan.digest = Digest(i, plan.policy) /\ plan.candidates = Candidates(i, plan.policy)
        /\ plan.clean = GatePasses(i, plan.policy)
    <3> DEFINE policy == plan.policy
               p == PlanFor(i, policy)
    <3>1. /\ p.digest = Digest(i, policy) /\ p.candidates = Candidates(i, policy)
          /\ p.clean = GatePasses(i, policy)
      <4> HIDE DEF policy
      <4> QED
        BY DEF PlanFor
    <3> HIDE DEF policy
    <3>2. plan = p
      BY <2>1 DEF policy
    <3> HIDE DEF p
    <3> QED
      BY <3>1, <3>2 DEF policy
  <2>5. InputsTyped(Inputs)
    BY DEF RetentionInv
  <2>6. DigestBindsPlan
    BY <2>1, <2>4, <2>5, DigestDecides DEF DigestBindsPlan
  <2> QED
    BY <2>3, <2>6
<1> QED
  BY <1>1, <1>2 DEF RetentionInv

LEMMA PlanIsCurrent ==
  ASSUME RetentionInv, [RetentionNext]_retentionVars, plan' # plan
  PROVE  Digest(Inputs, plan'.policy) = plan'.digest
<1>1. FinishPlan
  BY DEF RetentionNext, StartPlan, ReadInputs, AppendRevision, SetCurrent, Observe, Damage,
         EvidenceChanges, Commit, retentionVars
<1>2. planner.at = "read" /\ planner.version = commits /\ plan' = planner.result
  BY <1>1 DEF FinishPlan
<1>3. plan' = PlanFor(Inputs, plan'.policy)
  BY <1>2 DEF RetentionInv, FinishedRead
<1> DEFINE policy == plan'.policy
           p == PlanFor(Inputs, policy)
<1>4. p.digest = Digest(Inputs, policy)
  <2> HIDE DEF policy
  <2> QED
    BY DEF PlanFor
<1>5. plan' = p
  BY <1>3
<1> HIDE DEF p
<1> QED
  BY <1>4, <1>5

\* A plan that passes its gate offers nothing a roll-back, a roll-forward or a
\* person's work still needs, its digest decides what it offers, and it is handed
\* out only for the catalogue as it still is, for any archives, lineages, policies,
\* evidence and commits of others, damage by a restored file among them.
THEOREM RetentionIsSafe == RetentionSpec => RetentionSafety
<1>1. RetentionSpec => []RetentionInv
  BY RetentionInvInit, RetentionInvNext, PTL DEF RetentionSpec
<1>2. RetentionInv /\ [RetentionNext]_retentionVars =>
         [plan' # plan => Digest(Inputs, plan'.policy) = plan'.digest]_retentionVars
  BY PlanIsCurrent
<1> QED
  BY <1>1, <1>2, RetentionInvSafe, PTL DEF RetentionSpec, RetentionSafety, PlansAreCurrent

=============================================================================
