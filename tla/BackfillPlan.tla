---------------------------- MODULE BackfillPlan ----------------------------
(***************************************************************************)
(* The provenance backfill: a planner that only reads and decides for      *)
(* every row of evidence which revision of its archive it belongs to, the  *)
(* two files that carry the plan, and the reader that takes them back.     *)
(* Around them producers write evidence, and the files are edited, mixed   *)
(* up or lose lines before they are read.                                  *)
(*                                                                         *)
(* A digest is the value it is taken of, so no two values share one.       *)
(***************************************************************************)
EXTENDS Naturals, FiniteSets

CONSTANTS
    Owners,         \* archives that the evidence is about
    Generations,    \* contents of archive files, which stand for their digests
    SizeOf,         \* content -> size of a file with it
    LeavesOf,       \* content -> number of its pages
    Pasts,          \* what each archive may have been through before migration 014
    MaxProduced,    \* bound on what is written into the database afterwards
    MaxDrawn,       \* bound on plans
    MaxEdits        \* bound on what happens to the files of a plan

NoDigest == "null"
NoPlace == 0
RowPlace == 1           \* file_locations.id of an archive's row

ASSUME BackfillAssumption ==
    /\ NoDigest \notin Generations
    /\ SizeOf \in [Generations -> Nat] /\ LeavesOf \in [Generations -> Nat]
    /\ \A past \in Pasts : past \in
          [Owners -> [hashed : Generations \cup {NoDigest},
                      signed : Generations \cup {NoDigest}, now : Generations]]

VARIABLES
    fileHolds,         \* archive -> content of its file
    provenance,     \* the tables the planner reads, see Migrated
    issued,         \* plans drawn so far, each with the database it was drawn from
    envelope, csv,  \* the files of a plan, as they are found
    produced, drawn, edits  \* counters

backfillVars == <<fileHolds, provenance, issued, envelope, csv, produced, drawn, edits>>

-----------------------------------------------------------------------------
(* The tables.  archive_id is unique in the hashes and the signatures.     *)

PagesOf(a, g) == [archive : {a}, index : 0 .. (LeavesOf[g] - 1), at : {RowPlace}]
SignatureRow(a, g) ==
    [archive |-> a, digest |-> g, pages |-> LeavesOf[g], at |-> RowPlace, size |-> SizeOf[g]]

\* Migration 014 gives every archive one revision, built from its rows.
FirstRevision(a, h) ==
    [archive |-> a, ordinal |-> 1, sha |-> h.hashed, signature |-> h.signed,
     state |-> IF h.hashed = NoDigest THEN "provisional" ELSE "established"]

Migrated(past) ==
    [revisions |-> {FirstRevision(a, past[a]) : a \in Owners},
     hashes |-> {[archive |-> a, digest |-> past[a].hashed] :
                    a \in {a \in Owners : past[a].hashed # NoDigest}},
     signatures |-> {SignatureRow(a, past[a].signed) :
                        a \in {a \in Owners : past[a].signed # NoDigest}},
     pages |-> UNION {PagesOf(a, past[a].signed) :
                         a \in {a \in Owners : past[a].signed # NoDigest}},
     inspections |-> {}, candidates |-> {},
     located |-> {[archive |-> a, size |-> SizeOf[past[a].now]] : a \in Owners}]

OfOthers(rows, a) == {r \in rows : r.archive # a}

-----------------------------------------------------------------------------
(* Planning                                                                *)

\* _read_inputs: the revisions that have an identity, the signatures whose
\* recorded size is not that of a current location, the pages per archive.
Owning(d, a) == {r \in d.revisions : r.archive = a /\ r.state = "established"}
Drifted(d) ==
    {s.archive : s \in {s \in d.signatures :
        \E l \in d.located : l.archive = s.archive /\ l.size # s.size}}
Unrevised(d) == {a \in Owners : ~\E r \in d.revisions : r.archive = a}

Least(S) == CHOOSE i \in S : \A j \in S : i <= j
Greatest(S) == CHOOSE i \in S : \A j \in S : j <= i
Population(d, a) ==
    LET mine == {p \in d.pages : p.archive = a}
        places == {p.at : p \in mine} \ {NoPlace}
    IN [archive |-> a, count |-> Cardinality(mine),
        place |-> IF places = {} THEN NoPlace ELSE Least(places),
        places |-> Cardinality(places),
        unplaced |-> Cardinality({p \in mine : p.at = NoPlace}),
        first |-> Least({p.index : p \in mine}), last |-> Greatest({p.index : p \in mine})]
Populations(d) == {Population(d, p.archive) : p \in d.pages}

\* Mutant of Snapshot: the rows that classification visits, and no more.
SnapshotOfRows(d) ==
    [revisions |-> d.revisions, hashes |-> d.hashes, inspections |-> d.inspections,
     signatures |-> {[archive |-> s.archive, digest |-> s.digest, pages |-> s.pages,
                      at |-> s.at] : s \in d.signatures},
     pages |-> Populations(d), candidates |-> d.candidates,
     drift |-> {}, unrevised |-> Unrevised(d)]

\* canonical_snapshot_lines: the inputs, not the conclusions.
Snapshot(d) ==
    [revisions |-> d.revisions, hashes |-> d.hashes, inspections |-> d.inspections,
     signatures |-> {[archive |-> s.archive, digest |-> s.digest, pages |-> s.pages,
                      at |-> s.at] : s \in d.signatures},
     pages |-> Populations(d), candidates |-> d.candidates,
     drift |-> Drifted(d), unrevised |-> Unrevised(d)]

\* _validate_page_population: the pages are those the signature counted, from
\* the first to the last, at its location.
PagesAgree(d, s) ==
    LET mine == {p \in Populations(d) : p.archive = s.archive}
    IN  /\ mine = {} => s.pages = 0
        /\ \A p \in mine :
              /\ p.count = s.pages /\ p.first = 0 /\ p.last = p.count - 1
              /\ p.places + (IF p.unplaced = 0 THEN 0 ELSE 1) = 1
              /\ p.place = s.at

\* PlannerInvariantError: several revisions of one archive, pages without a
\* signature, a hash without an identity, a seed that contradicts it, or
\* pages that contradict the signature.
PlannerRefuses(d) ==
    \/ \E r, s \in d.revisions : r # s /\ r.archive = s.archive
    \/ \E p \in d.pages : ~\E s \in d.signatures : s.archive = p.archive
    \/ \E h \in d.hashes : ~\E r \in Owning(d, h.archive) : r.sha = h.digest
    \/ \E s \in d.signatures :
          \/ s.archive \notin Drifted(d)
             /\ \E r \in Owning(d, s.archive) : r.signature # s.digest
          \/ ~PagesAgree(d, s)

ProducerBases == {"measured", "stat_matched_revision", "inherited_from_page_evidence"}
UnresolvedBases == {"unresolved_drift", "unresolved_no_identity"}
Vocabulary ==
    [archive_hashes |-> {"measured", "identity_seed"},
     archive_content_signatures |-> {"stat_matched_revision", "field_seed"} \cup UnresolvedBases,
     archive_inspections |->
        {"stat_matched_revision", "single_revision_inherited", "unresolved_no_identity"},
     page_inventory |->
        {"stat_matched_revision", "single_revision_inherited"} \cup UnresolvedBases,
     near_duplicate_candidates |->
        {"inherited_from_page_evidence", "single_revision_inherited", "unresolved_no_identity"}]
Receiving == DOMAIN Vocabulary
Bases == UNION {Vocabulary[t] : t \in Receiving}

\* SideAttribution: an archive, the revision it is bound to, if any, and why.
Side(a, to, basis) == [archive |-> a, revision |-> to, basis |-> basis]
SideBound(side) == side.basis \notin UnresolvedBases

\* Mutant of Resolved: a provisional revision is a revision too.
ResolvedToAny(d, a, basis) ==
    LET own == {r \in d.revisions : r.archive = a}
    IN  IF own = {} THEN Side(a, {}, "unresolved_no_identity") ELSE Side(a, own, basis)

\* _resolve
Resolved(d, a, basis) ==
    IF Owning(d, a) = {} THEN Side(a, {}, "unresolved_no_identity")
    ELSE Side(a, Owning(d, a), basis)

Binding(table, key, sides, values) ==
    [table |-> table, key |-> key, sides |-> sides, values |-> values]
Alone(side) == [label \in {"one"} |-> side]
Bound(b) == \A label \in DOMAIN b.sides : SideBound(b.sides[label])

HashBindings(d) ==
    {Binding("archive_hashes", <<h.archive>>,
             Alone(Resolved(d, h.archive, "identity_seed")), <<>>) : h \in d.hashes}
\* What a signature says of other bytes than the file's binds to no revision.
SignatureSide(d, s, basis) ==
    IF s.archive \in Drifted(d) THEN Side(s.archive, {}, "unresolved_drift")
    ELSE Resolved(d, s.archive, basis)
SignatureBindings(d) ==
    {Binding("archive_content_signatures", <<s.archive>>,
             Alone(SignatureSide(d, s, "field_seed")), <<>>) : s \in d.signatures}
InspectionBindings(d) ==
    {Binding("archive_inspections", <<a>>,
             Alone(Resolved(d, a, "single_revision_inherited")), <<"unknown_legacy">>) :
        a \in d.inspections}
InventoryBindings(d) ==
    {Binding("page_inventory", <<s.archive>>,
             Alone(SignatureSide(d, s, "single_revision_inherited")),
             <<s.pages, s.digest, s.at,
               IF s.pages = 0 THEN "signature_calculated_at" ELSE "first_page_persistence">>) :
        s \in d.signatures}
CandidateBindings(d) ==
    {Binding("near_duplicate_candidates", c,
             [label \in {"a", "b"} |->
                 Resolved(d, IF label = "a" THEN c[1] ELSE c[2], "single_revision_inherited")],
             <<c[2], "unknown_legacy">>) : c \in d.candidates}

\* _classify: one binding for every row that will receive an owner.
Classification(d) ==
    HashBindings(d) \cup SignatureBindings(d) \cup InspectionBindings(d)
        \cup InventoryBindings(d) \cup CandidateBindings(d)

\* plan_totals: rows and bound rows per table, sides per basis.
Totals(bindings) ==
    [rows |-> [t \in Receiving |-> Cardinality({b \in bindings : b.table = t})],
     bound |-> [t \in Receiving |-> Cardinality({b \in bindings : b.table = t /\ Bound(b)})],
     sides |-> [basis \in Bases |->
         Cardinality({p \in bindings \X {"one", "a", "b"} :
                         p[2] \in DOMAIN p[1].sides /\ p[1].sides[p[2]].basis = basis})]]

\* BackfillPlan.gate_failures, and reconstruct_gate_failures of the reader.
GateFailures(totals, unrevised) ==
    {basis \in ProducerBases : totals.sides[basis] > 0}
        \cup (IF unrevised = 0 THEN {} ELSE {"archives_without_revision"})

\* build_plan
PlanOf(d) ==
    [snapshot |-> Snapshot(d), bindings |-> Classification(d), unrevised |-> Unrevised(d)]

-----------------------------------------------------------------------------
(* The files                                                               *)

NoFiles == [there |-> FALSE]
PlanDigest(plan) == <<plan.bindings, plan.snapshot>>

\* render_plan_csv: every line repeats the identity of the plan.
Line(b, plan) ==
    [binding |-> b, bound |-> Bound(b), snapshot |-> plan.snapshot, plan |-> PlanDigest(plan)]
CsvOf(plan) ==
    [there |-> TRUE, lines |-> {Line(b, plan) : b \in plan.bindings}, repeated |-> {}]
EnvelopeOf(plan) ==
    [there |-> TRUE, csv |-> CsvOf(plan), snapshot |-> plan.snapshot,
     plan |-> PlanDigest(plan), totals |-> Totals(plan.bindings),
     unrevised |-> Cardinality(plan.unrevised),
     failures |-> GateFailures(Totals(plan.bindings), Cardinality(plan.unrevised))]

\* _binding_from_row: what PlannedBinding refuses to hold, a line may not say.
LegalBinding(b) ==
    /\ b.table \in Receiving
    /\ DOMAIN b.sides = IF b.table = "near_duplicate_candidates" THEN {"a", "b"} ELSE {"one"}
    /\ \A label \in DOMAIN b.sides :
          /\ b.sides[label].basis \in Vocabulary[b.table]
          /\ SideBound(b.sides[label]) <=> b.sides[label].revision # {}

Decoded(rows) == {line.binding : line \in rows.lines}

\* read_plan_artifacts: the checksum, each line, the keys, the counts and gates.
LinesAgree(header, rows) ==
    /\ \A line \in rows.lines :
          /\ line.snapshot = header.snapshot /\ line.plan = header.plan
          /\ LegalBinding(line.binding) /\ line.bound = Bound(line.binding)
    /\ rows.repeated = {}
    /\ \A l, m \in rows.lines :
          l.binding.table = m.binding.table /\ l.binding.key = m.binding.key => l = m
CountsAgree(header, rows) ==
    /\ Totals(Decoded(rows)) = header.totals
    /\ GateFailures(Totals(Decoded(rows)), header.unrevised) = header.failures
\* Mutant of Accepted: the counts are taken for proof of the content.
AcceptedByCounts(header, rows) ==
    /\ header.there /\ rows.there /\ header.csv = rows
    /\ LinesAgree(header, rows) /\ CountsAgree(header, rows)

\* read_plan_artifacts: at the end, the digest of what was decoded.
Accepted(header, rows) ==
    /\ header.there /\ rows.there /\ header.csv = rows
    /\ LinesAgree(header, rows) /\ CountsAgree(header, rows)
    /\ header.plan = <<Decoded(rows), header.snapshot>>

-----------------------------------------------------------------------------

BackfillInit ==
    \E past \in Pasts :
        /\ fileHolds = [a \in Owners |-> past[a].now]
        /\ provenance = Migrated(past)
        /\ issued = {} /\ envelope = NoFiles /\ csv = NoFiles
        /\ produced = 0 /\ drawn = 0 /\ edits = 0

Produces(d) ==
    /\ produced < MaxProduced /\ produced' = produced + 1
    /\ provenance' = d
    /\ UNCHANGED <<issued, envelope, csv, drawn, edits>>

\* ArchiveHashRepository.save, with record_or_reuse.
Hashes(a) ==
    LET g == fileHolds[a]
        own == {r \in provenance.revisions : r.archive = a}
        new == [archive |-> a, ordinal |-> Cardinality(own) + 1, sha |-> g,
                signature |-> NoDigest, state |-> "established"]
    IN  /\ Produces([provenance EXCEPT
               !.hashes = OfOthers(@, a) \cup {[archive |-> a, digest |-> g]},
               !.located = OfOthers(@, a) \cup {[archive |-> a, size |-> SizeOf[g]]},
               !.revisions = IF \E r \in own : r.sha = g THEN @ ELSE @ \cup {new}])
        /\ UNCHANGED fileHolds

\* ArchivePageHashRepository.save: the pages with their signature.
Signs(a) ==
    /\ Produces([provenance EXCEPT
           !.signatures = OfOthers(@, a) \cup {SignatureRow(a, fileHolds[a])},
           !.pages = OfOthers(@, a) \cup PagesOf(a, fileHolds[a])])
    /\ UNCHANGED fileHolds

Inspects(a) ==
    /\ Produces([provenance EXCEPT !.inspections = @ \cup {a}])
    /\ UNCHANGED fileHolds

\* Two archives with pages are compared.
Compares(a, b) ==
    /\ a # b /\ <<b, a>> \notin provenance.candidates
    /\ \A c \in {a, b} : \E p \in provenance.pages : p.archive = c
    /\ Produces([provenance EXCEPT !.candidates = @ \cup {<<a, b>>}])
    /\ UNCHANGED fileHolds

\* A file is replaced, and the scan records its size.
Replaces(a, g) ==
    /\ fileHolds' = [fileHolds EXCEPT ![a] = g]
    /\ Produces([provenance EXCEPT
           !.located = OfOthers(@, a) \cup {[archive |-> a, size |-> SizeOf[g]]}])

\* Rows lost or changed by hand: a page, the location of one, a signature.
Meddles(a) ==
    /\ \/ \E p \in provenance.pages :
             /\ p.archive = a
             /\ \/ Produces([provenance EXCEPT !.pages = @ \ {p}])
                \/ Produces([provenance EXCEPT
                       !.pages = (@ \ {p}) \cup {[p EXCEPT !.at = NoPlace]}])
       \/ Produces([provenance EXCEPT !.signatures = OfOthers(@, a)])
    /\ UNCHANGED fileHolds

DrawsPlan ==
    /\ drawn < MaxDrawn /\ drawn' = drawn + 1
    /\ IF PlannerRefuses(provenance) THEN UNCHANGED <<issued, envelope, csv>>
       ELSE LET plan == PlanOf(provenance)
            IN  /\ issued' = issued \cup {[from |-> provenance, plan |-> plan]}
                /\ envelope' = EnvelopeOf(plan) /\ csv' = CsvOf(plan)
    /\ UNCHANGED <<fileHolds, provenance, produced, edits>>

\* What may happen to the files on the way to the reader: a line is lost,
\* repeated, changed or pasted from another plan, or a file is that of another
\* plan; and the checksum, the counts and the gates may be made to fit, with
\* the census of archives without a revision changed or not.
Altered(line, label, side) ==
    LET b == [line.binding EXCEPT !.sides[label] = side]
    IN  [line EXCEPT !.binding = b, !.bound = Bound(b)]
AlteredSides(side) ==
    {Side(side.archive, own, basis) :
        own \in {{}} \cup {{r} : r \in provenance.revisions},
        basis \in {"measured", "field_seed", "unresolved_drift"}}
AlteredLines(line) ==
    UNION {{Altered(line, label, side) : side \in AlteredSides(line.binding.sides[label])} :
              label \in DOMAIN line.binding.sides}
AlteredFiles(rows) ==
    UNION {{[rows EXCEPT !.lines = @ \ {line}], [rows EXCEPT !.repeated = @ \cup {line}]}
              \cup {[rows EXCEPT !.lines = (@ \ {line}) \cup {m}] : m \in AlteredLines(line)} :
              line \in rows.lines}
        \cup UNION {{CsvOf(i.plan)}
                       \cup {[rows EXCEPT !.lines = @ \cup {line}] : line \in CsvOf(i.plan).lines} :
                       i \in issued}
FittedTo(header, rows) ==
    LET summed == [header EXCEPT !.csv = rows]
        counted == [summed EXCEPT !.totals = Totals(Decoded(rows))]
    IN  {header, summed, counted, [counted EXCEPT !.failures = {}]}
          \cup {[counted EXCEPT !.unrevised = n, !.failures = GateFailures(counted.totals, n)] :
                    n \in {0, 1, header.unrevised}}
EditsFiles ==
    /\ edits < MaxEdits /\ edits' = edits + 1
    /\ csv.there
    /\ csv' \in AlteredFiles(csv)
    /\ envelope' \in FittedTo(envelope, csv') \cup {EnvelopeOf(i.plan) : i \in issued}
    /\ UNCHANGED <<fileHolds, provenance, issued, produced, drawn>>

BackfillNext ==
    \/ \E a \in Owners :
          \/ Hashes(a) \/ Signs(a) \/ Inspects(a) \/ Meddles(a)
          \/ \E b \in Owners : Compares(a, b)
          \/ \E g \in Generations : Replaces(a, g)
    \/ DrawsPlan \/ EditsFiles

BackfillSpec == BackfillInit /\ [][BackfillNext]_backfillVars

-----------------------------------------------------------------------------
(* Properties                                                              *)

KeysToPlan(d) ==
    [archive_hashes |-> {<<h.archive>> : h \in d.hashes},
     archive_content_signatures |-> {<<s.archive>> : s \in d.signatures},
     archive_inspections |-> {<<a>> : a \in d.inspections},
     page_inventory |-> {<<s.archive>> : s \in d.signatures},
     near_duplicate_candidates |-> d.candidates]

\* Every row of evidence is decided exactly once, and nothing else is.
DecidesEachRowOnce ==
    \A i \in issued :
       /\ \A t \in Receiving : \A key \in KeysToPlan(i.from)[t] :
             \E b \in i.plan.bindings : b.table = t /\ b.key = key
       /\ \A b \in i.plan.bindings : b.table \in Receiving /\ b.key \in KeysToPlan(i.from)[b.table]
       /\ \A b, c \in i.plan.bindings : b.table = c.table /\ b.key = c.key => b = c

\* The file an archive's signature was taken of has its recorded size still.
Undrifted(d, s) == \A l \in d.located : l.archive = s.archive => l.size = s.size

\* A row is bound to the only revision its archive ever had, one with an
\* identity; a seed is bound to the revision that carries its value, and what
\* was signed of other bytes to none.
GuessesNothing ==
    \A i \in issued : \A b \in i.plan.bindings : \A label \in DOMAIN b.sides :
       LET side == b.sides[label]
       IN  SideBound(side) =>
              /\ \E r \in i.from.revisions :
                    /\ side.revision = {r} /\ r.archive = side.archive /\ r.state = "established"
                    /\ \A q \in i.from.revisions : q.archive = side.archive => q = r
                    /\ b.table = "archive_hashes" =>
                          [archive |-> side.archive, digest |-> r.sha] \in i.from.hashes
                    /\ b.table = "archive_content_signatures" =>
                          \E s \in i.from.signatures :
                             s.archive = side.archive /\ s.digest = r.signature
              /\ b.table \in {"archive_content_signatures", "page_inventory"} =>
                    \A s \in i.from.signatures : s.archive = side.archive => Undrifted(i.from, s)

\* The snapshot digest covers all that planning depends on: a database with
\* the digest of an earlier plan is given that plan again.
SameSnapshotSamePlan ==
    \A i \in issued :
       Snapshot(provenance) = i.plan.snapshot =>
          ~PlannerRefuses(provenance) /\ PlanOf(provenance) = i.plan

\* What is written reads back, and the bindings, the digest, the counts and the
\* gates that are read back are those of one drawn plan, whatever became of the
\* files in between.  Nothing reconstructs archives_without_revision: a reader
\* holds that number only because the file says so, and its gate follows it.
WrittenReadsBack == \A i \in issued : Accepted(EnvelopeOf(i.plan), CsvOf(i.plan))
CensusGate == {"archives_without_revision"}
ReadWasDrawn ==
    Accepted(envelope, csv) =>
        /\ \E i \in issued :
              /\ Decoded(csv) = i.plan.bindings
              /\ envelope.snapshot = i.plan.snapshot
              /\ envelope.totals = EnvelopeOf(i.plan).totals
              /\ envelope.failures \ CensusGate = EnvelopeOf(i.plan).failures \ CensusGate
        /\ CensusGate \subseteq envelope.failures <=> envelope.unrevised # 0

BackfillSafety ==
    /\ DecidesEachRowOnce /\ GuessesNothing /\ SameSnapshotSamePlan
    /\ WrittenReadsBack /\ ReadWasDrawn

=============================================================================
