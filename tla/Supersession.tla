----------------------------- MODULE Supersession -----------------------------
(***************************************************************************)
(* The supersession evaluator over one established version family: every   *)
(* member is read, bound to its bytes and compared with its stored rows;   *)
(* then each pair is classified, and the chain gives the keeper, or a      *)
(* review, or an error that stops the run.                                 *)
(*                                                                         *)
(* The content of an archive is its page digests, its ComicInfo documents  *)
(* by member name, and its other non-image members.                        *)
(***************************************************************************)
EXTENDS Naturals, Sequences, FiniteSets, Functions

CONSTANTS
    Members,            \* keys of the archives of the family
    Contents,           \* contents: [pages, comicinfo, extras]
    Filled,             \* ComicInfo document -> the fields it fills
    AcceptDrop,         \* the operator's accept_comicinfo_drop, both values
    MaxFileChanges      \* bound on changes of files during an evaluation

ASSUME ContentsAssumption == \A c \in Contents : c.pages \in Seq(Range(c.pages))

Unread == [read |-> FALSE]
NoReview == [status |-> "none"]

VARIABLES
    file,       \* member -> its content on disk
    stored,     \* member -> page digests of its stored rows
    bound,      \* member -> the bytes read, and whether they proved usable
    accept,     \* accept_comicinfo_drop
    review,     \* the FamilySupersession reported
    rewrites,   \* number of changes of files so far
    atCheck     \* member -> its content on disk when it was last looked at;
                \* for the property, no step reads it

supersessionVars == <<file, stored, bound, accept, review, rewrites, atCheck>>

SupersessionInit ==
    /\ file \in [Members -> Contents]
    /\ stored = [m \in Members |-> file[m].pages]
    /\ bound = [m \in Members |-> Unread]
    /\ accept \in AcceptDrop
    /\ review = NoReview
    /\ rewrites = 0
    /\ atCheck = file

-----------------------------------------------------------------------------
(* Evidence                                                                *)

\* derive_archive, first half: everything is derived from one read. The folder's
\* archives are read one after the other, in the order of their names.
BindArchive(m) ==
    /\ bound[m] = Unread
    /\ \A n \in Members : n < m => bound[n].read /\ bound[n].checked
    /\ bound' = [bound EXCEPT ![m] = [read |-> TRUE, checked |-> FALSE, content |-> file[m]]]
    /\ UNCHANGED <<file, stored, accept, review, rewrites, atCheck>>

\* Mutant of CheckArchive: the file is not hashed a second time.
CheckArchiveOnce(m) ==
    /\ bound[m].read /\ ~bound[m].checked
    /\ LET c == bound[m].content
       IN bound' = [bound EXCEPT ![m] =
              [read |-> TRUE, checked |-> TRUE, content |-> c,
               comparable |-> c.pages # <<>> /\ stored[m] = c.pages]]
    /\ atCheck' = [atCheck EXCEPT ![m] = file[m]]
    /\ UNCHANGED <<file, stored, accept, review, rewrites>>

\* Second half, and stored_rows_verdict: the file is hashed again; an archive
\* is comparable only when it did not change, has pages, and the stored rows
\* are those pages.
CheckArchive(m) ==
    /\ bound[m].read /\ ~bound[m].checked
    /\ LET c == bound[m].content
       IN bound' = [bound EXCEPT ![m] =
              [read |-> TRUE, checked |-> TRUE, content |-> c,
               comparable |-> c = file[m] /\ c.pages # <<>> /\ stored[m] = c.pages]]
    /\ atCheck' = [atCheck EXCEPT ![m] = file[m]]
    /\ UNCHANGED <<file, stored, accept, review, rewrites>>

Rewrite(m) ==
    /\ rewrites < MaxFileChanges /\ rewrites' = rewrites + 1
    /\ \E c \in Contents : file' = [file EXCEPT ![m] = c]
    /\ UNCHANGED <<stored, bound, accept, review, atCheck>>

-----------------------------------------------------------------------------
(* Relations of pairs                                                      *)

\* greedy_index_map: the earliest unused match of each page, or <<>>.
GreedyMap(older, newer) ==
    LET after(from, page) == {j \in from..Len(newer) : newer[j] = page}
        map[n \in 0..Len(older)] ==
            IF n = 0 THEN <<>>
            ELSE LET so_far == map[n - 1]
                     from == IF so_far = <<>> THEN 1 ELSE so_far[n - 1] + 1
                     found == after(from, older[n])
                 IN IF Len(so_far) # n - 1 \/ found = {} THEN so_far
                    ELSE Append(so_far, CHOOSE j \in found : \A k \in found : j <= k)
    IN map[Len(older)]
Embeds(older, newer) == Len(GreedyMap(older, newer)) = Len(older)
BeginsWith(older, newer) == SubSeq(newer, 1, Len(older)) = older

Documents(c) == Range(c.comicinfo)

\* keeper_comicinfo_is_usable: present, and not several that differ.
UsableComicInfo(c) == Cardinality(Documents(c)) = 1

\* Mutant of DropRefused: any ComicInfo in the newer archive will do.
DropRefusedWithoutAny(older, newer) == ~UsableComicInfo(newer)

\* comicinfo_drop_refusal: what the older documents fill, the newer one fills.
DropRefused(older, newer) ==
    \/ ~UsableComicInfo(newer)
    \/ \E d \in Documents(older), k \in Documents(newer) : ~(Filled[d] \subseteq Filled[k])

\* _payload: non-image members of older that newer lacks and must have.
MissingComicInfo(older, newer) ==
    {n \in DOMAIN older.comicinfo :
        n \notin DOMAIN newer.comicinfo \/ newer.comicinfo[n] # older.comicinfo[n]}
UniquePayload(older, newer) ==
    (older.extras \ newer.extras)
        \union (IF accept /\ ~DropRefused(older, newer) THEN {}
                ELSE MissingComicInfo(older, newer))

\* compare_pair
Outcome(a, b) ==
    LET older == bound[a].content
        newer == bound[b].content
    IN CASE Len(older.pages) = Len(newer.pages) ->
                IF older = newer THEN "duplicate" ELSE "review"
         [] Len(older.pages) > Len(newer.pages) -> "none"
         [] Len(older.pages) < Len(newer.pages) ->
                IF ~Embeds(older.pages, newer.pages) \/ UniquePayload(older, newer) # {}
                THEN "review"
                ELSE IF BeginsWith(older.pages, newer.pages) THEN "superseded" ELSE "inserted"

-----------------------------------------------------------------------------
(* The chain                                                               *)

IsEdge(a, b) == a # b /\ Outcome(a, b) \in {"superseded", "inserted"}
Maximal == {m \in Members : \A n \in Members : ~IsEdge(m, n)}

\* resolve_chain and evaluate_family.  Edges lengthen the pages, so there is
\* no cycle to find; a member below the keeper without a relation of its own
\* to it raises InconsistentRelationsError.
Evaluate ==
    /\ review = NoReview
    /\ \A m \in Members : bound[m].read /\ bound[m].checked
    /\ review' =
         IF \E m \in Members : ~bound[m].comparable THEN [status |-> "unresolved"]
         ELSE IF Cardinality(Maximal) # 1 THEN [status |-> "review", keeper |-> "none"]
         ELSE LET keeper == CHOOSE m \in Maximal : TRUE
                  needsHuman == \E a, b \in Members :
                                   a # b /\ Outcome(a, b) \in {"review", "inserted"}
              IN IF \E m \in Members \ {keeper} : ~IsEdge(m, keeper)
                 THEN [status |-> "raised"]
                 ELSE [status |-> IF needsHuman THEN "review" ELSE "supersession",
                       keeper |-> keeper]
    /\ UNCHANGED <<file, stored, bound, accept, rewrites, atCheck>>

SupersessionNext ==
    \/ \E m \in Members : BindArchive(m) \/ CheckArchive(m) \/ Rewrite(m)
    \/ Evaluate

SupersessionSpec == SupersessionInit /\ [][SupersessionNext]_supersessionVars

-----------------------------------------------------------------------------
(* Properties                                                              *)

\* An ordered subsequence, by definition.
Subsequence(older, newer) ==
    \E at \in [1..Len(older) -> 1..Len(newer)] :
        /\ \A i, j \in 1..Len(older) : i < j => at[i] < at[j]
        /\ \A i \in 1..Len(older) : newer[at[i]] = older[i]

\* What a supersession verdict leaves to the keeper loses nothing.  It is said
\* of the files, each as it was on disk when its own evaluation ended, though
\* any of them may be rewritten before, between and after: the keeper's file
\* had every page of every member's in its order, every other member and every
\* field of the ComicInfo, and the stored rows were those pages.
KeeperCarriesAll ==
    review.status = "supersession" =>
        LET keeper == atCheck[review.keeper]
        IN \A m \in Members :
              LET c == atCheck[m]
              IN /\ Subsequence(c.pages, keeper.pages) /\ BeginsWith(c.pages, keeper.pages)
                 /\ stored[m] = c.pages
                 /\ c.extras \subseteq keeper.extras
                 /\ UNION {Filled[d] : d \in Documents(c)}
                        \subseteq UNION {Filled[d] : d \in Documents(keeper)}

=============================================================================
