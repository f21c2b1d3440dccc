---------------------------- MODULE ArchiveRewrite ----------------------------
(***************************************************************************)
(* Rewriting one archive's ComicInfo.xml in place: the watcher, the        *)
(* sanitizer and the maintenance tool each rebuild the archive beside it,  *)
(* park the original under .bak.cbz, rename the rebuild into place and     *)
(* remove the parked copy; the watcher clears leftovers when it starts.    *)
(* A rename onto an existing name raises, as on Windows.                   *)
(*                                                                         *)
(* What an archive is worth keeping for is its pages, a number; its        *)
(* ComicInfo is "old" or "new".                                            *)
(***************************************************************************)
EXTENDS Naturals

CONSTANTS
    Attempts,           \* writer -> attempts before it gives up
    Guarded,            \* writers that look for changes before they swap
    Foreign,            \* subset of {"replace", "arrive"}: what others do
    MaxRewriteTrouble,  \* bound on failing steps and crashes
    MaxForeign          \* bound on files others put there

Nothing == [pages |-> 0, xml |-> "none"]
Truncated == [pages |-> 0, xml |-> "truncated"]

VARIABLES
    spot,           \* "cbz", "tmp", "bak" -> the archive under that suffix
    rewriter,       \* the running rewrite
    rewriteTrouble, \* number of failures so far
    writes,         \* number of files others put there so far
    owed,           \* history: pages nobody else replaced
    unguarded       \* history: others replaced what a rewrite had stopped
                    \* looking at

rewriteVars == <<spot, rewriter, rewriteTrouble, writes, owed, unguarded>>

NotRewriting == [phase |-> "idle"]

RewriteInit ==
    /\ spot = [s \in {"cbz", "tmp", "bak"} |->
                  IF s = "cbz" THEN [pages |-> 1, xml |-> "old"] ELSE Nothing]
    /\ rewriter = NotRewriting
    /\ rewriteTrouble = 0 /\ writes = 0
    /\ owed = {1}
    /\ unguarded = FALSE

InPlace == spot["cbz"] # Nothing
Step(phase) == rewriter' = [rewriter EXCEPT !.phase = phase]
Goes(from, phase) == rewriter.phase = from /\ Step(phase)
Trouble == rewriteTrouble < MaxRewriteTrouble /\ rewriteTrouble' = rewriteTrouble + 1
NoTrouble == UNCHANGED <<rewriteTrouble, writes, owed, unguarded>>
Failing == Trouble /\ UNCHANGED <<writes, owed, unguarded>>

-----------------------------------------------------------------------------
(* One attempt                                                             *)

\* stat, central directory and every member, of the archive in place.
StartRewrite(w) ==
    /\ rewriter = NotRewriting /\ InPlace
    /\ rewriter' = [phase |-> "read", by |-> w, attempt |-> 1, read |-> spot["cbz"]]
    /\ UNCHANGED spot /\ NoTrouble

WriteRebuild ==
    /\ Goes("read", "written")
    /\ spot' = [spot EXCEPT !["tmp"] = [pages |-> rewriter.read.pages, xml |-> "new"]]
    /\ NoTrouble

RebuildFails ==
    /\ Goes("read", "failed") /\ Failing
    /\ spot' = [spot EXCEPT !["tmp"] = Truncated]

\* Mutant of CheckSource: the writer does not look again.
SkipCheck == Goes("written", "checked") /\ UNCHANGED spot /\ NoTrouble

\* Size, mtime and the central directory, against what was read.
CheckSource ==
    /\ rewriter.phase = "written"
    /\ Step(IF rewriter.by \in Guarded /\ spot["cbz"] # rewriter.read
            THEN "failed" ELSE "checked")
    /\ UNCHANGED spot /\ NoTrouble

\* A stale .bak.cbz is removed, then the original takes that name.
ParkOriginal ==
    /\ InPlace /\ Goes("checked", "parked")
    /\ spot' = [spot EXCEPT !["bak"] = spot["cbz"], !["cbz"] = Nothing]
    /\ NoTrouble

ParkFails ==
    /\ Goes("checked", "failed") /\ Failing
    /\ spot' = [spot EXCEPT !["bak"] = Nothing]

InstallRebuild ==
    /\ ~InPlace /\ Goes("parked", "swapped")
    /\ spot' = [spot EXCEPT !["cbz"] = spot["tmp"], !["tmp"] = Nothing]
    /\ NoTrouble

\* The rename into place failed, or something is there: the original is
\* renamed back, and when that fails too both copies stay.
InstallFails ==
    /\ Goes("parked", "failed")
    /\ IF InPlace THEN NoTrouble ELSE Failing
    /\ \/ ~InPlace /\ spot' = [spot EXCEPT !["cbz"] = spot["bak"], !["bak"] = Nothing]
       \/ InPlace /\ UNCHANGED spot
StrandOriginal ==
    /\ Goes("parked", "failed") /\ Failing /\ UNCHANGED spot

RemoveParked ==
    /\ rewriter.phase = "swapped" /\ rewriter' = NotRewriting
    /\ spot' = [spot EXCEPT !["bak"] = Nothing]
    /\ NoTrouble

RemoveParkedFails == Goes("swapped", "failed") /\ Failing /\ UNCHANGED spot

-----------------------------------------------------------------------------
(* After a failed attempt                                                  *)

\* _discard_rebuild_if_original_intact
Discarded == [spot EXCEPT !["tmp"] = IF InPlace THEN Nothing ELSE @]

\* The next attempt reads what is in place now; without a file it fails too.
RetryRewrite ==
    /\ rewriter.phase = "failed" /\ rewriter.attempt < Attempts[rewriter.by]
    /\ spot' = Discarded
    /\ rewriter' = [rewriter EXCEPT !.attempt = @ + 1,
                                    !.phase = IF InPlace THEN "read" ELSE "failed",
                                    !.read = spot["cbz"]]
    /\ NoTrouble

GiveUp ==
    /\ rewriter.phase = "failed" /\ rewriter.attempt = Attempts[rewriter.by]
    /\ spot' = Discarded
    /\ rewriter' = NotRewriting
    /\ NoTrouble

\* The process dies; while the rebuild is written, part of it is there.
RewriterDies ==
    /\ rewriter # NotRewriting /\ Failing
    /\ rewriter' = NotRewriting
    /\ spot' = IF rewriter.phase = "read" THEN [spot EXCEPT !["tmp"] = Truncated] ELSE spot

\* Mutant of ClearLeftovers: whatever has the suffix is stale.
ClearAllLeftovers ==
    /\ rewriter = NotRewriting
    /\ spot' = [spot EXCEPT !["tmp"] = Nothing, !["bak"] = Nothing]
    /\ UNCHANGED rewriter /\ NoTrouble

\* _clean_up_stale_rewrite_files: only beside the archive they shadow.
ClearLeftovers ==
    /\ rewriter = NotRewriting /\ InPlace
    /\ spot' = [spot EXCEPT !["tmp"] = Nothing, !["bak"] = Nothing]
    /\ UNCHANGED rewriter /\ NoTrouble

-----------------------------------------------------------------------------
(* Others write to the same name                                           *)

LooksAgain == rewriter.phase \in {"read", "written"} /\ rewriter.by \in Guarded
Holding == rewriter.phase \in {"read", "written", "checked"}

ForeignWrite ==
    /\ writes < MaxForeign /\ writes' = writes + 1
    /\ IF InPlace THEN "replace" \in Foreign ELSE "arrive" \in Foreign
    /\ owed' = (owed \ {spot["cbz"].pages}) \union {writes' + 1}
    /\ unguarded' = (unguarded \/ (InPlace /\ Holding /\ ~LooksAgain))
    /\ spot' = [spot EXCEPT !["cbz"] = [pages |-> writes' + 1, xml |-> "old"]]
    /\ UNCHANGED <<rewriter, rewriteTrouble>>

RewriteNext ==
    \/ \E w \in DOMAIN Attempts : StartRewrite(w)
    \/ WriteRebuild \/ RebuildFails \/ CheckSource \/ ParkOriginal \/ ParkFails
    \/ InstallRebuild \/ InstallFails \/ StrandOriginal
    \/ RemoveParked \/ RemoveParkedFails
    \/ RetryRewrite \/ GiveUp \/ RewriterDies \/ ClearLeftovers \/ ForeignWrite

RewriteSpec == RewriteInit /\ [][RewriteNext]_rewriteVars

-----------------------------------------------------------------------------
(* Properties                                                              *)

\* No failing step, crash, retry or cleanup costs the last copy of the pages,
\* nor those of a file another writer put there before the last look at it.
KeepsLastCopy ==
    unguarded \/ \A p \in owed : \E s \in DOMAIN spot : spot[s].pages = p

=============================================================================
