---------------------------- MODULE ReviewCases ----------------------------
(***************************************************************************)
(* scripts/cbz_classification_staging.py: one unresolved series directory  *)
(* is staged whole as a review case.  execute_transfer moves (same volume) *)
(* or copies and verifies (across volumes) the source into .partial, then  *)
(* publishes .partial as pending; recover_case finishes an interrupted     *)
(* transfer from what is on disk; an operator promotes, rejects or rolls   *)
(* back a published case.  Meanwhile chapters go on arriving in the        *)
(* source, somebody edits a pending payload, locks make a rename wait, and *)
(* either process dies between any two steps.                              *)
(*                                                                         *)
(* A payload is a set of chapters.  A case is minted from the payload its  *)
(* source held, so the payload is the case id (one series, one source).    *)
(***************************************************************************)
EXTENDS Integers, FiniteSets

CONSTANTS
  Chapters,
  FirstPayloads,    \* what may be at the source at first: a set of cases
  MaxDisturbances   \* bound: arrivals and edits

ASSUME ReviewCasesAssumption ==
  MaxDisturbances \in Nat /\ FirstPayloads \subseteq SUBSET Chapters

VARIABLES
  method,           \* transfer_method: "rename" or "copy_verify"
  upstream,         \* payload at the staging source path; {} if it is gone
  scaffolds,        \* cases with a .partial directory
  partial,          \* case -> payload under .partial ({} if none)
  published,        \* cases with a pending directory
  pending,          \* case -> payload under pending ({} if none)
  record,           \* case -> state of its manifest, "none" without one
  rejected,         \* case -> payload under rejected
  shelf,            \* payload at the library destination
  carrier,          \* the process in execute_transfer or recover_case
  operator,         \* the operator's command in progress
  arrived,          \* history: every chapter that ever arrived
  raced,            \* history: what arrived between a last check and its act
  touched,          \* history: cases somebody outside the module disturbed
  disturbances

diskVars == <<upstream, scaffolds, partial, published, pending, record, rejected, shelf>>
reviewVars == <<method, diskVars, carrier, operator, arrived, raced, touched, disturbances>>

Cases == (SUBSET Chapters) \ {{}}
Terminal == {"promoted", "rejected", "rolled_back"}
InFlight == {"planned", "copied_verified", "pending_review"}
IdleCarrier == [at |-> "idle", case |-> {}, run |-> "transfer", release |-> "keep"]
IdleOperator == [at |-> "idle", case |-> {}, action |-> "promote"]

ReviewInit ==
  /\ method \in {"rename", "copy_verify"}
  /\ upstream \in FirstPayloads
  /\ scaffolds = {} /\ published = {} /\ shelf = {}
  /\ partial = [c \in Cases |-> {}] /\ pending = [c \in Cases |-> {}]
  /\ rejected = [c \in Cases |-> {}]
  /\ record = [c \in Cases |-> "none"]
  /\ carrier = IdleCarrier /\ operator = IdleOperator
  /\ arrived = upstream /\ raced = {} /\ touched = {} /\ disturbances = 0

-----------------------------------------------------------------------------
(* execute_transfer.  "release" is delete_copied_source, which means        *)
(* nothing to a rename.                                                    *)

CarrierAt(step) == carrier.at = step
CarrierGoes(step) == carrier' = [carrier EXCEPT !.at = step]
CarrierStops == carrier' = IdleCarrier
CarrierOnly == UNCHANGED <<method, operator, arrived, raced, touched, disturbances>>

(* plan_case: the inventory, and with it the case.                         *)
PlanCase(release) ==
  /\ CarrierAt("idle") /\ upstream # {}
  /\ method = "rename" => release = "keep"
  /\ carrier' = [at |-> "begin", case |-> upstream, run |-> "transfer", release |-> release]
  /\ CarrierOnly /\ UNCHANGED diskVars

(* Mutant of Collides: a decided case may be staged again.                 *)
CollidesIfPublished(c) == c \in published

(* _refuse_collisions.                                                     *)
Collides(c) == c \in published \/ record[c] \in Terminal

(* A .partial is disposable only where the source outlives the transfer.   *)
MayDiscardPartial(c) == c \notin scaffolds \/ method = "copy_verify"

(* Mutant of ManifestBefore: the manifest is left to the publication.      *)
ManifestAfter(c) == record

(* The manifest of a planned case, written before anything moves.          *)
ManifestBefore(c) == [record EXCEPT ![c] = "planned"]

(* The collision checks, .partial cleared, and the manifest written before *)
(* anything moves.                                                         *)
BeginTransfer ==
  LET c == carrier.case IN
  /\ CarrierAt("begin")
  /\ IF Collides(c) \/ ~MayDiscardPartial(c)
     THEN CarrierStops /\ UNCHANGED diskVars
     ELSE /\ CarrierGoes(IF method = "rename" THEN "gate" ELSE "copy")
          /\ partial' = [partial EXCEPT ![c] = {}]
          /\ scaffolds' = scaffolds \cup {c}
          /\ record' = ManifestBefore(c)
          /\ UNCHANGED <<upstream, published, pending, rejected, shelf>>
  /\ CarrierOnly

(* copytree: whatever of the source reached the other volume.              *)
CopyTree ==
  /\ CarrierAt("copy") /\ upstream # {}
  /\ \E copied \in SUBSET upstream : partial' = [partial EXCEPT ![carrier.case] = copied]
  /\ CarrierGoes("verify")
  /\ CarrierOnly /\ UNCHANGED <<upstream, scaffolds, published, pending, record, rejected, shelf>>

(* Gate 1, _verify_staged_payload.  A restarted copy keeps its state.      *)
VerifyCopy ==
  LET c == carrier.case IN
  /\ CarrierAt("verify")
  /\ IF partial[c] # c THEN CarrierStops /\ UNCHANGED record
     ELSE /\ CarrierGoes("gate")
          /\ record' = IF carrier.run = "transfer"
                       THEN [record EXCEPT ![c] = "copied_verified"] ELSE record
  /\ CarrierOnly /\ UNCHANGED <<upstream, scaffolds, partial, published, pending, rejected, shelf>>

(* Mutant of SourceIsStill: only the copy was ever checked.                *)
SourceIsStillThere(c) == TRUE

(* revalidate_source: the source still is the payload of the case.         *)
SourceIsStill(c) == upstream = c

(* Gate 2, revalidate_source, on both paths.                               *)
RevalidateSource ==
  /\ CarrierAt("gate")
  /\ IF SourceIsStill(carrier.case)
     THEN CarrierGoes(IF method = "rename" THEN "move" ELSE "publish") ELSE CarrierStops
  /\ CarrierOnly /\ UNCHANGED diskVars

(* The rename takes whatever the source holds by now.                      *)
MoveSource ==
  LET c == carrier.case IN
  /\ CarrierAt("move")
  /\ IF upstream = {} \/ partial[c] # {}
     THEN CarrierStops /\ UNCHANGED <<upstream, partial>>
     ELSE /\ partial' = [partial EXCEPT ![c] = upstream]
          /\ upstream' = {}
          /\ CarrierGoes("publish")
  /\ CarrierOnly /\ UNCHANGED <<scaffolds, published, pending, record, rejected, shelf>>

(* _replace waits for a transient lock, then rechecks before it retries.   *)
MoveWaits ==
  /\ CarrierAt("move") /\ CarrierGoes("gate")
  /\ CarrierOnly /\ UNCHANGED diskVars

(* .partial becomes pending.                                               *)
Publish ==
  LET c == carrier.case IN
  /\ CarrierAt("publish")
  /\ IF c \notin scaffolds \/ c \in published
     THEN CarrierStops /\ UNCHANGED <<scaffolds, partial, published, pending>>
     ELSE /\ scaffolds' = scaffolds \ {c} /\ published' = published \cup {c}
          /\ pending' = [pending EXCEPT ![c] = partial[c]]
          /\ partial' = [partial EXCEPT ![c] = {}]
          /\ CarrierGoes("record")
  /\ CarrierOnly /\ UNCHANGED <<upstream, record, rejected, shelf>>

RecordPublished ==
  /\ CarrierAt("record")
  /\ record' = [record EXCEPT ![carrier.case] = "pending_review"]
  /\ IF method = "copy_verify" /\ carrier.release = "release" THEN CarrierGoes("release") ELSE CarrierStops
  /\ CarrierOnly /\ UNCHANGED <<upstream, scaffolds, partial, published, pending, rejected, shelf>>

(* _release_copied_source: revalidate, then rmtree.                        *)
CheckRelease ==
  /\ CarrierAt("release")
  /\ IF SourceIsStill(carrier.case) THEN CarrierGoes("delete") ELSE CarrierStops
  /\ CarrierOnly /\ UNCHANGED diskVars

(* rmtree, which may be cut short by a death.                              *)
DeleteSource ==
  /\ CarrierAt("delete")
  /\ upstream' \in {{}} \cup SUBSET upstream
  /\ CarrierStops
  /\ CarrierOnly /\ UNCHANGED <<scaffolds, partial, published, pending, record, rejected, shelf>>

CarrierDies ==
  /\ ~CarrierAt("idle") /\ CarrierStops
  /\ CarrierOnly /\ UNCHANGED diskVars

-----------------------------------------------------------------------------
(* assess_recovery: what interrupted case c, from the disk alone.          *)

AssessCopy(c) ==
  IF upstream = {} THEN "operator_required"
  ELSE IF partial[c] = c THEN "resume_publication" ELSE "restart_from_source"

AssessRename(c) ==
  IF upstream # {}
  THEN IF partial[c] # {} THEN "operator_required" ELSE "restart_from_source"
  ELSE IF partial[c] = c THEN "publish_partial"
  ELSE IF partial[c] = {} THEN "operator_required" ELSE "partial_unusable"

Assess(c) ==
  IF record[c] = "none"
  THEN IF c \in published THEN "orphaned_pending"
       ELSE IF c \in scaffolds THEN "operator_required" ELSE "nothing_staged"
  ELSE IF record[c] \in Terminal THEN "terminal"
  ELSE IF c \in published
  THEN IF pending[c] = c THEN "complete" ELSE "pending_inconsistent"
  ELSE IF record[c] = "pending_review" THEN "pending_inconsistent"
  ELSE IF method = "copy_verify" THEN AssessCopy(c) ELSE AssessRename(c)

Automatic == {"resume_publication", "restart_from_source", "publish_partial", "complete"}

(* recover_case acts on the four automatic classifications only, and has   *)
(* nothing to reconcile in a complete case already recorded as pending.    *)
RecoverStart(c, release) ==
  /\ CarrierAt("idle")
  /\ Assess(c) \in Automatic
  /\ Assess(c) = "complete" => record[c] # "pending_review"
  /\ method = "rename" => release = "keep"
  /\ carrier' = [at |-> Assess(c), case |-> c, run |-> "recovery", release |-> release]
  /\ CarrierOnly /\ UNCHANGED diskVars

RecoverComplete ==
  /\ CarrierAt("complete") /\ CarrierStops
  /\ record' = [record EXCEPT ![carrier.case] = "pending_review"]
  /\ CarrierOnly /\ UNCHANGED <<upstream, scaffolds, partial, published, pending, rejected, shelf>>

RecoverPublish ==
  LET c == carrier.case IN
  /\ \/ CarrierAt("resume_publication") /\ SourceIsStill(c)
     \/ CarrierAt("publish_partial")
  /\ IF partial[c] = c THEN CarrierGoes("publish") ELSE CarrierStops
  /\ CarrierOnly /\ UNCHANGED diskVars

(* The source is revalidated, then .partial cleared and the transfer made  *)
(* again; a rename refuses a payload that appeared meanwhile.              *)
RecoverRestart ==
  LET c == carrier.case IN
  /\ CarrierAt("restart_from_source") /\ SourceIsStill(c)
  /\ IF method = "rename" /\ partial[c] # {}
     THEN CarrierStops /\ UNCHANGED <<partial, scaffolds>>
     ELSE /\ partial' = [partial EXCEPT ![c] = {}]
          /\ scaffolds' = scaffolds \cup {c}
          /\ CarrierGoes(IF method = "rename" THEN "move" ELSE "copy")
  /\ CarrierOnly /\ UNCHANGED <<upstream, published, pending, record, rejected, shelf>>

-----------------------------------------------------------------------------
(* The operator's commands.  The digest of the record an operator was      *)
(* shown stands for its state.                                             *)

(* The cases a change of the source disturbs.                              *)
SourceUsers == {c \in Cases : record[c] \in InFlight \/ carrier.case = c}

OperatorOnly == UNCHANGED <<method, carrier, arrived, raced, disturbances>>

(* _ready_for_operator, _verified_staged_payload and the checks of the     *)
(* destination.  A rollback across volumes does not exist.                 *)
Permitted(c, action) ==
  /\ record[c] = "pending_review"
  /\ action = "reject" \/ pending[c] = c
  /\ CASE action = "promote" -> shelf = {}
       [] action = "reject" -> rejected[c] = {}
       [] action = "rollback" -> upstream = {} /\ method = "rename"

Decide(c, action) ==
  /\ operator.at = "idle" /\ Permitted(c, action)
  /\ operator' = [at |-> "moving", case |-> c, action |-> action]
  /\ OperatorOnly /\ UNCHANGED <<diskVars, touched>>

(* _replace meets a lock: time passes before the retry.                    *)
LockWait ==
  /\ operator.at = "moving" /\ operator' = [operator EXCEPT !.at = "waiting"]
  /\ OperatorOnly /\ UNCHANGED <<diskVars, touched>>

(* Mutant of Recheck: the retry trusts what was checked before the wait.   *)
RecheckNothing(c, action) == TRUE

(* _operator_move's recheck: the command's own preconditions.              *)
Recheck(c, action) == Permitted(c, action)

RetryMove ==
  /\ operator.at = "waiting"
  /\ operator' = IF Recheck(operator.case, operator.action)
                 THEN [operator EXCEPT !.at = "moving"] ELSE IdleOperator
  /\ OperatorOnly /\ UNCHANGED <<diskVars, touched>>

(* The rename.  It fails on an occupied destination.                       *)
OperatorMove ==
  LET c == operator.case
      carried == pending[c]
      moves(action, free) == operator.action = action /\ free /\ carried # {} IN
  /\ operator.at = "moving"
  /\ \/ /\ moves("promote", shelf = {})
        /\ shelf' = carried
        /\ UNCHANGED <<upstream, published, rejected>>
     \/ /\ moves("reject", rejected[c] = {})
        /\ rejected' = [rejected EXCEPT ![c] = carried]
        /\ published' = published \ {c}
        /\ UNCHANGED <<upstream, shelf>>
     \/ /\ moves("rollback", upstream = {})
        /\ upstream' = carried
        /\ UNCHANGED <<published, rejected, shelf>>
  /\ pending' = [pending EXCEPT ![c] = {}]
  /\ operator' = [operator EXCEPT !.at = "finish"]
  /\ touched' = touched \cup {c} \cup (IF operator.action = "rollback" THEN SourceUsers ELSE {})
  /\ OperatorOnly /\ UNCHANGED <<scaffolds, partial, record>>

Finish ==
  LET decided == CASE operator.action = "promote" -> "promoted"
                   [] operator.action = "reject" -> "rejected"
                   [] operator.action = "rollback" -> "rolled_back" IN
  /\ operator.at = "finish" /\ operator' = IdleOperator
  /\ record' = [record EXCEPT ![operator.case] = decided]
  /\ OperatorOnly
  /\ UNCHANGED <<upstream, scaffolds, partial, published, pending, rejected, shelf, touched>>

OperatorDies ==
  /\ operator.at # "idle" /\ operator' = IdleOperator
  /\ OperatorOnly /\ UNCHANGED <<diskVars, touched>>

-----------------------------------------------------------------------------
(* The outside world.                                                      *)

(* A chapter arrives in the source, or the source is downloaded again.     *)
Arrive(ch) ==
  /\ disturbances < MaxDisturbances /\ ch \notin upstream
  /\ disturbances' = disturbances + 1
  /\ upstream' = upstream \cup {ch} /\ arrived' = arrived \cup {ch}
  /\ raced' = IF CarrierAt("delete") THEN raced \cup {ch} ELSE raced
  /\ touched' = touched \cup SourceUsers
  /\ UNCHANGED <<method, scaffolds, partial, published, pending, record, rejected, shelf, carrier, operator>>

(* Somebody adds a chapter to a pending payload.                           *)
Edit(c, ch) ==
  /\ disturbances < MaxDisturbances /\ pending[c] # {} /\ ch \notin pending[c]
  /\ disturbances' = disturbances + 1
  /\ pending' = [pending EXCEPT ![c] = @ \cup {ch}] /\ arrived' = arrived \cup {ch}
  /\ raced' = IF operator.case = c /\ operator.at = "moving" THEN raced \cup {ch} ELSE raced
  /\ touched' = touched \cup {c}
  /\ UNCHANGED <<method, upstream, scaffolds, partial, published, record, rejected, shelf, carrier, operator>>

ReviewNext ==
  \/ \E release \in {"keep", "release"} :
       PlanCase(release) \/ \E c \in Cases : RecoverStart(c, release)
  \/ BeginTransfer \/ CopyTree \/ VerifyCopy \/ RevalidateSource \/ MoveSource \/ MoveWaits
  \/ Publish \/ RecordPublished \/ CheckRelease \/ DeleteSource \/ CarrierDies
  \/ RecoverComplete \/ RecoverPublish \/ RecoverRestart
  \/ \E c \in Cases, action \in {"promote", "reject", "rollback"} : Decide(c, action)
  \/ LockWait \/ RetryMove \/ OperatorMove \/ Finish \/ OperatorDies
  \/ \E ch \in Chapters : Arrive(ch) \/ \E c \in Cases : Edit(c, ch)

ReviewSpec == ReviewInit /\ [][ReviewNext]_reviewVars

-----------------------------------------------------------------------------

(* Every chapter that ever arrived is still somewhere, whoever died, raced *)
(* or recovered; the one exception is what lands in the source after the   *)
(* check that precedes its deletion.                                       *)
NothingIsLost ==
  arrived \ raced \subseteq
    upstream \cup shelf
    \cup UNION {partial[c] \cup pending[c] \cup rejected[c] : c \in Cases}

(* A transfer cut short anywhere leaves a case recovery can finish without *)
(* an operator, unless somebody outside disturbed it.                      *)
InterruptionsRecover ==
  \A c \in Cases :
    /\ c \notin touched /\ carrier.case # c
    /\ c \in scaffolds \cup published \/ record[c] \in InFlight
    => Assess(c) \in Automatic

(* An operator's decision, once recorded, is not retaken by any transfer   *)
(* or recovery that begins later, nor by another command; and a promoted   *)
(* or returned payload is the one that was reviewed, save for an edit in   *)
(* the last instant before the move.                                       *)
DecisionsStand ==
  [][/\ record' # record => \A c \in Cases :
          record[c] \in Terminal /\ (carrier.case # c \/ carrier.at = "begin") => record'[c] = record[c]
     /\ operator.at = "moving" /\ operator'.at = "finish" /\ operator.action # "reject" =>
          pending[operator.case] \subseteq operator.case \cup raced]_reviewVars

\* Staging, deciding and recovering lose nothing, leave what recovery can go on
\* from, and do not take a decision back.
ReviewSafety == []NothingIsLost /\ []InterruptionsRecover /\ DecisionsStand

=============================================================================
