------------------------ MODULE CanonicalApplyProofs ------------------------
(***************************************************************************)
(* What holds of applying, recovering and undoing a plan for every plan,   *)
(* any number of undo attempts, crashes and foreign changes; and of making *)
(* one, for any library, catalogue and changes during the two walks.       *)
(***************************************************************************)
EXTENDS CanonicalApply, CanonicalPlan, FiniteSetTheorems, TLAPS

StepPCs == {"intent", "verify", "rename", "done", "commit", "confirm"}

\* Where the run stands against the receipts of the step it is in.
RunOK ==
    /\ mode = "none" <=> pc = "off"
    /\ pc # "off" => attempt \in Attempts
    /\ mode = "apply" => attempt = Forward
    /\ mode = "undo" => attempt \in Undos
    /\ mode = "recover" => pc = "recover"
    /\ pc \notin StepPCs => item = NoArchive
    /\ pc \in StepPCs =>
        /\ item \in Archives
        /\ confirmed[attempt][item] < Len(Chain[item]) - 1
    /\ pc \in {"intent", "verify", "rename", "done"} =>
        done[attempt][item] = confirmed[attempt][item]
    /\ pc \in {"verify", "rename", "done"} =>
        intent[attempt][item] = confirmed[attempt][item] + 1
    /\ pc \in {"commit", "confirm"} =>
        done[attempt][item] = confirmed[attempt][item] + 1
    /\ pc = "confirm" => marker[attempt][item] = confirmed[attempt][item] + 1

\* How an apply gets through its families: while a dependant is still to come,
\* its keeper is too or has been confirmed.
FamilyOK ==
    mode = "apply" /\ pc # "recover" =>
        /\ pc \in StepPCs =>
            item \in left /\ (item # Keeper[item] => Complete(Forward, Keeper[item]))
        /\ \A a \in left : a # Keeper[a] =>
            /\ Keeper[a] \notin left => Complete(Forward, Keeper[a])
            /\ (Keeper[a] \notin left \/ Keeper[a] = item) /\ a # item =>
                    done[Forward][a] = confirmed[Forward][a]

IInv == TypeOK /\ ChainsValid /\ RunOK /\ FamilyOK /\ KeeperFirst

-----------------------------------------------------------------------------
\* Every waypoint of a chain is a path.
LEMMA WaypointIsPath ==
  ASSUME NEW t, NEW a \in Archives, NEW n \in 0 .. Len(Chain[a]) - 1
  PROVE  Waypoint(t, a, n) \in Paths
<1>1. Chain[a] \in Seq(Paths) /\ Len(Chain[a]) \in Nat
  BY PlanAssumption
<1>2. \A i \in 1 .. Len(Chain[a]) : Chain[a][i] \in Paths
  BY <1>1
<1>3. n + 1 \in 1 .. Len(Chain[a]) /\ Len(Chain[a]) - n \in 1 .. Len(Chain[a])
  BY <1>1
<1> QED
  BY <1>2, <1>3 DEF Waypoint

LEMMA LengthIsNat == \A a \in Archives : Len(Chain[a]) \in Nat
  BY PlanAssumption

LEMMA InvInit == Init => IInv
<1> SUFFICES ASSUME Init PROVE IInv
  OBVIOUS
<1> USE PlanAssumption DEF Init
<1>1. \A a \in Archives : Len(Chain[a]) \in Nat /\ Len(Chain[a]) >= 1 /\ Chain[a][1] \in Paths
  BY LengthIsNat
<1>2. fs \in [Paths -> Contents]
  BY DEF Contents
<1>3. TypeOK
  BY <1>1, <1>2 DEF TypeOK, Receipts, Selected
<1>4. ChainsValid
  BY <1>1 DEF ChainsValid, ChainValid
<1>5. RunOK /\ FamilyOK
  BY DEF RunOK, FamilyOK, StepPCs
<1>6. KeeperFirst
  BY DEF KeeperFirst, Started, Attempts
<1> QED
  BY <1>3, <1>4, <1>5, <1>6 DEF IInv

\* A run that ends leaves the disk as it is, but for a torn record.
LEMMA InvEnd ==
  ASSUME IInv, EndRun,
         UNCHANGED <<fs, row, marker, intent, done, confirmed, began, asked>>,
         journal' \in [Attempts -> {"absent", "ok", "torn"}],
         interruptions' \in Nat, meddled' \in Nat
  PROVE  IInv'
<1>1. TypeOK'
  BY DEF IInv, TypeOK, EndRun, Selected, Steps, Contents
<1>2. ChainsValid' /\ KeeperFirst'
  BY DEF IInv, ChainsValid, ChainValid, KeeperFirst, Started, Complete
<1>3. RunOK' /\ FamilyOK'
  BY DEF EndRun, RunOK, FamilyOK, StepPCs
<1> QED
  BY <1>1, <1>2, <1>3 DEF IInv

\* A decision of the run writes nothing.
LEMMA InvDecide ==
  ASSUME IInv, UNCHANGED <<disk, bounds>>,
         pc' \in {"off", "header", "recover", "unit"} \cup StepPCs,
         mode' \in {"none", "apply", "recover", "undo"},
         attempt' \in Attempts \cup {NoAttempt},
         left' \in SUBSET Archives, item' \in Archives \cup {NoArchive}, refused' \in BOOLEAN,
         RunOK', FamilyOK'
  PROVE  IInv'
<1> USE DEF disk, bounds
<1>1. TypeOK'
  BY DEF IInv, TypeOK, Selected, Steps, Contents, StepPCs
<1>2. ChainsValid' /\ KeeperFirst'
  BY DEF IInv, ChainsValid, ChainValid, KeeperFirst, Started, Complete
<1> QED
  BY <1>1, <1>2 DEF IInv

\* The operator's commands take the free scope lock.
LEMMA InvOperator == IInv /\ Operator => IInv'
<1> SUFFICES ASSUME IInv, Operator PROVE IInv'
  OBVIOUS
<1> USE PlanAssumption DEF Begin, Attempts
<1>1. ASSUME NEW m \in {"apply", "undo"}, NEW t \in Attempts, NEW S \in SUBSET Archives,
             Begin(m, t, "header", S), journal' = [journal EXCEPT ![t] = "torn"],
             m = "apply" => t = Forward /\ S = Archives,
             m = "undo" => t \in Undos,
             asked' \in [Attempts -> SUBSET Selected(Forward)],
             UNCHANGED <<fs, row, marker, intent, done, confirmed, began>>
      PROVE  IInv'
  <2>1. TypeOK'
    BY <1>1 DEF IInv, TypeOK, bounds, Selected, Steps, Contents
  <2>2. ChainsValid' /\ KeeperFirst'
    BY <1>1 DEF IInv, ChainsValid, ChainValid, KeeperFirst, Started, Complete
  <2>3. RunOK'
    BY <1>1 DEF RunOK, StepPCs
  <2>4. FamilyOK'
    BY <1>1 DEF FamilyOK, StepPCs
  <2> QED
    BY <2>1, <2>2, <2>3, <2>4 DEF IInv
<1>2. ASSUME NEW m \in {"apply", "undo", "recover"}, NEW t \in Attempts,
             Begin(m, t, "recover", Selected(t)), UNCHANGED disk,
             m = "apply" => t = Forward, m = "undo" => t \in Undos
      PROVE  IInv'
  <2>1. Selected(t) \in SUBSET Archives
    BY <1>2 DEF IInv, TypeOK, Selected
  <2>2. RunOK' /\ FamilyOK'
    BY <1>2 DEF RunOK, FamilyOK, StepPCs
  <2>3. /\ pc' = "recover" /\ mode' = m /\ attempt' = t /\ left' = Selected(t)
        /\ item' = NoArchive /\ refused' = FALSE /\ UNCHANGED <<disk, bounds>>
    BY <1>2
  <2> QED
    BY <2>1, <2>2, <2>3, InvDecide
<1>3. CASE StartApply
  <2>1. asked' \in [Attempts -> SUBSET Selected(Forward)]
    BY <1>3 DEF StartApply, IInv, TypeOK
  <2> QED
    BY <1>1, <1>3, <2>1 DEF StartApply
<1>4. CASE ResumeApply
  BY <1>2, <1>4 DEF ResumeApply
<1>5. ASSUME NEW t \in Attempts, StartRecover(t) PROVE IInv'
  BY <1>2, <1>5 DEF StartRecover
<1>6. ASSUME NEW t \in Undos, NEW S \in SUBSET Archives, StartUndo(t, S) PROVE IInv'
  <2>1. S \in SUBSET Selected(Forward)
    BY <1>6 DEF StartUndo, Undoable
  <2>2. asked' \in [Attempts -> SUBSET Selected(Forward)]
    BY <1>6, <2>1 DEF StartUndo, IInv, TypeOK
  <2> QED
    BY <1>1, <1>6, <2>2 DEF StartUndo
<1>7. ASSUME NEW t \in Undos, ResumeUndo(t) PROVE IInv'
  BY <1>2, <1>7 DEF ResumeUndo
<1> QED
  BY <1>3, <1>4, <1>5, <1>6, <1>7 DEF Operator

LEMMA InvHeader == IInv /\ WriteHeader => IInv'
<1> SUFFICES ASSUME IInv, WriteHeader PROVE IInv'
  OBVIOUS
<1> USE DEF WriteHeader, bounds
<1>1. TypeOK'
  BY DEF IInv, TypeOK, Selected, Steps, Contents
<1>2. ChainsValid' /\ KeeperFirst'
  BY DEF IInv, ChainsValid, ChainValid, KeeperFirst, Started, Complete
<1>3. RunOK'
  BY DEF IInv, RunOK, StepPCs
<1>4. FamilyOK'
  BY DEF IInv, RunOK, FamilyOK, StepPCs, Complete
<1> QED
  BY <1>1, <1>2, <1>3, <1>4 DEF IInv

\* The catalogue transaction of a step whose done receipt is there.
LEMMA CommitKeeps ==
  ASSUME IInv, attempt \in Attempts, NEW a \in Archives,
         done[attempt][a] = Frontier(attempt, a),
         CommitStep(attempt, a, Frontier(attempt, a)),
         UNCHANGED <<fs, journal, intent, done, confirmed, began, asked>>
  PROVE  /\ row' \in [Archives -> Paths] /\ marker' \in Receipts
         /\ marker'[attempt][a] = confirmed[attempt][a] + 1
         /\ ChainsValid' /\ KeeperFirst'
<1>1. /\ confirmed[attempt][a] \in Nat /\ intent[attempt][a] \in Nat
      /\ marker \in Receipts /\ row \in [Archives -> Paths]
  BY DEF IInv, TypeOK, Receipts
<1>2. \A t \in Attempts, b \in Archives : ChainValid(t, b)
  BY DEF IInv, ChainsValid
<1>3. Frontier(attempt, a) \in Nat /\ Frontier(attempt, a) \in 0 .. Len(Chain[a]) - 1
  BY <1>1, <1>2, LengthIsNat DEF Frontier, ChainValid
<1>4. row' \in [Archives -> Paths]
  BY <1>1, <1>3, WaypointIsPath DEF CommitStep, Destination
<1>5. /\ marker' \in Receipts
      /\ \A u \in Attempts, b \in Archives :
            marker'[u][b] = IF u = attempt /\ b = a THEN Frontier(attempt, a) ELSE marker[u][b]
  <2>1. marker' = [marker EXCEPT ![attempt][a] = Frontier(attempt, a)]
    BY DEF CommitStep
  <2> QED
    BY <1>1, <1>3, <2>1 DEF Receipts
<1>6. ASSUME NEW t \in Attempts, NEW b \in Archives PROVE ChainValid(t, b)'
  BY <1>1, <1>2, <1>5 DEF ChainValid, Frontier
<1>7. KeeperFirst'
  BY DEF IInv, KeeperFirst, Started, Complete
<1> QED
  BY <1>1, <1>4, <1>5, <1>6, <1>7 DEF ChainsValid, Frontier

\* The confirmed record of a step that is marked in the catalogue.
LEMMA ConfirmKeeps ==
  ASSUME IInv, attempt \in Attempts, NEW a \in Archives,
         marker[attempt][a] = Frontier(attempt, a),
         confirmed' = [confirmed EXCEPT ![attempt][a] = Frontier(attempt, a)],
         UNCHANGED <<fs, row, marker, journal, intent, done, began, asked>>
  PROVE  /\ confirmed' \in Receipts
         /\ \A u \in Attempts, b \in Archives :
              confirmed'[u][b] = IF u = attempt /\ b = a THEN confirmed[u][b] + 1 ELSE confirmed[u][b]
         /\ intent[attempt][a] = confirmed[attempt][a] + 1
         /\ done[attempt][a] = confirmed[attempt][a] + 1
         /\ ChainsValid' /\ KeeperFirst'
         /\ \A t \in Attempts, b \in Archives : Complete(t, b) => Complete(t, b)'
<1>1. /\ \A t \in Attempts, b \in Archives :
            confirmed[t][b] \in Nat /\ intent[t][b] \in Nat /\ marker[t][b] \in Nat /\ done[t][b] \in Nat
      /\ confirmed \in Receipts
  BY DEF IInv, TypeOK, Receipts
<1>2. \A t \in Attempts, b \in Archives : ChainValid(t, b)
  BY DEF IInv, ChainsValid
<1>3. intent[attempt][a] = confirmed[attempt][a] + 1 /\ done[attempt][a] = confirmed[attempt][a] + 1
  BY <1>1, <1>2 DEF ChainValid, Frontier
<1>4. confirmed[attempt][a] + 1 < Len(Chain[a])
  BY <1>2, <1>3 DEF ChainValid
<1>5. /\ confirmed' \in Receipts
      /\ \A u \in Attempts, b \in Archives :
            confirmed'[u][b] = IF u = attempt /\ b = a THEN confirmed[u][b] + 1 ELSE confirmed[u][b]
  <2>1. Frontier(attempt, a) \in Nat
    BY <1>1 DEF Frontier
  <2>2. /\ confirmed' \in Receipts
        /\ \A u \in Attempts, b \in Archives :
              confirmed'[u][b] = IF u = attempt /\ b = a THEN Frontier(attempt, a) ELSE confirmed[u][b]
    BY <1>1, <2>1 DEF Receipts
  <2> QED
    BY <2>2 DEF Frontier
<1>6. ASSUME NEW t \in Attempts, NEW b \in Archives PROVE ChainValid(t, b)'
  BY <1>1, <1>2, <1>5, <1>3 DEF ChainValid, Frontier
<1>7. ASSUME NEW t \in Attempts, NEW b \in Archives, Complete(t, b) PROVE Complete(t, b)'
  BY <1>1, <1>4, <1>5, <1>7, LengthIsNat DEF Complete
<1>8. KeeperFirst'
  <2>1. Forward \in Attempts /\ \A b \in Archives : Keeper[b] \in Archives
    BY PlanAssumption DEF Attempts
  <2> QED
    BY <1>7, <2>1 DEF IInv, KeeperFirst, Started
<1> QED
  BY <1>3, <1>5, <1>6, <1>7, <1>8 DEF ChainsValid

LEMMA InvResolve == ASSUME NEW a \in Archives, IInv, Resolve(a) PROVE IInv'
<1>1. /\ pc = "recover" /\ attempt \in Attempts
      /\ UNCHANGED <<pc, mode, attempt, item, bounds>>
  BY DEF Resolve, IInv, RunOK
<1>2. /\ pc = "recover" /\ mode \in {"none", "apply", "recover", "undo"}
      /\ left \subseteq Archives /\ item \in Archives \cup {NoArchive} /\ refused \in BOOLEAN
  BY <1>1 DEF IInv, TypeOK
<1>3. /\ RunOK' /\ FamilyOK'
  BY <1>1 DEF IInv, RunOK, FamilyOK, StepPCs
<1>4. CASE /\ Verdict(attempt, a) \in {"settled", "refused"}
           /\ UNCHANGED disk /\ left' = left \ {a} /\ refused' \in BOOLEAN
  BY <1>1, <1>2, <1>3, <1>4, InvDecide
<1>5. CASE /\ Verdict(attempt, a) = "commit"
           /\ CommitStep(attempt, a, Frontier(attempt, a))
           /\ left' \in SUBSET Archives
           /\ UNCHANGED <<fs, journal, intent, done, confirmed, began, asked, refused>>
  <2>1. done[attempt][a] = Frontier(attempt, a)
    <3>1. ChainValid(attempt, a) /\ ~(done[attempt][a] < Frontier(attempt, a))
      BY <1>5 DEF Verdict
    <3>2. /\ done[attempt][a] \in Nat /\ intent[attempt][a] \in Nat
          /\ confirmed[attempt][a] \in Nat
      BY <1>1 DEF IInv, TypeOK, Receipts
    <3> QED
      BY <3>1, <3>2 DEF ChainValid, Frontier
  <2>2. /\ row' \in [Archives -> Paths] /\ marker' \in Receipts
        /\ ChainsValid' /\ KeeperFirst'
    BY <1>1, <1>5, <2>1, CommitKeeps
  <2>3. TypeOK'
    BY <1>1, <1>2, <1>5, <2>2 DEF IInv, TypeOK, bounds, Selected, Steps, Contents
  <2> QED
    BY <1>3, <2>2, <2>3 DEF IInv
<1>6. CASE /\ Verdict(attempt, a) = "confirm"
           /\ confirmed' = [confirmed EXCEPT ![attempt][a] = Frontier(attempt, a)]
           /\ left' \in SUBSET Archives
           /\ UNCHANGED <<fs, row, marker, journal, intent, done, began, asked, refused>>
  <2>1. marker[attempt][a] = Frontier(attempt, a)
    <3>1. ChainValid(attempt, a) /\ ~(marker[attempt][a] < Frontier(attempt, a))
      BY <1>6 DEF Verdict
    <3>2. /\ done[attempt][a] \in Nat /\ intent[attempt][a] \in Nat
          /\ confirmed[attempt][a] \in Nat /\ marker[attempt][a] \in Nat
      BY <1>1 DEF IInv, TypeOK, Receipts
    <3> QED
      BY <3>1, <3>2 DEF ChainValid, Frontier
  <2>2. confirmed' \in Receipts /\ ChainsValid' /\ KeeperFirst'
    BY <1>1, <1>6, <2>1, ConfirmKeeps
  <2>3. TypeOK'
    BY <1>1, <1>2, <1>6, <2>2 DEF IInv, TypeOK, bounds, Selected, Steps, Contents
  <2> QED
    BY <1>3, <2>2, <2>3 DEF IInv
<1> QED
  BY <1>2, <1>4, <1>5, <1>6 DEF Resolve, Advance

LEMMA InvRecoveryEnds == IInv /\ RecoveryEnds => IInv'
<1> SUFFICES ASSUME IInv, RecoveryEnds PROVE IInv'
  OBVIOUS
<1>0. /\ interruptions' \in Nat /\ meddled' \in Nat
      /\ journal' \in [Attempts -> {"absent", "ok", "torn"}]
      /\ UNCHANGED <<disk, bounds>>
  BY DEF RecoveryEnds, disk, bounds, IInv, TypeOK
<1>1. CASE EndRun
  BY <1>0, <1>1, InvEnd DEF disk
<1>2. CASE ~EndRun
  <2>1. /\ pc = "recover" /\ pc' = "unit" /\ mode # "recover"
        /\ left' = IF mode = "apply" THEN Archives ELSE asked[attempt]
        /\ UNCHANGED <<mode, attempt, item, refused>>
    BY <1>2 DEF RecoveryEnds
  <2>2. attempt \in Attempts /\ left' \in SUBSET Archives
    BY <2>1 DEF IInv, RunOK, TypeOK, Selected
  <2>3. RunOK'
    BY <2>1 DEF IInv, RunOK, StepPCs
  <2>4. FamilyOK'
    <3>1. item = NoArchive /\ NoArchive \notin Archives /\ \A a \in Archives : Keeper[a] \in Archives
      BY <2>1, PlanAssumption DEF IInv, RunOK, StepPCs
    <3> QED
      BY <2>1, <3>1 DEF FamilyOK, StepPCs
  <2> QED
    BY <1>0, <2>1, <2>2, <2>3, <2>4, InvDecide DEF IInv, TypeOK
<1> QED
  BY <1>1, <1>2

-----------------------------------------------------------------------------
(* Units and actions.                                                      *)

LEMMA Counters ==
  ASSUME IInv, NEW t \in Attempts, NEW a \in Archives
  PROVE  /\ intent[t][a] \in Nat /\ done[t][a] \in Nat
         /\ marker[t][a] \in Nat /\ confirmed[t][a] \in Nat
         /\ ChainValid(t, a)
         /\ Len(Chain[a]) \in Nat /\ Len(Chain[a]) >= 1
         /\ confirmed[t][a] <= Len(Chain[a]) - 1
         /\ Complete(t, a) \/ confirmed[t][a] < Len(Chain[a]) - 1
<1>1. /\ intent[t][a] \in Nat /\ done[t][a] \in Nat
      /\ marker[t][a] \in Nat /\ confirmed[t][a] \in Nat
      /\ ChainValid(t, a)
  BY DEF IInv, TypeOK, Receipts, ChainsValid
<1>2. Len(Chain[a]) \in Nat /\ Len(Chain[a]) >= 1
  BY PlanAssumption
<1> QED
  BY <1>1, <1>2 DEF ChainValid, Complete

\* What is left of an apply when a whole unit has been taken out of the loop.
LEMMA UnitLeaves ==
  ASSUME IInv, mode = "apply", pc \in {"unit"} \cup StepPCs, NEW b \in Archives,
         Continue(left \ Unit(b)), UNCHANGED <<disk, bounds>>,
         pc = "unit" \/ b = item
  PROVE  IInv'
<1>1. /\ pc' = "unit" /\ left' = left \ Unit(b) /\ item' = NoArchive
      /\ mode' = "apply" /\ UNCHANGED <<mode, attempt, refused>>
  BY DEF Continue
<1>2. attempt = Forward /\ attempt \in Attempts
  BY DEF IInv, RunOK, StepPCs
<1>3. RunOK'
  BY <1>1, <1>2 DEF IInv, RunOK, StepPCs
<1>4. ASSUME NEW a \in left', a # Keeper[a]
      PROVE  /\ (Keeper[a] \notin left' => Complete(Forward, Keeper[a]))
             /\ (Keeper[a] \notin left' => done[Forward][a] = confirmed[Forward][a])
  <2>1. a \in left /\ a \in Archives /\ Keeper[a] # Keeper[b]
    BY <1>1 DEF IInv, TypeOK, Unit
  <2>2. Keeper[a] \in Archives /\ Keeper[Keeper[a]] = Keeper[a]
    BY <2>1, PlanAssumption
  <2>3. Keeper[a] \notin left' => Keeper[a] \notin left
    BY <1>1, <2>1, <2>2 DEF Unit
  <2>4. a # item
    <3>1. CASE pc = "unit"
      BY <2>1, <3>1, PlanAssumption DEF IInv, RunOK, StepPCs
    <3>2. CASE b = item
      BY <2>1, <3>2
    <3> QED
      BY <3>1, <3>2
  <2> QED
    BY <1>4, <2>1, <2>3, <2>4 DEF IInv, FamilyOK, StepPCs
<1>5. FamilyOK'
  <2>1. \A a \in left' : Keeper[a] # NoArchive
    BY <1>1, PlanAssumption DEF IInv, TypeOK
  <2>2. UNCHANGED <<confirmed, done>>
    BY DEF disk
  <2> QED
    BY <1>1, <1>4, <2>1, <2>2 DEF FamilyOK, StepPCs, Complete
<1> QED
  BY <1>1, <1>2, <1>3, <1>5, InvDecide DEF IInv, TypeOK

LEMMA InvQuietEnd == IInv /\ EndRun /\ UNCHANGED <<disk, bounds>> => IInv'
  BY InvEnd DEF IInv, TypeOK, disk, bounds

LEMMA InvBeginUnit == ASSUME NEW k \in Archives, IInv, BeginUnit(k) PROVE IInv'
<1>1. /\ pc = "unit" /\ mode = "apply" /\ k = Keeper[k] /\ k \in left
      /\ attempt = Forward /\ attempt \in Attempts /\ item = NoArchive
      /\ UNCHANGED <<disk, bounds>>
  BY DEF BeginUnit, IsNext, IInv, RunOK, StepPCs
<1>2. CASE EndRun
  BY <1>1, <1>2, InvQuietEnd
<1>3. CASE Continue(left \ Unit(k))
  BY <1>1, <1>3, UnitLeaves
<1>4. ASSUME \A a \in Unit(k) : ~NeedsRecovery(a)
      PROVE  \A a \in Unit(k) : done[Forward][a] = confirmed[Forward][a]
  BY <1>1, <1>4, Counters DEF NeedsRecovery, Unit, ChainValid
<1>5. CASE /\ \A a \in Unit(k) : ~NeedsRecovery(a)
           /\ Complete(attempt, k) /\ Continue(left \ {k})
  <2>1. /\ pc' = "unit" /\ left' = left \ {k} /\ item' = NoArchive
        /\ mode' = "apply" /\ UNCHANGED <<mode, attempt, refused>>
    BY <1>1, <1>5 DEF Continue
  <2>2. RunOK'
    BY <1>1, <2>1 DEF IInv, RunOK, StepPCs
  <2>3. ASSUME NEW a \in left', a # Keeper[a], Keeper[a] \notin left'
        PROVE  Complete(Forward, Keeper[a]) /\ done[Forward][a] = confirmed[Forward][a]
    <3>1. a \in left /\ a \in Archives /\ a # item
      BY <1>1, <2>1, PlanAssumption DEF IInv, TypeOK
    <3>2. CASE Keeper[a] = k
      BY <1>1, <1>4, <1>5, <3>1, <3>2 DEF Unit
    <3>3. CASE Keeper[a] # k
      BY <1>1, <2>1, <2>3, <3>1, <3>3 DEF IInv, FamilyOK, StepPCs
    <3> QED
      BY <3>2, <3>3
  <2>4. FamilyOK'
    <3>1. \A a \in left' : Keeper[a] # NoArchive
      BY <2>1, PlanAssumption DEF IInv, TypeOK
    <3>2. UNCHANGED <<confirmed, done>>
      BY <1>1 DEF disk
    <3> QED
      BY <2>1, <2>3, <3>1, <3>2 DEF FamilyOK, StepPCs, Complete
  <2> QED
    BY <1>1, <2>1, <2>2, <2>4, InvDecide DEF IInv, TypeOK
<1>6. CASE /\ \A a \in Unit(k) : ~NeedsRecovery(a)
           /\ ~Complete(attempt, k) /\ Take(k)
  <2>1. /\ pc' = "intent" /\ item' = k /\ UNCHANGED <<mode, attempt, left, refused>>
    BY <1>6 DEF Take
  <2>2. UNCHANGED <<confirmed, done, intent, marker>>
    BY <1>1 DEF disk
  <2>3. done[Forward][k] = confirmed[Forward][k] /\ confirmed[Forward][k] < Len(Chain[k]) - 1
    BY <1>1, <1>4, <1>6, Counters DEF Unit
  <2>4. RunOK'
    BY <1>1, <2>1, <2>2, <2>3 DEF IInv, RunOK, StepPCs
  <2>5. ASSUME NEW a \in left', a # Keeper[a]
        PROVE  /\ Keeper[a] \notin left => Complete(Forward, Keeper[a])
               /\ (Keeper[a] \notin left \/ Keeper[a] = k) => done[Forward][a] = confirmed[Forward][a]
    <3>1. a \in left /\ a \in Archives /\ a # item
      BY <1>1, <2>1, PlanAssumption DEF IInv, TypeOK
    <3>2. Keeper[a] = k => a \in Unit(k)
      BY <1>1, <3>1 DEF Unit
    <3> QED
      BY <1>1, <1>4, <1>6, <2>5, <3>1, <3>2 DEF IInv, FamilyOK, StepPCs
  <2>6. FamilyOK'
    BY <1>1, <2>1, <2>2, <2>5 DEF FamilyOK, Complete
  <2> QED
    BY <1>1, <2>1, <2>4, <2>6, InvDecide DEF IInv, TypeOK, StepPCs
<1> QED
  BY <1>1, <1>2, <1>3, <1>5, <1>6 DEF BeginUnit, Block

LEMMA InvBeginDependant == ASSUME NEW d \in Archives, IInv, BeginDependant(d) PROVE IInv'
<1>1. /\ pc = "unit" /\ mode = "apply" /\ d # Keeper[d] /\ d \in left /\ IsNext(d)
      /\ attempt = Forward /\ attempt \in Attempts /\ item = NoArchive
      /\ UNCHANGED <<disk, bounds>>
  BY DEF BeginDependant, IsNext, IInv, RunOK, StepPCs
<1>2. Keeper[d] \notin left
  <2>1. Keeper[d] \in Archives /\ d \in Unit(d)
    BY PlanAssumption DEF Unit
  <2>2. Place[Keeper[d]] <= Place[d] /\ Place[d] \in Nat /\ Place[Keeper[d]] \in Nat
    BY <2>1, PlanAssumption
  <2>3. Keeper[d] \in left => Place[d] <= Place[Keeper[d]]
    BY <1>1 DEF IsNext, Before
  <2>4. Place[d] = Place[Keeper[d]] => d = Keeper[d]
    BY <2>1, PlanAssumption
  <2> QED
    BY <1>1, <2>2, <2>3, <2>4
<1>3. CASE Block(d)
  BY <1>1, <1>3, UnitLeaves DEF Block
<1>4. CASE Continue(left \ {d})
  <2>1. /\ pc' = "unit" /\ left' = left \ {d} /\ item' = NoArchive
        /\ mode' = "apply" /\ UNCHANGED <<mode, attempt, refused>>
    BY <1>1, <1>4 DEF Continue
  <2>2. RunOK'
    BY <1>1, <2>1 DEF IInv, RunOK, StepPCs
  <2>3. \A a \in left' : a \in Archives /\ a # NoArchive /\ Keeper[a] # NoArchive /\ Keeper[a] # d
    BY <1>1, <2>1, PlanAssumption DEF IInv, TypeOK
  <2>4. UNCHANGED <<confirmed, done>>
    BY <1>1 DEF disk
  <2>5. FamilyOK'
    BY <1>1, <2>1, <2>3, <2>4 DEF IInv, FamilyOK, StepPCs, Complete
  <2> QED
    BY <1>1, <2>1, <2>2, <2>5, InvDecide DEF IInv, TypeOK
<1>5. CASE ~Complete(attempt, d) /\ Take(d)
  <2>1. /\ pc' = "intent" /\ item' = d /\ UNCHANGED <<mode, attempt, left, refused>>
    BY <1>5 DEF Take
  <2>2. UNCHANGED <<confirmed, done, intent, marker>>
    BY <1>1 DEF disk
  <2>3. d # item /\ \A a \in left : a \in Archives /\ a # item /\ Keeper[a] # d
    BY <1>1, PlanAssumption DEF IInv, TypeOK
  <2>4. /\ done[Forward][d] = confirmed[Forward][d] /\ Complete(Forward, Keeper[d])
        /\ confirmed[Forward][d] < Len(Chain[d]) - 1
    BY <1>1, <1>2, <1>5, <2>3, Counters DEF IInv, FamilyOK, StepPCs
  <2>5. RunOK'
    BY <1>1, <2>1, <2>2, <2>4 DEF IInv, RunOK, StepPCs
  <2>6. FamilyOK'
    BY <1>1, <2>1, <2>2, <2>3, <2>4 DEF IInv, FamilyOK, StepPCs, Complete
  <2> QED
    BY <1>1, <2>1, <2>5, <2>6, InvDecide DEF IInv, TypeOK, StepPCs
<1> QED
  BY <1>3, <1>4, <1>5 DEF BeginDependant

LEMMA InvBeginUndo == ASSUME NEW a \in Archives, IInv, BeginUndo(a) PROVE IInv'
<1>1. /\ pc = "unit" /\ mode = "undo" /\ a \in left
      /\ attempt \in Undos /\ attempt \in Attempts /\ item = NoArchive
      /\ UNCHANGED <<disk, bounds>>
  BY DEF BeginUndo, IsNext, IInv, RunOK, StepPCs
<1>2. CASE EndRun
  BY <1>1, <1>2, InvQuietEnd
<1>3. CASE Continue(left \ {a})
  <2>1. /\ pc' = "unit" /\ left' = left \ {a} /\ item' = NoArchive
        /\ UNCHANGED <<mode, attempt, refused>>
    BY <1>1, <1>3 DEF Continue
  <2>2. RunOK' /\ FamilyOK'
    BY <1>1, <2>1 DEF IInv, RunOK, FamilyOK, StepPCs
  <2> QED
    BY <1>1, <2>1, <2>2, InvDecide DEF IInv, TypeOK
<1>4. CASE ~NeedsRecovery(a) /\ ~Complete(attempt, a) /\ Take(a)
  <2>1. /\ pc' = "intent" /\ item' = a /\ UNCHANGED <<mode, attempt, left, refused>>
    BY <1>4 DEF Take
  <2>2. UNCHANGED <<confirmed, done, intent, marker>>
    BY <1>1 DEF disk
  <2>3. /\ done[attempt][a] = confirmed[attempt][a]
        /\ confirmed[attempt][a] < Len(Chain[a]) - 1
    BY <1>1, <1>4, Counters DEF NeedsRecovery, ChainValid
  <2>4. RunOK' /\ FamilyOK'
    BY <1>1, <2>1, <2>2, <2>3 DEF IInv, RunOK, FamilyOK, StepPCs
  <2> QED
    BY <1>1, <2>1, <2>4, InvDecide DEF IInv, TypeOK, StepPCs
<1> QED
  BY <1>1, <1>2, <1>3, <1>4 DEF BeginUndo, Block

-----------------------------------------------------------------------------
(* The step protocol.                                                      *)

\* What the run state says of the step in `item`.
LEMMA ItemFacts ==
  ASSUME IInv, pc \in StepPCs
  PROVE  /\ item \in Archives /\ attempt \in Attempts
         /\ \/ mode = "apply" /\ attempt = Forward
            \/ mode = "undo" /\ attempt \in Undos
         /\ CurrentStep = confirmed[attempt][item] + 1
         /\ CurrentStep \in Nat /\ CurrentStep \in 0 .. Len(Chain[item]) - 1
         /\ CurrentStep - 1 \in 0 .. Len(Chain[item]) - 1
         /\ Source(attempt, item, CurrentStep) \in Paths
         /\ Destination(attempt, item, CurrentStep) \in Paths
<1>1. /\ item \in Archives /\ attempt \in Attempts
      /\ \/ mode = "apply" /\ attempt = Forward
         \/ mode = "undo" /\ attempt \in Undos
      /\ confirmed[attempt][item] < Len(Chain[item]) - 1
  <2>1. RunOK /\ mode \in {"none", "apply", "recover", "undo"} /\ pc # "off" /\ pc # "recover"
    BY DEF IInv, TypeOK, StepPCs
  <2> QED
    BY <2>1 DEF RunOK
<1>2. /\ CurrentStep = confirmed[attempt][item] + 1
      /\ CurrentStep \in Nat /\ CurrentStep \in 0 .. Len(Chain[item]) - 1
      /\ CurrentStep - 1 \in 0 .. Len(Chain[item]) - 1
  BY <1>1, Counters DEF CurrentStep, Frontier
<1> QED
  BY <1>1, <1>2, WaypointIsPath DEF Source, Destination

\* The steps of the protocol keep the families' order: they change the item's
\* receipts only.
LEMMA FamilyKeeps ==
  ASSUME IInv, pc \in StepPCs, pc' \in StepPCs, UNCHANGED <<mode, attempt, left, item>>,
         \A t \in Attempts, b \in Archives : Complete(t, b) => Complete(t, b)',
         \A t \in Attempts, b \in Archives : b # item =>
            done'[t][b] = done[t][b] /\ confirmed'[t][b] = confirmed[t][b]
  PROVE  FamilyOK'
<1>1. Forward \in Attempts /\ \A b \in Archives : Keeper[b] \in Archives
  BY PlanAssumption DEF Attempts
<1>2. item \in Archives /\ left \subseteq Archives
  BY ItemFacts DEF IInv, TypeOK
<1> QED
  BY <1>1, <1>2 DEF IInv, FamilyOK, StepPCs

LEMMA InvIntent == IInv /\ Intent => IInv'
<1> SUFFICES ASSUME IInv, Intent PROVE IInv'
  OBVIOUS
<1>1. pc = "intent" /\ pc \in StepPCs /\ UNCHANGED bounds
  BY DEF Intent, StepPCs
<1>2. CASE EndRun /\ UNCHANGED disk
  BY <1>1, <1>2, InvQuietEnd
<1>3. CASE InFlight(attempt, item) /\ Step("verify") /\ UNCHANGED disk
  <2>1. /\ intent[attempt][item] = confirmed[attempt][item] + 1
        /\ done[attempt][item] = confirmed[attempt][item]
    <3>1. done[attempt][item] = confirmed[attempt][item]
      BY <1>1 DEF IInv, RunOK
    <3> QED
      BY <1>1, <1>3, <3>1, ItemFacts, Counters DEF InFlight, ChainValid
  <2>2. pc' = "verify" /\ UNCHANGED <<mode, attempt, left, item, refused, disk>>
    BY <1>3 DEF Step
  <2>3. RunOK'
    BY <1>1, <2>1, <2>2 DEF IInv, RunOK, StepPCs, disk
  <2>4. FamilyOK'
    BY <1>1, <2>2, FamilyKeeps DEF StepPCs, disk, Complete
  <2> QED
    BY <1>1, <2>2, <2>3, <2>4, InvDecide DEF IInv, TypeOK, StepPCs
<1>4. CASE Block(item) /\ UNCHANGED disk
  BY <1>1, <1>2, <1>4, UnitLeaves, ItemFacts DEF Block
<1>5. CASE /\ ~InFlight(attempt, item)
           /\ intent' = [intent EXCEPT ![attempt][item] = CurrentStep]
           /\ began' = IF attempt = Forward /\ began[item] = 0
                       THEN [began EXCEPT ![item] = Cardinality({b \in Archives : began[b] > 0}) + 1]
                       ELSE began
           /\ Step("verify")
           /\ UNCHANGED <<fs, row, marker, journal, done, confirmed, asked>>
  <2>1. /\ item \in Archives /\ attempt \in Attempts /\ CurrentStep \in Nat
        /\ CurrentStep = confirmed[attempt][item] + 1 /\ CurrentStep <= Len(Chain[item]) - 1
    BY <1>1, ItemFacts
  <2>2. /\ intent' \in Receipts
        /\ \A u \in Attempts, b \in Archives :
             intent'[u][b] = IF u = attempt /\ b = item THEN CurrentStep ELSE intent[u][b]
    BY <1>5, <2>1 DEF IInv, TypeOK, Receipts
  <2>3. began' \in [Archives -> Nat]
    <3>1. Cardinality({b \in Archives : began[b] > 0}) \in Nat
      BY FS_Subset, FS_CardinalityType, PlanAssumption
    <3>2. began \in [Archives -> Nat] /\ item \in Archives
      BY <2>1 DEF IInv, TypeOK
    <3>3. CASE began' = began
      BY <3>2, <3>3
    <3>4. CASE began' = [began EXCEPT ![item] = Cardinality({b \in Archives : began[b] > 0}) + 1]
      BY <3>1, <3>2, <3>4
    <3> QED
      BY <1>5, <3>3, <3>4
  <2>4. pc' = "verify" /\ UNCHANGED <<mode, attempt, left, item, refused>>
    BY <1>5 DEF Step
  <2>5. TypeOK'
    BY <1>1, <1>5, <2>2, <2>3, <2>4 DEF IInv, TypeOK, Selected, Steps, Contents, bounds
  <2>6. done[attempt][item] = confirmed[attempt][item]
    BY <1>1 DEF IInv, RunOK
  <2>7. ChainsValid'
    <3>1. ASSUME NEW t \in Attempts, NEW b \in Archives PROVE ChainValid(t, b)'
      BY <1>5, <2>1, <2>2, <2>6, <3>1, Counters DEF ChainValid, InFlight
    <3> QED
      BY <3>1 DEF ChainsValid
  <2>8. RunOK'
    BY <1>1, <1>5, <2>1, <2>2, <2>4, <2>6 DEF IInv, RunOK, StepPCs
  <2>9. FamilyOK'
    BY <1>1, <1>5, <2>4, FamilyKeeps DEF StepPCs, Complete
  <2>10. KeeperFirst'
    <3>1. \A b \in Archives : Started(Forward, b)' =>
            Started(Forward, b) \/ (b = item /\ attempt = Forward)
      <4>1. Forward \in Attempts
        BY DEF Attempts
      <4>2. ASSUME NEW b \in Archives, intent'[Forward][b] > 0
            PROVE  intent[Forward][b] > 0 \/ (b = item /\ attempt = Forward)
        BY <2>2, <4>1, <4>2
      <4> QED
        BY <4>2 DEF Started
    <3>2. attempt = Forward => item = Keeper[item] \/ Complete(Forward, Keeper[item])
      BY <1>1, ItemFacts, PlanAssumption DEF IInv, FamilyOK, StepPCs
    <3> QED
      BY <1>5, <3>1, <3>2 DEF IInv, KeeperFirst, Complete
  <2> QED
    BY <2>5, <2>7, <2>8, <2>9, <2>10 DEF IInv
<1> QED
  BY <1>2, <1>3, <1>4, <1>5 DEF Intent

LEMMA InvVerify == IInv /\ Verify => IInv'
<1> SUFFICES ASSUME IInv, Verify PROVE IInv'
  OBVIOUS
<1>1. pc = "verify" /\ pc \in StepPCs /\ UNCHANGED <<disk, bounds>>
  BY DEF Verify, StepPCs
<1>2. CASE EndRun
  BY <1>1, <1>2, InvQuietEnd
<1>3. CASE Step("rename")
  <2>1. pc' = "rename" /\ UNCHANGED <<mode, attempt, left, item, refused, disk>>
    BY <1>1, <1>3 DEF Step
  <2>2. RunOK'
    BY <1>1, <2>1 DEF IInv, RunOK, StepPCs, disk
  <2>3. FamilyOK'
    BY <1>1, <2>1, FamilyKeeps DEF StepPCs, disk, Complete
  <2> QED
    BY <1>1, <2>1, <2>2, <2>3, InvDecide DEF IInv, TypeOK, StepPCs
<1> QED
  BY <1>2, <1>3 DEF Verify

LEMMA InvRename == IInv /\ Rename => IInv'
<1> SUFFICES ASSUME IInv, Rename PROVE IInv'
  OBVIOUS
<1>1. pc = "rename" /\ pc \in StepPCs /\ UNCHANGED bounds
  BY DEF Rename, StepPCs
<1>2. CASE EndRun /\ UNCHANGED disk
  BY <1>1, <1>2, InvQuietEnd
<1>3. CASE /\ \E e \in Entries(Source(attempt, item, CurrentStep)) :
                fs' = [fs EXCEPT ![e] = NoFile, ![Destination(attempt, item, CurrentStep)] = fs[e]]
           /\ Step("done")
           /\ UNCHANGED <<row, marker, journal, intent, done, confirmed, began, asked>>
  <2>1. fs' \in [Paths -> Contents]
    BY <1>1, <1>3, ItemFacts DEF IInv, TypeOK, Entries, Contents
  <2>2. pc' = "done" /\ UNCHANGED <<mode, attempt, left, item, refused>>
    BY <1>3 DEF Step
  <2>3. TypeOK'
    BY <1>1, <1>3, <2>1, <2>2 DEF IInv, TypeOK, Selected, Steps, bounds
  <2>4. ChainsValid' /\ KeeperFirst'
    BY <1>3 DEF IInv, ChainsValid, ChainValid, KeeperFirst, Started, Complete
  <2>5. RunOK'
    BY <1>1, <1>3, <2>2 DEF IInv, RunOK, StepPCs
  <2>6. FamilyOK'
    BY <1>1, <1>3, <2>2, FamilyKeeps DEF StepPCs, Complete
  <2> QED
    BY <2>3, <2>4, <2>5, <2>6 DEF IInv
<1> QED
  BY <1>2, <1>3 DEF Rename

LEMMA InvWriteDone == IInv /\ WriteDone => IInv'
<1> SUFFICES ASSUME IInv, WriteDone PROVE IInv'
  OBVIOUS
<1>1. pc = "done" /\ pc \in StepPCs
  BY DEF WriteDone, StepPCs
<1>2. /\ item \in Archives /\ attempt \in Attempts /\ CurrentStep \in Nat
      /\ CurrentStep = confirmed[attempt][item] + 1
  BY <1>1, ItemFacts
<1>3. /\ done' \in Receipts
      /\ \A u \in Attempts, b \in Archives :
           done'[u][b] = IF u = attempt /\ b = item THEN CurrentStep ELSE done[u][b]
  BY <1>2 DEF WriteDone, IInv, TypeOK, Receipts
<1>4. /\ pc' = "commit" /\ UNCHANGED <<mode, attempt, left, item, refused>>
      /\ UNCHANGED <<fs, row, marker, journal, intent, confirmed, began, asked, bounds>>
  BY DEF WriteDone, Step
<1>5. TypeOK'
  BY <1>3, <1>4 DEF IInv, TypeOK, Selected, Steps, Contents, bounds
<1>6. intent[attempt][item] = CurrentStep /\ done[attempt][item] = confirmed[attempt][item]
  BY <1>1, <1>2 DEF IInv, RunOK
<1>7. ASSUME NEW t \in Attempts, NEW b \in Archives PROVE ChainValid(t, b)'
  <2>1. CASE t = attempt /\ b = item
    <3>1. done'[t][b] = intent[t][b] /\ done[t][b] = confirmed[t][b]
          /\ intent[t][b] = confirmed[t][b] + 1
      BY <1>2, <1>3, <1>6, <2>1
    <3> QED
      BY <1>4, <2>1, <3>1, Counters DEF ChainValid
  <2>2. CASE ~(t = attempt /\ b = item)
    <3>1. done'[t][b] = done[t][b]
      BY <1>3, <2>2
    <3> QED
      BY <1>4, <3>1, Counters DEF ChainValid
  <2> QED
    BY <2>1, <2>2
<1>8. RunOK'
  BY <1>1, <1>2, <1>3, <1>4 DEF IInv, RunOK, StepPCs
<1>9. FamilyOK'
  BY <1>1, <1>3, <1>4, FamilyKeeps DEF StepPCs, Complete
<1>10. KeeperFirst'
  BY <1>4 DEF IInv, KeeperFirst, Started, Complete
<1> QED
  BY <1>5, <1>7, <1>8, <1>9, <1>10 DEF IInv, ChainsValid

LEMMA InvCommit == IInv /\ Commit => IInv'
<1> SUFFICES ASSUME IInv, Commit PROVE IInv'
  OBVIOUS
<1>1. pc = "commit" /\ pc \in StepPCs /\ UNCHANGED bounds
  BY DEF Commit, StepPCs
<1>2. CASE EndRun /\ UNCHANGED disk
  BY <1>1, <1>2, InvQuietEnd
<1>3. CASE /\ CommitStep(attempt, item, CurrentStep)
           /\ Step("confirm")
           /\ UNCHANGED <<fs, journal, intent, done, confirmed, began, asked>>
  <2>1. item \in Archives /\ attempt \in Attempts /\ CurrentStep = confirmed[attempt][item] + 1
    BY <1>1, ItemFacts
  <2>2. done[attempt][item] = Frontier(attempt, item)
    BY <1>1 DEF IInv, RunOK, Frontier
  <2>3. /\ row' \in [Archives -> Paths] /\ marker' \in Receipts
        /\ marker'[attempt][item] = confirmed[attempt][item] + 1
        /\ ChainsValid' /\ KeeperFirst'
    BY <1>3, <2>1, <2>2, CommitKeeps DEF CurrentStep
  <2>4. pc' = "confirm" /\ UNCHANGED <<mode, attempt, left, item, refused>>
    BY <1>3 DEF Step
  <2>5. TypeOK'
    BY <1>1, <1>3, <2>3, <2>4 DEF IInv, TypeOK, Selected, Steps, Contents, bounds
  <2>6. RunOK'
    BY <1>1, <1>3, <2>3, <2>4 DEF IInv, RunOK, StepPCs
  <2>7. FamilyOK'
    BY <1>1, <1>3, <2>4, FamilyKeeps DEF StepPCs, Complete
  <2> QED
    BY <2>3, <2>5, <2>6, <2>7 DEF IInv
<1> QED
  BY <1>2, <1>3 DEF Commit

LEMMA InvConfirm == IInv /\ Confirm => IInv'
<1> SUFFICES ASSUME IInv, Confirm PROVE IInv'
  OBVIOUS
<1>1. /\ pc = "confirm" /\ pc \in StepPCs
      /\ UNCHANGED <<fs, row, marker, journal, intent, done, began, asked, bounds>>
      /\ confirmed' = [confirmed EXCEPT ![attempt][item] = CurrentStep]
  BY DEF Confirm, StepPCs
<1>2. /\ item \in Archives /\ attempt \in Attempts /\ CurrentStep = confirmed[attempt][item] + 1
      /\ CurrentStep <= Len(Chain[item]) - 1
      /\ \/ mode = "apply" /\ attempt = Forward
         \/ mode = "undo" /\ attempt \in Undos
  BY <1>1, ItemFacts
<1>3. marker[attempt][item] = Frontier(attempt, item)
  BY <1>1 DEF IInv, RunOK, Frontier
<1>4. /\ confirmed' \in Receipts
      /\ \A u \in Attempts, b \in Archives :
           confirmed'[u][b] = IF u = attempt /\ b = item THEN confirmed[u][b] + 1 ELSE confirmed[u][b]
      /\ done[attempt][item] = confirmed[attempt][item] + 1
      /\ ChainsValid' /\ KeeperFirst'
      /\ \A t \in Attempts, b \in Archives : Complete(t, b) => Complete(t, b)'
  BY <1>1, <1>2, <1>3, ConfirmKeeps DEF CurrentStep
<1>5. CASE CurrentStep = Len(Chain[item]) - 1 /\ Continue(left \ {item})
  <2>1. /\ pc' = "unit" /\ left' = left \ {item} /\ item' = NoArchive
        /\ UNCHANGED <<mode, attempt, refused>>
    BY <1>5 DEF Continue
  <2>2. TypeOK'
    BY <1>1, <1>4, <2>1 DEF IInv, TypeOK, Selected, Steps, Contents, bounds
  <2>3. RunOK'
    BY <1>1, <2>1 DEF IInv, RunOK, StepPCs
  <2>4. ASSUME mode = "apply", NEW a \in left', a # Keeper[a], Keeper[a] \notin left'
        PROVE  Complete(Forward, Keeper[a])' /\ done[Forward][a] = confirmed'[Forward][a]
    <3>1. a \in left /\ a \in Archives /\ a # item /\ attempt = Forward
      BY <1>2, <2>1, <2>4, PlanAssumption DEF IInv, TypeOK
    <3>2. Keeper[a] \in Archives /\ (Keeper[a] \notin left \/ Keeper[a] = item)
      BY <2>1, <2>4, <3>1, PlanAssumption
    <3>3. done[Forward][a] = confirmed'[Forward][a]
      BY <1>1, <1>2, <1>4, <2>4, <3>1, <3>2 DEF IInv, FamilyOK, StepPCs
    <3>4. CASE Keeper[a] = item
      BY <1>2, <1>4, <1>5, <3>1, <3>3, <3>4 DEF Complete
    <3>5. CASE Keeper[a] # item
      BY <1>1, <1>2, <1>4, <2>4, <3>1, <3>2, <3>3, <3>5 DEF IInv, FamilyOK, StepPCs
    <3> QED
      BY <3>4, <3>5
  <2>5. FamilyOK'
    <3>1. \A a \in left' : Keeper[a] # NoArchive
      BY <2>1, PlanAssumption DEF IInv, TypeOK
    <3> QED
      BY <1>1, <2>1, <2>4, <3>1 DEF FamilyOK, StepPCs
  <2> QED
    BY <1>4, <2>2, <2>3, <2>5 DEF IInv
<1>6. CASE CurrentStep # Len(Chain[item]) - 1 /\ Step("intent")
  <2>1. pc' = "intent" /\ UNCHANGED <<mode, attempt, left, item, refused>>
    BY <1>6 DEF Step
  <2>2. TypeOK'
    BY <1>1, <1>4, <2>1 DEF IInv, TypeOK, Selected, Steps, Contents, bounds
  <2>3. confirmed'[attempt][item] < Len(Chain[item]) - 1
    BY <1>2, <1>4, <1>6, LengthIsNat, Counters
  <2>4. RunOK'
    BY <1>1, <1>2, <1>4, <2>1, <2>3 DEF IInv, RunOK, StepPCs
  <2>5. FamilyOK'
    BY <1>1, <1>4, <2>1, FamilyKeeps DEF StepPCs
  <2> QED
    BY <1>4, <2>2, <2>4, <2>5 DEF IInv
<1> QED
  BY <1>5, <1>6 DEF Confirm

-----------------------------------------------------------------------------
(* The environment, and the theorems.                                      *)

LEMMA InvEnvironment ==
  ASSUME IInv, StopAtBoundary \/ RunFinishes \/ Crash
               \/ \E p \in Paths, c \in Contents : Outsider(p, c)
  PROVE  IInv'
<1> USE DEF disk, bounds
<1>1. CASE StopAtBoundary
  BY <1>1, InvEnd DEF StopAtBoundary, IInv, TypeOK
<1>2. CASE RunFinishes
  BY <1>2, InvQuietEnd DEF RunFinishes
<1>3. CASE Crash
  <2>1. journal' \in [Attempts -> {"absent", "ok", "torn"}]
    BY <1>3 DEF Crash, IInv, TypeOK
  <2> QED
    BY <1>3, <2>1, InvEnd DEF Crash, IInv, TypeOK
<1>4. ASSUME NEW p \in Paths, NEW c \in Contents, Outsider(p, c) PROVE IInv'
  <2>1. TypeOK'
    BY <1>4 DEF Outsider, IInv, TypeOK, Selected, Steps, run
  <2>2. ChainsValid' /\ KeeperFirst'
    BY <1>4 DEF Outsider, IInv, ChainsValid, ChainValid, KeeperFirst, Started, Complete
  <2>3. RunOK'
    BY <1>4 DEF Outsider, run, IInv, RunOK, StepPCs
  <2>4. FamilyOK'
    BY <1>4 DEF Outsider, run, IInv, FamilyOK, StepPCs, Complete
  <2> QED
    BY <2>1, <2>2, <2>3, <2>4 DEF IInv
<1> QED
  BY <1>1, <1>2, <1>3, <1>4

LEMMA InvStep == IInv /\ [Next]_vars => IInv'
<1> SUFFICES ASSUME IInv, [Next]_vars PROVE IInv'
  OBVIOUS
<1>1. CASE Operator
  BY <1>1, InvOperator
<1>2. CASE RunStep
  BY <1>2, InvHeader, InvRecoveryEnds, InvEnvironment, InvResolve, InvBeginUnit,
     InvBeginDependant, InvBeginUndo, InvIntent, InvVerify, InvRename, InvWriteDone,
     InvCommit, InvConfirm DEF RunStep
<1>3. CASE StopAtBoundary \/ Crash \/ \E p \in Paths, c \in Contents : Outsider(p, c)
  BY <1>3, InvEnvironment
<1>4. CASE UNCHANGED vars
  <2>1. UNCHANGED <<disk, bounds, pc, mode, attempt, left, item, refused>>
    BY <1>4 DEF vars, run
  <2>2. RunOK'
    BY <2>1 DEF IInv, RunOK, StepPCs, disk
  <2>3. FamilyOK'
    BY <2>1 DEF IInv, FamilyOK, StepPCs, disk, Complete
  <2> QED
    BY <2>1, <2>2, <2>3, InvDecide DEF IInv, TypeOK, StepPCs
<1> QED
  BY <1>1, <1>2, <1>3, <1>4 DEF Next

LEMMA InvAlways == Spec => []IInv
  BY InvInit, InvStep, PTL DEF Spec

\* Every reachable state is typed.
THEOREM TypeCorrect == Spec => []TypeOK
<1>1. IInv => TypeOK
  BY DEF IInv
<1> QED
  BY <1>1, InvAlways, PTL

\* ChainRefused is never raised: in every plan, whatever crashes, tears a record
\* or touches the files, each action's receipts and markers stay prefix-closed.
THEOREM ChainsValidAlways == Spec => []ChainsValid
<1>1. IInv => ChainsValid
  BY DEF IInv
<1> QED
  BY <1>1, InvAlways, PTL

\* No member of a family is moved before the keeper's rename is confirmed.
THEOREM KeeperFirstAlways == Spec => []KeeperFirst
<1>1. IInv => KeeperFirst
  BY DEF IInv
<1> QED
  BY <1>1, InvAlways, PTL

\* The program overwrites no file, its own or anybody's.
THEOREM NothingClobberedAlways == Spec => NothingClobbered
<1> DEFINE Kept ==
      \A p \in Paths :
        (fs[p] # NoFile /\ fs'[p] # fs[p] /\ meddled' = meddled) =>
            /\ fs'[p] = NoFile
            /\ \E q \in Paths : ~Occupied(q) /\ fs'[q] = fs[p]
<1>1. ASSUME IInv, Next PROVE Kept
  <2>1. CASE Rename /\ fs' # fs
    <3>1. pc \in StepPCs
      BY <2>1 DEF Rename, StepPCs
    <3>2. Destination(attempt, item, CurrentStep) \in Paths
      BY <1>1, <3>1, ItemFacts
    <3>3. PICK e \in Entries(Source(attempt, item, CurrentStep)) :
            fs' = [fs EXCEPT ![e] = NoFile, ![Destination(attempt, item, CurrentStep)] = fs[e]]
      BY <2>1 DEF Rename, disk
    <3>4. ~Occupied(Destination(attempt, item, CurrentStep))
      BY <2>1 DEF Rename, CanRename, disk
    <3>5. fs[Destination(attempt, item, CurrentStep)] = NoFile
      BY <3>2, <3>4 DEF Occupied, Entries
    <3>6. e \in Paths /\ fs[e] # NoFile /\ e # Destination(attempt, item, CurrentStep)
      BY <3>3, <3>5 DEF Entries
    <3>7. fs \in [Paths -> Contents]
      BY <1>1 DEF IInv, TypeOK
    <3> QED
      BY <3>2, <3>3, <3>4, <3>5, <3>6, <3>7
  <2>2. CASE \E p \in Paths, c \in Contents : Outsider(p, c)
    <3>1. meddled \in Nat /\ meddled' = meddled + 1
      BY <1>1, <2>2 DEF IInv, TypeOK, Outsider
    <3> QED
      BY <3>1
  <2>3. CASE fs' = fs
    BY <2>3
  <2> QED
    <3> USE DEF disk
    <3>1. CASE Operator
      BY <2>3, <3>1 DEF Operator, StartApply, ResumeApply, StartRecover, StartUndo, ResumeUndo
    <3>2. CASE RunStep
      <4>1. CASE WriteHeader \/ RecoveryEnds \/ RunFinishes \/ Verify \/ Confirm \/ WriteDone
        BY <2>3, <4>1 DEF WriteHeader, RecoveryEnds, RunFinishes, Verify, Confirm, WriteDone
      <4>2. CASE Intent \/ Commit
        BY <2>3, <4>2 DEF Intent, Commit
      <4>3. ASSUME NEW a \in Archives,
                   Resolve(a) \/ BeginUnit(a) \/ BeginDependant(a) \/ BeginUndo(a)
            PROVE  Kept
        BY <2>3, <4>3 DEF Resolve, BeginUnit, BeginDependant, BeginUndo
      <4>4. CASE Rename
        BY <2>1, <2>3, <4>4
      <4> QED
        BY <3>2, <4>1, <4>2, <4>3, <4>4 DEF RunStep
    <3>3. CASE StopAtBoundary \/ Crash
      BY <2>3, <3>3 DEF StopAtBoundary, Crash
    <3> QED
      BY <1>1, <2>2, <3>1, <3>2, <3>3 DEF Next
<1>2. IInv /\ [Next]_vars => [Kept]_vars
  BY <1>1
<1> QED
  BY <1>2, InvAlways, PTL DEF Spec, NothingClobbered

\* The safety of the executor, for any plan.
THEOREM SafetyHolds == Spec => Safety
BY TypeCorrect, ChainsValidAlways, KeeperFirstAlways, NothingClobberedAlways, PTL DEF Safety

-----------------------------------------------------------------------------
(* The order of attempts, and of what an undo takes back.                  *)

(* Nothing is on record before its journal, an undo asks for and touches   *)
(* only what the apply completed, and no two attempts are part-way.        *)
OrderOnDisk ==
    /\ \A t \in Attempts, a \in Archives : journal[t] = "absent" => ~Started(t, a)
    /\ \A t \in Undos, a \in Archives :
        /\ Started(t, a) => a \in asked[t]
        /\ a \in asked[t] => Complete(Forward, a)
    /\ AttemptsInOrder

(* While an attempt is applied or undone nothing else is part-way, and an  *)
(* undo has brought back what comes before the action it is at.            *)
RunInOrder ==
    /\ pc # "off" => journal[attempt] # "absent"
    /\ mode \in {"apply", "undo"} => \A u \in Attempts \ {attempt} : ~Partway(u)
    /\ mode = "undo" /\ pc # "recover" =>
        /\ left \subseteq asked[attempt]
        /\ \A b \in asked[attempt] \ left : Complete(attempt, b)
        /\ pc \in StepPCs => item \in left /\ \A b \in left : began[b] <= began[item]

OrderInv == OrderOnDisk /\ RunInOrder

LEMMA OrderInit == Init => OrderInv
<1> SUFFICES ASSUME Init PROVE OrderInv
  OBVIOUS
<1>1. \A t \in Attempts, a \in Archives : intent[t][a] = 0
  BY DEF Init
<1>2. \A t \in Attempts, a \in Archives : ~Started(t, a)
  BY <1>1 DEF Started
<1>3. Undos \subseteq Attempts /\ \A t \in Attempts : asked[t] = {}
  BY DEF Init, Attempts
<1>4. OrderOnDisk
  BY <1>2, <1>3 DEF OrderOnDisk, AttemptsInOrder, OneUnfinished, LatestUndoneFirst, Partway
<1>5. RunInOrder
  BY DEF Init, RunInOrder
<1> QED
  BY <1>4, <1>5 DEF OrderInv

\* A step that records no intent and takes no lock leaves the disk in order.
LEMMA OrderOnDiskKeeps ==
  ASSUME IInv, OrderOnDisk, UNCHANGED <<intent, began, asked>>,
         \A t \in Attempts : journal'[t] = "absent" => journal[t] = "absent",
         \A t \in Attempts, a \in Archives : Complete(t, a) => Complete(t, a)'
  PROVE  OrderOnDisk' /\ \A t \in Attempts : Partway(t)' => Partway(t)
<1>1. /\ Forward \in Attempts /\ Undos \subseteq Attempts
      /\ \A t \in Attempts : asked[t] \subseteq Archives
  BY DEF Attempts, IInv, TypeOK, Selected
<1>2. \A t, a : Started(t, a)' <=> Started(t, a)
  BY DEF Started
<1>3. \A t \in Attempts : Partway(t)' => Partway(t)
  BY <1>2 DEF Partway
<1>4. OneUnfinished'
  BY <1>3 DEF OrderOnDisk, AttemptsInOrder, OneUnfinished
<1>5. LatestUndoneFirst'
  <2>1. ASSUME NEW t \in Undos, NEW a \in asked[t], NEW b \in asked[t],
               Started(t, a), began[a] < began[b]
        PROVE  Complete(t, b)'
    <3>1. Complete(t, b) /\ t \in Attempts /\ b \in Archives
      BY <1>1, <2>1 DEF OrderOnDisk, AttemptsInOrder, LatestUndoneFirst
    <3> QED
      BY <3>1
  <2> QED
    BY <1>2, <2>1 DEF LatestUndoneFirst
<1> QED
  BY <1>1, <1>2, <1>3, <1>4, <1>5 DEF OrderOnDisk, AttemptsInOrder

\* A run that gives up leaves everything in order.
LEMMA OrderEnd ==
  ASSUME IInv, OrderInv, EndRun, UNCHANGED <<intent, confirmed, began, asked>>,
         \A t \in Attempts : journal'[t] = "absent" => journal[t] = "absent"
  PROVE  OrderInv'
<1>1. OrderOnDisk'
  BY OrderOnDiskKeeps DEF OrderInv, Complete
<1>2. RunInOrder'
  BY DEF EndRun, RunInOrder
<1> QED
  BY <1>1, <1>2 DEF OrderInv

\* A run that goes on without a new intent needs only mind what is left of an undo.
LEMMA OrderGoesOn ==
  ASSUME IInv, OrderInv, pc # "off", UNCHANGED <<mode, attempt>>,
         UNCHANGED <<intent, began, asked>>,
         \A t \in Attempts : journal'[t] = "absent" => journal[t] = "absent",
         \A t \in Attempts, a \in Archives : Complete(t, a) => Complete(t, a)',
         mode = "undo" /\ pc' # "recover" =>
            /\ left' \subseteq asked[attempt]
            /\ \A b \in asked[attempt] \ left' : Complete(attempt, b)'
            /\ pc' \in StepPCs => item' \in left' /\ \A b \in left' : began[b] <= began[item']
  PROVE  OrderInv'
<1>1. OrderOnDisk' /\ \A t \in Attempts : Partway(t)' => Partway(t)
  BY OrderOnDiskKeeps DEF OrderInv
<1>2. attempt \in Attempts
  BY DEF IInv, RunOK
<1>3. RunInOrder'
  BY <1>1, <1>2 DEF OrderInv, RunInOrder
<1> QED
  BY <1>1, <1>3 DEF OrderInv

\* A command finds every other attempt finished, recover() excepted.
LEMMA OrderOperator == IInv /\ OrderInv /\ Operator => OrderInv'
<1> SUFFICES ASSUME IInv, OrderInv, Operator PROVE OrderInv'
  OBVIOUS
<1>0. /\ Forward \in Attempts /\ Undos \subseteq Attempts /\ Forward \notin Undos
      /\ \A t \in Attempts : asked[t] \subseteq Archives
      /\ journal \in [Attempts -> {"absent", "ok", "torn"}]
      /\ asked \in [Attempts -> SUBSET Selected(Forward)]
  BY PlanAssumption DEF Attempts, IInv, TypeOK, Selected
<1>1. ASSUME NEW t \in Attempts, ~Unfinished(t) PROVE ~Partway(t)
  BY <1>1 DEF Unfinished, Partway, OrderInv, OrderOnDisk
<1>2. ASSUME NEW t \in Attempts, journal' = [journal EXCEPT ![t] = "torn"]
      PROVE  \A u \in Attempts : journal'[u] = "absent" => journal[u] = "absent"
  BY <1>0, <1>2
<1>3. ASSUME NEW m, NEW t \in Attempts, NEW p, NEW S, Begin(m, t, p, S), UNCHANGED disk,
             p = "recover", journal[t] = "ok",
             m \in {"apply", "undo"} => \A u \in Attempts \ {t} : ~Unfinished(u)
      PROVE  OrderInv'
  <2>1. OrderOnDisk' /\ \A u \in Attempts : Partway(u)' => Partway(u)
    BY <1>3, OrderOnDiskKeeps DEF OrderInv, disk, Complete
  <2>2. RunInOrder'
    BY <1>1, <1>3, <2>1 DEF Begin, RunInOrder, StepPCs, disk
  <2> QED
    BY <2>1, <2>2 DEF OrderInv
<1>4. CASE StartApply
  <2>1. /\ UNCHANGED <<intent, began, asked, confirmed>>
        /\ journal' = [journal EXCEPT ![Forward] = "torn"]
        /\ mode' = "apply" /\ attempt' = Forward /\ pc' = "header"
        /\ \A t \in Attempts : ~Partway(t)
    BY <1>1, <1>4 DEF StartApply, Begin
  <2>2. OrderOnDisk' /\ \A u \in Attempts : Partway(u)' => Partway(u)
    BY <1>0, <1>2, <2>1, OrderOnDiskKeeps DEF OrderInv, Complete
  <2>3. RunInOrder'
    BY <1>0, <2>1, <2>2 DEF RunInOrder, StepPCs
  <2> QED
    BY <2>2, <2>3 DEF OrderInv
<1>5. CASE ResumeApply
  BY <1>0, <1>3, <1>5 DEF ResumeApply
<1>6. ASSUME NEW t \in Attempts, StartRecover(t) PROVE OrderInv'
  BY <1>3, <1>6 DEF StartRecover
<1>7. ASSUME NEW t \in Undos, ResumeUndo(t) PROVE OrderInv'
  BY <1>0, <1>3, <1>7 DEF ResumeUndo
<1>8. ASSUME NEW t \in Undos, NEW S \in SUBSET Archives, StartUndo(t, S) PROVE OrderInv'
  <2>1. /\ UNCHANGED <<intent, began, confirmed>>
        /\ journal' = [journal EXCEPT ![t] = "torn"] /\ journal[t] = "absent"
        /\ asked' = [asked EXCEPT ![t] = S]
        /\ mode' = "undo" /\ attempt' = t /\ pc' = "header" /\ left' = S
        /\ \A u \in Attempts : ~Partway(u)
        /\ \A a \in S : Complete(Forward, a)
    BY <1>1, <1>8 DEF StartUndo, Begin, Undoable
  <2>2. /\ \A u \in Attempts : journal'[u] = "absent" => journal[u] = "absent"
        /\ \A u \in Attempts : asked'[u] = IF u = t THEN S ELSE asked[u]
        /\ journal'[t] = "torn"
    BY <1>0, <1>2, <2>1
  <2>3. \A u, a : (Started(u, a)' <=> Started(u, a)) /\ (Complete(u, a)' <=> Complete(u, a))
    BY <2>1 DEF Started, Complete
  <2>4. \A a \in Archives : ~Started(t, a)
    BY <1>0, <2>1 DEF OrderInv, OrderOnDisk
  <2>5. OneUnfinished'
    BY <2>1, <2>3 DEF OneUnfinished, Partway
  <2>6. LatestUndoneFirst'
    <3>1. ASSUME NEW u \in Undos, u # t, NEW a \in asked[u], NEW b \in asked[u],
                 Started(u, a), began[a] < began[b]
          PROVE  Complete(u, b)
      BY <3>1 DEF OrderInv, OrderOnDisk, AttemptsInOrder, LatestUndoneFirst
    <3> QED
      BY <1>0, <2>1, <2>2, <2>3, <2>4, <3>1 DEF LatestUndoneFirst
  <2>7. OrderOnDisk'
    BY <1>0, <2>1, <2>2, <2>3, <2>4, <2>5, <2>6 DEF OrderInv, OrderOnDisk, AttemptsInOrder
  <2>8. RunInOrder'
    BY <1>0, <2>1, <2>2, <2>3 DEF RunInOrder, StepPCs, Partway
  <2> QED
    BY <2>7, <2>8 DEF OrderInv
<1> QED
  BY <1>4, <1>5, <1>6, <1>7, <1>8 DEF Operator

\* Recovery, and the decisions between steps.
LEMMA OrderDecisions ==
  ASSUME IInv, OrderInv,
         \/ WriteHeader \/ RecoveryEnds \/ RunFinishes
         \/ \E a \in Archives : BeginUnit(a) \/ BeginDependant(a) \/ BeginUndo(a)
         \/ Verify \/ Rename \/ WriteDone \/ Commit
         \/ StopAtBoundary \/ Crash
  PROVE  OrderInv'
<1>0. /\ journal \in [Attempts -> {"absent", "ok", "torn"}]
      /\ pc # "off" => attempt \in Attempts
      /\ mode \in {"none", "apply", "recover", "undo"} /\ (mode = "apply" => attempt = Forward)
      /\ mode = "undo" => attempt \in Undos /\ attempt # Forward
      /\ mode = "undo" => asked[attempt] \subseteq Archives
  BY PlanAssumption DEF IInv, TypeOK, RunOK, Attempts, Selected
<1>1. UNCHANGED <<intent, confirmed, began, asked>>
  BY DEF WriteHeader, RecoveryEnds, RunFinishes, BeginUnit, BeginDependant, BeginUndo,
         Verify, Rename, WriteDone, Commit, StopAtBoundary, Crash, disk
<1>2. pc # "off"
  BY DEF WriteHeader, RecoveryEnds, RunFinishes, BeginUnit, BeginDependant, BeginUndo,
         Verify, Rename, WriteDone, Commit, StopAtBoundary, Crash
<1>3. \A t \in Attempts : journal'[t] = "absent" => journal[t] = "absent"
  <2>1. UNCHANGED journal \/ journal' = [journal EXCEPT ![attempt] = "torn"]
            \/ journal' = [journal EXCEPT ![attempt] = "ok"]
    BY DEF WriteHeader, RecoveryEnds, RunFinishes, BeginUnit, BeginDependant, BeginUndo,
           Verify, Rename, WriteDone, Commit, StopAtBoundary, Crash, disk
  <2> QED
    BY <1>0, <2>1
<1>4. CASE EndRun
  BY <1>1, <1>3, <1>4, OrderEnd
<1>5. \A u, a : Complete(u, a)' <=> Complete(u, a)
  BY <1>1 DEF Complete
<1>6. ASSUME UNCHANGED <<mode, attempt>>,
             mode = "undo" /\ pc' # "recover" =>
                /\ left' \subseteq asked[attempt]
                /\ \A b \in asked[attempt] \ left' : Complete(attempt, b)
                /\ pc' \in StepPCs => item' \in left' /\ \A b \in left' : began[b] <= began[item']
      PROVE  OrderInv'
  BY <1>1, <1>2, <1>3, <1>5, <1>6, OrderGoesOn
<1>7. CASE WriteHeader
  BY <1>6, <1>7 DEF WriteHeader, OrderInv, RunInOrder, StepPCs
<1>8. CASE RecoveryEnds
  BY <1>4, <1>6, <1>8 DEF RecoveryEnds, StepPCs
<1>9. CASE RunFinishes \/ StopAtBoundary \/ Crash
  BY <1>4, <1>9 DEF RunFinishes, StopAtBoundary, Crash
<1>10. ASSUME NEW a \in Archives, BeginUnit(a) \/ BeginDependant(a) PROVE OrderInv'
  BY <1>4, <1>6, <1>10 DEF BeginUnit, BeginDependant, Block, Continue, Take
<1>11. ASSUME NEW a \in Archives, BeginUndo(a) PROVE OrderInv'
  <2>1. /\ mode = "undo" /\ pc = "unit" /\ a \in left
        /\ \A b \in left : began[a] >= began[b]
    BY <1>0, <1>11 DEF BeginUndo, IsNext, Before
  <2>2. CASE Complete(attempt, a) /\ Continue(left \ {a})
    BY <1>6, <2>1, <2>2 DEF Continue, OrderInv, RunInOrder, StepPCs
  <2>3. CASE Take(a)
    <3>1. \A b \in left : began[b] \in Nat /\ began[a] \in Nat
      BY <1>0, <2>1 DEF IInv, TypeOK
    <3> QED
      BY <1>6, <2>1, <2>3, <3>1 DEF Take, OrderInv, RunInOrder, StepPCs
  <2>4. CASE EndRun
    BY <1>4, <2>4
  <2> QED
    BY <1>11, <2>1, <2>2, <2>3, <2>4 DEF BeginUndo, Block
<1>12. CASE Verify \/ Rename \/ WriteDone \/ Commit
  <2>1. CASE UNCHANGED <<mode, attempt, left, item>> /\ pc \in StepPCs
    BY <1>6, <2>1 DEF OrderInv, RunInOrder, StepPCs
  <2> QED
    BY <1>4, <1>12, <2>1 DEF Verify, Rename, WriteDone, Commit, Step, StepPCs
<1> QED
  BY <1>7, <1>8, <1>9, <1>10, <1>11, <1>12

LEMMA OrderResolve == ASSUME NEW a \in Archives, IInv, OrderInv, Resolve(a) PROVE OrderInv'
<1>1. /\ pc = "recover" /\ pc' = "recover" /\ UNCHANGED <<mode, attempt, intent, journal, began, asked>>
      /\ attempt \in Attempts
  BY DEF Resolve, disk, IInv, RunOK
<1>2. \A t \in Attempts, b \in Archives : Complete(t, b) => Complete(t, b)'
  <2>1. CASE UNCHANGED confirmed
    BY <2>1 DEF Complete
  <2>2. CASE /\ Verdict(attempt, a) = "confirm"
             /\ confirmed' = [confirmed EXCEPT ![attempt][a] = Frontier(attempt, a)]
             /\ UNCHANGED <<fs, row, marker, journal, intent, done, began, asked>>
    <3>1. marker[attempt][a] = Frontier(attempt, a)
      <4>1. ChainValid(attempt, a) /\ ~(marker[attempt][a] < Frontier(attempt, a))
        BY <2>2 DEF Verdict
      <4> QED
        BY <1>1, <4>1, Counters DEF ChainValid, Frontier
    <3> QED
      BY <1>1, <2>2, <3>1, ConfirmKeeps
  <2> QED
    BY <2>1, <2>2 DEF Resolve, disk
<1> QED
  BY <1>1, <1>2, OrderGoesOn

LEMMA OrderConfirm == IInv /\ OrderInv /\ Confirm => OrderInv'
<1> SUFFICES ASSUME IInv, OrderInv, Confirm PROVE OrderInv'
  OBVIOUS
<1>1. /\ pc = "confirm" /\ pc \in StepPCs /\ UNCHANGED <<mode, attempt>>
      /\ UNCHANGED <<fs, row, marker, journal, intent, done, began, asked>>
      /\ confirmed' = [confirmed EXCEPT ![attempt][item] = CurrentStep]
  BY DEF Confirm, StepPCs, Continue, Step
<1>2. item \in Archives /\ attempt \in Attempts /\ CurrentStep = confirmed[attempt][item] + 1
  BY <1>1, ItemFacts
<1>3. marker[attempt][item] = Frontier(attempt, item)
  BY <1>1 DEF IInv, RunOK, Frontier
<1>4. /\ \A t \in Attempts, b \in Archives : Complete(t, b) => Complete(t, b)'
      /\ confirmed'[attempt][item] = CurrentStep
  <2>1. /\ \A t \in Attempts, b \in Archives : Complete(t, b) => Complete(t, b)'
        /\ \A u \in Attempts, b \in Archives :
             confirmed'[u][b] = IF u = attempt /\ b = item THEN confirmed[u][b] + 1 ELSE confirmed[u][b]
    BY <1>1, <1>2, <1>3, ConfirmKeeps DEF CurrentStep
  <2> QED
    BY <1>2, <2>1
<1>5. mode = "undo" =>
        /\ left \subseteq asked[attempt] /\ asked[attempt] \subseteq Archives
        /\ \A b \in asked[attempt] \ left : Complete(attempt, b)
        /\ item \in left /\ \A b \in left : began[b] <= began[item]
  BY <1>1, <1>2 DEF OrderInv, RunInOrder, StepPCs, IInv, TypeOK, Selected
<1>6. CASE CurrentStep = Len(Chain[item]) - 1 /\ Continue(left \ {item})
  <2>1. \A b : b = item => Complete(attempt, b)'
    BY <1>1, <1>4, <1>6 DEF Complete
  <2>2. mode = "undo" => /\ left' \subseteq asked[attempt]
                         /\ \A b \in asked[attempt] \ left' : Complete(attempt, b)'
    BY <1>2, <1>4, <1>5, <1>6, <2>1 DEF Continue
  <2> QED
    BY <1>1, <1>4, <1>6, <2>2, OrderGoesOn DEF Continue, StepPCs
<1>7. CASE Step("intent")
  BY <1>1, <1>2, <1>4, <1>5, <1>7, OrderGoesOn DEF Step
<1> QED
  BY <1>6, <1>7 DEF Confirm

LEMMA OrderIntent == IInv /\ OrderInv /\ Intent => OrderInv'
<1> SUFFICES ASSUME IInv, OrderInv, Intent PROVE OrderInv'
  OBVIOUS
<1>0. /\ pc = "intent" /\ pc \in StepPCs /\ item \in Archives /\ attempt \in Attempts
      /\ CurrentStep = confirmed[attempt][item] + 1 /\ CurrentStep \in Nat
      /\ \/ mode = "apply" /\ attempt = Forward
         \/ mode = "undo" /\ attempt \in Undos /\ attempt # Forward
      /\ ~Complete(attempt, item)
  <2>1. pc = "intent" /\ pc \in StepPCs
    BY DEF Intent, StepPCs
  <2>2. confirmed[attempt][item] < Len(Chain[item]) - 1
    BY <2>1 DEF IInv, RunOK
  <2>3. /\ item \in Archives /\ attempt \in Attempts
        /\ CurrentStep = confirmed[attempt][item] + 1 /\ CurrentStep \in Nat
        /\ \/ mode = "apply" /\ attempt = Forward
           \/ mode = "undo" /\ attempt \in Undos
    BY <2>1, ItemFacts
  <2>4. ~Complete(attempt, item)
    BY <2>2, <2>3, Counters DEF Complete
  <2> QED
    BY <2>1, <2>3, <2>4, PlanAssumption
<1>1. /\ mode = "undo" =>
          /\ left \subseteq asked[attempt]
          /\ \A b \in asked[attempt] \ left : Complete(attempt, b)
          /\ item \in left /\ \A b \in left : began[b] <= began[item]
      /\ \A u \in Attempts \ {attempt} : ~Partway(u)
      /\ journal[attempt] # "absent"
  BY <1>0 DEF OrderInv, RunInOrder, StepPCs
<1>2. CASE UNCHANGED disk /\ EndRun
  BY <1>2, OrderEnd DEF disk
<1>3. CASE UNCHANGED disk /\ (Step("verify") \/ (mode = "apply" /\ Block(item)))
  <2>1. UNCHANGED <<intent, confirmed, journal, began, asked, mode, attempt>>
    BY <1>3 DEF disk, Step, Block, Continue
  <2>2. \A u, b : Complete(u, b)' <=> Complete(u, b)
    BY <2>1 DEF Complete
  <2>3. mode = "undo" => UNCHANGED <<left, item>>
    BY <1>3 DEF Step
  <2> QED
    BY <1>0, <1>1, <2>1, <2>2, <2>3, OrderGoesOn
<1>4. CASE /\ intent' = [intent EXCEPT ![attempt][item] = CurrentStep]
           /\ began' = IF attempt = Forward /\ began[item] = 0
                       THEN [began EXCEPT ![item] = Cardinality({b \in Archives : began[b] > 0}) + 1]
                       ELSE began
           /\ Step("verify")
           /\ UNCHANGED <<fs, row, marker, journal, done, confirmed, asked>>
  <2>1. /\ pc' = "verify" /\ UNCHANGED <<mode, attempt, left, item>>
        /\ UNCHANGED <<journal, confirmed, asked>>
    BY <1>4 DEF Step
  <2>2. /\ \A u, b : Complete(u, b)' <=> Complete(u, b)
        /\ \A u \in Attempts, b \in Archives :
             Started(u, b)' <=> Started(u, b) \/ (u = attempt /\ b = item)
    <3>1. \A u \in Attempts, b \in Archives :
             intent'[u][b] = IF u = attempt /\ b = item THEN CurrentStep ELSE intent[u][b]
      BY <1>0, <1>4 DEF IInv, TypeOK, Receipts
    <3>2. CurrentStep > 0
      BY <1>0, Counters
    <3> QED
      BY <2>1, <3>1, <3>2 DEF Complete, Started
  <2>3. /\ Forward \in Attempts /\ Undos \subseteq Attempts
        /\ \A t \in Attempts : asked[t] \subseteq Archives
    BY DEF Attempts, IInv, TypeOK, Selected
  <2>4. \A u \in Attempts : Partway(u)' => u = attempt
    BY <1>1, <2>2 DEF Partway
  <2>5. OneUnfinished'
    BY <2>4 DEF OneUnfinished
  <2>6. ASSUME NEW t \in Undos, NEW b \in asked[t] PROVE began'[b] = began[b]
    <3>1. attempt = Forward => b # item
      BY <1>0, <2>3, <2>6 DEF OrderInv, OrderOnDisk
    <3>2. began \in [Archives -> Nat]
      BY DEF IInv, TypeOK
    <3> QED
      BY <1>4, <2>3, <3>1, <3>2
  <2>7. ASSUME NEW t \in Undos, NEW a \in asked[t], NEW b \in asked[t],
               Started(t, a) \/ (t = attempt /\ a = item), began[a] < began[b]
        PROVE  Complete(t, b)
    <3>1. CASE Started(t, a)
      BY <2>7, <3>1 DEF OrderInv, OrderOnDisk, AttemptsInOrder, LatestUndoneFirst
    <3>2. CASE t = attempt /\ a = item
      <4>1. mode = "undo" /\ began[a] \in Nat /\ began[b] \in Nat
        BY <1>0, <2>3, <3>2, PlanAssumption DEF IInv, TypeOK
      <4>2. b \notin left
        BY <1>1, <2>7, <3>2, <4>1
      <4> QED
        BY <1>1, <3>2, <4>1, <4>2
    <3> QED
      BY <2>7, <3>1, <3>2
  <2>8. LatestUndoneFirst'
    BY <2>1, <2>2, <2>3, <2>6, <2>7 DEF LatestUndoneFirst
  <2>9. OrderOnDisk'
    <3>1. \A t \in Attempts, a \in Archives : journal[t] = "absent" => ~Started(t, a)'
      BY <1>1, <2>2 DEF OrderInv, OrderOnDisk
    <3>2. ASSUME NEW t \in Undos, NEW a \in Archives
          PROVE  /\ Started(t, a)' => a \in asked[t]
                 /\ a \in asked[t] => Complete(Forward, a)
      BY <1>0, <1>1, <2>2, <2>3, <3>2, PlanAssumption DEF OrderInv, OrderOnDisk
    <3> QED
      BY <2>1, <2>2, <2>5, <2>8, <3>1, <3>2 DEF OrderOnDisk, AttemptsInOrder
  <2>10. RunInOrder'
    <3>1. mode = "undo" => \A b \in left : began'[b] = began[b]
      BY <1>0, <1>1, <2>6
    <3> QED
      BY <1>0, <1>1, <2>1, <2>2, <2>4, <3>1 DEF RunInOrder
  <2> QED
    BY <2>9, <2>10 DEF OrderInv
<1>5. CASE UNCHANGED disk
  <2>1. EndRun \/ Step("verify") \/ Block(item)
    BY <1>5 DEF Intent
  <2>2. CASE EndRun
    BY <1>2, <1>5, <2>2
  <2>3. CASE Step("verify") \/ (mode = "apply" /\ Block(item))
    BY <1>3, <1>5, <2>3
  <2>4. Block(item) => EndRun \/ (mode = "apply" /\ Block(item))
    BY DEF Block
  <2> QED
    BY <2>1, <2>2, <2>3, <2>4
<1> QED
  BY <1>4, <1>5 DEF Intent

LEMMA OrderStep == IInv /\ OrderInv /\ [Next]_vars => OrderInv'
<1> SUFFICES ASSUME IInv, OrderInv, [Next]_vars PROVE OrderInv'
  OBVIOUS
<1>1. ASSUME UNCHANGED <<journal, intent, confirmed, began, asked, pc, mode, attempt, left, item>>
      PROVE  OrderInv'
  <2>1. OrderOnDisk' /\ \A t \in Attempts : Partway(t)' => Partway(t)
    BY <1>1, OrderOnDiskKeeps DEF OrderInv, Complete
  <2>2. \A t, a : Complete(t, a)' <=> Complete(t, a)
    BY <1>1 DEF Complete
  <2>3. mode \in {"apply", "undo"} => attempt \in Attempts
    BY DEF IInv, RunOK
  <2>4. RunInOrder'
    BY <1>1, <2>1, <2>2, <2>3 DEF OrderInv, RunInOrder
  <2> QED
    BY <2>1, <2>4 DEF OrderInv
<1>2. CASE UNCHANGED vars
  BY <1>1, <1>2 DEF vars, disk, run
<1>3. CASE \E p \in Paths, c \in Contents : Outsider(p, c)
  BY <1>1, <1>3 DEF Outsider, run
<1>4. CASE RunStep
  BY <1>4, OrderDecisions, OrderResolve, OrderIntent, OrderConfirm DEF RunStep
<1> QED
  BY <1>2, <1>3, <1>4, OrderOperator, OrderDecisions DEF Next

\* Attempts follow each other, and so do the steps an undo takes back.
THEOREM AttemptsInOrderAlways == Spec => []AttemptsInOrder
<1>1. Init => IInv /\ OrderInv
  BY InvInit, OrderInit
<1>2. IInv /\ OrderInv /\ [Next]_vars => (IInv /\ OrderInv)'
  BY InvStep, OrderStep
<1>3. IInv /\ OrderInv => AttemptsInOrder
  BY DEF OrderInv, OrderOnDisk
<1> QED
  BY <1>1, <1>2, <1>3, PTL DEF Spec

-----------------------------------------------------------------------------
(* The rows of the catalogue.                                              *)

(* Whether an undo has taken a row back.                                   *)
Marked(a) == \E u \in Undos : marker[u][a] > 0

(* A row follows the forward markers until an undo takes it back; that only *)
(* happens while the apply is not part-way, and then the apply gets no      *)
(* further than its recovery.                                               *)
RowInv ==
    \A a \in Archives :
        /\ ~Marked(a) => row[a] = Waypoint(Forward, a, marker[Forward][a])
        /\ Marked(a) => row[a] # Chain[a][Len(Chain[a])] /\ ~Partway(Forward)
        /\ mode = "apply" /\ Marked(a) => pc = "recover" /\ (a \in left \/ refused)

\* The places of a chain differ, and neighbours are different directory entries.
LEMMA Waypoints ==
  ASSUME NEW t \in Attempts, NEW a \in Archives
  PROVE  /\ \A m, n \in 0 .. Len(Chain[a]) - 1 :
              Waypoint(t, a, m) = Waypoint(t, a, n) => m = n
         /\ \A n \in 1 .. Len(Chain[a]) - 1 : Fold[Source(t, a, n)] # Fold[Destination(t, a, n)]
         /\ \A n \in 0 .. Len(Chain[a]) - 1 :
              Waypoint(t, a, n) \in Paths /\ Waypoint(t, a, n) \in PathsOf(a)
         /\ Waypoint(Forward, a, 0) = Chain[a][1]
         /\ Waypoint(Forward, a, Len(Chain[a]) - 1) = Chain[a][Len(Chain[a])]
         /\ t # Forward => Waypoint(t, a, 0) = Chain[a][Len(Chain[a])]
         /\ t # Forward => Waypoint(t, a, Len(Chain[a]) - 1) = Chain[a][1]
<1>1. /\ Len(Chain[a]) \in Nat /\ Len(Chain[a]) >= 1
      /\ \A i, j \in 1 .. Len(Chain[a]) :
            /\ Chain[a][i] = Chain[a][j] => i = j
            /\ j = i + 1 => Fold[Chain[a][i]] # Fold[Chain[a][j]]
      /\ Chain[a] \in Seq(Paths) /\ \A i \in 1 .. Len(Chain[a]) : Chain[a][i] \in Paths
  <2>1. Chain[a] \in Seq(Paths) /\ Len(Chain[a]) >= 1
    BY PlanAssumption
  <2>2. \A i, j \in 1 .. Len(Chain[a]) :
           /\ Chain[a][i] = Chain[a][j] => i = j
           /\ j = i + 1 => Fold[Chain[a][i]] # Fold[Chain[a][j]]
    BY PlanAssumption, Zenon
  <2>3. Len(Chain[a]) \in Nat /\ \A i \in 1 .. Len(Chain[a]) : Chain[a][i] \in Paths
    BY <2>1
  <2> QED
    BY <2>1, <2>2, <2>3
<1>2. ASSUME NEW m \in 0 .. Len(Chain[a]) - 1, NEW n \in 0 .. Len(Chain[a]) - 1,
             Waypoint(t, a, m) = Waypoint(t, a, n)
      PROVE  m = n
  <2>1. /\ m + 1 \in 1 .. Len(Chain[a]) /\ n + 1 \in 1 .. Len(Chain[a])
        /\ Len(Chain[a]) - m \in 1 .. Len(Chain[a]) /\ Len(Chain[a]) - n \in 1 .. Len(Chain[a])
    BY <1>1
  <2>2. m + 1 = n + 1 \/ Len(Chain[a]) - m = Len(Chain[a]) - n
    BY <1>1, <1>2, <2>1 DEF Waypoint
  <2> QED
    BY <1>1, <2>2
<1>3. ASSUME NEW n \in 1 .. Len(Chain[a]) - 1
      PROVE  Fold[Source(t, a, n)] # Fold[Destination(t, a, n)]
  <2>1. /\ n \in 1 .. Len(Chain[a]) /\ n + 1 \in 1 .. Len(Chain[a]) /\ n - 1 + 1 = n
        /\ Len(Chain[a]) - n \in 1 .. Len(Chain[a]) /\ Len(Chain[a]) - (n - 1) \in 1 .. Len(Chain[a])
        /\ Len(Chain[a]) - (n - 1) = Len(Chain[a]) - n + 1
    BY <1>1, SMTT(30)
  <2>2. /\ Fold[Chain[a][n]] # Fold[Chain[a][n + 1]]
        /\ Fold[Chain[a][Len(Chain[a]) - n]] # Fold[Chain[a][Len(Chain[a]) - (n - 1)]]
    BY <1>1, <2>1
  <2> QED
    BY <2>1, <2>2 DEF Source, Destination, Waypoint
<1>4. ASSUME NEW n \in 0 .. Len(Chain[a]) - 1
      PROVE  Waypoint(t, a, n) \in Paths /\ Waypoint(t, a, n) \in PathsOf(a)
  <2>1. n + 1 \in 1 .. Len(Chain[a]) /\ Len(Chain[a]) - n \in 1 .. Len(Chain[a])
    BY <1>1
  <2> QED
    BY <1>1, <2>1 DEF Waypoint, PathsOf
<1>5. /\ Waypoint(Forward, a, 0) = Chain[a][1]
      /\ Waypoint(Forward, a, Len(Chain[a]) - 1) = Chain[a][Len(Chain[a])]
      /\ t # Forward => Waypoint(t, a, 0) = Chain[a][Len(Chain[a])]
      /\ t # Forward => Waypoint(t, a, Len(Chain[a]) - 1) = Chain[a][1]
  BY <1>1 DEF Waypoint
<1> QED
  BY <1>2, <1>3, <1>4, <1>5

\* What a confirmed record completes stays complete.
LEMMA ConfirmCompletes ==
  ASSUME IInv, Confirm, NEW t \in Attempts, NEW b \in Archives, Complete(t, b)
  PROVE  Complete(t, b)'
<1>1. /\ pc = "confirm" /\ pc \in StepPCs
      /\ UNCHANGED <<fs, row, marker, journal, intent, done, began, asked>>
      /\ confirmed' = [confirmed EXCEPT ![attempt][item] = CurrentStep]
  BY DEF Confirm, StepPCs
<1>2. item \in Archives /\ attempt \in Attempts
  BY <1>1, ItemFacts
<1>3. marker[attempt][item] = Frontier(attempt, item)
  BY <1>1 DEF IInv, RunOK, Frontier
<1>4. \A u \in Attempts, c \in Archives : Complete(u, c) => Complete(u, c)'
  BY <1>1, <1>2, <1>3, ConfirmKeeps DEF CurrentStep
<1> QED
  BY <1>4

LEMMA ResolveCompletes ==
  ASSUME NEW a \in Archives, IInv, Resolve(a), NEW t \in Attempts, NEW b \in Archives, Complete(t, b)
  PROVE  Complete(t, b)'
<1>1. CASE UNCHANGED confirmed
  BY <1>1 DEF Complete
<1>2. CASE /\ Verdict(attempt, a) = "confirm"
           /\ confirmed' = [confirmed EXCEPT ![attempt][a] = Frontier(attempt, a)]
           /\ UNCHANGED <<fs, row, marker, journal, intent, done, began, asked>>
  <2>1. attempt \in Attempts
    BY DEF Resolve, IInv, RunOK
  <2>2. marker[attempt][a] = Frontier(attempt, a)
    BY <1>2, <2>1, Counters DEF Verdict, ChainValid, Frontier
  <2>3. \A u \in Attempts, c \in Archives : Complete(u, c) => Complete(u, c)'
    BY <1>2, <2>1, <2>2, ConfirmKeeps
  <2> QED
    BY <2>3
<1> QED
  BY <1>1, <1>2 DEF Resolve, disk

\* An action that an undo has begun is complete in the apply.
LEMMA UndoneIsComplete ==
  ASSUME IInv, OrderInv, NEW u \in Undos, NEW a \in Archives, Started(u, a) \/ marker[u][a] > 0
  PROVE  /\ Started(u, a) /\ Complete(Forward, a) /\ ~InFlight(Forward, a) /\ Steps(a) # {}
         /\ intent[Forward][a] = confirmed[Forward][a] /\ Started(Forward, a)
         /\ marker[Forward][a] = Len(Chain[a]) - 1
<1>1. u \in Attempts /\ Forward \in Attempts
  BY DEF Attempts
<1>2. Started(u, a)
  BY <1>1, Counters DEF ChainValid, Started
<1>3. Complete(Forward, a)
  BY <1>2 DEF OrderInv, OrderOnDisk
<1>4. Len(Chain[a]) > 1
  BY <1>1, <1>2, Counters DEF ChainValid, Started
<1> QED
  BY <1>1, <1>2, <1>3, <1>4, Counters DEF ChainValid, Complete, InFlight, Steps, Started

LEMMA RowInit == Init => RowInv
<1> SUFFICES ASSUME Init, NEW a \in Archives
             PROVE  ~Marked(a) /\ row[a] = Waypoint(Forward, a, marker[Forward][a]) 
  BY DEF RowInv
<1>1. Forward \in Attempts /\ Undos \subseteq Attempts
  BY DEF Attempts
<1>2. \A t \in Attempts : marker[t][a] = 0
  BY DEF Init
<1> QED
  BY <1>1, <1>2, Waypoints DEF Init, Marked

\* What leaves the catalogue alone.
LEMMA RowKeeps ==
  ASSUME RowInv, UNCHANGED <<row, marker>>,
         Partway(Forward)' => Partway(Forward) \/ \A a \in Archives : ~Marked(a),
         mode' = "apply" =>
            \A a \in Archives : Marked(a) => pc' = "recover" /\ (a \in left' \/ refused')
  PROVE  RowInv'
<1>1. \A a : Marked(a)' <=> Marked(a)
  BY DEF Marked
<1> QED
  BY <1>1 DEF RowInv

\* The transaction of a step: one row moves on or back.
LEMMA RowCommit ==
  ASSUME IInv, OrderInv, RowInv, attempt \in Attempts, NEW a \in Archives,
         done[attempt][a] = Frontier(attempt, a),
         CanCommit(attempt, a, Frontier(attempt, a)),
         CommitStep(attempt, a, Frontier(attempt, a)),
         UNCHANGED <<intent, confirmed, mode>>, 
         mode = "apply" => pc # "recover" \/ (pc' = pc /\ left' = left /\ refused' = refused)
  PROVE  RowInv' /\ (Catalogue!Forth(a) \/ Catalogue!Back(a))
<1> DEFINE n == Frontier(attempt, a)
<1>0. /\ intent[attempt][a] \in Nat /\ done[attempt][a] \in Nat
      /\ marker[attempt][a] \in Nat /\ confirmed[attempt][a] \in Nat /\ Len(Chain[a]) \in Nat
      /\ ChainValid(attempt, a) /\ n = confirmed[attempt][a] + 1 /\ done[attempt][a] = n
  BY Counters DEF Frontier
<1>1. /\ n \in 1 .. Len(Chain[a]) - 1 /\ n - 1 \in 0 .. Len(Chain[a]) - 1 /\ n \in 0 .. Len(Chain[a]) - 1
      /\ InFlight(attempt, a) /\ Started(attempt, a) /\ ~Complete(attempt, a)
  BY <1>0, SMTT(30) DEF ChainValid, InFlight, Started, Complete
<1>2. /\ \A b \in Archives : row'[b] = IF b = a THEN Destination(attempt, a, n) ELSE row[b]
      /\ \A u \in Attempts, b \in Archives :
            marker'[u][b] = IF u = attempt /\ b = a THEN n ELSE marker[u][b]
      /\ row' = [row EXCEPT ![a] = Destination(attempt, a, n)]
      /\ row[a] = Source(attempt, a, n)
  <2>1. /\ row' = [row EXCEPT ![a] = Destination(attempt, a, n)]
        /\ marker' = [marker EXCEPT ![attempt][a] = n] /\ row[a] = Source(attempt, a, n)
    BY DEF CommitStep, CanCommit
  <2>2. row \in [Archives -> Paths] /\ marker \in [Attempts -> [Archives -> Nat]]
    BY DEF IInv, TypeOK, Receipts
  <2> QED
    BY <2>1, <2>2
<1>3. /\ Forward \in Attempts /\ Undos \subseteq Attempts /\ Forward \notin Undos
      /\ Partway(attempt) /\ (Partway(Forward)' <=> Partway(Forward))
  BY <1>1, PlanAssumption DEF Attempts, Partway, Started, Complete
<1>4. CASE attempt = Forward
  <2>1. ~Marked(a)
    BY <1>1, <1>4, UndoneIsComplete DEF Marked
  <2>2. \A b \in Archives : Marked(b)' <=> Marked(b)
    BY <1>2, <1>3, <1>4 DEF Marked
  <2>3. ASSUME NEW b \in Archives
        PROVE  /\ ~Marked(b) => row'[b] = Waypoint(Forward, b, marker'[Forward][b])
               /\ Marked(b) => row'[b] # Chain[b][Len(Chain[b])] /\ ~Partway(Forward)'
               /\ mode' = "apply" /\ Marked(b) => pc' = "recover" /\ (b \in left' \/ refused')
    BY <1>2, <1>3, <1>4, <2>1 DEF RowInv, Destination
  <2>4. RowInv'
    BY <2>2, <2>3 DEF RowInv
  <2>5. a # Keeper[a] => ~Marked(Keeper[a]) /\ row[Keeper[a]] = Chain[Keeper[a]][Len(Chain[Keeper[a]])]
    <3>1. ASSUME a # Keeper[a] PROVE Keeper[a] \in Archives /\ Complete(Forward, Keeper[a])
      BY <1>1, <1>4, <3>1, PlanAssumption DEF IInv, KeeperFirst
    <3>2. ASSUME a # Keeper[a] PROVE marker[Forward][Keeper[a]] = Len(Chain[Keeper[a]]) - 1
      <4> DEFINE k == Keeper[a]
      <4>1. /\ k \in Archives /\ confirmed[Forward][k] = Len(Chain[k]) - 1
        BY <3>1, <3>2 DEF Complete
      <4>2. /\ marker[Forward][k] \in Nat /\ confirmed[Forward][k] \in Nat /\ Len(Chain[k]) \in Nat
            /\ intent[Forward][k] \in Nat /\ done[Forward][k] \in Nat /\ ChainValid(Forward, k)
        BY <1>3, <4>1, Counters
      <4> HIDE DEF k
      <4>3. marker[Forward][k] = Len(Chain[k]) - 1
        BY <4>1, <4>2 DEF ChainValid
      <4> QED
        BY <4>3 DEF k
    <3> QED
      BY <1>3, <1>4, <3>1, <3>2, Waypoints DEF RowInv
  <2>6. Catalogue!Forth(a)
    <3>1. n \in 1 .. Len(Chain[a]) - 1 /\ row[a] = Chain[a][n] /\ row' = [row EXCEPT ![a] = Chain[a][n + 1]]
      BY <1>0, <1>1, <1>2, <1>4, SMTT(30) DEF Source, Destination, Waypoint
    <3>2. ~\E u \in Undos : marker[u][a] > 0
      BY <2>1 DEF Marked
    <3>3. UNCHANGED [b \in Archives |-> \E u \in Undos : marker[u][b] > 0]
      BY <2>2 DEF Marked
    <3>4. a # Keeper[a] => /\ Keeper[a] \in Archives
                           /\ ~\E u \in Undos : marker[u][Keeper[a]] > 0
                           /\ row[Keeper[a]] = Chain[Keeper[a]][Len(Chain[Keeper[a]])]
      BY <2>5, PlanAssumption DEF Marked
    <3> HIDE DEF n
    <3> QED
      BY <3>1, <3>2, <3>3, <3>4 DEF Catalogue!Forth, Catalogue!Arrived
  <2> QED
    BY <2>4, <2>6
<1>5. CASE attempt \in Undos
  <2>1. ~Partway(Forward)
    BY <1>3, <1>5 DEF OrderInv, OrderOnDisk, AttemptsInOrder, OneUnfinished
  <2>2. \A b \in Archives : Marked(b)' <=> Marked(b) \/ b = a
    BY <1>1, <1>2, <1>3, <1>5 DEF Marked
  <2>3. Destination(attempt, a, n) # Chain[a][Len(Chain[a])]
    <3>1. /\ Waypoint(attempt, a, 0) = Chain[a][Len(Chain[a])] /\ 0 \in 0 .. Len(Chain[a]) - 1
          /\ Waypoint(attempt, a, n) = Waypoint(attempt, a, 0) => n = 0
      BY <1>1, <1>3, <1>5, Waypoints
    <3> QED
      BY <1>1, <3>1 DEF Destination
  <2>4. mode # "apply"
    BY <1>3, <1>5 DEF IInv, RunOK
  <2>5. ASSUME NEW b \in Archives
        PROVE  /\ ~Marked(b)' => row'[b] = Waypoint(Forward, b, marker'[Forward][b])
               /\ Marked(b)' => row'[b] # Chain[b][Len(Chain[b])] /\ ~Partway(Forward)'
               /\ mode' = "apply" /\ Marked(b)' => pc' = "recover" /\ (b \in left' \/ refused')
    BY <1>2, <1>3, <1>5, <2>1, <2>2, <2>3, <2>4 DEF RowInv
  <2>6. RowInv'
    BY <2>5 DEF RowInv
  <2>7. Marked(a) \/ row[a] = Chain[a][Len(Chain[a])]
    <3>1. marker[Forward][a] = Len(Chain[a]) - 1
      BY <1>1, <1>5, UndoneIsComplete
    <3> QED
      BY <1>3, <3>1, Waypoints DEF RowInv
  <2>8. Catalogue!Back(a)
    <3>1. \E i \in 1 .. Len(Chain[a]) - 1 :
             row[a] = Chain[a][i + 1] /\ row' = [row EXCEPT ![a] = Chain[a][i]]
      <4>1. /\ Len(Chain[a]) - n \in 1 .. Len(Chain[a]) - 1
            /\ Len(Chain[a]) - (n - 1) = Len(Chain[a]) - n + 1
        <5>1. \A l \in Nat : \A m \in 1 .. l - 1 : l - m \in 1 .. l - 1 /\ l - (m - 1) = l - m + 1
          OBVIOUS
        <5> HIDE DEF n
        <5> QED
          BY <1>0, <1>1, <5>1
      <4> QED
        BY <1>2, <1>3, <1>5, <4>1 DEF Source, Destination, Waypoint
    <3>2. (\E u \in Undos : marker[u][a] > 0) \/ row[a] = Chain[a][Len(Chain[a])]
      BY <2>7 DEF Marked
    <3>3. [b \in Archives |-> \E u \in Undos : marker[u][b] > 0]'
            = [[b \in Archives |-> \E u \in Undos : marker[u][b] > 0] EXCEPT ![a] = TRUE]
      BY <2>2, Zenon DEF Marked
    <3> HIDE DEF n
    <3> QED
      BY <3>1, <3>2, <3>3 DEF Catalogue!Back, Catalogue!Arrived
  <2> QED
    BY <2>6, <2>8
<1> QED
  BY <1>4, <1>5 DEF Attempts

LEMMA RowOperator == IInv /\ OrderInv /\ RowInv /\ Operator => RowInv'
<1> SUFFICES ASSUME IInv, OrderInv, RowInv, Operator PROVE RowInv'
  OBVIOUS
<1>1. UNCHANGED <<row, marker, intent, confirmed>>
  BY DEF Operator, StartApply, ResumeApply, StartRecover, StartUndo, ResumeUndo, disk
<1>2. Partway(Forward)' <=> Partway(Forward)
  BY <1>1 DEF Partway, Started, Complete
<1>3. Forward \in Attempts
  BY DEF Attempts
<1>4. CASE mode' # "apply"
  BY <1>1, <1>2, <1>4, RowKeeps
<1>5. CASE StartApply
  <2>1. \A a \in Archives : ~Started(Forward, a)
    BY <1>3, <1>5 DEF StartApply, OrderInv, OrderOnDisk
  <2>2. \A a \in Archives : ~Marked(a)
    BY <2>1, UndoneIsComplete DEF Marked
  <2> QED
    BY <1>1, <1>2, <2>2, RowKeeps
<1>6. CASE ResumeApply
  <2>1. pc' = "recover" /\ left' = Selected(Forward)
    BY <1>6 DEF ResumeApply, Begin
  <2>2. \A a \in Archives : Marked(a) => a \in left'
    BY <2>1, UndoneIsComplete DEF Marked, Selected
  <2> QED
    BY <1>1, <1>2, <2>1, <2>2, RowKeeps
<1> QED
  BY <1>4, <1>5, <1>6 DEF Operator, StartRecover, StartUndo, ResumeUndo, Begin

LEMMA RowResolve ==
  ASSUME NEW a \in Archives, IInv, OrderInv, RowInv, Resolve(a)
  PROVE  RowInv' /\ (Catalogue!Forth(a) \/ Catalogue!Back(a) \/ UNCHANGED <<row, marker>>)
<1>1. /\ pc = "recover" /\ pc' = "recover" /\ UNCHANGED <<mode, attempt, intent>>
      /\ attempt \in Attempts /\ a \in left
  BY DEF Resolve, IsNext, disk, IInv, RunOK
<1>2. CASE Verdict(attempt, a) = "commit"
  <2>1. /\ CommitStep(attempt, a, Frontier(attempt, a)) /\ Advance(a)
        /\ UNCHANGED <<fs, journal, intent, done, confirmed, began, asked, refused>>
    BY <1>2 DEF Resolve
  <2>2. CanCommit(attempt, a, Frontier(attempt, a)) /\ done[attempt][a] = Frontier(attempt, a)
    BY <1>1, <1>2, Counters DEF Verdict, ChainValid, Frontier
  <2> QED
    BY <1>1, <2>1, <2>2, RowCommit DEF Advance
<1>3. CASE Verdict(attempt, a) # "commit"
  <2>1. UNCHANGED <<row, marker>>
    BY <1>3 DEF Resolve, disk
  <2>2. Partway(Forward)' => Partway(Forward)
    <3>1. \A b \in Archives : Complete(Forward, b) => Complete(Forward, b)'
      BY <1>1, ResolveCompletes DEF Attempts
    <3> QED
      BY <1>1, <3>1 DEF Partway, Started
  <2>3. mode = "apply" => \A b \in Archives : Marked(b) => b \in left' \/ refused'
    <3>1. ASSUME mode = "apply", Marked(a) PROVE Verdict(attempt, a) = "refused"
      <4>1. /\ attempt = Forward /\ ~InFlight(Forward, a) /\ Started(Forward, a)
            /\ row[a] # Chain[a][Len(Chain[a])] /\ marker[Forward][a] = Len(Chain[a]) - 1
        BY <3>1, UndoneIsComplete DEF Marked, RowInv, IInv, RunOK
      <4>2. Location(Forward, a) = Chain[a][Len(Chain[a])]
        <5>1. done[Forward][a] = Len(Chain[a]) - 1
          BY <1>1, <4>1, Counters DEF ChainValid
        <5> QED
          BY <1>1, <4>1, <5>1, Waypoints DEF Location
      <4> QED
        BY <4>1, <4>2 DEF Verdict
    <3>2. ASSUME mode = "apply", NEW b \in Archives, Marked(b), b # a
          PROVE  b \in left' \/ refused'
      BY <1>3, <3>2 DEF Resolve, Advance, RowInv
    <3> QED
      BY <3>1, <3>2 DEF Resolve
  <2> QED
    BY <1>1, <2>1, <2>2, <2>3, RowKeeps
<1> QED
  BY <1>2, <1>3

LEMMA RowStep == 
  ASSUME IInv, OrderInv, RowInv, [Next]_vars
  PROVE  /\ RowInv'
         /\ \/ \E a \in Archives : Catalogue!Forth(a) \/ Catalogue!Back(a)
            \/ UNCHANGED <<row, marker>>
<1>1. CASE Operator
  BY <1>1, RowOperator DEF Operator, StartApply, ResumeApply, StartRecover, StartUndo, ResumeUndo, disk
<1>2. ASSUME UNCHANGED <<row, marker, intent, confirmed>>,
             mode' = "apply" => mode = "apply" /\ (pc # "recover" \/ (pc' = pc /\ left' = left /\ refused' = refused))
      PROVE  RowInv'
  <2>1. Partway(Forward)' <=> Partway(Forward)
    BY <1>2 DEF Partway, Started, Complete
  <2> QED
    BY <1>2, <2>1, RowKeeps DEF RowInv
<1>3. CASE UNCHANGED vars \/ \E p \in Paths, c \in Contents : Outsider(p, c)
  BY <1>2, <1>3 DEF vars, disk, run, Outsider
<1>4. CASE StopAtBoundary \/ Crash \/ RunFinishes
  BY <1>2, <1>4 DEF StopAtBoundary, Crash, RunFinishes, EndRun, disk
<1>5. CASE WriteHeader
  BY <1>2, <1>5 DEF WriteHeader
<1>6. CASE RecoveryEnds
  <2>1. /\ UNCHANGED <<row, marker, intent, confirmed>> /\ pc = "recover" /\ left = {}
        /\ mode' = "apply" => mode = "apply" /\ ~refused
    BY <1>6 DEF RecoveryEnds, EndRun, disk
  <2>2. Partway(Forward)' <=> Partway(Forward)
    BY <2>1 DEF Partway, Started, Complete
  <2> QED
    BY <2>1, <2>2, RowKeeps DEF RowInv
<1>7. ASSUME NEW a \in Archives, BeginUnit(a) \/ BeginDependant(a) \/ BeginUndo(a)
      PROVE  RowInv' /\ UNCHANGED <<row, marker>>
  <2>1. /\ UNCHANGED <<row, marker, intent, confirmed>> /\ pc = "unit"
        /\ UNCHANGED mode \/ mode' = "none"
    BY <1>7 DEF BeginUnit, BeginDependant, BeginUndo, Block, Continue, Take, EndRun, disk
  <2> QED
    BY <1>2, <2>1
<1>8. CASE Verify \/ Rename \/ WriteDone
  BY <1>2, <1>8 DEF Verify, Rename, WriteDone, Step, EndRun, disk
<1>9. CASE Intent
  <2>1. /\ pc = "intent" /\ pc \in StepPCs /\ UNCHANGED <<row, marker, confirmed>>
        /\ mode' = "apply" => mode = "apply"
    BY <1>9 DEF Intent, StepPCs, Block, Continue, Step, EndRun, disk
  <2>2. Partway(Forward)' => Partway(Forward) \/ mode = "apply"
    <3>1. item \in Archives /\ attempt \in Attempts /\ (attempt = Forward => mode = "apply")
      BY <2>1, ItemFacts, PlanAssumption
    <3>2. CASE UNCHANGED intent
      BY <2>1, <3>2 DEF Partway, Started, Complete
    <3>3. CASE intent' = [intent EXCEPT ![attempt][item] = CurrentStep] /\ attempt # Forward
      <4>1. intent'[Forward] = intent[Forward]
        BY <3>1, <3>3 DEF IInv, TypeOK, Attempts
      <4> QED
        BY <2>1, <4>1 DEF Partway, Started, Complete
    <3> QED
      BY <1>9, <3>1, <3>2, <3>3 DEF Intent, disk
  <2> QED
    BY <2>1, <2>2, RowKeeps DEF RowInv
<1>10. CASE Confirm
  <2>1. /\ pc = "confirm" /\ UNCHANGED <<row, marker, intent, mode>>
    BY <1>10 DEF Confirm, Continue, Step
  <2>2. Partway(Forward)' => Partway(Forward)
    <3>1. \A b \in Archives : Complete(Forward, b) => Complete(Forward, b)'
      BY <1>10, ConfirmCompletes DEF Attempts
    <3> QED
      BY <2>1, <3>1 DEF Partway, Started
  <2> QED
    BY <2>1, <2>2, RowKeeps DEF RowInv
<1>11. CASE Commit
  <2>1. CASE EndRun /\ UNCHANGED disk
    BY <1>2, <2>1 DEF EndRun, disk
  <2>2. CASE /\ CanCommit(attempt, item, CurrentStep) /\ CommitStep(attempt, item, CurrentStep)
             /\ Step("confirm") /\ UNCHANGED <<fs, journal, intent, done, confirmed, began, asked>>
    <3>1. item \in Archives /\ attempt \in Attempts /\ pc = "commit"
      BY <1>11, ItemFacts DEF Commit, StepPCs
    <3>2. done[attempt][item] = Frontier(attempt, item)
      BY <3>1 DEF IInv, RunOK, Frontier
    <3> QED
      BY <2>2, <3>1, <3>2, RowCommit DEF CurrentStep, Step
  <2> QED
    BY <1>11, <2>1, <2>2 DEF Commit, disk
<1> QED
  <2>1. ASSUME NEW a \in Archives, Resolve(a)
        PROVE  /\ RowInv'
               /\ Catalogue!Forth(a) \/ Catalogue!Back(a) \/ UNCHANGED <<row, marker>>
    BY <2>1, RowResolve
  <2>2. CASE RunStep
    <3>1. CASE WriteHeader \/ RecoveryEnds \/ RunFinishes \/ Verify \/ Rename \/ WriteDone
               \/ Intent \/ Confirm
      <4>1. UNCHANGED <<row, marker>>
        BY <3>1 DEF WriteHeader, RecoveryEnds, RunFinishes, Verify, Rename, WriteDone,
                    Intent, Confirm, disk
      <4> QED
        BY <1>4, <1>5, <1>6, <1>8, <1>9, <1>10, <3>1, <4>1
    <3> QED
      BY <1>7, <1>11, <2>1, <2>2, <3>1 DEF RunStep
  <2>3. CASE UNCHANGED vars \/ StopAtBoundary \/ Crash \/ \E p \in Paths, c \in Contents : Outsider(p, c)
    <3>1. UNCHANGED <<row, marker>>
      BY <2>3 DEF vars, disk, StopAtBoundary, Crash, Outsider
    <3> QED
      BY <1>3, <1>4, <2>3, <3>1
  <2> QED
    BY <1>1, <2>2, <2>3 DEF Next

\* The catalogue's rows only make the moves CatalogueMoves promises its readers.
THEOREM ImplementsMoves == Spec => ImplementsCatalogueMoves
<1>1. Init => Catalogue!Init
  <2> SUFFICES ASSUME Init PROVE Catalogue!Init
    OBVIOUS
  <2>1. \A u \in Undos, a \in Archives : ~(marker[u][a] > 0)
    BY DEF Init, Attempts
  <2> QED
    BY <2>1 DEF Init, Catalogue!Init
<1>2. Init => IInv /\ OrderInv /\ RowInv
  BY InvInit, OrderInit, RowInit DEF RowInv
<1>3. IInv /\ OrderInv /\ RowInv /\ [Next]_vars => (IInv /\ OrderInv /\ RowInv)'
  BY InvStep, OrderStep, RowStep
<1>4. IInv /\ OrderInv /\ RowInv /\ [Next]_vars => [Catalogue!Next]_Catalogue!vars
  <2> SUFFICES ASSUME IInv, OrderInv, RowInv, [Next]_vars PROVE [Catalogue!Next]_Catalogue!vars
    OBVIOUS
  <2>1. CASE UNCHANGED <<row, marker>>
    BY <2>1 DEF Catalogue!vars
  <2> QED
    BY <2>1, RowStep DEF Catalogue!Next
<1> QED
  BY <1>1, <1>2, <1>3, <1>4, PTL DEF Spec, ImplementsCatalogueMoves, Catalogue!Spec

-----------------------------------------------------------------------------
(* The files, while nobody else touches them.                              *)

Whereabouts(a) == {p \in Paths : fs[p] = a}

(* What the receipts of attempt t prove of the archive it moved.           *)
Proven(t, a) ==
    /\ row[a] = Waypoint(t, a, marker[t][a])
    /\ IF InFlight(t, a) /\ done[t][a] < Frontier(t, a)
       THEN \/ Whereabouts(a) = {Source(t, a, Frontier(t, a))}
            \/ Whereabouts(a) = {Destination(t, a, Frontier(t, a))}
       ELSE Whereabouts(a) = {Location(t, a)}

OwnFiles == \A p \in Paths : fs[p] # NoFile => fs[p] \in Archives /\ p \in PathsOf(fs[p])
OneUndo == \A a \in Archives : \A u, v \in Undos : Started(u, a) /\ Started(v, a) => u = v

(* Without outsiders every file is one of the plan's, no archive is undone *)
(* by two attempts, the last attempt on an archive proves where it is, and *)
(* the run knows on which side of its rename the item is.                  *)
FileInv ==
    meddled = 0 =>
        /\ OwnFiles /\ OneUndo
        /\ \A a \in Archives : Proven(Mover(a), a)
        /\ pc = "rename" => Whereabouts(item) = {Source(attempt, item, CurrentStep)}
        /\ pc = "done" => Whereabouts(item) = {Destination(attempt, item, CurrentStep)}

LEMMA FileInit == Init => FileInv
<1> SUFFICES ASSUME Init PROVE FileInv
  OBVIOUS
<1>1. /\ Forward \in Attempts /\ Undos \subseteq Attempts /\ NoFile \notin Archives
      /\ \A a \in Archives : Len(Chain[a]) \in Nat /\ Len(Chain[a]) >= 1 /\ Chain[a][1] \in Paths
      /\ \A a, b \in Archives : a # b => \A p \in PathsOf(a), q \in PathsOf(b) : Fold[p] # Fold[q]
  BY PlanAssumption, LengthIsNat DEF Attempts
<1>2. \A a \in Archives : Chain[a][1] \in PathsOf(a)
  BY <1>1, PlanAssumption DEF PathsOf
<1>3. \A a, b \in Archives : Chain[a][1] = Chain[b][1] => a = b
  BY <1>1, <1>2
<1>4. ASSUME NEW p \in Paths
      PROVE  \/ fs[p] \in Archives /\ Chain[fs[p]][1] = p
             \/ fs[p] = NoFile /\ \A a \in Archives : Chain[a][1] # p
  BY DEF Init
<1>5. \A a \in Archives : Whereabouts(a) = {Chain[a][1]}
  <2>1. \A p \in Paths, a \in Archives : fs[p] = a <=> p = Chain[a][1]
    BY <1>1, <1>3, <1>4
  <2> QED
    BY <1>1, <2>1 DEF Whereabouts
<1>6. OwnFiles
  BY <1>2, <1>4 DEF OwnFiles
<1>7. /\ \A t \in Attempts, a \in Archives :
            intent[t][a] = 0 /\ done[t][a] = 0 /\ confirmed[t][a] = 0 /\ marker[t][a] = 0
  BY DEF Init
<1>8. \A u \in Undos, a \in Archives : ~Started(u, a)
  BY <1>1, <1>7 DEF Started
<1>9. ASSUME NEW a \in Archives PROVE Proven(Mover(a), a)
  <2>1. Mover(a) = Forward
    BY <1>8 DEF Mover
  <2>2. Waypoint(Forward, a, 0) = Chain[a][1]
    BY <1>1, Waypoints
  <2>3. row[a] = Chain[a][1]
    BY DEF Init
  <2> QED
    BY <1>1, <1>5, <1>7, <2>1, <2>2, <2>3 DEF Proven, InFlight, Location
<1>10. pc = "off"
  BY DEF Init
<1> QED
  BY <1>6, <1>8, <1>9, <1>10 DEF FileInv, OneUndo

LEMMA MoverType == ASSUME NEW a \in Archives PROVE Mover(a) \in Attempts
  BY DEF Mover, Attempts

\* The attempt that is moving an archive is the one its whereabouts follow from.
LEMMA MoverIs ==
  ASSUME IInv, OrderInv, OneUndo, NEW t \in Attempts, NEW a \in Archives, Started(t, a),
         t # Forward \/ ~Complete(t, a)
  PROVE  Mover(a) = t
<1>1. CASE t = Forward
  BY <1>1, UndoneIsComplete DEF Mover
<1>2. CASE t \in Undos
  BY <1>2 DEF Mover, OneUndo
<1> QED
  BY <1>1, <1>2 DEF Attempts

\* A step on another archive leaves what is proven of this one.
LEMMA Undisturbed ==
  ASSUME NEW b \in Archives, row'[b] = row[b],
         \A p \in Paths : fs'[p] = b <=> fs[p] = b,
         \A t \in Attempts : /\ intent'[t][b] = intent[t][b] /\ done'[t][b] = done[t][b]
                             /\ marker'[t][b] = marker[t][b] /\ confirmed'[t][b] = confirmed[t][b],
         Proven(Mover(b), b)
  PROVE  Proven(Mover(b), b)'
<1>1. \A u \in Undos : Started(u, b)' <=> Started(u, b)
  BY DEF Started, Attempts
<1>2. Mover(b)' = Mover(b) /\ Mover(b) \in Attempts
  BY <1>1, MoverType DEF Mover
<1>3. Whereabouts(b)' = Whereabouts(b)
  BY DEF Whereabouts
<1>4. \A t \in Attempts : Proven(t, b) => Proven(t, b)'
  BY <1>3 DEF Proven, InFlight, Frontier, Location, Source, Destination
<1> QED
  BY <1>2, <1>4

\* The records, row and file of one archive of one attempt change.
LEMMA FileMoves ==
  ASSUME IInv, FileInv, meddled = 0, NEW t \in Attempts, NEW a \in Archives,
         \A b \in Archives : b # a =>
            /\ row'[b] = row[b]
            /\ \A p \in Paths : fs'[p] = b <=> fs[p] = b
            /\ \A u \in Attempts : /\ intent'[u][b] = intent[u][b] /\ done'[u][b] = done[u][b]
                                   /\ marker'[u][b] = marker[u][b] /\ confirmed'[u][b] = confirmed[u][b],
         \A u \in Undos \ {t} : ~Started(u, a)', t = Forward \/ Started(t, a)',
         OwnFiles', Proven(t, a)',
         pc' = "rename" => Whereabouts(item)' = {Source(attempt, item, CurrentStep)'},
         pc' = "done" => Whereabouts(item)' = {Destination(attempt, item, CurrentStep)'}
  PROVE  FileInv'
<1>1. \A b \in Archives : Proven(Mover(b), b)'
  <2>1. ASSUME NEW b \in Archives, b # a PROVE Proven(Mover(b), b)'
    BY <2>1, Undisturbed DEF FileInv
  <2>2. Mover(a)' = t
    BY DEF Mover, Attempts
  <2> QED
    BY <2>1, <2>2
<1>2. OneUndo'
  <2>1. ASSUME NEW b \in Archives, b # a, NEW u \in Undos PROVE Started(u, b)' <=> Started(u, b)
    BY <2>1 DEF Started, Attempts
  <2> QED
    BY <2>1 DEF FileInv, OneUndo
<1> QED
  BY <1>1, <1>2 DEF FileInv

\* Files of different archives never share a directory entry.
LEMMA EntryOf ==
  ASSUME OwnFiles, NEW a \in Archives, NEW p \in PathsOf(a), p \in Paths, NEW q \in Entries(p)
  PROVE  fs[q] = a /\ q \in Whereabouts(a)
<1>1. q \in Paths /\ Fold[q] = Fold[p] /\ fs[q] \in Archives /\ q \in PathsOf(fs[q])
  BY DEF Entries, OwnFiles
<1> QED
  BY <1>1, PlanAssumption DEF Whereabouts

\* A chain of two places or more ends where it does not begin.
LEMMA EndsDiffer ==
  ASSUME NEW a \in Archives, 0 < Len(Chain[a]) - 1
  PROVE  Chain[a][1] # Chain[a][Len(Chain[a])] /\ Chain[a][Len(Chain[a])] \in Paths
<1>1. /\ Len(Chain[a]) \in Nat /\ Chain[a] \in Seq(Paths)
      /\ \A i, j \in 1 .. Len(Chain[a]) : Chain[a][i] = Chain[a][j] => i = j
  BY PlanAssumption
<1>2. 1 \in 1 .. Len(Chain[a]) /\ Len(Chain[a]) \in 1 .. Len(Chain[a]) /\ 1 # Len(Chain[a])
  BY <1>1
<1> QED
  BY <1>1, <1>2

LEMMA FileKeeps ==
  ASSUME FileInv, UNCHANGED <<fs, row, marker, intent, done, confirmed>>,
         meddled' = 0 => meddled = 0,
         pc' \notin {"rename", "done"} \/ UNCHANGED <<pc, attempt, item>>
  PROVE  FileInv'
<1> SUFFICES ASSUME meddled = 0, meddled' = 0 PROVE FileInv'
  BY DEF FileInv
<1>1. OwnFiles' /\ OneUndo'
  BY DEF FileInv, OwnFiles, OneUndo, Started
<1>2. ASSUME NEW b \in Archives PROVE Proven(Mover(b), b)'
  BY Undisturbed DEF FileInv
<1>3. pc' = "rename" => (Whereabouts(item) = {Source(attempt, item, CurrentStep)})'
  BY DEF FileInv, Whereabouts, Source, CurrentStep, Frontier
<1>4. pc' = "done" => (Whereabouts(item) = {Destination(attempt, item, CurrentStep)})'
  BY DEF FileInv, Whereabouts, Destination, CurrentStep, Frontier
<1> QED
  BY <1>1, <1>2, <1>3, <1>4 DEF FileInv

\* Where the item is when its next intent is written.
LEMMA BeforeIntent ==
  ASSUME IInv, OrderInv, FileInv, meddled = 0, pc = "intent",
         NEW t \in Attempts, NEW a \in Archives, t = attempt, a = item,
         ~InFlight(t, a), Holds(Source(t, a, Frontier(t, a)), a)
  PROVE  /\ \A v \in Undos \ {t} : ~Started(v, a)
         /\ Proven(t, a)
<1>1. /\ pc \in StepPCs /\ mode \in {"apply", "undo"} /\ (t = Forward <=> mode = "apply")
      /\ confirmed[t][a] < Len(Chain[a]) - 1 /\ ~Complete(t, a)
      /\ Forward \in Attempts /\ Undos \subseteq Attempts
  <2>1. pc \in StepPCs
    BY DEF StepPCs
  <2>2. confirmed[t][a] < Len(Chain[a]) - 1 /\ ~Complete(t, a)
    BY Counters DEF IInv, RunOK, StepPCs, Complete
  <2> QED
    BY <2>1, <2>2, ItemFacts, PlanAssumption DEF Attempts
<1>2. CASE Started(t, a)
  <2>1. Mover(a) = t
    BY <1>1, <1>2, MoverIs DEF FileInv
  <2>2. ASSUME NEW v \in Undos, v # t PROVE ~Started(v, a)
    BY <1>1, <1>2, <2>2, UndoneIsComplete DEF FileInv, OneUndo, Attempts
  <2> QED
    BY <2>1, <2>2 DEF FileInv
<1>3. CASE ~Started(t, a) /\ t = Forward
  <2>1. \A v \in Undos : ~Started(v, a)
    BY <1>1, <1>3, UndoneIsComplete
  <2>2. Mover(a) = t
    BY <1>3, <2>1 DEF Mover
  <2> QED
    BY <2>1, <2>2 DEF FileInv
<1>4. CASE ~Started(t, a) /\ t \in Undos
  <2>1. /\ confirmed[t][a] = 0 /\ intent[t][a] = 0 /\ done[t][a] = 0 /\ marker[t][a] = 0
        /\ Frontier(t, a) = 1
    BY <1>4, Counters DEF Started, ChainValid, Frontier
  <2>2. Source(t, a, 1) = Chain[a][Len(Chain[a])] /\ Waypoint(t, a, 0) = Chain[a][Len(Chain[a])]
    BY <1>1, <1>4, PlanAssumption, Waypoints DEF Source
  <2>3. /\ Chain[a][Len(Chain[a])] \in Whereabouts(a) /\ Chain[a][1] # Chain[a][Len(Chain[a])]
    <3>1. Len(Chain[a]) \in Nat /\ 0 < Len(Chain[a]) - 1
      BY <1>1, <2>1, PlanAssumption
    <3>3. Chain[a][1] # Chain[a][Len(Chain[a])]
      BY <3>1, EndsDiffer
    <3>4. Chain[a][Len(Chain[a])] \in Paths
      BY <3>1, EndsDiffer
    <3> QED
      BY <2>1, <2>2, <3>3, <3>4 DEF Holds, Whereabouts
  <2>4. ASSUME NEW v \in Undos, v # t, Started(v, a) PROVE FALSE
    <3>1. Complete(v, a)
      BY <1>1, <2>4 DEF OrderInv, RunInOrder, Partway
    <3>2. /\ ~InFlight(v, a) /\ done[v][a] = Len(Chain[a]) - 1
      BY <1>1, <3>1, Counters, SMTT(30) DEF Complete, ChainValid, InFlight
    <3>3. Location(v, a) = Chain[a][1]
      BY <1>1, <3>2, PlanAssumption, Waypoints DEF Location
    <3>4. Mover(a) = v
      BY <1>1, <2>4, MoverIs, PlanAssumption DEF FileInv
    <3>5. Whereabouts(a) = {Chain[a][1]}
      BY <3>2, <3>3, <3>4 DEF FileInv, Proven
    <3> QED
      BY <2>3, <3>5
  <2>5. Mover(a) = Forward /\ Complete(Forward, a)
    <3>1. Mover(a) = Forward
      BY <1>4, <2>4 DEF Mover
    <3>2. a \in asked[t]
      BY <1>1, <1>4, PlanAssumption DEF OrderInv, RunInOrder
    <3> QED
      BY <1>4, <3>1, <3>2 DEF OrderInv, OrderOnDisk
  <2>6. ~InFlight(Forward, a) /\ done[Forward][a] = Len(Chain[a]) - 1 /\ marker[Forward][a] = Len(Chain[a]) - 1
    BY <1>1, <2>5, Counters DEF Complete, ChainValid, InFlight
  <2>7. Proven(Forward, a)
    BY <2>5 DEF FileInv
  <2>8. row[a] = Chain[a][Len(Chain[a])] /\ Whereabouts(a) = {Chain[a][Len(Chain[a])]}
    BY <1>1, <2>6, <2>7, Waypoints DEF Proven, Location
  <2>9. Proven(t, a)
    BY <1>4, <2>1, <2>2, <2>8 DEF Proven, Location, InFlight
  <2> QED
    BY <2>4, <2>9
<1> QED
  BY <1>2, <1>3, <1>4 DEF Attempts

LEMMA FileIntent == IInv /\ OrderInv /\ FileInv /\ Intent => FileInv'
<1> SUFFICES ASSUME IInv, OrderInv, FileInv, Intent, meddled = 0 PROVE FileInv'
  BY DEF Intent, FileInv, bounds
<1>0. /\ pc = "intent" /\ pc \in StepPCs /\ item \in Archives /\ attempt \in Attempts
      /\ meddled' = 0
  BY ItemFacts DEF Intent, StepPCs, bounds
<1>1. CASE UNCHANGED disk
  <2>1. pc' \notin {"rename", "done"}
    BY <1>0, <1>1 DEF Intent, Step, Block, Continue, EndRun
  <2> QED
    BY <1>0, <1>1, <2>1, FileKeeps DEF disk
<1>2. CASE ~UNCHANGED disk
  <2> SUFFICES ASSUME NEW t \in Attempts, NEW a \in Archives, t = attempt, a = item
               PROVE  FileInv'
    BY <1>0
  <2>1. /\ ~InFlight(t, a) /\ Holds(Source(t, a, Frontier(t, a)), a)
        /\ intent' = [intent EXCEPT ![t][a] = Frontier(t, a)]
        /\ UNCHANGED <<fs, row, marker, done, confirmed>> /\ pc' = "verify"
    BY <1>2 DEF Intent, CurrentStep, Step
  <2>2. /\ \A v \in Undos \ {t} : ~Started(v, a)
        /\ Proven(t, a)
    BY <1>0, <2>1, BeforeIntent
  <2>3. /\ confirmed[t][a] \in Nat /\ Frontier(t, a) = confirmed[t][a] + 1
        /\ done[t][a] = confirmed[t][a] /\ intent[t][a] = confirmed[t][a]
    BY <1>0, <2>1, Counters DEF IInv, RunOK, Frontier, InFlight, ChainValid
  <2>4. \A u \in Attempts, b \in Archives :
           intent'[u][b] = IF u = t /\ b = a THEN Frontier(t, a) ELSE intent[u][b]
    BY <2>1 DEF IInv, TypeOK, Receipts
  <2>5. \A u \in Undos \ {t} : ~Started(u, a)'
    BY <2>2, <2>4 DEF Started, Attempts
  <2>6. Started(t, a)'
    BY <2>3, <2>4 DEF Started
  <2>7. Proven(t, a)'
    <3>1. Whereabouts(a) = {Location(t, a)} /\ row[a] = Waypoint(t, a, marker[t][a])
      BY <2>1, <2>2 DEF Proven
    <3>2. Location(t, a) = Source(t, a, Frontier(t, a))
      BY <2>3 DEF Location, Source
    <3>3. /\ Whereabouts(a)' = {Source(t, a, Frontier(t, a))'}
          /\ row'[a] = Waypoint(t, a, marker'[t][a])
      BY <2>1, <3>1, <3>2 DEF Whereabouts, Source, Frontier
    <3>4. InFlight(t, a)' /\ (done[t][a] < Frontier(t, a))'
      BY <2>1, <2>3, <2>4 DEF InFlight, Frontier
    <3> QED
      BY <3>3, <3>4 DEF Proven
  <2>8. OwnFiles'
    BY <2>1 DEF FileInv, OwnFiles
  <2> QED
    BY <2>1, <2>4, <2>5, <2>6, <2>7, <2>8, FileMoves
<1> QED
  BY <1>1, <1>2

\* The item of a step is where its attempt proves it to be.
LEMMA ItemProven ==
  ASSUME IInv, OrderInv, FileInv, meddled = 0, NEW t \in Attempts, NEW a \in Archives,
         t = attempt, InFlight(t, a)
  PROVE  /\ \A v \in Undos \ {t} : ~Started(v, a)
         /\ Proven(t, a) /\ Started(t, a) /\ Mover(a) = t
<1>1. Started(t, a) /\ ~Complete(t, a)
  BY Counters DEF InFlight, Started, ChainValid, Complete
<1>2. Mover(a) = t
  BY <1>1, MoverIs DEF FileInv
<1>3. ASSUME NEW v \in Undos, v # t PROVE ~Started(v, a)
  BY <1>1, <1>3, UndoneIsComplete DEF FileInv, OneUndo, Attempts
<1> QED
  BY <1>1, <1>2, <1>3 DEF FileInv

LEMMA FileVerify == IInv /\ OrderInv /\ FileInv /\ Verify => FileInv'
<1> SUFFICES ASSUME IInv, OrderInv, FileInv, Verify, meddled = 0 PROVE FileInv'
  BY DEF Verify, FileInv, bounds
<1>0. /\ pc = "verify" /\ pc \in StepPCs /\ item \in Archives /\ attempt \in Attempts
      /\ meddled' = 0 /\ UNCHANGED disk
  BY ItemFacts DEF Verify, StepPCs, bounds
<1>1. CASE EndRun
  BY <1>0, <1>1, FileKeeps DEF EndRun, disk
<1>2. CASE Holds(Source(attempt, item, CurrentStep), item) /\ Step("rename")
  <2> SUFFICES ASSUME NEW t \in Attempts, NEW a \in Archives, t = attempt, a = item
               PROVE  FileInv'
    BY <1>0
  <2>1. /\ intent[t][a] = confirmed[t][a] + 1 /\ done[t][a] = confirmed[t][a]
        /\ confirmed[t][a] \in Nat /\ InFlight(t, a) /\ Frontier(t, a) = confirmed[t][a] + 1
        /\ Frontier(t, a) \in 1 .. Len(Chain[a]) - 1
    BY <1>0, Counters DEF IInv, RunOK, InFlight, Frontier, ChainValid
  <2>2. Proven(t, a) /\ Source(t, a, Frontier(t, a)) \in Whereabouts(a)
    BY <1>0, <1>2, <2>1, ItemProven, ItemFacts DEF Holds, Whereabouts, CurrentStep
  <2>3. Whereabouts(a) = {Source(t, a, Frontier(t, a))}
    BY <2>1, <2>2, Waypoints DEF Proven
  <2>4. Whereabouts(a)' = {Source(t, a, Frontier(t, a))'}
    BY <1>0, <2>3 DEF Whereabouts, Source, Frontier, disk
  <2>5. pc' = "rename" /\ attempt' = t /\ item' = a
    BY <1>2 DEF Step
  <2>6. OwnFiles' /\ OneUndo'
    BY <1>0 DEF FileInv, OwnFiles, OneUndo, Started, disk
  <2>7. ASSUME NEW b \in Archives PROVE Proven(Mover(b), b)'
    BY <1>0, Undisturbed DEF FileInv, disk
  <2>8. (Whereabouts(item) = {Source(attempt, item, CurrentStep)})'
    BY <2>4, <2>5 DEF Whereabouts, Source, Frontier, CurrentStep
  <2> QED
    BY <2>5, <2>6, <2>7, <2>8 DEF FileInv
<1> QED
  BY <1>1, <1>2 DEF Verify

LEMMA FileRename == IInv /\ OrderInv /\ FileInv /\ Rename => FileInv'
<1> SUFFICES ASSUME IInv, OrderInv, FileInv, Rename, meddled = 0 PROVE FileInv'
  BY DEF Rename, FileInv, bounds
<1>0. /\ pc = "rename" /\ pc \in StepPCs /\ item \in Archives /\ attempt \in Attempts
      /\ meddled' = 0
  BY ItemFacts DEF Rename, StepPCs, bounds
<1>1. CASE EndRun /\ UNCHANGED disk
  BY <1>0, <1>1, FileKeeps DEF EndRun, disk
<1>2. CASE ~(EndRun /\ UNCHANGED disk)
  <2> SUFFICES ASSUME NEW t \in Attempts, NEW a \in Archives, t = attempt, a = item
               PROVE  FileInv'
    BY <1>0
  <2> DEFINE p == Source(t, a, Frontier(t, a))
             q == Destination(t, a, Frontier(t, a))
  <2>1. /\ intent[t][a] = confirmed[t][a] + 1 /\ done[t][a] = confirmed[t][a]
        /\ confirmed[t][a] \in Nat /\ InFlight(t, a) /\ Frontier(t, a) = confirmed[t][a] + 1
        /\ Frontier(t, a) \in 1 .. Len(Chain[a]) - 1
        /\ Frontier(t, a) - 1 \in 0 .. Len(Chain[a]) - 1 /\ Frontier(t, a) \in 0 .. Len(Chain[a]) - 1
    BY <1>0, Counters DEF IInv, RunOK, InFlight, Frontier, ChainValid
  <2>2. /\ p \in Paths /\ p \in PathsOf(a) /\ q \in Paths /\ q \in PathsOf(a) /\ p # q
    BY <2>1, Waypoints DEF Source, Destination
  <2>3. Whereabouts(a) = {p} /\ OwnFiles
    BY <1>0 DEF FileInv, CurrentStep
  <2>4. /\ ~Occupied(q) /\ Step("done")
        /\ UNCHANGED <<row, marker, journal, intent, done, confirmed, began, asked>>
        /\ \E e \in Entries(p) : fs' = [fs EXCEPT ![e] = NoFile, ![q] = fs[e]]
    BY <1>2 DEF Rename, CanRename, CurrentStep
  <2> HIDE DEF p, q
  <2>5. fs' = [fs EXCEPT ![p] = NoFile, ![q] = a]
    BY <2>2, <2>3, <2>4, EntryOf
  <2>6. fs[q] = NoFile /\ fs[p] = a /\ NoFile \notin Archives
    BY <2>2, <2>3, <2>4, PlanAssumption DEF Occupied, Entries, Whereabouts
  <2>7. \A x \in Paths : fs'[x] = IF x = q THEN a ELSE IF x = p THEN NoFile ELSE fs[x]
    BY <2>2, <2>5 DEF IInv, TypeOK
  <2>8. OwnFiles'
    BY <2>2, <2>3, <2>7 DEF OwnFiles
  <2>9. Whereabouts(a)' = {q}
    BY <2>2, <2>3, <2>6, <2>7 DEF Whereabouts
  <2>10. \A b \in Archives : b # a => \A x \in Paths : fs'[x] = b <=> fs[x] = b
    BY <2>6, <2>7
  <2>11. \A v \in Undos \ {t} : ~Started(v, a)' 
    BY <1>0, <2>1, <2>4, ItemProven DEF Started
  <2>12. Started(t, a)'
    BY <1>0, <2>1, <2>4, ItemProven DEF Started
  <2>13. row[a] = Waypoint(t, a, marker[t][a])
    BY <1>0, <2>1, ItemProven DEF Proven
  <2>14. /\ Whereabouts(a)' = {Destination(t, a, Frontier(t, a))'}
         /\ InFlight(t, a)' /\ (done[t][a] < Frontier(t, a))'
    BY <2>1, <2>4, <2>9 DEF Destination, Frontier, InFlight, q
  <2>15. Proven(t, a)'
    BY <2>4, <2>13, <2>14 DEF Proven
  <2>16. pc' = "done" /\ attempt' = t /\ item' = a
    BY <2>4 DEF Step
  <2>17. Whereabouts(item)' = {Destination(attempt, item, CurrentStep)'}
    BY <2>14, <2>16 DEF Whereabouts, Destination, Frontier, CurrentStep
  <2> QED
    BY <2>4, <2>8, <2>10, <2>11, <2>12, <2>15, <2>16, <2>17, FileMoves
<1> QED
  BY <1>1, <1>2

LEMMA FileWriteDone == IInv /\ OrderInv /\ FileInv /\ WriteDone => FileInv'
<1> SUFFICES ASSUME IInv, OrderInv, FileInv, WriteDone, meddled = 0 PROVE FileInv'
  BY DEF WriteDone, FileInv, bounds
<1>0. /\ pc = "done" /\ pc \in StepPCs /\ item \in Archives /\ attempt \in Attempts
      /\ meddled' = 0
  BY ItemFacts DEF WriteDone, StepPCs, bounds
<1> SUFFICES ASSUME NEW t \in Attempts, NEW a \in Archives, t = attempt, a = item
             PROVE  FileInv'
  BY <1>0
<1>1. /\ intent[t][a] = confirmed[t][a] + 1 /\ confirmed[t][a] \in Nat /\ InFlight(t, a)
      /\ Frontier(t, a) = confirmed[t][a] + 1
  BY <1>0, Counters DEF IInv, RunOK, InFlight, Frontier, ChainValid
<1>2. /\ done' = [done EXCEPT ![t][a] = Frontier(t, a)] /\ pc' = "commit"
      /\ UNCHANGED <<fs, row, marker, intent, confirmed>>
  BY DEF WriteDone, Step, CurrentStep
<1>3. \A u \in Attempts, b \in Archives :
         done'[u][b] = IF u = t /\ b = a THEN Frontier(t, a) ELSE done[u][b]
  BY <1>2 DEF IInv, TypeOK, Receipts
<1>4. OwnFiles'
  BY <1>2 DEF FileInv, OwnFiles
<1>5. /\ \A v \in Undos \ {t} : ~Started(v, a)'
      /\ Started(t, a)' /\ Proven(t, a)
  BY <1>1, <1>2, ItemProven DEF Started
<1>6. Proven(t, a)'
  <2>1. Whereabouts(a) = {Destination(t, a, Frontier(t, a))}
    BY <1>0 DEF FileInv, CurrentStep
  <2>2. Whereabouts(a)' = {Location(t, a)'}
    BY <1>2, <1>3, <2>1 DEF Whereabouts, Location, Destination
  <2>3. ~(done[t][a] < Frontier(t, a))'
    BY <1>1, <1>2, <1>3 DEF Frontier
  <2>4. row'[a] = Waypoint(t, a, marker'[t][a])
    BY <1>2, <1>5 DEF Proven
  <2> QED
    BY <2>2, <2>3, <2>4 DEF Proven
<1> QED
  BY <1>2, <1>3, <1>4, <1>5, <1>6, FileMoves

\* A step's transaction and its confirmed record follow the file.
LEMMA FileCommit ==
  ASSUME IInv, OrderInv, FileInv, meddled = 0, attempt \in Attempts, NEW a \in Archives,
         done[attempt][a] = Frontier(attempt, a),
         CommitStep(attempt, a, Frontier(attempt, a)),
         UNCHANGED <<fs, intent, done, confirmed>>, pc' \notin {"rename", "done"}
  PROVE  FileInv'
<1> SUFFICES ASSUME NEW t \in Attempts, t = attempt PROVE FileInv'
  OBVIOUS
<1>1. /\ InFlight(t, a) /\ Frontier(t, a) = confirmed[t][a] + 1 /\ confirmed[t][a] \in Nat
      /\ done[t][a] = Frontier(t, a) /\ Frontier(t, a) \in Nat
  BY Counters DEF ChainValid, InFlight, Frontier
<1>2. /\ \A b \in Archives : row'[b] = IF b = a THEN Destination(t, a, Frontier(t, a)) ELSE row[b]
      /\ \A u \in Attempts, b \in Archives :
            marker'[u][b] = IF u = t /\ b = a THEN Frontier(t, a) ELSE marker[u][b]
  <2>1. /\ row' = [row EXCEPT ![a] = Destination(t, a, Frontier(t, a))]
        /\ marker' = [marker EXCEPT ![t][a] = Frontier(t, a)]
    BY DEF CommitStep
  <2>2. row \in [Archives -> Paths] /\ marker \in [Attempts -> [Archives -> Nat]]
    BY DEF IInv, TypeOK, Receipts
  <2> HIDE DEF Frontier
  <2> QED
    BY <2>1, <2>2
<1>3. OwnFiles'
  BY DEF FileInv, OwnFiles
<1>4. /\ \A v \in Undos \ {t} : ~Started(v, a)'
      /\ Started(t, a)' /\ Proven(t, a)
  BY <1>1, ItemProven DEF Started
<1>5. Proven(t, a)'
  <2>1. Whereabouts(a)' = {Location(t, a)'} /\ ~(done[t][a] < Frontier(t, a))'
    BY <1>1, <1>4 DEF Proven, Whereabouts, Location, Frontier
  <2>2. row'[a] = Waypoint(t, a, marker'[t][a])
    BY <1>2 DEF Destination
  <2> QED
    BY <2>1, <2>2 DEF Proven
<1> QED
  BY <1>2, <1>3, <1>4, <1>5, FileMoves

LEMMA FileConfirm ==
  ASSUME IInv, OrderInv, FileInv, meddled = 0, attempt \in Attempts, NEW a \in Archives,
         InFlight(attempt, a), marker[attempt][a] = Frontier(attempt, a),
         confirmed' = [confirmed EXCEPT ![attempt][a] = Frontier(attempt, a)],
         UNCHANGED <<fs, row, marker, intent, done>>, pc' \notin {"rename", "done"}
  PROVE  FileInv'
<1> SUFFICES ASSUME NEW t \in Attempts, t = attempt PROVE FileInv'
  OBVIOUS
<1>1. /\ InFlight(t, a) /\ Frontier(t, a) = confirmed[t][a] + 1 /\ confirmed[t][a] \in Nat
      /\ done[t][a] = Frontier(t, a) /\ Frontier(t, a) \in Nat /\ intent[t][a] = Frontier(t, a)
  BY Counters DEF ChainValid, InFlight, Frontier
<1>2. \A u \in Attempts, b \in Archives :
            confirmed'[u][b] = IF u = t /\ b = a THEN Frontier(t, a) ELSE confirmed[u][b]
  <2>1. confirmed' = [confirmed EXCEPT ![t][a] = Frontier(t, a)]
    OBVIOUS
  <2>2. confirmed \in [Attempts -> [Archives -> Nat]]
    BY DEF IInv, TypeOK, Receipts
  <2> HIDE DEF Frontier
  <2> QED
    BY <2>1, <2>2
<1>3. OwnFiles'
  BY DEF FileInv, OwnFiles
<1>4. /\ \A v \in Undos \ {t} : ~Started(v, a)'
      /\ Started(t, a)' /\ Proven(t, a)
  BY <1>1, ItemProven DEF Started
<1>5. Proven(t, a)'
  <2>1. Whereabouts(a) = {Location(t, a)} /\ row[a] = Waypoint(t, a, marker[t][a])
    BY <1>1, <1>4 DEF Proven
  <2>2. ~InFlight(t, a)'
    BY <1>1, <1>2 DEF InFlight
  <2> QED
    BY <2>1, <2>2 DEF Proven, Whereabouts, Location
<1> QED
  BY <1>2, <1>3, <1>4, <1>5, FileMoves

LEMMA FileStep == IInv /\ OrderInv /\ FileInv /\ [Next]_vars => FileInv'
<1> SUFFICES ASSUME IInv, OrderInv, FileInv, [Next]_vars PROVE FileInv'
  OBVIOUS
<1>1. CASE UNCHANGED vars
  BY <1>1, FileKeeps DEF vars, disk, run, bounds
<1>2. ASSUME NEW p \in Paths, NEW c \in Contents, Outsider(p, c) PROVE FileInv'
  <2>1. meddled' # 0
    BY <1>2 DEF Outsider, IInv, TypeOK
  <2> QED
    BY <2>1 DEF FileInv
<1>3. CASE Operator
  <2>1. /\ UNCHANGED <<fs, row, marker, intent, done, confirmed, meddled>>
        /\ pc' \in {"header", "recover"}
    BY <1>3 DEF Operator, StartApply, ResumeApply, StartRecover, StartUndo, ResumeUndo, Begin,
                disk, bounds
  <2> QED
    BY <2>1, FileKeeps
<1>4. CASE StopAtBoundary \/ Crash \/ WriteHeader \/ RecoveryEnds \/ RunFinishes
  <2>1. /\ UNCHANGED <<fs, row, marker, intent, done, confirmed, meddled>>
        /\ pc' \in {"off", "unit"}
    BY <1>4 DEF StopAtBoundary, Crash, WriteHeader, RecoveryEnds, RunFinishes, EndRun, disk, bounds
  <2> QED
    BY <2>1, FileKeeps
<1>5. ASSUME NEW a \in Archives, BeginUnit(a) \/ BeginDependant(a) \/ BeginUndo(a)
      PROVE  FileInv'
  <2>1. /\ UNCHANGED <<fs, row, marker, intent, done, confirmed, meddled>>
        /\ pc' \in {"off", "unit", "intent"}
    BY <1>5 DEF BeginUnit, BeginDependant, BeginUndo, Block, Continue, Take, EndRun, disk, bounds
  <2> QED
    BY <2>1, FileKeeps
<1>6. ASSUME NEW a \in Archives, Resolve(a) PROVE FileInv'
  <2>1. pc = "recover" /\ pc' = "recover" /\ attempt \in Attempts /\ meddled' = meddled
    BY <1>6 DEF Resolve, IInv, RunOK, bounds
  <2> SUFFICES ASSUME meddled = 0 PROVE FileInv'
    BY <2>1 DEF FileInv
  <2>2. CASE UNCHANGED disk
    BY <2>1, <2>2, FileKeeps DEF disk
  <2>3. CASE /\ Verdict(attempt, a) = "commit"
             /\ CommitStep(attempt, a, Frontier(attempt, a))
             /\ UNCHANGED <<fs, journal, intent, done, confirmed, began, asked, refused>>
    <3>1. done[attempt][a] = Frontier(attempt, a)
      BY <2>1, <2>3, Counters DEF Verdict, ChainValid, Frontier
    <3> QED
      BY <2>1, <2>3, <3>1, FileCommit
  <2>4. CASE /\ Verdict(attempt, a) = "confirm"
             /\ confirmed' = [confirmed EXCEPT ![attempt][a] = Frontier(attempt, a)]
             /\ UNCHANGED <<fs, row, marker, journal, intent, done, began, asked, refused>>
    <3>1. InFlight(attempt, a) /\ marker[attempt][a] = Frontier(attempt, a)
      BY <2>1, <2>4, Counters DEF Verdict, ChainValid, Frontier
    <3> QED
      BY <2>1, <2>4, <3>1, FileConfirm
  <2> QED
    BY <1>6, <2>2, <2>3, <2>4 DEF Resolve
<1>7. CASE Commit
  <2>1. pc = "commit" /\ pc \in StepPCs /\ meddled' = meddled /\ pc' \in {"off", "confirm"}
    BY <1>7 DEF Commit, StepPCs, EndRun, Step, bounds
  <2>2. item \in Archives /\ attempt \in Attempts /\ done[attempt][item] = Frontier(attempt, item)
    BY <2>1, ItemFacts DEF IInv, RunOK, Frontier
  <2> SUFFICES ASSUME meddled = 0 PROVE FileInv'
    BY <2>1 DEF FileInv
  <2>3. CASE UNCHANGED disk
    BY <2>1, <2>3, FileKeeps DEF disk
  <2>4. CASE ~UNCHANGED disk
    BY <1>7, <2>1, <2>2, <2>4, FileCommit DEF Commit, CurrentStep
  <2> QED
    BY <2>3, <2>4
<1>8. CASE Confirm
  <2>1. /\ pc = "confirm" /\ pc \in StepPCs /\ meddled' = meddled /\ pc' \in {"unit", "intent"}
        /\ confirmed' = [confirmed EXCEPT ![attempt][item] = Frontier(attempt, item)]
        /\ UNCHANGED <<fs, row, marker, intent, done>>
    BY <1>8 DEF Confirm, StepPCs, Continue, Step, bounds, CurrentStep
  <2>2. /\ item \in Archives /\ attempt \in Attempts
        /\ InFlight(attempt, item) /\ marker[attempt][item] = Frontier(attempt, item)
    <3>1. item \in Archives /\ attempt \in Attempts
      BY <2>1, ItemFacts
    <3> QED
      BY <2>1, <3>1, Counters DEF IInv, RunOK, Frontier, InFlight, ChainValid
  <2> SUFFICES ASSUME meddled = 0 PROVE FileInv'
    BY <2>1 DEF FileInv
  <2> QED
    BY <2>1, <2>2, FileConfirm
<1>9. CASE RunStep
  BY <1>4, <1>5, <1>6, <1>7, <1>8, <1>9, FileIntent, FileVerify, FileRename, FileWriteDone DEF RunStep
<1> QED
  BY <1>1, <1>2, <1>3, <1>4, <1>9 DEF Next

\* When a run ends and nobody else touched the files, all that recovery has to
\* ask about is the file whose rename lost its receipt.
LEMMA OnlyAmbiguous ==
  ASSUME IInv, OrderInv, RowInv, FileInv, meddled = 0, NEW t \in Attempts, NEW a \in Archives,
         journal[t] = "ok", Unfinished(t), Verdict(t, a) = "refused"
  PROVE  Ambiguous(t, a)
<1>0. /\ Forward \in Attempts /\ Undos \subseteq Attempts /\ Forward \notin Undos
      /\ OwnFiles
  BY PlanAssumption DEF Attempts, FileInv
<1>1. Partway(t)
  BY DEF Unfinished, Partway
<1>2. ChainValid(t, a) /\ Started(t, a)
  BY Counters DEF Verdict
<1>3. Mover(a) = t
  <2>1. CASE t \in Undos
    BY <1>0, <1>2, <2>1, MoverIs DEF FileInv
  <2>2. CASE t = Forward /\ \E u \in Undos : Started(u, a)
    <3>1. PICK u \in Undos : Started(u, a)
      BY <2>2
    <3>2. ~Partway(u)
      BY <1>0, <1>1, <2>2 DEF OrderInv, OrderOnDisk, AttemptsInOrder, OneUnfinished
    <3>3. Complete(u, a)
      BY <3>1, <3>2 DEF Partway
    <3>4. marker[u][a] > 0
      BY <1>0, <3>1, <3>3, Counters DEF Complete, ChainValid, Started
    <3> QED
      BY <1>1, <2>2, <3>4 DEF RowInv, Marked
  <2>3. CASE t = Forward /\ ~\E u \in Undos : Started(u, a)
    BY <2>3 DEF Mover
  <2> QED
    BY <2>1, <2>2, <2>3 DEF Attempts
<1> DEFINE n == Frontier(t, a)
<1>4. Proven(t, a)
  BY <1>3 DEF FileInv
<1>5. /\ intent[t][a] \in Nat /\ done[t][a] \in Nat /\ marker[t][a] \in Nat /\ confirmed[t][a] \in Nat
      /\ n = confirmed[t][a] + 1 /\ Len(Chain[a]) \in Nat
      /\ confirmed[t][a] <= marker[t][a] /\ marker[t][a] <= done[t][a]
      /\ done[t][a] <= intent[t][a] /\ intent[t][a] <= n /\ intent[t][a] < Len(Chain[a])
  BY <1>2, Counters DEF ChainValid, Frontier
<1>6. InFlight(t, a)
  <2> SUFFICES ASSUME ~InFlight(t, a) PROVE FALSE
    OBVIOUS
  <2>1. marker[t][a] = done[t][a]
    BY <1>5 DEF InFlight
  <2>2. row[a] = Location(t, a) /\ Location(t, a) \in Whereabouts(a)
    BY <1>4, <2>1 DEF Proven, Location
  <2> QED
    BY <1>2, <2>2 DEF Verdict, Holds, Whereabouts
<1>7. /\ n \in 1 .. Len(Chain[a]) - 1 /\ n \in 0 .. Len(Chain[a]) - 1 /\ n - 1 \in 0 .. Len(Chain[a]) - 1
      /\ intent[t][a] = n
  BY <1>5, <1>6 DEF InFlight
<1>8. /\ Source(t, a, n) \in Paths /\ Source(t, a, n) \in PathsOf(a)
      /\ Destination(t, a, n) \in Paths /\ Destination(t, a, n) \in PathsOf(a)
      /\ Fold[Source(t, a, n)] # Fold[Destination(t, a, n)]
  BY <1>7, Waypoints DEF Source, Destination
<1> HIDE DEF n
<1>9. /\ Whereabouts(a) = {Source(t, a, n)} =>
            Holds(Source(t, a, n), a) /\ ~Occupied(Destination(t, a, n))
      /\ Whereabouts(a) = {Destination(t, a, n)} =>
            Holds(Destination(t, a, n), a) /\ ~Occupied(Source(t, a, n))
  <2>1. \A x \in Whereabouts(a) : Holds(x, a)
    BY DEF Whereabouts, Holds
  <2>2. ASSUME Whereabouts(a) = {Source(t, a, n)}, NEW q \in Entries(Destination(t, a, n)) PROVE FALSE
    <3>1. q = Source(t, a, n) /\ Fold[q] = Fold[Destination(t, a, n)]
      BY <1>0, <1>8, <2>2, EntryOf DEF Entries
    <3> QED
      BY <1>8, <3>1
  <2>3. ASSUME Whereabouts(a) = {Destination(t, a, n)}, NEW q \in Entries(Source(t, a, n)) PROVE FALSE
    <3>1. q = Destination(t, a, n) /\ Fold[q] = Fold[Source(t, a, n)]
      BY <1>0, <1>8, <2>3, EntryOf DEF Entries
    <3> QED
      BY <1>8, <3>1
  <2> QED
    BY <2>1, <2>2, <2>3 DEF Occupied
<1>10. CASE done[t][a] < n
  <2>1. row[a] = Source(t, a, n)
    <3>1. marker[t][a] = n - 1
      BY <1>5, <1>10
    <3> QED
      BY <1>4, <3>1 DEF Proven, Source
  <2>2. ~NotDone(t, a, n)
    BY <1>2, <1>6, <1>10 DEF Verdict, n
  <2>3. Whereabouts(a) = {Source(t, a, n)} \/ Whereabouts(a) = {Destination(t, a, n)}
    BY <1>4, <1>6, <1>10 DEF Proven, n
  <2>4. Whereabouts(a) = {Destination(t, a, n)}
    BY <1>9, <2>1, <2>2, <2>3 DEF NotDone
  <2>5. fs[Source(t, a, n)] = NoFile
    BY <1>8, <1>9, <2>4 DEF Occupied, Entries
  <2> QED
    BY <1>6, <1>10, <2>5 DEF Ambiguous, n
<1>11. CASE ~(done[t][a] < n)
  <2>1. done[t][a] = n /\ Whereabouts(a) = {Destination(t, a, n)}
    <3>1. done[t][a] = n
      BY <1>5, <1>11
    <3> QED
      BY <1>4, <1>11, <3>1 DEF Proven, Location, Destination, n
  <2>2. Owned(t, a, n)
    BY <1>9, <2>1 DEF Owned
  <2>3. CASE marker[t][a] < n
    <3>1. row[a] = Source(t, a, n)
      <4>1. marker[t][a] = n - 1
        BY <1>5, <2>3
      <4> QED
        BY <1>4, <4>1 DEF Proven, Source
    <3>2. \A b \in Archives \ {a} : row[b] # Destination(t, a, n)
      <4>1. ASSUME NEW b \in Archives PROVE row[b] \in PathsOf(b)
        <5>1. row[b] = Waypoint(Mover(b), b, marker[Mover(b)][b])
          BY DEF FileInv, Proven
        <5>2. marker[Mover(b)][b] \in 0 .. Len(Chain[b]) - 1
          <6>1. \A u \in Attempts : marker[u][b] \in 0 .. Len(Chain[b]) - 1
            BY Counters, SMTT(30) DEF ChainValid
          <6> QED
            BY <6>1, MoverType
        <5> QED
          BY <5>1, <5>2, MoverType, Waypoints
      <4> QED
        BY <1>8, <4>1, PlanAssumption
    <3>3. CanCommit(t, a, n)
      BY <2>2, <2>3, <3>1, <3>2 DEF CanCommit, Owned
    <3> QED
      BY <1>2, <1>6, <1>11, <2>2, <2>3, <3>3 DEF Verdict, n
  <2>4. CASE ~(marker[t][a] < n)
    <3>1. row[a] = Destination(t, a, n)
      <4>1. marker[t][a] = n
        BY <1>5, <2>1, <2>4
      <4> QED
        BY <1>4, <4>1 DEF Proven, Destination
    <3> QED
      BY <1>2, <1>6, <1>11, <2>2, <2>4, <3>1 DEF Verdict, n
  <2> QED
    BY <2>3, <2>4
<1> QED
  BY <1>10, <1>11

\* What is on record after a crash is what recovery needs: where each file is,
\* and that only a rename without its receipt stops it.
THEOREM RecoveryIsSoundAlways == Spec => []RecoveryIsSound
<1> DEFINE All == IInv /\ OrderInv /\ RowInv /\ FileInv
<1>1. Init => All
  BY InvInit, OrderInit, RowInit, FileInit DEF RowInv
<1>2. All /\ [Next]_vars => All'
  BY InvStep, OrderStep, RowStep, FileStep
<1>3. All => RecoveryIsSound
  <2> SUFFICES ASSUME All PROVE FilesWhereProven /\ RefusedOnlyIfAmbiguous
    BY DEF RecoveryIsSound
  <2>1. FilesWhereProven
    <3> SUFFICES ASSUME meddled = 0, NEW a \in Archives
                 PROVE  LET t == Mover(a)
                            n == Frontier(t, a)
                            here == {p \in Paths : fs[p] = a}
                        IN  /\ row[a] = Waypoint(t, a, marker[t][a])
                            /\ IF InFlight(t, a) /\ done[t][a] < n
                               THEN here = {Source(t, a, n)} \/ here = {Destination(t, a, n)}
                               ELSE here = {Location(t, a)}
      BY DEF FilesWhereProven
    <3> QED
      BY DEF FileInv, Proven, Whereabouts
  <2>2. RefusedOnlyIfAmbiguous
    BY OnlyAmbiguous DEF RefusedOnlyIfAmbiguous
  <2> QED
    BY <2>1, <2>2
<1> QED
  BY <1>1, <1>2, <1>3, PTL DEF Spec

\* The journal orders what was done, and tells recovery what there is to do.
THEOREM JournalIsSoundAlways == Spec => []JournalIsSound
<1>1. AttemptsInOrder /\ RecoveryIsSound => JournalIsSound
  BY DEF JournalIsSound
<1> QED
  BY <1>1, AttemptsInOrderAlways, RecoveryIsSoundAlways, PTL

-----------------------------------------------------------------------------
(* The plan of canonical names                                             *)

Level == Folders \union {Root}
SoundUnits(units) ==
  /\ \A u \in units : ShapeIsSound(u)
  /\ PathsAreSound(units)
  /\ Conflicting(units) = {}

LEMMA FewerAreSound ==
  ASSUME NEW units, SoundUnits(units), NEW some \in SUBSET units
  PROVE  SoundUnits(some)
<1>1. MovesOf(some) \subseteq MovesOf(units)
  BY DEF MovesOf
<1>2. PathsAreSound(some)
  BY <1>1 DEF SoundUnits, PathsAreSound
<1>3. Conflicting(some) = {}
  BY DEF SoundUnits, Conflicting
<1> QED
  BY <1>2, <1>3 DEF SoundUnits

(* A book that is planned has one row of the catalogue, and it is alone.   *)
LEMMA RowIsItsOwn ==
  ASSUME NEW p \in Plannable
  PROVE  /\ p \in books /\ p \in BooksSeen
         /\ RowOf(p) \in catalogue /\ RowOf(p).path = p
         /\ \A s \in catalogue : SameNorm(s.path, p) => s = RowOf(p)
         /\ \A s \in catalogue : s.archive = RowOf(p).archive => s = RowOf(p)
<1>1. p \in books /\ p \in BooksSeen /\ Mapped(p) # {}
  BY DEF Plannable
<1>2. RowOf(p) \in Mapped(p)
  BY <1>1 DEF RowOf
<1> HIDE DEF RowOf
<1> QED
  BY <1>1, <1>2 DEF Mapped

LEMMA PlannedApart ==
  ASSUME NEW p \in Plannable, NEW q \in Plannable,
         \/ SameNorm(p, q)
         \/ RowOf(p).archive = RowOf(q).archive
         \/ RowOf(p).id = RowOf(q).id /\ catalogue \in Catalogues
  PROVE  p = q
<1>1. /\ RowOf(p) \in catalogue /\ RowOf(p).path = p
      /\ RowOf(q) \in catalogue /\ RowOf(q).path = q
      /\ \A s \in catalogue : SameNorm(s.path, q) => s = RowOf(q)
      /\ \A s \in catalogue : s.archive = RowOf(q).archive => s = RowOf(q)
  BY RowIsItsOwn
<1>2. RowOf(p) = RowOf(q)
  BY <1>1, PlanningAssumption
<1> QED
  BY <1>1, <1>2

(* The units that are derived.                                             *)
OldOf(say, k) == {p \in Plannable : say[p] = "older" /\ p[1] = k[1]}

Alone(say, keepers, u) ==
  \E p \in Plannable \ keepers :
     say[p] \in BookNames \ {p[2]} /\ u = NamedUnit({p}, Renaming(p, say[p]))
Family(say, u, k) ==
  u = NamedUnit(OldOf(say, k) \union {k},
                Quarantining(OldOf(say, k)) \union Renaming(k, say[k]))

LEMMA UnitForm ==
  ASSUME NEW say \in [Plannable -> Sayings], NEW keepers \in SUBSET Plannable,
         NEW u \in Units(say, keepers)
  PROVE  Alone(say, keepers, u) \/ \E k \in keepers : Family(say, u, k)
<1>1. DOMAIN say = Plannable
  OBVIOUS
<1>2. \A k : {p \in DOMAIN say : say[p] = "older" /\ p[1] = k[1]} = OldOf(say, k)
  BY <1>1 DEF OldOf
<1> HIDE DEF OldOf, NamedUnit, Quarantining, Renaming, Plannable
<1> QED
  BY <1>1, <1>2 DEF Units, Alone, Family

LEMMA MoveForm ==
  ASSUME NEW say \in [Plannable -> Sayings], NEW keepers \in SUBSET Plannable,
         \A k \in keepers : say[k] \in BookNames,
         NEW u \in Units(say, keepers), NEW m \in u.moves
  PROVE  \E p \in u.paths :
            \/ m = <<p, <<"quarantine", RowOf(p).archive>>>>
            \/ \E n \in BookNames \ {p[2]} : m = <<p, <<p[1], n>>>>
<1>1. CASE Alone(say, keepers, u)
  BY <1>1 DEF Alone, NamedUnit, Renaming
<1>2. ASSUME NEW k \in keepers, Family(say, u, k)
      PROVE  \E p \in u.paths :
                \/ m = <<p, <<"quarantine", RowOf(p).archive>>>>
                \/ \E n \in BookNames \ {p[2]} : m = <<p, <<p[1], n>>>>
  <2>1. u.paths = OldOf(say, k) \union {k}
        /\ (m \in Quarantining(OldOf(say, k)) \/ m \in Renaming(k, say[k]))
    BY <1>2 DEF Family, NamedUnit
  <2> HIDE DEF RowOf, OldOf
  <2>2. CASE m \in Quarantining(OldOf(say, k))
    BY <2>1, <2>2 DEF Quarantining
  <2>3. CASE m \in Renaming(k, say[k])
    BY <2>1, <2>3 DEF Renaming
  <2> QED
    BY <2>1, <2>2, <2>3
<1> QED
  BY <1>1, <1>2, UnitForm

LEMMA UnitPaths ==
  ASSUME NEW say \in [Plannable -> Sayings], NEW keepers \in SUBSET Plannable,
         NEW u \in Units(say, keepers)
  PROVE  u.paths \subseteq Plannable /\ u.rows = {RowOf(p) : p \in u.paths}
<1> HIDE DEF RowOf
<1>1. CASE Alone(say, keepers, u)
  BY <1>1 DEF Alone, NamedUnit
<1>2. CASE \E k \in keepers : Family(say, u, k)
  BY <1>2 DEF Family, NamedUnit, OldOf
<1> QED
  BY <1>1, <1>2, UnitForm

(* Two units name no book together.                                        *)
LEMMA UnitsApart ==
  ASSUME NEW say \in [Plannable -> Sayings], NEW keepers \in SUBSET Plannable,
         OneKeeperEach(say, keepers), books \subseteq BookPaths,
         NEW u \in Units(say, keepers), NEW v \in Units(say, keepers),
         NEW p \in u.paths, p \in v.paths
  PROVE  u = v
<1>1. \A w : Alone(say, keepers, w) /\ p \in w.paths =>
         p \in Plannable \ keepers /\ say[p] \in BookNames /\ w = NamedUnit({p}, Renaming(p, say[p]))
  BY DEF Alone, NamedUnit
<1>2. \A w, k : Family(say, w, k) /\ p \in w.paths => p = k \/ p \in OldOf(say, k)
  BY DEF Family, NamedUnit
<1>3. \A k : p \in OldOf(say, k) => say[p] = "older" /\ p[1] = k[1] /\ say[p] \notin BookNames
  BY PlanningAssumption DEF OldOf
<1>4. \A k \in keepers : say[k] \in BookNames
  BY DEF OneKeeperEach
<1>5. ASSUME NEW j \in keepers, NEW k \in keepers, j[1] = k[1] PROVE j = k
  <2> DEFINE f == j[1]
             Same == In(f, keepers)
  <2>1. j \in Same /\ k \in Same /\ Same \subseteq BookPaths /\ f \in Folders \union {Root}
    BY <1>5, RowIsItsOwn DEF In, BookPaths
  <2>2. IsFiniteSet(Same)
    <3>1. IsFiniteSet(Folders \union {Root})
      BY PlanningAssumption, FS_AddElement
    <3>2. IsFiniteSet(BookPaths)
      BY <3>1, PlanningAssumption, FS_Product DEF BookPaths
    <3> QED
      BY <2>1, <3>2, FS_Subset
  <2>3. Cardinality(Same) \in {0, 1}
    BY <2>1 DEF OneKeeperEach
  <2> HIDE DEF Same
  <2>4. Cardinality(Same) # 0
    BY <2>1, <2>2, FS_EmptySet
  <2>5. PICK x : Same = {x}
    BY <2>2, <2>3, <2>4, FS_Singleton
  <2> QED
    BY <2>1, <2>5
<1>6. /\ Alone(say, keepers, u) \/ \E k \in keepers : Family(say, u, k)
      /\ Alone(say, keepers, v) \/ \E k \in keepers : Family(say, v, k)
  BY UnitForm
<1>7. CASE Alone(say, keepers, u) /\ Alone(say, keepers, v)
  BY <1>1, <1>7
<1>8. ASSUME NEW j \in keepers, NEW k \in keepers, Family(say, u, j), Family(say, v, k) PROVE u = v
  <2>1. j[1] = k[1]
    BY <1>2, <1>3, <1>8
  <2> QED
    BY <1>5, <1>8, <2>1 DEF Family
<1>9. ASSUME NEW w, NEW x, NEW k \in keepers, Alone(say, keepers, w), Family(say, x, k),
             p \in w.paths, p \in x.paths
      PROVE  FALSE
  BY <1>1, <1>2, <1>3, <1>9
<1> QED
  BY <1>6, <1>7, <1>8, <1>9

LEMMA DerivedAreSound ==
  ASSUME NEW say \in [Plannable -> Sayings], NEW keepers \in SUBSET Plannable,
         OneKeeperEach(say, keepers), books \subseteq BookPaths, catalogue \in Catalogues,
         NEW all, all = Units(say, keepers)
  PROVE  SoundUnits({u \in all : ~Blocked(u, all)})
<1> DEFINE free == {u \in all : ~Blocked(u, all)}
<1>1. \A k \in keepers : say[k] \in BookNames
  BY DEF OneKeeperEach
<1>2. \A u \in all : u.paths \subseteq Plannable /\ u.rows = {RowOf(p) : p \in u.paths}
  BY UnitPaths
<1>3. \A p \in Plannable : /\ p \in BookPaths /\ p \in BooksSeen /\ p[1] # "quarantine"
                           /\ p = <<p[1], p[2]>> /\ p[2] \in BookNames /\ p[2] # Itself
  <2>1. \A p \in BookPaths : /\ p[1] \in Folders \union {Root} /\ p = <<p[1], p[2]>>
                             /\ p[2] \in BookNames
    BY DEF BookPaths
  <2>2. "quarantine" \notin Folders \union {Root} /\ Itself \notin BookNames
    BY PlanningAssumption DEF Root
  <2>3. \A p \in Plannable : p \in BookPaths /\ p \in BooksSeen
    BY RowIsItsOwn
  <2> QED
    BY <2>1, <2>2, <2>3
<1>4. \A u \in all : \A m \in u.moves :
         \E p \in u.paths :
            \/ m = <<p, <<"quarantine", RowOf(p).archive>>>>
            \/ \E n \in BookNames \ {p[2]} : m = <<p, <<p[1], n>>>>
  BY <1>1, MoveForm
<1>5. ASSUME NEW u \in all PROVE ShapeIsSound(u)
  <2>1. ASSUME NEW m \in u.moves
        PROVE  m[1] # m[2] /\ (Quarantined(m[2]) \/ m[2][1] = m[1][1])
    <3>1. PICK p \in u.paths : \/ m = <<p, <<"quarantine", RowOf(p).archive>>>>
                               \/ \E n \in BookNames \ {p[2]} : m = <<p, <<p[1], n>>>>
      BY <1>4
    <3>2. p \in Plannable /\ p[1] # "quarantine"
      BY <1>2, <1>3
    <3> HIDE DEF RowOf
    <3> QED
      BY <3>1, <3>2 DEF Quarantined
  <2>2. ASSUME Cardinality(u.paths) > 1 PROVE \E m \in u.moves : Quarantined(m[2])
    <3>1. \A x : Cardinality({x}) = 1
      BY FS_Singleton
    <3>2. CASE Alone(say, keepers, u)
      BY <2>2, <3>1, <3>2 DEF Alone, NamedUnit
    <3>3. ASSUME NEW k \in keepers, Family(say, u, k)
          PROVE  \E m \in u.moves : Quarantined(m[2])
      <4>1. /\ u.paths = OldOf(say, k) \union {k}
            /\ Quarantining(OldOf(say, k)) \subseteq u.moves
        BY <3>3 DEF Family, NamedUnit
      <4>2. OldOf(say, k) # {}
        <5>1. SUFFICES ASSUME OldOf(say, k) = {} PROVE FALSE
          OBVIOUS
        <5>2. u.paths = {k}
          BY <4>1, <5>1
        <5> QED
          BY <2>2, <3>1, <5>2
      <4>3. PICK p \in OldOf(say, k) : TRUE
        BY <4>2
      <4> DEFINE m == <<p, <<"quarantine", RowOf(p).archive>>>>
      <4>4. m \in u.moves
        BY <4>1, <4>3 DEF Quarantining
      <4>5. Quarantined(m[2])
        BY DEF Quarantined
      <4> QED
        BY <4>4, <4>5
    <3> QED
      BY <3>2, <3>3, UnitForm
  <2> QED
    BY <2>1, <2>2 DEF ShapeIsSound
<1>6. \A u \in free : u \in all /\ ~Blocked(u, all)
  OBVIOUS
<1>7. \A m \in MovesOf(free) : \E u \in free : m \in u.moves
  BY DEF MovesOf
<1>8. MovesOf(free) \subseteq MovesOf(all)
  BY DEF MovesOf
<1> HIDE DEF free
<1>9. ASSUME NEW m \in MovesOf(free)
      PROVE  \/ Quarantined(m[2])
             \/ m[2][1] # "quarantine" /\ m[2][2] \in BookNames /\ m[2][1] = m[1][1]
  <2>1. PICK u \in free : m \in u.moves
    BY <1>7
  <2>2. PICK p \in u.paths : \/ m = <<p, <<"quarantine", RowOf(p).archive>>>>
                             \/ \E n \in BookNames \ {p[2]} : m = <<p, <<p[1], n>>>>
    BY <1>4, <1>6, <2>1
  <2>3. p[1] # "quarantine"
    BY <1>2, <1>3, <1>6
  <2> HIDE DEF RowOf
  <2> QED
    BY <2>2, <2>3 DEF Quarantined
<1>10. ASSUME NEW m \in MovesOf(free), NEW k \in MovesOf(free), SameDestination(m[2], k[2])
       PROVE  m = k
  <2>1. Collide(m[2], k[2])
    BY <1>9, <1>10, KeyIsCoarser DEF SameDestination, Collide, SameNorm, SameKey, Quarantined
  <2>2. PICK u \in free : m \in u.moves
    BY <1>7
  <2>3. ~Blocked(u, all) /\ k \in MovesOf(all)
    BY <1>6, <1>8
  <2> QED
    BY <2>1, <2>2, <2>3 DEF Blocked
<1>11. ASSUME NEW m \in MovesOf(free), NEW u \in free, NEW p \in u.paths, SameDestination(p, m[2])
       PROVE  SameNorm(m[1], m[2])
  <2>1. p \in BooksSeen /\ ~Quarantined(p) /\ p[2] \in BookNames /\ p[2] # Itself
    BY <1>2, <1>3, <1>6 DEF Quarantined
  <2>2. ~Quarantined(m[2]) /\ SameNorm(p, m[2])
    BY <1>11, <2>1 DEF SameDestination, Quarantined
  <2>3. SameKey(p, m[2])
    BY <1>9, <2>1, <2>2, KeyIsCoarser DEF SameNorm, SameKey
  <2>4. PICK r \in Seen : r.path = p
    BY <2>1 DEF BooksSeen
  <2>5. p \in Occupants(m[2])
    BY <2>1, <2>2, <2>3, <2>4 DEF Occupants
  <2>6. PICK v \in free : m \in v.moves
    BY <1>7
  <2>7. OwnCaseOnly(m)
    BY <1>6, <2>5, <2>6 DEF Blocked
  <2> QED
    BY <2>7 DEF OwnCaseOnly
<1>12. ASSUME NEW u \in free, NEW p \in u.paths, NEW q \in u.paths, SameNorm(p, q)
       PROVE  p = q
  BY <1>2, <1>6, <1>12, PlannedApart
<1>13. PathsAreSound(free)
  BY <1>10, <1>11, <1>12 DEF PathsAreSound
<1>14. ASSUME NEW u \in free, NEW v \in free, NEW r \in u.rows, NEW s \in v.rows,
              r.id = s.id \/ r.archive = s.archive
       PROVE  u = v
  <2>1. PICK p \in u.paths : r = RowOf(p)
    BY <1>2, <1>6
  <2>2. PICK q \in v.paths : s = RowOf(q)
    BY <1>2, <1>6
  <2>3. p \in Plannable /\ q \in Plannable
    BY <1>2, <1>6
  <2>4. p = q
    BY <1>14, <2>1, <2>2, <2>3, PlannedApart
  <2> QED
    BY <1>6, <2>4, UnitsApart
<1>15. Conflicting(free) = {}
  BY <1>14 DEF Conflicting
<1>16. \A u \in free : ShapeIsSound(u)
  BY <1>5, <1>6
<1> QED
  BY <1>13, <1>15, <1>16 DEF SoundUnits, free

(* The planning run.                                                       *)
InRun ==
  /\ planning.phase \in {"first", "second"}
  /\ planning = [phase |-> planning.phase, mode |-> planning.mode, todo |-> planning.todo,
                 listed |-> planning.listed, seen |-> planning.seen,
                 committed |-> planning.committed, before |-> planning.before,
                 units |-> planning.units]
PlanTyped ==
  /\ books \subseteq BookPaths /\ stamp \in [Folders -> Nat] /\ catalogue \in Catalogues
  /\ \/ planning = Unplanned /\ document = Unplanned /\ disturbed = {}
     \/ planning = [phase |-> "refused"] /\ document = Unplanned
     \/ planning = [phase |-> "sealed"]
     \/ InRun /\ document = Unplanned

HasDirectory(f, rows) == \E r \in rows : r.kind = "directory" /\ r.path = <<f, Itself>>

\* A directory is seen with a time it has had; a book in one that is seen.
RowsHold(rows) ==
  \A r \in rows :
     /\ r.kind = "directory" =>
           \E f \in Folders : r.path = <<f, Itself>> /\ r.time \in Nat /\ r.time <= stamp[f]
     /\ r.kind = "book" => r.path[1] = Root \/ HasDirectory(r.path[1], rows)

\* The root is walked first and once; every other folder after it was seen.
RootPending == Root \in planning.todo \/ (planning.listed # <<>> /\ planning.listed[1] = Root)
EntriesFrom(f, paths) ==
  \A p \in paths :
     \/ p \in BookPaths /\ p[1] = f
     \/ f = Root /\ \E g \in Folders : p = <<g, Itself>>
WalkHolds ==
  /\ planning.todo \subseteq Level
  /\ planning.listed # <<>> =>
        \E f \in Level : \E paths : planning.listed = <<f, paths>> /\ EntriesFrom(f, paths)
  /\ RootPending => /\ planning.seen = {} /\ planning.todo \subseteq {Root}
                    /\ Root \in planning.todo => planning.listed = <<>>
  /\ \A f \in planning.todo \ {Root} : HasDirectory(f, planning.seen)
  /\ planning.listed # <<>> /\ planning.listed[1] # Root =>
        HasDirectory(planning.listed[1], planning.seen)

\* The time of a disturbed folder has moved on from when it was first seen.
FirstHolds ==
  planning.phase = "first" =>
     \A f \in disturbed \ {Root} :
        /\ \E r \in planning.seen : r.path = <<f, Itself>>
        /\ \A r \in planning.seen : r.kind = "directory" /\ r.path = <<f, Itself>> => r.time < stamp[f]
SecondHolds ==
  planning.phase = "second" =>
     /\ RowsHold(planning.before)
     /\ SoundUnits(planning.units)
     /\ \A u \in planning.units : \A p \in u.paths :
           p \in BookPaths /\ (p[1] # Root => HasDirectory(p[1], planning.before))
     /\ \A f \in disturbed \ {Root} : \A r \in planning.before :
           r.kind = "directory" /\ r.path = <<f, Itself>> =>
              /\ r.time < stamp[f]
              /\ \A s \in planning.seen : s.kind = "directory" /\ s.path = r.path => r.time < s.time
DocumentHolds ==
  document # Unplanned =>
     /\ SoundUnits(document.units)
     /\ \A u \in document.units : \A p \in u.paths : p[1] \notin disturbed \ {Root}
PlanInv ==
  /\ PlanTyped /\ DocumentHolds
  /\ InRun => RowsHold(planning.seen) /\ WalkHolds /\ FirstHolds /\ SecondHolds

LEMMA MoreRows ==
  ASSUME NEW f, NEW rows, NEW more, HasDirectory(f, rows), rows \subseteq more
  PROVE  HasDirectory(f, more)
BY DEF HasDirectory

LEMMA PlanBegins == PlanInit => PlanInv
<1> SUFFICES ASSUME PlanInit PROVE PlanInv
  OBVIOUS
<1>1. /\ books \subseteq BookPaths /\ stamp \in [Folders -> Nat] /\ catalogue \in Catalogues
      /\ planning = Unplanned /\ document = Unplanned /\ disturbed = {}
  BY PlanningAssumption DEF PlanInit, BookPaths
<1>2. ~InRun
  BY <1>1 DEF InRun, Unplanned
<1> QED
  BY <1>1, <1>2 DEF PlanInv, PlanTyped, DocumentHolds

(* A run that is given up, or a plan that is refused, leaves no plan.      *)
LEMMA RefusedHolds ==
  ASSUME PlanInv, InRun, RefusePlan, LibraryStays
  PROVE  PlanInv'
<1>1. document' = Unplanned /\ planning' = [phase |-> "refused"]
  BY DEF RefusePlan, PlanInv, PlanTyped, InRun, Unplanned
<1>2. ~InRun'
  BY <1>1 DEF InRun
<1> QED
  BY <1>1, <1>2 DEF PlanInv, PlanTyped, DocumentHolds, LibraryStays

LEMMA ObservingRuns ==
  ASSUME PlanInv, Observing
  PROVE  /\ InRun /\ document = Unplanned
         /\ books \subseteq BookPaths /\ stamp \in [Folders -> Nat] /\ catalogue \in Catalogues
         /\ RowsHold(planning.seen) /\ WalkHolds /\ FirstHolds /\ SecondHolds
<1>1. planning # Unplanned /\ planning # [phase |-> "refused"] /\ planning # [phase |-> "sealed"]
  BY DEF Observing, Unplanned
<1> QED
  BY <1>1 DEF PlanInv, PlanTyped

LEMMA StartHolds ==
  ASSUME PlanInv, NEW scope \in PlanModes, StartPlanning(scope)
  PROVE  PlanInv'
<1>1. /\ planning = Unplanned /\ LibraryStays /\ document' = document
      /\ planning' = [phase |-> "first", mode |-> scope, todo |-> {Root},
                      listed |-> <<>>, seen |-> {}, committed |-> FALSE,
                      before |-> {}, units |-> {}]
  BY DEF StartPlanning
<1>2. document = Unplanned /\ disturbed = {}
  BY <1>1 DEF PlanInv, PlanTyped, InRun, Unplanned
<1>3. PlanTyped'
  BY <1>1, <1>2 DEF PlanInv, PlanTyped, InRun, LibraryStays
<1>4. RowsHold(planning.seen)' /\ WalkHolds'
  BY <1>1 DEF RowsHold, WalkHolds, RootPending, Level
<1>5. FirstHolds' /\ SecondHolds' /\ DocumentHolds'
  BY <1>1, <1>2 DEF FirstHolds, SecondHolds, DocumentHolds, LibraryStays
<1> QED
  BY <1>3, <1>4, <1>5 DEF PlanInv

(* A step of the walk: what it changes, and what it must show.             *)
LEMMA WalkOn ==
  ASSUME PlanInv, InRun, LibraryStays, UNCHANGED document, NEW a, NEW b, NEW c,
         planning' = [planning EXCEPT !.todo = a, !.listed = c, !.seen = b]
  PROVE  /\ planning' = [phase |-> planning.phase, mode |-> planning.mode, todo |-> a,
                         listed |-> c, seen |-> b, committed |-> planning.committed,
                         before |-> planning.before, units |-> planning.units]
         /\ InRun' /\ PlanTyped' /\ DocumentHolds'
<1>1. planning' = [phase |-> planning.phase, mode |-> planning.mode, todo |-> a,
                   listed |-> c, seen |-> b, committed |-> planning.committed,
                   before |-> planning.before, units |-> planning.units]
  BY DEF InRun
<1>2. InRun'
  BY <1>1 DEF InRun
<1>3. document = Unplanned
  BY DEF PlanInv, PlanTyped, InRun, Unplanned
<1> QED
  BY <1>1, <1>2, <1>3 DEF PlanInv, PlanTyped, DocumentHolds, LibraryStays

LEMMA ListHolds ==
  ASSUME PlanInv, NEW f \in Level, ListFolder(f)
  PROVE  PlanInv'
<1>1. /\ Observing /\ planning.listed = <<>> /\ f \in planning.todo /\ LibraryStays
  BY DEF ListFolder
<1>2. /\ InRun /\ document = Unplanned
      /\ books \subseteq BookPaths /\ stamp \in [Folders -> Nat] /\ catalogue \in Catalogues
      /\ RowsHold(planning.seen) /\ WalkHolds /\ FirstHolds /\ SecondHolds
  BY <1>1, ObservingRuns
<1>3. f # Root => ~RootPending /\ HasDirectory(f, planning.seen)
  BY <1>1, <1>2 DEF WalkHolds, RootPending
<1>4. CASE RefusePlan
  BY <1>1, <1>2, <1>4, RefusedHolds
<1>5. ASSUME f # Root, UNCHANGED document,
             planning' = [planning EXCEPT !.todo = @ \ {f},
                                          !.seen = @ \union {Vanished(<<f, Itself>>)}]
      PROVE  PlanInv'
  <2> DEFINE a == planning.todo \ {f}
             b == planning.seen \union {Vanished(<<f, Itself>>)}
  <2>1. planning' = [planning EXCEPT !.todo = a, !.listed = planning.listed, !.seen = b]
    BY <1>2, <1>5 DEF InRun
  <2> HIDE DEF a, b
  <2>2. /\ planning' = [phase |-> planning.phase, mode |-> planning.mode, todo |-> a,
                        listed |-> planning.listed, seen |-> b, committed |-> planning.committed,
                        before |-> planning.before, units |-> planning.units]
        /\ PlanTyped' /\ DocumentHolds'
    <3>1. document' = document
      BY <1>5
    <3> QED
      BY <1>1, <1>2, <2>1, <3>1, WalkOn
  <2>3. planning.seen \subseteq b /\ \A r \in b \ planning.seen : r.kind = "vanished"
    <3>1. Vanished(<<f, Itself>>).kind = "vanished"
      BY DEF Vanished, Row
    <3> QED
      BY <3>1 DEF b
  <2>4. RowsHold(planning.seen)'
    <3>1. \A g : HasDirectory(g, planning.seen) => HasDirectory(g, b)
      BY <2>3 DEF HasDirectory
    <3> QED
      BY <1>1, <1>2, <2>2, <2>3, <3>1 DEF RowsHold, LibraryStays
  <2>5. WalkHolds'
    <3>1. a \subseteq planning.todo
      BY DEF a
    <3>2. ~RootPending'
      BY <1>1, <1>3, <1>5, <2>2, <3>1 DEF RootPending
    <3>3. \A g : HasDirectory(g, planning.seen) => HasDirectory(g, b)
      BY <2>3 DEF HasDirectory
    <3> QED
      BY <1>1, <1>2, <2>2, <3>1, <3>2, <3>3 DEF WalkHolds
  <2>6. FirstHolds'
    BY <1>1, <1>2, <2>2, <2>3 DEF FirstHolds, LibraryStays
  <2>7. SecondHolds'
    BY <1>1, <1>2, <2>2, <2>3 DEF SecondHolds, RowsHold, LibraryStays
  <2> QED
    BY <2>2, <2>4, <2>5, <2>6, <2>7 DEF PlanInv
<1>6. ASSUME UNCHANGED document,
             planning' = [planning EXCEPT !.todo = @ \ {f}, !.listed = <<f, EntriesOf(f)>>]
      PROVE  PlanInv'
  <2> DEFINE a == planning.todo \ {f}
             c == <<f, EntriesOf(f)>>
  <2>1. planning' = [planning EXCEPT !.todo = a, !.listed = c, !.seen = planning.seen]
    BY <1>2, <1>6 DEF InRun
  <2> HIDE DEF a, c
  <2>2. /\ planning' = [phase |-> planning.phase, mode |-> planning.mode, todo |-> a,
                        listed |-> c, seen |-> planning.seen, committed |-> planning.committed,
                        before |-> planning.before, units |-> planning.units]
        /\ PlanTyped' /\ DocumentHolds'
    BY <1>1, <1>2, <1>6, <2>1, WalkOn
  <2>3. EntriesFrom(f, EntriesOf(f))
    <3>1. FoldersThere \subseteq Folders
      BY <1>2 DEF FoldersThere, BookPaths
    <3> QED
      BY <1>2, <3>1 DEF EntriesFrom, EntriesOf, In
  <2>4. WalkHolds'
    <3>1. a \subseteq planning.todo /\ f \notin a /\ c = <<f, EntriesOf(f)>> /\ c[1] = f
      BY DEF a, c
    <3>2. RootPending' => f = Root /\ planning.seen = {} /\ a = {}
      BY <1>1, <1>2, <1>3, <2>2, <3>1 DEF RootPending, WalkHolds
    <3> QED
      BY <1>2, <1>3, <2>2, <2>3, <3>1, <3>2 DEF WalkHolds
  <2>5. RowsHold(planning.seen)' /\ FirstHolds' /\ SecondHolds'
    BY <1>1, <1>2, <2>2 DEF RowsHold, FirstHolds, SecondHolds, LibraryStays
  <2> QED
    BY <2>2, <2>4, <2>5 DEF PlanInv
<1> QED
  BY <1>4, <1>5, <1>6 DEF ListFolder

LEMMA ExamineHolds == ASSUME PlanInv, ExamineFolder PROVE PlanInv'
<1>1. Observing /\ planning.listed # <<>> /\ LibraryStays
  BY DEF ExamineFolder
<1>2. /\ InRun /\ document = Unplanned
      /\ books \subseteq BookPaths /\ stamp \in [Folders -> Nat] /\ catalogue \in Catalogues
      /\ RowsHold(planning.seen) /\ WalkHolds /\ FirstHolds /\ SecondHolds
  BY <1>1, ObservingRuns
<1>3. CASE RefusePlan
  BY <1>1, <1>2, <1>3, RefusedHolds
<1> DEFINE f == planning.listed[1]
           kept == {p \in planning.listed[2] : p[2] # Itself \/ Asked(p[1])}
           gone == kept \ EntriesOf(f)
           rows == {PresentBooks(p) : p \in kept \ gone} \union {Vanished(p) : p \in gone}
           dirs == {p[1] : p \in {q \in kept \ gone : q[2] = Itself}}
<1>4. RefusePlan \/ (UNCHANGED document
         /\ planning' = [planning EXCEPT !.listed = <<>>, !.seen = @ \union rows,
                                         !.todo = @ \union dirs])
  BY DEF ExamineFolder
<1>5. f \in Level /\ EntriesFrom(f, planning.listed[2])
  BY <1>1, <1>2 DEF WalkHolds
<1>6. \A p \in kept : \/ p \in BookPaths /\ p[1] = f /\ p[2] # Itself
                      \/ f = Root /\ \E g \in Folders : p = <<g, Itself>>
  <2>1. \A p \in BookPaths : p[2] # Itself
    BY PlanningAssumption DEF BookPaths
  <2> QED
    BY <1>5, <2>1 DEF EntriesFrom
<1>7. \A r \in rows :
         \/ r.kind = "vanished"
         \/ r.kind = "book" /\ r.path[1] = f
         \/ /\ r.kind = "directory" /\ f = Root
            /\ \E g \in Folders : r.path = <<g, Itself>> /\ r.time = stamp[g]
  <2>1. \A p : Vanished(p).kind = "vanished"
    BY DEF Vanished, Row
  <2>2. ASSUME NEW p \in kept
        PROVE  \/ PresentBooks(p).kind = "book" /\ PresentBooks(p).path[1] = f
               \/ /\ PresentBooks(p).kind = "directory" /\ f = Root
                  /\ \E g \in Folders :
                        PresentBooks(p).path = <<g, Itself>> /\ PresentBooks(p).time = stamp[g]
    <3>1. CASE p[1] = f /\ p[2] # Itself
      BY <3>1 DEF PresentBooks, Row
    <3>2. CASE f = Root /\ \E g \in Folders : p = <<g, Itself>>
      BY <3>2 DEF PresentBooks, Row
    <3> QED
      BY <1>6, <3>1, <3>2
  <2> QED
    BY <2>1, <2>2
<1>8. \A g \in dirs : g \in Folders /\ f = Root /\ HasDirectory(g, rows)
  <2>1. SUFFICES ASSUME NEW p \in kept \ gone, p[2] = Itself
                 PROVE  p[1] \in Folders /\ f = Root /\ HasDirectory(p[1], rows)
    OBVIOUS
  <2>2. f = Root /\ p = <<p[1], Itself>> /\ p[1] \in Folders
    <3>1. f = Root /\ \E g \in Folders : p = <<g, Itself>>
      BY <1>6, <2>1
    <3> QED
      BY <3>1
  <2>3. PresentBooks(p) \in rows /\ PresentBooks(p).kind = "directory" /\ PresentBooks(p).path = p
    BY <2>1 DEF PresentBooks, Row
  <2> QED
    BY <2>2, <2>3 DEF HasDirectory
<1> HIDE DEF rows, dirs
<1>9. ASSUME UNCHANGED document,
             planning' = [planning EXCEPT !.listed = <<>>, !.seen = @ \union rows,
                                          !.todo = @ \union dirs]
      PROVE  PlanInv'
  <2> DEFINE a == planning.todo \union dirs
             b == planning.seen \union rows
  <2>1. planning' = [planning EXCEPT !.todo = a, !.listed = <<>>, !.seen = b]
    BY <1>2, <1>9 DEF InRun
  <2>2. \A g : HasDirectory(g, planning.seen) \/ HasDirectory(g, rows) => HasDirectory(g, b)
    BY DEF HasDirectory
  <2> HIDE DEF a, b
  <2>3. /\ planning' = [phase |-> planning.phase, mode |-> planning.mode, todo |-> a,
                        listed |-> <<>>, seen |-> b, committed |-> planning.committed,
                        before |-> planning.before, units |-> planning.units]
        /\ PlanTyped' /\ DocumentHolds'
    BY <1>1, <1>2, <1>9, <2>1, WalkOn
  <2>4. /\ f = Root => planning.seen = {} /\ planning.todo = {}
        /\ f # Root => ~RootPending /\ dirs = {} /\ HasDirectory(f, planning.seen)
    BY <1>1, <1>2, <1>8 DEF WalkHolds, RootPending
  <2>5. RowsHold(planning.seen)'
    <3>1. \A g \in Folders : stamp[g] \in Nat
      BY <1>2
    <3>2. \A r \in b : r \in planning.seen \/ r \in rows
      BY DEF b
    <3>3. \A r \in b :
             /\ r.kind = "directory" =>
                   \E g \in Folders : r.path = <<g, Itself>> /\ r.time \in Nat /\ r.time <= stamp[g]
             /\ r.kind = "book" => r.path[1] = Root \/ HasDirectory(r.path[1], b)
      <4>1. ASSUME NEW r \in b, r.kind = "directory"
            PROVE  \E g \in Folders : r.path = <<g, Itself>> /\ r.time \in Nat /\ r.time <= stamp[g]
        <5>1. CASE r \in planning.seen
          BY <1>2, <4>1, <5>1 DEF RowsHold
        <5>2. CASE r \in rows
          <6>1. PICK g \in Folders : r.path = <<g, Itself>> /\ r.time = stamp[g]
            BY <1>7, <4>1, <5>2
          <6> QED
            BY <3>1, <6>1
        <5> QED
          BY <3>2, <5>1, <5>2
      <4>2. ASSUME NEW r \in b, r.kind = "book"
            PROVE  r.path[1] = Root \/ HasDirectory(r.path[1], b)
        <5>1. CASE r \in planning.seen
          BY <1>2, <2>2, <4>2, <5>1 DEF RowsHold
        <5>2. CASE r \in rows
          BY <1>7, <2>2, <2>4, <4>2, <5>2
        <5> QED
          BY <3>2, <5>1, <5>2
      <4> QED
        BY <4>1, <4>2
    <3> QED
      BY <1>1, <2>3, <3>3 DEF RowsHold, LibraryStays
  <2>6. WalkHolds'
    <3>1. a \subseteq Level
      BY <1>2, <1>8 DEF a, WalkHolds, Level
    <3>2. ~RootPending'
      <4>1. Root \notin a
        BY <1>8, <2>4, PlanningAssumption DEF a, RootPending
      <4> QED
        BY <2>3, <4>1 DEF RootPending
    <3>3. \A g \in a \ {Root} : HasDirectory(g, b)
      BY <1>2, <1>8, <2>2 DEF a, WalkHolds
    <3> QED
      BY <2>3, <3>1, <3>2, <3>3 DEF WalkHolds
  <2>7. FirstHolds'
    <3>1. ASSUME planning.phase = "first", NEW g \in disturbed \ {Root}
          PROVE  /\ \E r \in b : r.path = <<g, Itself>>
                 /\ \A r \in b : r.kind = "directory" /\ r.path = <<g, Itself>> => r.time < stamp[g]
      <4>1. /\ \E r \in planning.seen : r.path = <<g, Itself>>
            /\ \A r \in planning.seen :
                  r.kind = "directory" /\ r.path = <<g, Itself>> => r.time < stamp[g]
        BY <1>2, <3>1 DEF FirstHolds
      <4>2. f # Root
        BY <2>4, <4>1
      <4> QED
        BY <1>7, <4>1, <4>2 DEF b
    <3> QED
      BY <1>1, <2>3, <3>1 DEF FirstHolds, LibraryStays
  <2>8. SecondHolds'
    <3>1. ASSUME planning.phase = "second", NEW g \in disturbed \ {Root}, NEW r \in planning.before,
                 r.kind = "directory", r.path = <<g, Itself>>, NEW s \in b, s.kind = "directory",
                 s.path = r.path
          PROVE  r.time < s.time
      <4>1. CASE s \in planning.seen
        BY <1>2, <3>1, <4>1 DEF SecondHolds
      <4>2. CASE s \in rows
        <5>1. PICK h \in Folders : s.path = <<h, Itself>> /\ s.time = stamp[h]
          BY <1>7, <3>1, <4>2
        <5>2. h = g
          BY <3>1, <5>1
        <5>3. r.time < stamp[g]
          BY <1>2, <3>1 DEF SecondHolds
        <5> QED
          BY <5>1, <5>2, <5>3
      <4> QED
        BY <3>1, <4>1, <4>2 DEF b
    <3> QED
      BY <1>1, <1>2, <2>3, <3>1 DEF SecondHolds, RowsHold, LibraryStays
  <2> QED
    BY <2>3, <2>5, <2>6, <2>7, <2>8 DEF PlanInv
<1> QED
  BY <1>3, <1>4, <1>9

LEMMA DeriveHolds == ASSUME PlanInv, DerivePlan PROVE PlanInv'
<1>1. /\ planning.phase = "first" /\ planning.listed = <<>> /\ LibraryStays
      /\ UNCHANGED document
  BY DEF DerivePlan
<1>2. /\ InRun /\ document = Unplanned
      /\ books \subseteq BookPaths /\ stamp \in [Folders -> Nat] /\ catalogue \in Catalogues
      /\ RowsHold(planning.seen) /\ WalkHolds /\ FirstHolds /\ SecondHolds
  BY <1>1, ObservingRuns DEF Observing
<1>3. PICK say \in [Plannable -> Sayings], keepers \in SUBSET Plannable :
         /\ OneKeeperEach(say, keepers)
         /\ planning' = [planning EXCEPT !.phase = "second", !.todo = {Root},
                !.seen = {}, !.before = Seen,
                !.units = {u \in Units(say, keepers) : ~Blocked(u, Units(say, keepers))}]
  BY DEF DerivePlan
<1> DEFINE free == {u \in Units(say, keepers) : ~Blocked(u, Units(say, keepers))}
<1>4. SoundUnits(free)
  BY <1>2, <1>3, DerivedAreSound
<1>5. ASSUME NEW u \in free, NEW p \in u.paths
      PROVE  p \in BookPaths /\ (p[1] # Root => HasDirectory(p[1], planning.seen))
  <2>1. p \in Plannable
    BY UnitPaths
  <2>2. p \in books /\ p \in BooksSeen
    BY <2>1, RowIsItsOwn
  <2>3. PICK r \in planning.seen : r.kind = "book" /\ r.path = p
    BY <2>2 DEF BooksSeen, Seen
  <2> QED
    BY <1>2, <2>2, <2>3 DEF RowsHold
<1> HIDE DEF free
<1>6. planning' = [phase |-> "second", mode |-> planning.mode, todo |-> {Root},
                   listed |-> <<>>, seen |-> {}, committed |-> planning.committed,
                   before |-> planning.seen, units |-> free]
  BY <1>1, <1>2, <1>3 DEF InRun, Seen, free
<1>7. PlanTyped' /\ DocumentHolds'
  BY <1>1, <1>2, <1>6 DEF PlanTyped, InRun, DocumentHolds, LibraryStays
<1>8. RowsHold(planning.seen)' /\ WalkHolds' /\ FirstHolds'
  BY <1>6 DEF RowsHold, WalkHolds, RootPending, Level, FirstHolds
<1>9. SecondHolds'
  <2>1. RowsHold(planning.before)'
    BY <1>1, <1>2, <1>6 DEF RowsHold, LibraryStays
  <2>2. \A f \in disturbed \ {Root} : \A r \in planning.seen :
           r.kind = "directory" /\ r.path = <<f, Itself>> => r.time < stamp[f]
    BY <1>1, <1>2 DEF FirstHolds
  <2> QED
    BY <1>1, <1>4, <1>5, <1>6, <2>1, <2>2 DEF SecondHolds, LibraryStays
<1> QED
  BY <1>7, <1>8, <1>9 DEF PlanInv

LEMMA SealHolds == ASSUME PlanInv, SealPlan PROVE PlanInv'
<1>1. planning.phase = "second" /\ LibraryStays
  BY DEF SealPlan
<1>2. /\ InRun /\ document = Unplanned
      /\ books \subseteq BookPaths /\ stamp \in [Folders -> Nat] /\ catalogue \in Catalogues
      /\ RowsHold(planning.seen) /\ WalkHolds /\ FirstHolds /\ SecondHolds
  BY <1>1, ObservingRuns DEF Observing
<1>3. CASE RefusePlan
  BY <1>1, <1>2, <1>3, RefusedHolds
<1> DEFINE skipped == Skipped(planning.before, Seen)
           sealed == {u \in planning.units : \A p \in u.paths : p[1] \notin skipped}
<1>4. CASE /\ planning' = [phase |-> "sealed"]
           /\ document' = [units |-> sealed, skipped |-> skipped]
  <2>1. document'.units = sealed /\ sealed \subseteq planning.units
    BY <1>4
  <2>2. SoundUnits(sealed)
    BY <1>1, <1>2, <2>1, FewerAreSound DEF SecondHolds
  <2>3. ASSUME NEW u \in sealed, NEW p \in u.paths PROVE p[1] \notin disturbed \ {Root}
    <3>1. SUFFICES ASSUME p[1] \in disturbed, p[1] # Root PROVE FALSE
      OBVIOUS
    <3>2. p \in BookPaths /\ HasDirectory(p[1], planning.before)
      BY <1>1, <1>2, <2>1, <3>1 DEF SecondHolds
    <3>3. p[1] \in Folders /\ p[1] \notin skipped
      BY <2>3, <3>1, <3>2 DEF BookPaths
    <3>4. RowsOf(p[1], planning.before) = RowsOf(p[1], planning.seen)
      BY <3>3 DEF Skipped, Seen
    <3>5. PICK r \in planning.before : r.kind = "directory" /\ r.path = <<p[1], Itself>>
      BY <3>2 DEF HasDirectory
    <3>6. r \in planning.seen
      <4>1. r.path[1] = p[1]
        BY <3>5
      <4>2. r \in RowsOf(p[1], planning.before)
        BY <4>1 DEF RowsOf
      <4> QED
        BY <3>4, <4>2 DEF RowsOf
    <3>7. r.time < r.time
      BY <1>1, <1>2, <3>1, <3>5, <3>6 DEF SecondHolds
    <3>8. r.time \in Nat
      BY <1>1, <1>2, <3>5 DEF SecondHolds, RowsHold
    <3> QED
      BY <3>7, <3>8
  <2>4. DocumentHolds'
    BY <1>1, <2>1, <2>2, <2>3 DEF DocumentHolds, LibraryStays
  <2>5. PlanTyped' /\ ~InRun'
    BY <1>1, <1>2, <1>4 DEF PlanTyped, InRun, LibraryStays
  <2> QED
    BY <2>4, <2>5 DEF PlanInv
<1> QED
  BY <1>3, <1>4 DEF SealPlan

LEMMA CommitHolds == ASSUME PlanInv, CatalogueCommits PROVE PlanInv'
<1>1. Observing /\ LibraryStays /\ UNCHANGED document
  BY DEF CatalogueCommits
<1>2. /\ InRun /\ document = Unplanned
      /\ books \subseteq BookPaths /\ stamp \in [Folders -> Nat] /\ catalogue \in Catalogues
      /\ RowsHold(planning.seen) /\ WalkHolds /\ FirstHolds /\ SecondHolds
  BY <1>1, ObservingRuns
<1>3. planning' = [planning EXCEPT !.committed = TRUE]
  BY DEF CatalogueCommits
<1>4. planning' = [phase |-> planning.phase, mode |-> planning.mode, todo |-> planning.todo,
                   listed |-> planning.listed, seen |-> planning.seen, committed |-> TRUE,
                   before |-> planning.before, units |-> planning.units]
  BY <1>2, <1>3 DEF InRun
<1>5. PlanTyped' /\ DocumentHolds'
  BY <1>1, <1>2, <1>4 DEF PlanTyped, InRun, DocumentHolds, LibraryStays
<1>6. RowsHold(planning.seen)' /\ WalkHolds' /\ FirstHolds'
  BY <1>1, <1>2, <1>4 DEF RowsHold, WalkHolds, RootPending, FirstHolds, LibraryStays
<1>7. SecondHolds'
  BY <1>1, <1>2, <1>4 DEF RowsHold, SecondHolds, LibraryStays
<1> QED
  BY <1>5, <1>6, <1>7 DEF PlanInv

LEMMA ChangeHolds == ASSUME PlanInv, LibraryChanges PROVE PlanInv'
<1>1. UNCHANGED <<catalogue, planning, document>>
  BY DEF LibraryChanges
<1>2. PICK p \in BookPaths :
         /\ books' = IF p \in books THEN books \ {p} ELSE books \union {p}
         /\ stamp' = [f \in Folders |-> stamp[f] + (IF f = p[1] THEN 1 ELSE 0)]
         /\ disturbed' = IF Observing /\ BetweenObservations(p[1])
                       THEN disturbed \union {p[1]} ELSE disturbed
  BY DEF LibraryChanges
<1>3. stamp \in [Folders -> Nat] /\ p[1] \in Level /\ PlanTyped
  BY <1>2 DEF PlanInv, PlanTyped, BookPaths, Level
<1>4. stamp' \in [Folders -> Nat] /\ books' \subseteq BookPaths
  BY <1>2, <1>3 DEF PlanTyped
<1>5. /\ \A f \in Folders : stamp[f] \in Nat /\ stamp'[f] \in Nat /\ stamp[f] <= stamp'[f]
      /\ p[1] \in Folders => stamp[p[1]] < stamp'[p[1]]
  BY <1>2, <1>3, <1>4
<1>6. ~Observing => disturbed' = disturbed
  BY <1>2
<1>7. PlanTyped'
  <2>1. planning = Unplanned => ~Observing
    BY DEF Observing, Unplanned
  <2> QED
    BY <1>1, <1>3, <1>4, <1>6, <2>1 DEF PlanTyped, InRun
<1>8. DocumentHolds'
  <2>1. document # Unplanned => ~Observing
    BY ObservingRuns
  <2> QED
    BY <1>1, <1>6, <2>1 DEF PlanInv, DocumentHolds
<1>9. \A rows : RowsHold(rows) =>
         \A r \in rows : r.kind = "directory" =>
            \E f \in Folders : r.path = <<f, Itself>> /\ r.time \in Nat /\ r.time <= stamp[f]
  BY DEF RowsHold
<1>10. ASSUME NEW rows, RowsHold(rows), NEW r \in rows
       PROVE  /\ r.kind = "directory" =>
                   \E f \in Folders : r.path = <<f, Itself>> /\ r.time \in Nat /\ r.time <= stamp'[f]
              /\ r.kind = "book" => r.path[1] = Root \/ HasDirectory(r.path[1], rows)
  <2>1. ASSUME r.kind = "directory"
        PROVE  \E f \in Folders : r.path = <<f, Itself>> /\ r.time \in Nat /\ r.time <= stamp'[f]
    <3>1. PICK f \in Folders : r.path = <<f, Itself>> /\ r.time \in Nat /\ r.time <= stamp[f]
      BY <1>10, <2>1 DEF RowsHold
    <3>2. stamp[f] \in Nat /\ stamp'[f] \in Nat /\ stamp[f] <= stamp'[f]
      BY <1>5
    <3>3. r.time <= stamp'[f]
      BY <3>1, <3>2
    <3> QED
      BY <3>1, <3>3
  <2>2. r.kind = "book" => r.path[1] = Root \/ HasDirectory(r.path[1], rows)
    BY <1>10 DEF RowsHold
  <2> QED
    BY <2>1, <2>2
<1>11. ASSUME InRun
       PROVE  RowsHold(planning.seen)' /\ WalkHolds' /\ FirstHolds' /\ SecondHolds'
  <2>1. Observing
    BY <1>11 DEF InRun, Observing
  <2>2. RowsHold(planning.seen) /\ WalkHolds /\ FirstHolds /\ SecondHolds
    BY <2>1, ObservingRuns
  <2>3. RowsHold(planning.seen)'
    BY <1>1, <1>10, <2>2 DEF RowsHold
  <2>4. WalkHolds'
    BY <1>1, <2>2 DEF WalkHolds, RootPending
  <2>5. p[1] \in disturbed' /\ p[1] \notin disturbed => BetweenObservations(p[1])
    BY <1>2, <2>1
  <2>6. disturbed' \subseteq disturbed \union {p[1]}
    BY <1>2
  <2>7. ASSUME NEW rows, RowsHold(rows), NEW r \in rows, NEW f, r.kind = "directory",
               r.path = <<f, Itself>>, f \in disturbed => r.time < stamp[f],
               f \in disturbed' \ {Root}
        PROVE  r.time < stamp'[f]
    <3>1. f \in Folders /\ r.time \in Nat /\ r.time <= stamp[f]
      <4>1. PICK h \in Folders : r.path = <<h, Itself>> /\ r.time \in Nat /\ r.time <= stamp[h]
        BY <2>7 DEF RowsHold
      <4>2. h = f
        BY <2>7, <4>1
      <4> QED
        BY <4>1, <4>2
    <3>4. /\ stamp[f] \in Nat /\ stamp'[f] \in Nat /\ stamp[f] <= stamp'[f]
          /\ f = p[1] => stamp[f] < stamp'[f]
      BY <1>5, <3>1
    <3>2. CASE f = p[1]
      BY <3>1, <3>2, <3>4
    <3>3. CASE f # p[1]
      <4>1. r.time < stamp[f]
        BY <2>6, <2>7, <3>3
      <4> QED
        BY <3>1, <3>4, <4>1
    <3> QED
      BY <3>2, <3>3
  <2>8. FirstHolds'
    <3>1. ASSUME planning.phase = "first", NEW f \in disturbed' \ {Root}
          PROVE  /\ \E r \in planning.seen : r.path = <<f, Itself>>
                 /\ \A r \in planning.seen :
                       r.kind = "directory" /\ r.path = <<f, Itself>> => r.time < stamp'[f]
      <4>1. \E r \in planning.seen : r.path = <<f, Itself>>
        <5>1. CASE f \in disturbed
          BY <2>2, <3>1, <5>1 DEF FirstHolds
        <5>2. CASE f \notin disturbed
          BY <2>5, <2>6, <3>1, <5>2 DEF BetweenObservations, Observed, Seen
        <5> QED
          BY <5>1, <5>2
      <4>2. \A r \in planning.seen : f \in disturbed /\ r.kind = "directory" /\ r.path = <<f, Itself>> =>
               r.time < stamp[f]
        BY <2>2, <3>1 DEF FirstHolds
      <4> QED
        BY <2>2, <2>7, <3>1, <4>1, <4>2
    <3> QED
      BY <1>1, <3>1 DEF FirstHolds
  <2>9. SecondHolds'
    <3>1. CASE planning.phase # "second"
      BY <1>1, <3>1 DEF SecondHolds
    <3>2. CASE planning.phase = "second"
      <4>1. /\ RowsHold(planning.before) /\ SoundUnits(planning.units)
            /\ \A u \in planning.units : \A q \in u.paths :
                  q \in BookPaths /\ (q[1] # Root => HasDirectory(q[1], planning.before))
            /\ \A f \in disturbed \ {Root} : \A r \in planning.before :
                  r.kind = "directory" /\ r.path = <<f, Itself>> =>
                     /\ r.time < stamp[f]
                     /\ \A s \in planning.seen :
                           s.kind = "directory" /\ s.path = r.path => r.time < s.time
        BY <2>2, <3>2 DEF SecondHolds
      <4>2. RowsHold(planning.before)'
        BY <1>1, <1>10, <4>1 DEF RowsHold
      <4>3. ASSUME NEW f \in disturbed' \ {Root}, NEW r \in planning.before,
                   r.kind = "directory", r.path = <<f, Itself>>
            PROVE  /\ r.time < stamp'[f]
                   /\ \A s \in planning.seen :
                         s.kind = "directory" /\ s.path = r.path => r.time < s.time
        <5>1. r.time < stamp'[f]
          BY <2>7, <4>1, <4>3
        <5>2. CASE f \in disturbed
          BY <4>1, <4>3, <5>1, <5>2
        <5>3. CASE f \notin disturbed
          <6>1. f = p[1] /\ BetweenObservations(p[1])
            BY <2>5, <2>6, <4>3, <5>3
          <6>2. ~ \E s \in planning.seen : s.path = <<f, Itself>>
            BY <3>2, <4>3, <6>1 DEF BetweenObservations, Observed, Seen
          <6> QED
            BY <4>3, <5>1, <6>2
        <5> QED
          BY <5>2, <5>3
      <4> QED
        BY <1>1, <4>1, <4>2, <4>3 DEF SecondHolds
    <3> QED
      BY <3>1, <3>2
  <2> QED
    BY <2>3, <2>4, <2>8, <2>9
<1> QED
  BY <1>1, <1>7, <1>8, <1>11 DEF PlanInv, InRun

LEMMA PlanStep == ASSUME PlanInv, [PlanNext]_planVars PROVE PlanInv'
<1>1. CASE UNCHANGED planVars
  BY <1>1 DEF planVars, PlanInv, PlanTyped, InRun, RowsHold, HasDirectory, WalkHolds, RootPending,
              FirstHolds, SecondHolds, DocumentHolds
<1> QED
  BY <1>1, StartHolds, ListHolds, ExamineHolds, DeriveHolds, SealHolds, CommitHolds, ChangeHolds
     DEF PlanNext, Level

(* A sealed plan is one the executor accepts, made of series folders that  *)
(* held still while the library was walked twice, for any library and any  *)
(* catalogue, whatever the books are resolved to, and however often the    *)
(* library changes meanwhile.                                              *)
THEOREM PlansAreSafe == PlanSpec => []PlanSafety
<1>1. PlanInv /\ [PlanNext]_planVars => PlanInv'
  BY PlanStep
<1>2. PlanInv => PlanSafety
  BY DEF PlanInv, DocumentHolds, PlanSafety, SoundUnits, ExecutorAccepts, PlannedFoldersAreStill
<1> QED
  BY PlanBegins, <1>1, <1>2, PTL DEF PlanSpec
=============================================================================
