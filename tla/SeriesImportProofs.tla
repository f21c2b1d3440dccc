------------------------ MODULE SeriesImportProofs ------------------------
(***************************************************************************)
(* What holds of the series folders, for any arrivals, names, keys and     *)
(* aliases: of the import that files into them, of the merges of one       *)
(* folder into another, of the router that says where they belong and the  *)
(* tool that moves them, of the values their fields resolve to, and of the *)
(* duplicates that maintenance deletes.                                    *)
(***************************************************************************)
EXTENDS SeriesImport, ArchiveMerge, SeriesRouting, FieldResolution, MaintenancePlan,
        FiniteSetTheorems, SequenceTheorems, WellFoundedInduction, TLAPS

Placing == {"merging", "moving", "registering"}
Holding == {"retitling", "retargeting", "choosing", "leaving"} \cup Placing

\* An arrival past its second look holds the lock of the identity it settled
\* on, and files into a folder that stands for that identity.
Locked ==
    \A a \in Arrivals :
        /\ pc[a] \in Holding \cup {"locking"} => identity[a] \in Names
        /\ pc[a] \in Holding => lock[Key[identity[a]]] = a
        /\ pc[a] \in Placing => target[a] \in Names /\ Key[target[a]] = Key[identity[a]]

LEMMA TypeInit == Init => TypeOK
<1> SUFFICES ASSUME Init PROVE TypeOK
  OBVIOUS
<1> USE SeriesAssumption DEF Init
<1>1. \A k \in AliasKeys : Claimants(k) \subseteq Names
  BY DEF Claimants
<1>2. alias \in [AliasKeys -> Names \cup {NoName}]
  <2>1. ASSUME NEW k \in AliasKeys, NEW c \in Claimants(k), Claimants(k) = {c}
        PROVE  (CHOOSE d \in Claimants(k) : TRUE) \in Names
    BY <1>1, <2>1
  <2> QED
    BY <2>1
<1>3. ambiguous \in [AliasKeys -> SUBSET Names]
  BY <1>1
<1>4. known \in [Names -> SUBSET Names] /\ folders \in [Roots -> SUBSET Names]
  BY DEF Roots
<1>5. title \in [Arrivals -> Names]
  OBVIOUS
<1> QED
  BY <1>2, <1>3, <1>4, <1>5 DEF TypeOK, Roots, Labels, MaxKeyedAcquisitions

\* Filing names a folder and a root.
LEMMA FilingType ==
  ASSUME TypeOK, NEW n \in Names, NEW f \in Filing(n)
  PROVE  f[1] \in Names /\ f[2] \in Roots
<1>1. Candidates(n) \subseteq Names
  BY DEF Candidates, TypeOK, Roots
<1> QED
  BY <1>1, SeriesAssumption DEF Filing, Roots

LEMMA TypeStep == TypeOK /\ Locked /\ [Next]_vars => TypeOK'
<1> SUFFICES ASSUME TypeOK, Locked, [Next]_vars PROVE TypeOK'
  OBVIOUS
<1> USE SeriesAssumption DEF TypeOK, library, registry, Goto, Labels, Resolving, Ended
<1>m. Moved => disturbed' \in [Arrivals -> SUBSET Looks]
  BY DEF Moved
<1>r. \A a \in Arrivals : Released(a) \in [Keys -> Arrivals \cup {Nobody}]
  BY DEF Released
<1>1. ASSUME NEW a \in Arrivals, Step(a) PROVE TypeOK'
  <2>1. CASE Arrive(a)
    <3>1. \A f \in Filing(Cleaned[a]) : f[2] \in Roots
      BY FilingType
    <3> QED
      BY <2>1, <3>1 DEF Arrive
  <2>2. CASE Title(a)
    BY <2>2 DEF Title, TitleOf
  <2>3. CASE Target(a)
    <3>1. \A f \in Filing(title[a]) : f[1] \in Names /\ f[2] \in Roots
      BY FilingType
    <3> QED
      BY <2>3, <3>1 DEF Target, MaxKeyedAcquisitions
  <2>4. CASE Acquire(a)
    BY <2>4 DEF Acquire
  <2>5. CASE Confirm(a)
    <3>1. PICK f \in Filing(title[a]) :
             /\ identity' = [identity EXCEPT ![a] = f[1]]
             /\ root' = [root EXCEPT ![a] = f[2]]
      BY <2>5 DEF Confirm
    <3>2. f[1] \in Names /\ f[2] \in Roots
      BY FilingType
    <3>3. identity' \in [Arrivals -> Names \cup {NoName}] /\ root' \in [Arrivals -> Roots]
      BY <3>1, <3>2
    <3>4. lock' \in [Keys -> Arrivals \cup {Nobody}]
      BY <2>5, <1>r DEF Confirm
    <3>5. attempt' \in [Arrivals -> 0 .. MaxKeyedAcquisitions]
      <4>1. CASE UNCHANGED attempt
        BY <4>1
      <4>2. CASE attempt[a] # MaxKeyedAcquisitions /\ attempt' = [attempt EXCEPT ![a] = @ + 1]
        BY <4>2 DEF MaxKeyedAcquisitions
      <4> QED
        BY <2>5, <4>1, <4>2 DEF Confirm
    <3>6. pc' \in [Arrivals -> Labels]
      <4>1. PICK l \in Labels : pc' = [pc EXCEPT ![a] = l]
        BY <2>5 DEF Confirm
      <4> QED
        BY <4>1
    <3> QED
      BY <2>5, <3>3, <3>4, <3>5, <3>6 DEF Confirm
  <2>6. CASE Refuse(a)
    BY <2>6, <1>r DEF Refuse
  <2>7. CASE Choose(a)
    <3>1. PICK n \in {identity[a]} \cup Names : target' = [target EXCEPT ![a] = n]
      BY <2>7 DEF Choose, Matches, Roots
    <3> QED
      BY <2>7, <3>1 DEF Choose
  <2>8. CASE Land(a) \/ LandFails(a)
    <3>0. target[a] \in Names
      BY <2>8 DEF Locked, Land, LandFails, Placing
    <3>1. folders' \in [Roots -> SUBSET Names]
      BY <2>8, <3>0, SMTT(30) DEF Land, LandFails, Populate
    <3>2. disturbed' \in [Arrivals -> SUBSET Looks]
      BY <2>8, <1>m DEF Land, LandFails
    <3> QED
      BY <2>8, <3>1, <3>2 DEF Land, LandFails
  <2>9. CASE Register(a)
    <3>0. target[a] \in Names /\ identity[a] \in Names
      BY <2>9 DEF Locked, Register, Placing, Holding
    <3>1. known' \in [Names -> SUBSET Names]
      BY <2>9, <3>0 DEF Register
    <3>2. alias' \in [AliasKeys -> Names \cup {NoName}]
      BY <2>9, <3>0 DEF Register
    <3>3. ambiguous' \in [AliasKeys -> SUBSET Names]
      BY <2>9, <3>0 DEF Register
    <3> QED
      BY <2>9, <1>m, <3>1, <3>2, <3>3 DEF Register
  <2>10. CASE Leave(a)
    BY <2>10, <1>r DEF Leave
  <2> QED
    BY <1>1, <2>1, <2>2, <2>3, <2>4, <2>5, <2>6, <2>7, <2>8, <2>9, <2>10 DEF Step
<1>2. ASSUME NEW r \in Roots, NEW n \in Names, Remove(r, n) \/ Create(r, n) PROVE TypeOK'
  <2>1. outside' \in 1 .. MaxOutside
    BY <1>2 DEF Remove, Create
  <2>2. folders' \in [Roots -> SUBSET Names]
    <3>1. PICK F \in SUBSET Names : folders' = [folders EXCEPT ![r] = F]
      <4>1. folders[r] \ {n} \in SUBSET Names /\ folders[r] \cup {n} \in SUBSET Names
        OBVIOUS
      <4> QED
        BY <1>2, <4>1 DEF Remove, Create
    <3> QED
      BY <3>1
  <2>3. disturbed' \in [Arrivals -> SUBSET Looks]
    BY <1>2, <1>m, <2>1 DEF Remove, Create
  <2> QED
    BY <1>2, <2>1, <2>2, <2>3 DEF Remove, Create, local
<1> QED
  BY <1>1, <1>2 DEF Next, vars, local

\* Every step keeps the locks where the threads expect them.
LEMMA LockedStep == TypeOK /\ Locked /\ [Next]_vars => Locked'
<1> SUFFICES ASSUME TypeOK, Locked, [Next]_vars PROVE Locked'
  OBVIOUS
<1> USE DEF Holding, Placing
<1>k. \A n \in Names : Key[n] \in Keys
  BY SeriesAssumption DEF Keys
<1>1. ASSUME NEW a \in Arrivals, Step(a) PROVE Locked'
  <2> SUFFICES ASSUME NEW b \in Arrivals
               PROVE  /\ pc'[b] \in Holding \cup {"locking"} => identity'[b] \in Names
                      /\ pc'[b] \in Holding => lock'[Key[identity'[b]]] = b
                      /\ pc'[b] \in Placing =>
                            target'[b] \in Names /\ Key[target'[b]] = Key[identity'[b]]
    BY DEF Locked
  <2>1. CASE Arrive(a) \/ Title(a)
    BY <2>1 DEF Arrive, Title, Goto, Locked, TypeOK
  <2>2. CASE Target(a)
    <3>1. \A f \in Filing(title[a]) : f[1] \in Names
      BY FilingType DEF TypeOK
    <3> QED
      BY <2>2, <3>1 DEF Target, Goto, Locked, TypeOK
  <2>3. CASE Acquire(a)
    BY <2>3, <1>k, SeriesAssumption DEF Acquire, Goto, Locked, TypeOK
  <2>4. CASE Confirm(a)
    <3>1. PICK f \in Filing(title[a]) :
             /\ identity' = [identity EXCEPT ![a] = f[1]]
             /\ \/ /\ Key[f[1]] = Key[identity[a]]
                   /\ Goto(a, "choosing")
                   /\ UNCHANGED lock
                \/ /\ lock' = Released(a)
                   /\ Goto(a, "deferred") \/ Goto(a, "locking")
      BY <2>4 DEF Confirm
    <3>2. f[1] \in Names /\ UNCHANGED target
      BY <2>4, FilingType DEF TypeOK, Confirm
    <3>3. pc[a] = "retargeting" /\ identity[a] \in Names
      BY <2>4 DEF Confirm, Locked
    <3>4. CASE b = a
      BY <3>1, <3>2, <3>3, <3>4 DEF Goto, Locked, TypeOK
    <3>5. CASE b # a
      BY <3>1, <3>2, <3>3, <3>5, <1>k DEF Goto, Locked, TypeOK, Released
    <3> QED
      BY <3>4, <3>5
  <2>5. CASE Refuse(a) \/ Leave(a)
    BY <2>5, <1>k DEF Refuse, Leave, Goto, Released, Locked, TypeOK
  <2>6. CASE Choose(a)
    <3>1. PICK n : /\ n = identity[a] \/ n \in Matches(root[a], identity[a])
                   /\ target' = [target EXCEPT ![a] = n]
      BY <2>6 DEF Choose
    <3>2. identity[a] \in Names
      BY <2>6 DEF Choose, Locked
    <3>3. n \in Names /\ Key[n] = Key[identity[a]]
      BY <3>1, <3>2 DEF Matches, TypeOK
    <3> QED
      BY <2>6, <3>1, <3>2, <3>3 DEF Choose, Goto, Locked, TypeOK
  <2>7. CASE Land(a) \/ LandFails(a) \/ Register(a)
    BY <2>7 DEF Land, LandFails, Register, Goto, Locked, TypeOK, library
  <2> QED
    BY <1>1, <2>1, <2>2, <2>3, <2>4, <2>5, <2>6, <2>7 DEF Step
<1> QED
  BY <1>1 DEF Next, Remove, Create, vars, local, Locked

\* Every variable keeps its type, for any arrivals and names.
THEOREM TypeCorrect == Spec => []TypeOK
<1>1. Init => TypeOK /\ Locked
  BY TypeInit DEF Init, Locked, Holding, Placing
<1>2. TypeOK /\ Locked /\ [Next]_vars => (TypeOK /\ Locked)'
  BY TypeStep, LockedStep
<1> QED
  BY <1>1, <1>2, PTL DEF Spec
\* No two imports file into one folder at a time: their folders stand for the
\* keys whose locks they hold.
THEOREM ExclusiveAlways == Spec => []ExclusiveFolders
<1>1. Init => TypeOK /\ Locked
  BY TypeInit DEF Init, Locked, Holding, Placing
<1>2. TypeOK /\ Locked /\ [Next]_vars => (TypeOK /\ Locked)'
  BY TypeStep, LockedStep
<1>3. Locked => ExclusiveFolders
  BY DEF Locked, ExclusiveFolders, Holding, Placing
<1> QED
  BY <1>1, <1>2, <1>3, PTL DEF Spec

-----------------------------------------------------------------------------
(* One folder per series: a chosen folder stays the only one of its key.   *)

NoOutsiders == OutsideNames = {}

Chosen ==
    \A a \in Arrivals : pc[a] \in {"merging", "moving"} =>
        \A n \in folders[root[a]] : Key[n] = Key[target[a]] => n = target[a]

LEMMA OneFolderInit == Init => OneFolderPerSeries /\ Chosen
  BY SeriesAssumption DEF Init, OneFolderPerSeries, Chosen, Roots

LEMMA OneFolderStep ==
  NoOutsiders /\ TypeOK /\ Locked /\ OneFolderPerSeries /\ Chosen /\ [Next]_vars
    => (OneFolderPerSeries /\ Chosen)'
<1> SUFFICES ASSUME NoOutsiders, TypeOK, Locked, OneFolderPerSeries, Chosen, [Next]_vars
             PROVE  OneFolderPerSeries' /\ Chosen'
  OBVIOUS
<1>1. ASSUME NEW a \in Arrivals, Step(a), UNCHANGED folders, ~Choose(a), ~Land(a), ~LandFails(a)
      PROVE  OneFolderPerSeries' /\ Chosen'
  <2>1. OneFolderPerSeries'
    BY <1>1 DEF OneFolderPerSeries
  <2>2. \A b \in Arrivals : pc'[b] \in {"merging", "moving"} =>
            pc'[b] = pc[b] /\ root'[b] = root[b] /\ target'[b] = target[b]
    <3>1. CASE Confirm(a)
      <4>1. \A b \in Arrivals : b # a => pc'[b] = pc[b] /\ root'[b] = root[b]
        BY <3>1 DEF Confirm, Goto, TypeOK
      <4>2. pc'[a] \in {"choosing", "deferred", "locking"} /\ UNCHANGED target
        BY <3>1 DEF Confirm, Goto, TypeOK
      <4> QED
        BY <4>1, <4>2
    <3>2. CASE ~Confirm(a)
      BY <1>1, <3>2 DEF Step, Arrive, Title, Target, Acquire, Refuse, Register, Leave,
                        Goto, TypeOK
    <3> QED
      BY <3>1, <3>2
  <2> QED
    BY <1>1, <2>1, <2>2 DEF Chosen
<1>2. ASSUME NEW a \in Arrivals, Choose(a) PROVE OneFolderPerSeries' /\ Chosen'
  <2>1. PICK n : /\ \/ n = identity[a] /\ Matches(root[a], identity[a]) = {}
                    \/ n \in Matches(root[a], identity[a])
                 /\ target' = [target EXCEPT ![a] = n]
    BY <1>2 DEF Choose
  <2>2. identity[a] \in Names /\ root[a] \in Roots /\ UNCHANGED <<folders, root>>
    BY <1>2 DEF Choose, Locked, Holding, TypeOK, library
  <2>3. \A m \in folders[root[a]] : Key[m] = Key[n] => m = n
    BY <2>1, <2>2 DEF Matches, OneFolderPerSeries, TypeOK
  <2> QED
    BY <1>2, <2>1, <2>2, <2>3 DEF Choose, Goto, Chosen, OneFolderPerSeries, TypeOK
<1>3. ASSUME NEW a \in Arrivals, Land(a) \/ LandFails(a) PROVE OneFolderPerSeries' /\ Chosen'
  <2>1. /\ pc[a] \in {"merging", "moving"} /\ root[a] \in Roots
        /\ UNCHANGED <<root, target>>
        /\ folders' = folders \/ Populate(a)
        /\ \A b \in Arrivals : pc'[b] \in {"merging", "moving"} => b # a /\ pc'[b] = pc[b]
    BY <1>3 DEF Land, LandFails, Goto, TypeOK
  <2>2. \A m \in folders[root[a]] : Key[m] = Key[target[a]] => m = target[a]
    BY <2>1 DEF Chosen
  <2>3. \A r \in Roots : \A m \in folders'[r] :
            m \in folders[r] \/ (r = root[a] /\ m = target[a])
    BY <2>1 DEF Populate, TypeOK
  <2>4. OneFolderPerSeries'
    BY <2>1, <2>2, <2>3 DEF OneFolderPerSeries
  <2>5. ASSUME NEW b \in Arrivals, pc'[b] \in {"merging", "moving"},
               NEW m \in folders'[root[b]], Key[m] = Key[target[b]]
        PROVE  m = target[b]
    <3>1. b # a /\ pc[b] \in {"merging", "moving"} /\ root[b] \in Roots
      BY <2>1, <2>5 DEF TypeOK
    <3>2. Key[target[b]] # Key[target[a]]
      BY <2>1, <3>1 DEF Locked, Holding, Placing
    <3> QED
      BY <2>3, <2>5, <3>1, <3>2 DEF Chosen
  <2> QED
    BY <2>1, <2>4, <2>5 DEF Chosen
<1>4. ASSUME NEW r \in Roots, NEW n \in Names, Remove(r, n) \/ Create(r, n)
      PROVE  OneFolderPerSeries' /\ Chosen'
  <2>1. Remove(r, n)
    BY <1>4 DEF Create, NoOutsiders
  <2>2. \A q \in Roots : folders'[q] \subseteq folders[q]
    BY <2>1 DEF Remove, TypeOK
  <2> QED
    BY <2>1, <2>2 DEF Remove, local, OneFolderPerSeries, Chosen, TypeOK
<1>5. CASE UNCHANGED vars
  BY <1>5 DEF vars, library, local, OneFolderPerSeries, Chosen
<1>6. ASSUME NEW a \in Arrivals, Step(a) PROVE OneFolderPerSeries' /\ Chosen'
  <2>1. Choose(a) \/ Land(a) \/ LandFails(a) \/ UNCHANGED folders
    BY <1>6 DEF Step, Arrive, Title, Target, Acquire, Confirm, Refuse, Register, Leave, library
  <2> QED
    BY <1>1, <1>2, <1>3, <1>6, <2>1
<1> QED
  BY <1>4, <1>5, <1>6 DEF Next

\* While nobody but the watcher makes folders, no series ever has two in one
\* root, however many imports run and whatever spellings they bring.
THEOREM OneFolderAlways == NoOutsiders /\ Spec => []OneFolderPerSeries
<1>1. Init => TypeOK /\ Locked /\ OneFolderPerSeries /\ Chosen
  BY TypeInit, OneFolderInit DEF Init, Locked, Holding, Placing
<1>2. NoOutsiders /\ TypeOK /\ Locked /\ OneFolderPerSeries /\ Chosen /\ [Next]_vars
        => (TypeOK /\ Locked /\ OneFolderPerSeries /\ Chosen)'
  BY TypeStep, LockedStep, OneFolderStep
<1>3. NoOutsiders => NoOutsiders'
  BY DEF NoOutsiders
<1> QED
  BY <1>1, <1>2, <1>3, PTL DEF Spec

-----------------------------------------------------------------------------
(* The alias registry.                                                     *)

LEMMA HonestInit == Init => RegistryHonest
<1> SUFFICES ASSUME Init, NEW k \in AliasKeys
             PROVE  /\ \A c \in Names : alias[k] = c <=> Claimants(k) = {c}
                    /\ ambiguous[k] = {c \in Claimants(k) : Claimants(k) # {c}}
  BY DEF RegistryHonest
<1> USE SeriesAssumption DEF Init
<1>1. Claimants(k) \subseteq Names
  BY DEF Claimants
<1>2. CASE \E c \in Claimants(k) : Claimants(k) = {c}
  <2>1. PICK c \in Claimants(k) : Claimants(k) = {c}
    BY <1>2
  <2>2. alias[k] = c /\ ambiguous[k] = {}
    BY <2>1
  <2> QED
    BY <2>1, <2>2
<1>3. CASE ~\E c \in Claimants(k) : Claimants(k) = {c}
  <2>1. alias[k] = NoName
    BY <1>3
  <2>2. ambiguous[k] = Claimants(k)
    BY <1>3
  <2> QED
    BY <1>1, <1>3, <2>1, <2>2
<1> QED
  BY <1>2, <1>3

LEMMA HonestStep == TypeOK /\ Locked /\ RegistryHonest /\ [Next]_vars => RegistryHonest'
<1> SUFFICES ASSUME TypeOK, Locked, RegistryHonest, [Next]_vars PROVE RegistryHonest'
  OBVIOUS
<1>1. CASE UNCHANGED registry
  BY <1>1 DEF RegistryHonest, registry, Claimants
<1>2. ASSUME NEW a \in Arrivals, Register(a) PROVE RegistryHonest'
  <2> DEFINE c == target[a]
             mine == known[c] \cup Observed[a] \cup {title[a], identity[a], c}
             taken == {AliasKey[v] : v \in mine}
             rival(k) == alias[k] # NoName /\ alias[k] # c
  <2>1. c \in Names
    BY <1>2 DEF Register, Locked, Placing
  <2>2. known' = [known EXCEPT ![c] = mine]
    BY <1>2 DEF Register
  <2> SUFFICES ASSUME NEW k \in AliasKeys
               PROVE  /\ \A d \in Names : alias'[k] = d <=> Claimants(k)' = {d}
                      /\ ambiguous'[k] = {d \in Claimants(k)' : Claimants(k)' # {d}}
    BY DEF RegistryHonest
  <2>3. /\ alias'[k] = IF k \notin taken \/ (ambiguous[k] # {} /\ ~rival(k)) THEN alias[k]
                       ELSE IF rival(k) THEN NoName ELSE c
        /\ ambiguous'[k] = IF k \notin taken THEN ambiguous[k]
                           ELSE IF rival(k) THEN ambiguous[k] \cup {alias[k], c}
                           ELSE IF ambiguous[k] # {} THEN ambiguous[k] \cup {c} ELSE {}
    BY <1>2 DEF Register
  <2>4. Claimants(k)' = IF k \in taken THEN Claimants(k) \cup {c} ELSE Claimants(k)
    <3>1. \A d \in Names : d \in Claimants(k)' <=> \E v \in known'[d] : AliasKey[v] = k
      BY DEF Claimants
    <3>2. \A d \in Names : d # c => known'[d] = known[d]
      BY <2>2 DEF TypeOK
    <3>3. known'[c] = mine
      BY <2>1, <2>2 DEF TypeOK
    <3>4. k \in taken <=> \E v \in mine : AliasKey[v] = k
      OBVIOUS
    <3>5. c \in Claimants(k) => k \in taken
      BY DEF Claimants
    <3>6. \A d \in Claimants(k) \cup Claimants(k)' : d \in Names
      BY DEF Claimants
    <3>7. \A d \in Names : d # c => (d \in Claimants(k)' <=> d \in Claimants(k))
      BY <3>2 DEF Claimants
    <3>8. c \in Claimants(k)' <=> k \in taken
      BY <2>1, <3>1, <3>3, <3>4
    <3> HIDE DEF c, mine, taken
    <3> QED
      BY <2>1, <3>5, <3>6, <3>7, <3>8
  <2>5. /\ \A d \in Names : alias[k] = d <=> Claimants(k) = {d}
        /\ ambiguous[k] = {d \in Claimants(k) : Claimants(k) # {d}}
        /\ alias[k] \in Names \cup {NoName} /\ NoName \notin Names
        /\ Claimants(k) \subseteq Names
    BY SeriesAssumption DEF RegistryHonest, TypeOK, Claimants
  <2> DEFINE C == Claimants(k)
             D == Claimants(k)'
  <2> HIDE DEF c, mine, taken, C, D
  <2>6. CASE k \notin taken
    BY <2>3, <2>4, <2>5, <2>6
  <2>7. CASE k \in taken /\ rival(k)
    <3>1. PICK d \in Names : alias[k] = d /\ d # c /\ Claimants(k) = {d}
      BY <2>5, <2>7
    <3>2. ambiguous[k] = {} /\ alias'[k] = NoName /\ ambiguous'[k] = {d, c}
      BY <2>3, <2>5, <2>7, <3>1
    <3>3. Claimants(k)' = {d, c}
      BY <2>4, <2>7, <3>1
    <3> QED
      BY <2>5, <3>1, <3>2, <3>3
  <2>8. CASE k \in taken /\ ~rival(k) /\ ambiguous[k] # {}
    <3>1. \A d \in Names : Claimants(k) # {d}
      BY <2>5, <2>8
    <3>2. alias[k] = NoName /\ ambiguous[k] = Claimants(k)
      BY <2>5, <3>1
    <3>3. alias'[k] = NoName /\ ambiguous'[k] = Claimants(k) \cup {c}
      BY <2>3, <2>8, <3>2
    <3>4. Claimants(k)' = Claimants(k) \cup {c}
      BY <2>4, <2>8
    <3>5. \A d : Claimants(k) \cup {c} # {d}
      <4>1. PICK x \in Claimants(k) : x \in Names
        BY <2>5, <2>8
      <4>2. PICK y \in Claimants(k) : y # x
        BY <3>1, <4>1
      <4> QED
        BY <4>1, <4>2
    <3> QED
      BY <2>5, <3>3, <3>4, <3>5
  <2>9. CASE k \in taken /\ ~rival(k) /\ ambiguous[k] = {}
    <3>1. alias'[k] = c /\ ambiguous'[k] = {}
      BY <2>3, <2>9
    <3>2. Claimants(k) = {} \/ Claimants(k) = {c}
      <4>1. \A d \in Claimants(k) : d = c
        BY <2>5, <2>9
      <4> QED
        BY <4>1
    <3>3. Claimants(k)' = {c}
      BY <2>4, <2>9, <3>2
    <3> QED
      BY <3>1, <3>3
  <2> QED
    BY <2>6, <2>7, <2>8, <2>9
<1> QED
  BY <1>1, <1>2 DEF Next, Step, Arrive, Title, Target, Acquire, Confirm, Refuse, Choose,
                    Land, LandFails, Leave, Remove, Create, vars

\* The registry's maps agree with the claims, in whatever order imports
\* register them.
THEOREM HonestAlways == Spec => []RegistryHonest
<1>1. Init => TypeOK /\ Locked /\ RegistryHonest
  BY TypeInit, HonestInit DEF Init, Locked, Holding, Placing
<1>2. TypeOK /\ Locked /\ RegistryHonest /\ [Next]_vars => (TypeOK /\ Locked /\ RegistryHonest)'
  BY TypeStep, LockedStep, HonestStep
<1> QED
  BY <1>1, <1>2, PTL DEF Spec

-----------------------------------------------------------------------------
(* An arrival that gives up had two looks disturbed.                       *)

\* The last answer is the one the folders and the registry give now.
Fresh(a) == title[a] = TitleOf(a, evidence[a])
Steady(a) == <<identity[a], root[a]>> \in Filing(TitleOf(a, evidence[a]))

\* What a look told an arrival still stands, unless something got in since.
LookedOf(a) ==
    /\ pc[a] \in {"arriving", "titling", "targeting"} => attempt[a] = 0
    /\ pc[a] = "targeting" /\ 0 \notin disturbed[a] => Fresh(a)
    /\ pc[a] \in {"locking", "retitling", "retargeting"} =>
          /\ attempt[a] \in {1, 2}
          /\ attempt[a] = 2 => 0 \in disturbed[a]
          /\ attempt[a] - 1 \notin disturbed[a] => Steady(a)
    /\ pc[a] = "retargeting" =>
          /\ attempt[a] - 1 \notin disturbed[a] => Fresh(a)
          /\ attempt[a] = 1 /\ 1 \notin disturbed[a] => Fresh(a)
    /\ pc[a] = "deferred" => disturbed[a] = Looks

Looked == \A a \in Arrivals : LookedOf(a)

\* The folders and the registry give one answer to a title.
LEMMA FilingIsOne ==
  ASSUME NEW n \in Names, NEW f \in Filing(n), NEW g \in Filing(n)
  PROVE  f = g /\ f = <<f[1], f[2]>>
  BY DEF Filing

\* What an arrival takes from the registry is its answer as long as neither moves.
LEMMA FilingStands ==
  ASSUME NEW b \in Arrivals, NEW n, NEW f \in Filing(n), f = <<f[1], f[2]>>,
         UNCHANGED <<folders, alias, ambiguous>>, TitleOf(b, evidence[b])' = n,
         identity'[b] = f[1], root'[b] = f[2]
  PROVE  Steady(b)'
<1> DEFINE live == Candidates(n)
<1>1. Candidates(TitleOf(b, evidence[b]))' = live
  BY DEF Candidates
<1>2. f \in Filing(TitleOf(b, evidence[b]))'
  <2> HIDE DEF live
  <2>1. CASE ~ResolverOn \/ live = {}
    BY <1>1, <2>1 DEF Filing, live
  <2>2. CASE ResolverOn /\ live # {}
    BY <1>1, <2>2 DEF Filing, live
  <2> QED
    BY <2>1, <2>2
<1> QED
  BY <1>2 DEF Steady

LEMMA LookedInit == Init => Looked
  BY DEF Init, Looked, LookedOf

\* What got in disturbs the look an arrival is at and the one before.
LEMMA MovedDisturbs ==
  ASSUME TypeOK, Moved, NEW b \in Arrivals
  PROVE  /\ disturbed[b] \subseteq disturbed'[b]
         /\ pc[b] \notin Resolving => disturbed'[b] = disturbed[b]
         /\ pc[b] \in Resolving /\ attempt[b] = 0 => 0 \in disturbed'[b]
         /\ pc[b] \in Resolving /\ attempt[b] = 1 => 0 \in disturbed'[b] /\ 1 \in disturbed'[b]
         /\ pc[b] \in Resolving /\ attempt[b] = 2 => 1 \in disturbed'[b]
<1>1. disturbed'[b] = IF pc[b] \in Resolving
                      THEN disturbed[b] \cup (Looks \cap {attempt[b] - 1, attempt[b]})
                      ELSE disturbed[b]
  BY DEF Moved
<1>2. attempt[b] = 0 => attempt[b] \in Looks
  BY DEF Looks
<1>3. attempt[b] = 1 => attempt[b] \in Looks /\ attempt[b] - 1 = 0
  BY DEF Looks
<1>4. attempt[b] = 2 => attempt[b] - 1 = 1
  OBVIOUS
<1> QED
  BY <1>1, <1>2, <1>3, <1>4 DEF Looks

\* A step that leaves an arrival's own state alone, and either what it looked at
\* or a trace in its history.
LEMMA LookedElsewhere ==
  ASSUME TypeOK, Looked, NEW b \in Arrivals,
         pc'[b] = pc[b], evidence'[b] = evidence[b], title'[b] = title[b],
         identity'[b] = identity[b], root'[b] = root[b], attempt'[b] = attempt[b],
         \/ UNCHANGED <<folders, alias, ambiguous>> /\ disturbed'[b] = disturbed[b]
         \/ Moved
  PROVE  LookedOf(b)'
<1>1. CASE UNCHANGED <<folders, alias, ambiguous>> /\ disturbed'[b] = disturbed[b]
  <2>1. \A r \in Roots, n \in Names : Matches(r, n)' = Matches(r, n)
    BY <1>1 DEF Matches
  <2>2. \A n \in Names : Filing(n)' = Filing(n)
    BY <1>1 DEF Filing, Candidates
  <2>3. TitleOf(b, evidence[b])' = TitleOf(b, evidence[b]) /\ TitleOf(b, evidence[b]) \in Names
    BY <1>1, <2>1, SeriesAssumption DEF TitleOf, TypeOK
  <2>4. Fresh(b)' = Fresh(b) /\ Steady(b)' = Steady(b)
    BY <2>2, <2>3 DEF Fresh, Steady
  <2> QED
    BY <1>1, <2>4 DEF Looked, LookedOf
<1>2. CASE Moved
  BY <1>2, MovedDisturbs DEF Looked, LookedOf, Resolving
<1> QED
  BY <1>1, <1>2

\* Every step keeps what the looks told.
LEMMA LookedStep == TypeOK /\ Locked /\ Looked /\ [Next]_vars => Looked'
<1> SUFFICES ASSUME TypeOK, Locked, Looked, [Next]_vars, NEW b \in Arrivals
             PROVE  LookedOf(b)'
  BY DEF Looked
<1>0. \A a \in Arrivals : TitleOf(a, evidence[a]) \in Names
  BY SeriesAssumption DEF TitleOf
\* The steps of the arrival itself.
<1>1. CASE Arrive(b) \/ Acquire(b)
  <2>1. Acquire(b) => Steady(b)' = Steady(b)
    BY <1>0 DEF Acquire, library, registry, Steady, TitleOf, Matches, Filing, Candidates
  <2> QED
    BY <1>1, <2>1 DEF Arrive, Acquire, Goto, TypeOK, Looked, LookedOf
<1>2. CASE Title(b)
  <2>1. /\ UNCHANGED <<folders, alias, ambiguous, evidence, identity, root, attempt>>
        /\ pc[b] \in {"titling", "retitling"}
        /\ pc'[b] = IF pc[b] = "titling" THEN "targeting" ELSE "retargeting"
        /\ title'[b] = TitleOf(b, evidence[b])
        /\ disturbed'[b] = disturbed[b] \ {attempt[b]}
    BY <1>2 DEF Title, Goto, TypeOK, library, registry
  <2>2. TitleOf(b, evidence[b])' = TitleOf(b, evidence[b])
    BY <2>1 DEF TitleOf, Matches
  <2>3. Fresh(b)' /\ Steady(b)' = Steady(b)
    BY <2>1, <2>2 DEF Fresh, Steady, Filing, Candidates
  <2>4. attempt[b] \in {1, 2} => attempt[b] - 1 # attempt[b]
    OBVIOUS
  <2> QED
    BY <2>1, <2>3, <2>4 DEF Looked, LookedOf
<1>3. CASE Target(b)
  <2>1. PICK f \in Filing(title[b]) : identity' = [identity EXCEPT ![b] = f[1]]
                                      /\ root' = [root EXCEPT ![b] = f[2]]
    BY <1>3 DEF Target
  <2>2. /\ UNCHANGED <<folders, alias, ambiguous, evidence, disturbed>>
        /\ pc[b] = "targeting" /\ pc'[b] = "locking" /\ attempt'[b] = 1
        /\ identity'[b] = f[1] /\ root'[b] = f[2] /\ title[b] \in Names
    BY <1>3, <2>1 DEF Target, Goto, TypeOK, library, registry
  <2>3. Fresh(b) => Steady(b)'
    <3>1. f = <<f[1], f[2]>>
      BY <2>2, FilingIsOne
    <3>2. TitleOf(b, evidence[b])' = TitleOf(b, evidence[b])
      BY <2>2 DEF TitleOf, Matches
    <3> QED
      BY <2>1, <2>2, <3>1, <3>2, FilingStands DEF Fresh
  <2> QED
    BY <2>2, <2>3 DEF Looked, LookedOf
<1>4. CASE Confirm(b)
  <2>1. PICK f \in Filing(title[b]) :
           /\ identity' = [identity EXCEPT ![b] = f[1]]
           /\ root' = [root EXCEPT ![b] = f[2]]
           /\ \/ Key[f[1]] = Key[identity[b]] /\ Goto(b, "choosing")
              \/ /\ Key[f[1]] # Key[identity[b]]
                 /\ IF attempt[b] = MaxKeyedAcquisitions
                    THEN Goto(b, "deferred") /\ UNCHANGED attempt
                    ELSE Goto(b, "locking") /\ attempt' = [attempt EXCEPT ![b] = @ + 1]
    BY <1>4 DEF Confirm
  <2>2. /\ UNCHANGED <<folders, alias, ambiguous, evidence, title, disturbed>>
        /\ pc[b] = "retargeting" /\ title[b] \in Names /\ attempt[b] \in {1, 2}
        /\ identity'[b] = f[1] /\ root'[b] = f[2]
    BY <1>4, <2>1 DEF Confirm, TypeOK, Looked, LookedOf, library, registry
  <2>3. CASE Key[f[1]] = Key[identity[b]] /\ Goto(b, "choosing")
    BY <2>3 DEF Goto, TypeOK, LookedOf
  <2>4. CASE /\ Key[f[1]] # Key[identity[b]]
             /\ IF attempt[b] = MaxKeyedAcquisitions
                THEN Goto(b, "deferred") /\ UNCHANGED attempt
                ELSE Goto(b, "locking") /\ attempt' = [attempt EXCEPT ![b] = @ + 1]
    <3>1. f = <<f[1], f[2]>>
      BY <2>2, FilingIsOne
    \* The answer before does not stand, so the look that gave it was disturbed.
    <3>2. attempt[b] - 1 \in disturbed[b]
      <4> SUFFICES ASSUME attempt[b] - 1 \notin disturbed[b] PROVE FALSE
        OBVIOUS
      <4>1. Steady(b) /\ Fresh(b)
        BY <2>2 DEF Looked, LookedOf
      <4>2. <<identity[b], root[b]>> \in Filing(title[b])
        BY <4>1 DEF Steady, Fresh
      <4>3. f = <<identity[b], root[b]>>
        BY <2>2, <4>2, FilingIsOne
      <4> QED
        BY <2>4, <4>3
    <3>3. Fresh(b) => Steady(b)'
      <4>1. TitleOf(b, evidence[b])' = TitleOf(b, evidence[b])
        BY <2>2 DEF TitleOf, Matches
      <4> QED
        BY <2>1, <2>2, <3>1, <4>1, FilingStands DEF Fresh
    <3>4. CASE attempt[b] = 2
      <4>1. pc'[b] = "deferred" /\ 0 \in disturbed[b] /\ 1 \in disturbed[b]
        BY <2>2, <2>4, <3>2, <3>4 DEF Goto, TypeOK, MaxKeyedAcquisitions, Looked, LookedOf
      <4> QED
        BY <2>2, <4>1 DEF TypeOK, Looks, LookedOf
    <3>5. CASE attempt[b] = 1
      <4>1. pc'[b] = "locking" /\ attempt'[b] = 2 /\ 0 \in disturbed[b]
        BY <2>2, <2>4, <3>2, <3>5 DEF Goto, TypeOK, MaxKeyedAcquisitions
      <4>2. 1 \notin disturbed[b] => Steady(b)'
        BY <2>2, <3>3, <3>5 DEF Looked, LookedOf
      <4> QED
        BY <2>2, <4>1, <4>2 DEF LookedOf
    <3> QED
      BY <2>2, <3>4, <3>5
  <2> QED
    BY <2>1, <2>3, <2>4
<1>5. CASE Refuse(b) \/ Choose(b) \/ Land(b) \/ LandFails(b) \/ Register(b) \/ Leave(b)
  BY <1>5 DEF Refuse, Choose, Land, LandFails, Register, Leave, Goto, TypeOK,
                 LookedOf
\* The steps of everyone else.
<1>6. ASSUME NEW a \in Arrivals, a # b, Step(a)
      PROVE  /\ pc'[b] = pc[b] /\ evidence'[b] = evidence[b] /\ title'[b] = title[b]
             /\ identity'[b] = identity[b] /\ root'[b] = root[b] /\ attempt'[b] = attempt[b]
             /\ \/ UNCHANGED <<folders, alias, ambiguous>> /\ disturbed'[b] = disturbed[b]
                \/ Moved
  <2>1. CASE Arrive(a) \/ Title(a) \/ Target(a) \/ Acquire(a) \/ Refuse(a) \/ Choose(a)
             \/ Leave(a)
    BY <1>6, <2>1 DEF Arrive, Title, Target, Acquire, Refuse, Choose, Leave, Goto, TypeOK,
                      library, registry
  <2>2. CASE Confirm(a)
    BY <1>6, <2>2 DEF Confirm, Goto, TypeOK, library, registry
  <2>3. CASE Land(a)
    <3>1. target[a] \in folders[root[a]] => UNCHANGED folders
      BY <2>3 DEF Land, Populate, TypeOK
    <3> QED
      BY <1>6, <2>3, <3>1 DEF Land, Goto, TypeOK, registry
  <2>4. CASE LandFails(a) \/ Register(a)
    BY <1>6, <2>4 DEF LandFails, Register, Goto, TypeOK, library, registry
  <2> QED
    BY <1>6, <2>1, <2>2, <2>3, <2>4 DEF Step
<1>7. ASSUME NEW a \in Arrivals, a # b, Step(a)
      PROVE  LookedOf(b)'
  BY <1>6, <1>7, LookedElsewhere
<1>8. CASE \E r \in Roots, n \in Names : Remove(r, n) \/ Create(r, n)
  <2>1. Moved /\ UNCHANGED local
    BY <1>8 DEF Remove, Create
  <2> QED
    BY <2>1, LookedElsewhere DEF local
<1>9. CASE UNCHANGED vars
  BY <1>9, LookedElsewhere DEF vars, library, registry, local
<1> QED
  BY <1>1, <1>2, <1>3, <1>4, <1>5, <1>7, <1>8, <1>9 DEF Next, Step

\* No arrival is deferred for an unstable identity unless both of its answers that
\* differed were disturbed, for any names, aliases and other imports.
THEOREM DeferredAlways == Spec => []DeferredOnlyIfMoving
<1>1. Init => TypeOK /\ Locked /\ Looked
  BY TypeInit, LookedInit DEF Init, Locked, Holding, Placing
<1>2. TypeOK /\ Locked /\ Looked /\ [Next]_vars => (TypeOK /\ Locked /\ Looked)'
  BY TypeStep, LockedStep, LookedStep
<1>3. Looked => DeferredOnlyIfMoving
  BY DEF Looked, LookedOf, DeferredOnlyIfMoving
<1> QED
  BY <1>1, <1>2, <1>3, PTL DEF Spec

\* The safety of concurrent imports, if nobody else makes folders.
THEOREM SafetyHolds == NoOutsiders /\ Spec => []Safety
BY TypeCorrect, OneFolderAlways, ExclusiveAlways, HonestAlways, PTL DEF Safety

-----------------------------------------------------------------------------
(* Merges                                                                  *)

Archive == [book : Books, size : Sizes, as : FileNames]
Shelf == [FileNames -> Archive \union {NoArchive}]
Passes == [phase : {"naming", "moving", "merging", "replacing", "landing"},
           loose : BOOLEAN, known : SUBSET FileNames, left : SUBSET FileNames,
           stripped : SUBSET FileNames, file : FileNames \union {Landed},
           to : FileNames \union {Landed}]

MergeTyped ==
  /\ mergeTool \in Tools /\ intake \in Shelf /\ racks \in Shelf
  /\ merger = NoPass \/ merger \in Passes

(* An archive in intake has the name it came under, or its display name,  *)
(* and a tag that was dropped then made no difference to its key.          *)
CameAs(n, a) ==
  \/ n = a
  \/ n = Display[a] /\ (a \in Tagged => CollisionKey[a] = CollisionKey[n])
NamesAreEvidence == \A n \in Here(intake) : CameAs(n, intake[n].as)

(* What holds in each phase of a pass.                                     *)
Phases ==
  /\ merger.phase = "naming" => merger.left \subseteq Here(intake)
  /\ merger.phase \in {"merging", "replacing", "landing"} => folder
  /\ merger.phase = "moving" => shelved \subseteq KeysIn(racks)
  /\ merger.phase = "replacing" =>
        /\ merger.file \in Here(intake) /\ merger.to \in FileNames
        /\ racks[merger.to] = NoArchive
        /\ CollisionKey[merger.to] = CollisionKey[merger.file]
  /\ merger.phase \in {"moving", "landing"} \/ merger.loose => Watching
  /\ merger.stripped = {} \/ Watching

(* The tool that removes the folder it merged has every copy on the shelf, *)
(* or yet to visit.                                                        *)
SweepIsSafe ==
  mergeTool = "maintenance" /\ merger.phase \in {"merging", "replacing"} =>
     \A k \in shelved :
        \/ k \in KeysIn(racks)
        \/ \E n \in merger.left : n \in Here(intake) /\ CollisionKey[n] = k
        \/ merger.phase = "replacing" /\ CollisionKey[merger.to] = k

MergeInv ==
  /\ MergeTyped /\ EveryKeyKeepsACopy /\ NamesAreEvidence
  /\ folder \/ (Here(racks) = {} /\ shelved = {})
  /\ merger # NoPass => Phases /\ SweepIsSafe

LEMMA MergeBegins == MergeInit => MergeInv
BY DEF MergeInit, MergeInv, MergeTyped, Shelf, EveryKeyKeepsACopy, NamesAreEvidence, Here, KeysIn,
       NoPass

LEMMA ArchivesAreThere ==
  /\ \A a \in Archive : a # NoArchive
  /\ \A p \in Shelf : \A n \in Here(p) : p[n] \in Archive /\ n \in FileNames
  /\ \A p \in Shelf : \A n \in FileNames : p[n] \in Archive \union {NoArchive}
<1>1. \A a \in Archive : a.size # 0
  BY SizesAssumption DEF Archive
<1>2. NoArchive.size = 0
  BY DEF NoArchive
<1> QED
  BY <1>1, <1>2 DEF Shelf, Here

LEMMA PassFields ==
  ASSUME MergeTyped, merger.phase # "idle"
  PROVE  /\ merger \in Passes /\ merger # NoPass
         /\ merger.left \subseteq FileNames /\ merger.stripped \subseteq FileNames
         /\ \A l \in SUBSET FileNames : [merger EXCEPT !.left = l] \in Passes
  BY DEF MergeTyped, NoPass, Passes

LEMMA LeftChanges ==
  ASSUME MergeTyped, merger.phase # "idle", NEW l \in SUBSET FileNames,
         merger' = [merger EXCEPT !.left = l]
  PROVE  /\ merger' \in Passes /\ merger' # NoPass
         /\ merger'.phase = merger.phase /\ merger'.left = l /\ merger'.stripped = merger.stripped
         /\ merger'.file = merger.file /\ merger'.to = merger.to
         /\ merger'.loose = merger.loose
  BY PassFields DEF Passes, NoPass

LEMMA NameChanges ==
  ASSUME MergeTyped, merger.phase # "idle", NEW l \in SUBSET FileNames, NEW k \in SUBSET FileNames,
         merger' = [merger EXCEPT !.left = l, !.known = k]
  PROVE  /\ merger' \in Passes /\ merger' # NoPass
         /\ merger'.phase = merger.phase /\ merger'.left = l /\ merger'.stripped = merger.stripped
         /\ merger'.loose = merger.loose
  BY PassFields DEF Passes, NoPass

LEMMA PhaseChanges ==
  ASSUME MergeTyped, merger.phase # "idle", NEW l \in SUBSET FileNames,
         NEW d \in SUBSET FileNames, NEW phase \in {"moving", "merging", "replacing", "landing"},
         merger' = [merger EXCEPT !.phase = phase, !.left = l, !.stripped = d]
  PROVE  /\ merger' \in Passes /\ merger' # NoPass
         /\ merger'.phase = phase /\ merger'.left = l /\ merger'.stripped = d
         /\ merger'.file = merger.file /\ merger'.to = merger.to
         /\ merger'.loose = merger.loose
<1>1. merger \in Passes
  BY PassFields
<1>2. merger' = [phase |-> phase, loose |-> merger.loose, known |-> merger.known, left |-> l,
                 stripped |-> d, file |-> merger.file, to |-> merger.to]
  BY <1>1 DEF Passes
<1> QED
  BY <1>1, <1>2 DEF Passes, NoPass

LEMMA VisitChanges ==
  ASSUME MergeTyped, merger.phase # "idle", NEW n \in FileNames, NEW to \in FileNames,
         NEW phase \in {"merging", "replacing"}, Visited(n, phase, to)
  PROVE  /\ merger' \in Passes /\ merger' # NoPass
         /\ merger'.phase = phase /\ merger'.left = merger.left \ {n}
         /\ merger'.stripped = merger.stripped /\ merger'.file = n /\ merger'.to = to
         /\ merger'.loose = merger.loose
<1>1. merger \in Passes /\ merger.left \ {n} \in SUBSET FileNames
  BY PassFields
<1>2. merger' = [merger EXCEPT !.phase = phase, !.left = @ \ {n}, !.file = n, !.to = to]
  BY DEF Visited
<1>3. merger' = [phase |-> phase, loose |-> merger.loose, known |-> merger.known,
                 left |-> merger.left \ {n}, stripped |-> merger.stripped, file |-> n, to |-> to]
  BY <1>1, <1>2 DEF Passes
<1> QED
  BY <1>1, <1>3 DEF Passes, NoPass

(* Where the archive met is, and what its key is.                          *)
LEMMA MeetingFacts ==
  ASSUME MergeInv, NEW n \in FileNames, Visiting(n)
  PROVE  /\ n \in Here(intake) /\ n \in merger.left /\ LandsAs(n) \in FileNames
         /\ n \notin merger.stripped => LandsAs(n) = n
         /\ \A m \in Meets(n) : m \in Here(racks) /\ CollisionKey[m] = CollisionKey[LandsAs(n)]
         /\ Meets(n) = {} => /\ racks[LandsAs(n)] = NoArchive
                             /\ CollisionKey[LandsAs(n)] \notin KeysIn(racks)
  BY DisplayAssumption DEF Visiting, Here, LandsAs, Meets, KeysIn

(* An archive held by a stripped tag never wins: it would be equal.        *)
LEMMA WinnersAreNotStripped ==
  ASSUME MergeInv, NEW n \in FileNames, Visiting(n), NEW m \in Meets(n), Wins(n, m),
         ~ HeldBack(n, m)
  PROVE  n \notin merger.stripped
<1>1. intake[n] \in Archive /\ racks[m] \in Archive
  BY MeetingFacts, ArchivesAreThere DEF MergeInv, MergeTyped
<1>2. \A a \in Archive : a.size \in Nat
  BY SizesAssumption DEF Archive
<1>4. intake[n].size \in Nat /\ racks[m].size \in Nat /\ MinGain \in Nat /\ MinGain > 0
  BY <1>1, <1>2, SizesAssumption
<1>3. intake[n].size # racks[m].size
  BY <1>4 DEF Wins
<1> QED
  BY <1>3 DEF HeldBack, SameBytes

-----------------------------------------------------------------------------
(* Naming *)

LEMMA Arriving ==
  ASSUME MergeInv, NEW n \in FileNames, ArchiveArrives(n) PROVE MergeInv'
<1> USE DEF MergeInv
<1>0. PICK b \in Books, s \in Sizes : intake' = [intake EXCEPT ![n] = [book |-> b, size |-> s, as |-> n]]
  BY DEF ArchiveArrives
<1>1. PICK a \in Archive : intake' = [intake EXCEPT ![n] = a] /\ a.as = n
  <2> DEFINE a == [book |-> b, size |-> s, as |-> n]
  <2>1. a \in Archive /\ a.as = n
    BY DEF Archive
  <2> HIDE DEF a
  <2> QED
    BY <1>0, <2>1 DEF a
<1>2. /\ intake' \in Shelf /\ Here(intake') = Here(intake) \union {n} /\ n \notin Here(intake)
      /\ \A k \in Here(intake) : intake'[k] = intake[k]
      /\ intake'[n] = a
  BY <1>1, ArchivesAreThere DEF ArchiveArrives, MergeTyped, Shelf, Here
<1>3. UNCHANGED <<mergeTool, racks, folder, merger, shelved>>
  BY DEF ArchiveArrives
<1>4. MergeTyped' /\ (folder \/ (Here(racks) = {} /\ shelved = {}))'
  BY <1>2, <1>3 DEF MergeTyped
<1>5. EveryKeyKeepsACopy'
  BY <1>2, <1>3 DEF EveryKeyKeepsACopy, KeysIn
<1>6. NamesAreEvidence'
  BY <1>1, <1>2 DEF NamesAreEvidence, CameAs
<1>7. (merger # NoPass => Phases)'
  BY <1>2, <1>3 DEF Phases, Watching
<1>8. (merger # NoPass => SweepIsSafe)'
  BY <1>2, <1>3 DEF SweepIsSafe
<1> QED
  BY <1>4, <1>5, <1>6, <1>7, <1>8

(* A folder appears only before the pass has seen one.                     *)
LEMMA Appearing == ASSUME MergeInv, FolderAppears PROVE MergeInv'
<1>1. /\ ~folder /\ folder' /\ UNCHANGED <<mergeTool, intake, merger>>
      /\ Here(racks) = {} /\ shelved = {}
  BY DEF FolderAppears, MergeInv
<1>2. MergeTyped /\ EveryKeyKeepsACopy /\ NamesAreEvidence
  BY DEF MergeInv
<1>3. racks' \in Shelf /\ shelved' \subseteq KeysIn(racks')
  <2>1. CASE UNCHANGED <<racks, shelved>>
    BY <1>1, <1>2, <2>1 DEF MergeTyped
  <2>2. CASE \E n \in FileNames, b \in Books, s \in Sizes :
               /\ racks' = [racks EXCEPT ![n] = [book |-> b, size |-> s, as |-> n]]
               /\ shelved' = shelved \union {CollisionKey[n]}
    <3>1. PICK n \in FileNames, b \in Books, s \in Sizes :
               /\ racks' = [racks EXCEPT ![n] = [book |-> b, size |-> s, as |-> n]]
               /\ shelved' = shelved \union {CollisionKey[n]}
      BY <2>2
    <3>2. PICK a \in Archive : racks' = [racks EXCEPT ![n] = a]
      BY <3>1 DEF Archive
    <3>3. racks' \in Shelf /\ n \in Here(racks') /\ Here(racks) = {}
      BY <1>1, <1>2, <3>2, ArchivesAreThere DEF MergeTyped, Shelf, Here
    <3> QED
      BY <1>1, <3>1, <3>3 DEF KeysIn
  <2> QED
    BY <2>1, <2>2 DEF FolderAppears
<1>4. (merger # NoPass => Phases /\ SweepIsSafe)'
  <2> SUFFICES ASSUME merger # NoPass PROVE Phases' /\ SweepIsSafe'
    BY <1>1
  <2>1. Phases /\ merger.phase \notin {"merging", "replacing", "landing"}
    BY <1>1 DEF MergeInv, Phases
  <2> QED
    BY <1>1, <1>3, <2>1 DEF Phases, SweepIsSafe, Watching
<1> QED
  BY <1>1, <1>2, <1>3, <1>4 DEF MergeInv, MergeTyped, NamesAreEvidence, EveryKeyKeepsACopy

LEMMA Starting == ASSUME MergeInv, StartPass PROVE MergeInv'
<1>1. PICK loose \in BOOLEAN :
        /\ loose => Watching
        /\ merger' = [phase |-> "naming", loose |-> loose, known |-> {}, left |-> Here(intake),
                      stripped |-> {}, file |-> Landed, to |-> Landed]
        /\ UNCHANGED <<mergeTool, intake, racks, folder, shelved>>
  BY DEF StartPass
<1>2. /\ merger' \in Passes /\ merger'.phase = "naming" /\ merger'.stripped = {}
      /\ merger'.left = Here(intake) /\ merger'.loose = loose
  BY <1>1 DEF Passes, Here
<1>3. Phases' /\ SweepIsSafe'
  BY <1>1, <1>2 DEF Phases, SweepIsSafe, Watching
<1> QED
  BY <1>1, <1>2, <1>3 DEF MergeInv, MergeTyped, EveryKeyKeepsACopy, NamesAreEvidence

LEMMA Naming ==
  ASSUME MergeInv, NEW n \in FileNames, NameArchive(n) PROVE MergeInv'
<1> USE DEF MergeInv
<1> DEFINE to == Display[n]
<1>0. /\ merger.phase = "naming" /\ n \in merger.left /\ to \in FileNames
      /\ UNCHANGED <<mergeTool, racks, folder>>
  BY DisplayAssumption DEF NameArchive
<1>1. /\ merger.phase = "naming" /\ n \in merger.left /\ UNCHANGED <<mergeTool, racks, folder>>
      /\ \E k \in {to, n} :
            merger' = [merger EXCEPT !.left = @ \ {n}, !.known = @ \union {k}]
  BY <1>0 DEF NameArchive
<1>3. MergeTyped /\ Phases
  BY <1>1, PassFields
<1>2. /\ merger' \in Passes /\ merger'.phase = "naming" /\ merger'.stripped = merger.stripped
      /\ merger'.left = merger.left \ {n} /\ merger'.loose = merger.loose
  <2>1. PICK k \in {to, n} :
            merger' = [merger EXCEPT !.left = merger.left \ {n}, !.known = merger.known \union {k}]
    BY <1>1
  <2>2. merger.left \ {n} \in SUBSET FileNames /\ merger.known \union {k} \in SUBSET FileNames
    BY <1>0, <1>1, <1>3, PassFields DEF Passes
  <2> QED
    BY <1>1, <1>3, <2>1, <2>2, NameChanges
<1>4. SweepIsSafe'
  BY <1>1, <1>2 DEF SweepIsSafe
<1>5. CASE UNCHANGED <<intake, shelved>>
  <2>1. Phases'
    BY <1>1, <1>2, <1>3, <1>5 DEF Phases, Watching
  <2> QED
    BY <1>1, <1>2, <1>4, <1>5, <2>1 DEF MergeTyped, EveryKeyKeepsACopy, NamesAreEvidence
<1>6. CASE /\ n \notin Refused /\ intake[to] = NoArchive /\ ~Defers(n)
           /\ intake' = [intake EXCEPT ![to] = intake[n], ![n] = NoArchive]
           /\ shelved' = Renamed(n, to, racks)
  <2>1. to \in FileNames
    BY DisplayAssumption
  <2>2. n # to /\ n \in Here(intake)
    BY <1>1, <1>3, <1>6 DEF Here, Phases
  <2>3. /\ intake' \in Shelf /\ Here(intake') = (Here(intake) \ {n}) \union {to}
        /\ \A k \in Here(intake) \ {n} : intake'[k] = intake[k]
        /\ intake'[to] = intake[n]
    BY <1>6, <2>1, <2>2 DEF MergeTyped, Shelf, Here
  <2>4. EveryKeyKeepsACopy'
    <3>1. KeysIn(intake') = {CollisionKey[k] : k \in Here(intake) \ {n}} \union {CollisionKey[to]}
      BY <2>3 DEF KeysIn
    <3>2. /\ KeysIn(racks') = KeysIn(racks) /\ shelved \subseteq KeysIn(racks) \union KeysIn(intake)
          /\ KeysIn(intake) = {CollisionKey[k] : k \in Here(intake) \ {n}} \union {CollisionKey[n]}
      BY <1>0, <2>2 DEF EveryKeyKeepsACopy, KeysIn
    <3>3. shelved' = IF CollisionKey[n] \in shelved \ KeysIn(racks)
                     THEN (shelved \ {CollisionKey[n]}) \union {CollisionKey[to]} ELSE shelved
      BY <1>6 DEF Renamed
    <3> QED
      BY <3>1, <3>2, <3>3 DEF EveryKeyKeepsACopy
  <2>5. CameAs(to, intake[n].as)
    <3>1. CameAs(n, intake[n].as) /\ intake[n].as \in FileNames
      BY <2>2, ArchivesAreThere DEF NamesAreEvidence, MergeTyped, Archive
    <3> QED
      BY <1>6, <2>2, <3>1, DisplayAssumption DEF CameAs, Defers
  <2>6. NamesAreEvidence'
    BY <2>3, <2>5 DEF NamesAreEvidence
  <2>7. Phases'
    BY <1>1, <1>2, <1>3, <2>3 DEF Phases, Watching
  <2>8. folder \/ shelved' = {}
    BY <1>6 DEF Renamed
  <2> QED
    BY <1>1, <1>2, <1>4, <2>3, <2>4, <2>6, <2>7, <2>8 DEF MergeTyped
<1> QED
  BY <1>5, <1>6 DEF NameArchive

LEMMA Refusing == ASSUME MergeInv, RefusePass PROVE MergeInv'
  BY DEF RefusePass, MergeInv, MergeTyped, EveryKeyKeepsACopy, NamesAreEvidence

(* The renamed sibling is the only archive that leaves its name.           *)
LEMMA Backfilling ==
  ASSUME MergeTyped, EveryKeyKeepsACopy, Backfill, UNCHANGED <<mergeTool, intake>>
  PROVE  /\ racks' \in Shelf /\ EveryKeyKeepsACopy'
         /\ \A k \in FileNames : racks[k] # NoArchive => \E i \in FileNames : racks'[i] = racks[k]
         /\ ~Watching => UNCHANGED <<racks, shelved>>
<1>1. CASE UNCHANGED <<racks, shelved>>
  BY <1>1 DEF MergeTyped, EveryKeyKeepsACopy
<1>2. CASE /\ Watching
           /\ \E n \in BareNames \cap Here(racks) :
                LET to == ChapterOne[n]
                IN /\ racks[to] = NoArchive
                   /\ racks' = [racks EXCEPT ![to] = racks[n], ![n] = NoArchive]
                   /\ shelved' = Renamed(n, to, racks') \union {CollisionKey[to]}
  <2>1. PICK n \in BareNames \cap Here(racks) :
           /\ racks[ChapterOne[n]] = NoArchive
           /\ racks' = [racks EXCEPT ![ChapterOne[n]] = racks[n], ![n] = NoArchive]
           /\ shelved' = Renamed(n, ChapterOne[n], racks') \union {CollisionKey[ChapterOne[n]]}
    BY <1>2
  <2> DEFINE to == ChapterOne[n]
  <2>2. n \in FileNames /\ to \in FileNames /\ racks[n] # NoArchive /\ n # to
    BY <2>1, ChapterOneAssumption DEF Here
  <2>3. /\ racks' \in Shelf /\ racks'[to] = racks[n]
        /\ \A k \in FileNames \ {n, to} : racks'[k] = racks[k]
        /\ Here(racks') = (Here(racks) \ {n}) \union {to}
    BY <2>1, <2>2 DEF MergeTyped, Shelf, Here
  <2>4. KeysIn(racks') = {CollisionKey[k] : k \in Here(racks) \ {n}} \union {CollisionKey[to]}
    BY <2>3 DEF KeysIn
  <2>5. EveryKeyKeepsACopy'
    BY <2>1, <2>2, <2>4 DEF EveryKeyKeepsACopy, KeysIn, Renamed
  <2> QED
    BY <1>2, <2>1, <2>2, <2>3, <2>5
<1> QED
  BY <1>1, <1>2 DEF Backfill

LEMMA StrippedAreNames ==
  ASSUME MergeTyped, merger.phase # "idle"
  PROVE  Stripped \in SUBSET FileNames /\ (Stripped = {} \/ Watching)
  BY PassFields DEF Stripped, Passes

LEMMA StartsMerging == ASSUME MergeInv, StartMerge \/ FallBackToMerge PROVE MergeInv'
<1>1. /\ merger.phase \in {"naming", "moving"} /\ UNCHANGED <<mergeTool, intake>> /\ folder'
      /\ Backfill
      /\ merger' = [merger EXCEPT !.phase = "merging", !.left = Here(intake),
                                  !.stripped = Stripped]
  BY DEF StartMerge, FallBackToMerge, MergesAll, Named
<1>2. MergeTyped /\ EveryKeyKeepsACopy /\ NamesAreEvidence /\ Phases
  BY <1>1, PassFields DEF MergeInv
<1>3. Stripped \in SUBSET FileNames /\ (Stripped = {} \/ Watching)
  BY <1>1, <1>2, StrippedAreNames
<1>4. Here(intake) \in SUBSET FileNames
  BY DEF Here
<1>5. /\ merger' \in Passes /\ merger'.phase = "merging" /\ merger'.loose = merger.loose
      /\ merger'.left = Here(intake) /\ merger'.stripped = Stripped
  BY <1>1, <1>2, <1>3, <1>4, PhaseChanges
<1>6. /\ racks' \in Shelf /\ EveryKeyKeepsACopy'
      /\ ~Watching => UNCHANGED <<racks, shelved>>
  BY <1>1, <1>2, Backfilling
<1>7. Phases'
  BY <1>1, <1>2, <1>3, <1>5 DEF Phases, Watching
<1>8. SweepIsSafe'
  BY <1>1, <1>2, <1>5, <1>6 DEF SweepIsSafe, Watching, EveryKeyKeepsACopy, KeysIn
<1> QED
  BY <1>1, <1>2, <1>5, <1>6, <1>7, <1>8 DEF MergeInv, MergeTyped, NamesAreEvidence

LEMMA StartsLoose == ASSUME MergeInv, StartLooseMerge PROVE MergeInv'
<1> DEFINE mine == merger.known \ Refused
<1>1. /\ merger.phase = "naming" /\ merger.loose /\ UNCHANGED <<mergeTool, intake, racks, shelved>>
      /\ \/ merger' = NoPass /\ UNCHANGED folder
         \/ /\ folder'
            /\ merger' = [merger EXCEPT !.phase = "merging", !.left = mine, !.stripped = Stripped]
  BY DEF StartLooseMerge, Named
<1>2. MergeTyped /\ EveryKeyKeepsACopy /\ NamesAreEvidence /\ Phases
  BY <1>1, PassFields DEF MergeInv
<1>3. EveryKeyKeepsACopy' /\ NamesAreEvidence'
  BY <1>1, <1>2 DEF EveryKeyKeepsACopy, NamesAreEvidence
<1>4. CASE merger' = NoPass /\ UNCHANGED folder
  BY <1>1, <1>2, <1>3, <1>4 DEF MergeInv, MergeTyped
<1>5. CASE /\ folder'
           /\ merger' = [merger EXCEPT !.phase = "merging", !.left = mine, !.stripped = Stripped]
  <2>1. Stripped \in SUBSET FileNames /\ Watching
    BY <1>1, <1>2, StrippedAreNames DEF Phases
  <2>2. mine \in SUBSET FileNames
    BY <1>1, <1>2, PassFields DEF Passes
  <2>3. /\ merger' \in Passes /\ merger'.phase = "merging" /\ merger'.loose = merger.loose
        /\ merger'.left = mine /\ merger'.stripped = Stripped
    BY <1>1, <1>2, <1>5, <2>1, <2>2, PhaseChanges
  <2>4. Phases' /\ SweepIsSafe'
    BY <1>1, <1>5, <2>1, <2>3 DEF Phases, SweepIsSafe, Watching
  <2> QED
    BY <1>1, <1>2, <1>3, <1>5, <2>3, <2>4 DEF MergeInv, MergeTyped
<1> QED
  BY <1>1, <1>4, <1>5

LEMMA StartsMoving == ASSUME MergeInv, StartMoveWhole PROVE MergeInv'
<1>1. /\ merger.phase = "naming" /\ Watching /\ merger' = [merger EXCEPT !.phase = "moving"]
      /\ ~folder /\ UNCHANGED <<mergeTool, intake, racks, folder, shelved>>
  BY DEF StartMoveWhole, Named
<1>2. /\ MergeTyped /\ EveryKeyKeepsACopy /\ NamesAreEvidence /\ Phases
      /\ folder \/ (Here(racks) = {} /\ shelved = {})
  BY <1>1, PassFields DEF MergeInv
<1>3. merger \in Passes
  BY <1>1, <1>2, PassFields
<1>4. merger' \in Passes /\ merger'.phase = "moving" /\ merger'.stripped = merger.stripped
  BY <1>1, <1>3 DEF Passes
<1>5. Phases' /\ SweepIsSafe'
  BY <1>1, <1>2, <1>4 DEF Phases, SweepIsSafe, Watching
<1> QED
  BY <1>1, <1>2, <1>4, <1>5 DEF MergeInv, MergeTyped, EveryKeyKeepsACopy, NamesAreEvidence

LEMMA MovingWhole == ASSUME MergeInv, MoveWhole \/ MoveInside PROVE MergeInv'
<1>1. /\ merger.phase = "moving" /\ UNCHANGED mergeTool /\ folder'
      /\ intake' = [n \in FileNames |-> NoArchive]
      /\ merger' = [merger EXCEPT !.phase = "landing", !.left = Stripped]
      /\ \/ UNCHANGED <<racks, shelved>>
         \/ ~folder /\ racks' = intake /\ shelved' = shelved \union KeysIn(intake)
  BY DEF MoveWhole, MoveInside
<1>2. MergeTyped /\ EveryKeyKeepsACopy /\ Phases /\ merger.phase # "idle"
  BY <1>1, PassFields DEF MergeInv
<1>3. Stripped \in SUBSET FileNames /\ Watching
  BY <1>1, <1>2, StrippedAreNames DEF Phases
<1>4. merger.stripped \in SUBSET FileNames
      /\ merger' = [merger EXCEPT !.phase = "landing", !.left = Stripped, !.stripped = merger.stripped]
  BY <1>1, <1>2, PassFields DEF Passes
<1>5. /\ merger' \in Passes /\ merger'.phase = "landing"
      /\ merger'.left = Stripped /\ merger'.stripped = merger.stripped
  BY <1>2, <1>3, <1>4, PhaseChanges
<1>6. intake' \in Shelf /\ Here(intake') = {}
  BY <1>1 DEF Shelf, Here
<1>7. racks' \in Shelf /\ shelved' \subseteq KeysIn(racks')
  <2>1. CASE UNCHANGED <<racks, shelved>>
    BY <1>1, <1>2, <2>1 DEF MergeTyped, Phases, KeysIn, Here
  <2>2. CASE ~folder /\ racks' = intake /\ shelved' = shelved \union KeysIn(intake)
    BY <1>1, <1>2, <2>2 DEF MergeTyped, MergeInv, KeysIn, Here
  <2> QED
    BY <1>1, <2>1, <2>2
<1>8. Phases' /\ SweepIsSafe'
  BY <1>1, <1>3, <1>5 DEF Phases, SweepIsSafe, Watching
<1> QED
  BY <1>1, <1>2, <1>5, <1>6, <1>7, <1>8 DEF MergeInv, MergeTyped, NamesAreEvidence, EveryKeyKeepsACopy

LEMMA LandingNames ==
  ASSUME MergeInv, NEW n \in FileNames, LandDeferredName(n) PROVE MergeInv'
<1> DEFINE to == Display[n]
<1>1. /\ merger.phase = "landing" /\ n \in merger.left /\ merger' = [merger EXCEPT !.left = @ \ {n}]
      /\ UNCHANGED <<mergeTool, intake, folder>>
  BY DEF LandDeferredName
<1>2. /\ merger' \in Passes /\ merger'.phase = "landing" /\ merger'.stripped = merger.stripped
      /\ merger'.left = merger.left \ {n} /\ merger'.loose = merger.loose
  BY <1>1, LeftChanges, PassFields DEF MergeInv
<1>3. MergeTyped /\ Phases /\ Watching
  BY <1>1, PassFields DEF MergeInv, Phases
<1>4. CASE UNCHANGED <<racks, shelved>>
  BY <1>1, <1>2, <1>3, <1>4
     DEF MergeInv, MergeTyped, EveryKeyKeepsACopy, NamesAreEvidence, Phases, SweepIsSafe, Watching
<1>5. CASE /\ racks[n] # NoArchive /\ CollisionKey[to] \notin KeysIn(racks)
           /\ racks' = [racks EXCEPT ![to] = racks[n], ![n] = NoArchive]
           /\ shelved' = Renamed(n, to, racks')
  <2>1. to \in FileNames /\ to \notin Here(racks) /\ n \in Here(racks) /\ n # to
    BY <1>1, <1>3, <1>5, DisplayAssumption DEF KeysIn, Here
  <2>2. /\ racks' \in Shelf /\ Here(racks') = (Here(racks) \ {n}) \union {to}
    BY <1>3, <1>5, <2>1 DEF MergeTyped, Shelf, Here
  <2>3. KeysIn(racks') = {CollisionKey[k] : k \in Here(racks) \ {n}} \union {CollisionKey[to]}
    BY <2>2 DEF KeysIn
  <2>4. EveryKeyKeepsACopy'
    BY <1>1, <1>5, <2>1, <2>3 DEF MergeInv, EveryKeyKeepsACopy, KeysIn, Renamed
  <2>5. Phases' /\ SweepIsSafe'
    BY <1>1, <1>2, <1>3, <2>2 DEF Phases, SweepIsSafe, Watching
  <2>6. folder
    BY <1>1, <1>3 DEF Phases
  <2> QED
    BY <1>1, <1>2, <1>3, <2>2, <2>4, <2>5, <2>6 DEF MergeInv, MergeTyped, NamesAreEvidence
<1> QED
  BY <1>4, <1>5 DEF LandDeferredName

-----------------------------------------------------------------------------
(* Merging *)

(* An archive put down is on the shelf and no longer in intake.            *)
LEMMA PuttingDown ==
  ASSUME MergeTyped, EveryKeyKeepsACopy, NEW n \in Here(intake), NEW to \in FileNames,
         racks[to] = NoArchive, PutDown(n, to), NamesAreEvidence
  PROVE  /\ racks' \in Shelf /\ Here(racks') = Here(racks) \union {to}
         /\ intake' \in Shelf /\ Here(intake') = Here(intake) \ {n}
         /\ \A k \in Here(intake') : intake'[k] = intake[k]
         /\ KeysIn(racks') = KeysIn(racks) \union {CollisionKey[to]}
         /\ NamesAreEvidence'
         /\ EveryKeyKeepsACopy'
<1>1. /\ racks' = [racks EXCEPT ![to] = intake[n]] /\ intake' = [intake EXCEPT ![n] = NoArchive]
      /\ shelved' = Renamed(n, to, racks') \union {CollisionKey[to]}
  BY DEF PutDown
<1>2. /\ racks' \in Shelf /\ Here(racks') = Here(racks) \union {to}
      /\ intake' \in Shelf /\ Here(intake') = Here(intake) \ {n}
      /\ \A k \in Here(intake') : intake'[k] = intake[k]
  BY <1>1 DEF MergeTyped, Shelf, Here
<1>3. KeysIn(racks') = KeysIn(racks) \union {CollisionKey[to]}
  BY <1>2 DEF KeysIn
<1>4. KeysIn(intake) \subseteq KeysIn(intake') \union {CollisionKey[n]}
  BY <1>2 DEF KeysIn
<1>5. EveryKeyKeepsACopy'
  BY <1>1, <1>3, <1>4 DEF EveryKeyKeepsACopy, Renamed
<1>6. NamesAreEvidence'
  BY <1>2 DEF NamesAreEvidence
<1> QED
  BY <1>2, <1>3, <1>5, <1>6

LEMMA MovingIn ==
  ASSUME MergeInv, NEW n \in FileNames, MoveIn(n) PROVE MergeInv'
<1> DEFINE to == LandsAs(n)
<1>1. /\ Visiting(n) /\ Meets(n) = {} /\ PutDown(n, to) /\ Visited(n, "merging", to)
      /\ UNCHANGED <<mergeTool, folder>> /\ merger.phase = "merging"
  BY DEF MoveIn, Visiting
<1>2. /\ n \in Here(intake) /\ to \in FileNames /\ racks[to] = NoArchive
      /\ n \notin merger.stripped => to = n
  BY <1>1, MeetingFacts
<1> HIDE DEF to
<1>3. MergeTyped /\ EveryKeyKeepsACopy /\ NamesAreEvidence /\ Phases /\ SweepIsSafe
  BY <1>1, PassFields DEF MergeInv
<1>4. /\ racks' \in Shelf /\ Here(racks') = Here(racks) \union {to}
      /\ intake' \in Shelf /\ Here(intake') = Here(intake) \ {n}
      /\ KeysIn(racks') = KeysIn(racks) \union {CollisionKey[to]}
      /\ NamesAreEvidence' /\ EveryKeyKeepsACopy'
  BY <1>1, <1>2, <1>3, PuttingDown
<1>5. /\ merger' \in Passes /\ merger'.phase = "merging" /\ merger'.stripped = merger.stripped
      /\ merger'.left = merger.left \ {n} /\ merger'.loose = merger.loose
  BY <1>1, <1>2, <1>3, VisitChanges
<1>6. Phases'
  BY <1>1, <1>3, <1>5 DEF Phases, Watching
<1>7. SweepIsSafe'
  <2> SUFFICES ASSUME mergeTool = "maintenance", NEW k \in shelved'
               PROVE  \/ k \in KeysIn(racks')
                      \/ \E i \in merger'.left : i \in Here(intake') /\ CollisionKey[i] = k
    BY <1>1, <1>5 DEF SweepIsSafe
  <2>1. to = n
    BY <1>2, <1>3 DEF Phases, Watching
  <2>2. k = CollisionKey[n] \/ k \in shelved
    BY <1>1, <2>1 DEF PutDown, Renamed
  <2> QED
    BY <1>1, <1>3, <1>4, <1>5, <2>1, <2>2 DEF SweepIsSafe
<1>8. folder
  BY <1>1, <1>3 DEF Phases
<1> QED
  BY <1>1, <1>4, <1>5, <1>6, <1>7, <1>8 DEF MergeInv, MergeTyped

LEMMA HoldingBack ==
  ASSUME MergeInv, NEW n \in FileNames, HoldArchive(n) PROVE MergeInv'
<1>1. PICK m \in Meets(n) : HeldBack(n, m) /\ Visited(n, "merging", m)
  BY DEF HoldArchive
<1>2. /\ Visiting(n) /\ merger.phase = "merging" /\ m \in FileNames
      /\ UNCHANGED <<mergeTool, intake, racks, folder, shelved>>
  BY MeetingFacts DEF HoldArchive, Visiting, Here
<1>3. MergeTyped /\ EveryKeyKeepsACopy /\ NamesAreEvidence /\ Phases /\ SweepIsSafe
  BY <1>2, PassFields DEF MergeInv
<1>4. /\ merger' \in Passes /\ merger'.phase = "merging" /\ merger'.stripped = merger.stripped
  BY <1>1, <1>2, <1>3, VisitChanges
<1>5. Watching
  BY <1>1, <1>3 DEF HeldBack, Phases
<1>6. Phases' /\ SweepIsSafe'
  BY <1>2, <1>3, <1>4, <1>5 DEF Phases, SweepIsSafe, Watching
<1> QED
  BY <1>2, <1>3, <1>4, <1>6 DEF MergeInv, MergeTyped, EveryKeyKeepsACopy, NamesAreEvidence

LEMMA Taking ==
  ASSUME MergeInv, NEW n \in FileNames, TakeFromShelf(n) PROVE MergeInv'
<1>1. PICK m \in Meets(n) :
          /\ ~HeldBack(n, m) /\ Wins(n, m)
          /\ racks' = [racks EXCEPT ![m] = NoArchive]
          /\ Visited(n, "replacing", m)
  BY DEF TakeFromShelf
<1>2. Visiting(n) /\ merger.phase = "merging" /\ UNCHANGED <<mergeTool, intake, folder, shelved>>
  BY DEF TakeFromShelf, Visiting
<1>3. n \notin merger.stripped
  BY <1>1, <1>2, WinnersAreNotStripped
<1>4. /\ n \in Here(intake) /\ n \in merger.left /\ m \in Here(racks) /\ m \in FileNames
      /\ CollisionKey[m] = CollisionKey[n]
  BY <1>2, <1>3, MeetingFacts DEF Here
<1>5. MergeTyped /\ EveryKeyKeepsACopy /\ NamesAreEvidence /\ Phases /\ SweepIsSafe
  BY <1>2, PassFields DEF MergeInv
<1>6. /\ merger' \in Passes /\ merger'.phase = "replacing" /\ merger'.stripped = merger.stripped
      /\ merger'.left = merger.left \ {n} /\ merger'.file = n /\ merger'.to = m
      /\ merger'.loose = merger.loose
  BY <1>1, <1>2, <1>4, <1>5, VisitChanges
<1>7. racks' \in Shelf /\ Here(racks') = Here(racks) \ {m} /\ racks'[m] = NoArchive
  BY <1>1, <1>4, <1>5 DEF MergeTyped, Shelf, Here
<1>8. KeysIn(racks) \subseteq KeysIn(racks') \union {CollisionKey[m]}
  BY <1>7 DEF KeysIn
<1>9. EveryKeyKeepsACopy'
  BY <1>2, <1>4, <1>5, <1>8 DEF EveryKeyKeepsACopy, KeysIn
<1>10. Phases'
  BY <1>2, <1>4, <1>5, <1>6, <1>7 DEF Phases, Watching
<1>11. SweepIsSafe'
  BY <1>2, <1>4, <1>5, <1>6, <1>8 DEF SweepIsSafe
<1> QED
  BY <1>2, <1>5, <1>6, <1>7, <1>9, <1>10, <1>11
     DEF MergeInv, MergeTyped, NamesAreEvidence, Phases

LEMMA Replacing == ASSUME MergeInv, PutInItsPlace PROVE MergeInv'
<1> DEFINE n == merger.file
           to == merger.to
<1>1. /\ merger.phase = "replacing" /\ PutDown(n, to)
      /\ merger' = [merger EXCEPT !.phase = "merging"]
      /\ UNCHANGED <<mergeTool, folder>>
  BY DEF PutInItsPlace
<1>2. MergeTyped /\ EveryKeyKeepsACopy /\ NamesAreEvidence /\ Phases /\ SweepIsSafe
  BY <1>1, PassFields DEF MergeInv
<1>3. /\ n \in Here(intake) /\ to \in FileNames /\ racks[to] = NoArchive /\ folder
      /\ CollisionKey[to] = CollisionKey[n]
  BY <1>1, <1>2 DEF Phases
<1>4. merger \in Passes
  BY <1>1, <1>2, PassFields
<1>5. merger' = [phase |-> "merging", loose |-> merger.loose, known |-> merger.known,
                 left |-> merger.left, stripped |-> merger.stripped,
                 file |-> merger.file, to |-> merger.to]
  BY <1>1, <1>4 DEF Passes
<1>6. /\ merger' \in Passes /\ merger'.phase = "merging" /\ merger'.loose = merger.loose
      /\ merger'.left = merger.left /\ merger'.stripped = merger.stripped
  BY <1>4, <1>5 DEF Passes
<1> HIDE DEF n, to
<1>7. /\ racks' \in Shelf /\ intake' \in Shelf /\ Here(intake') = Here(intake) \ {n}
      /\ KeysIn(racks') = KeysIn(racks) \union {CollisionKey[to]}
      /\ NamesAreEvidence' /\ EveryKeyKeepsACopy'
  BY <1>1, <1>2, <1>3, PuttingDown
<1>8. Phases'
  BY <1>1, <1>2, <1>3, <1>6 DEF Phases, Watching
<1>9. SweepIsSafe'
  <2> SUFFICES ASSUME mergeTool = "maintenance", NEW k \in shelved'
               PROVE  \/ k \in KeysIn(racks')
                      \/ \E i \in merger'.left : i \in Here(intake') /\ CollisionKey[i] = k
    BY <1>1, <1>6 DEF SweepIsSafe
  <2>1. k = CollisionKey[to] \/ k \in shelved
    BY <1>1 DEF PutDown, Renamed
  <2> QED
    BY <1>1, <1>2, <1>3, <1>6, <1>7, <2>1 DEF SweepIsSafe, n, to
<1> QED
  BY <1>1, <1>3, <1>6, <1>7, <1>8, <1>9 DEF MergeInv, MergeTyped

LEMMA Discarding ==
  ASSUME MergeInv, NEW n \in FileNames, DiscardIncoming(n) PROVE MergeInv'
<1>1. PICK m \in Meets(n) :
          /\ ~HeldBack(n, m) /\ shelved' = Renamed(n, m, racks) /\ Visited(n, "merging", m)
  BY DEF DiscardIncoming
<1>2. /\ Visiting(n) /\ merger.phase = "merging" /\ UNCHANGED <<mergeTool, racks, folder>>
      /\ intake' = [intake EXCEPT ![n] = NoArchive]
  BY DEF DiscardIncoming, Visiting
<1>3. /\ n \in Here(intake) /\ m \in Here(racks) /\ m \in FileNames
      /\ n \notin merger.stripped => CollisionKey[m] = CollisionKey[n]
  BY <1>2, MeetingFacts DEF Here
<1>4. MergeTyped /\ EveryKeyKeepsACopy /\ NamesAreEvidence /\ Phases /\ SweepIsSafe
  BY <1>2, PassFields DEF MergeInv
<1>5. /\ merger' \in Passes /\ merger'.phase = "merging" /\ merger'.stripped = merger.stripped
      /\ merger'.left = merger.left \ {n} /\ merger'.loose = merger.loose
  BY <1>1, <1>2, <1>3, <1>4, VisitChanges
<1>6. /\ intake' \in Shelf /\ Here(intake') = Here(intake) \ {n}
      /\ \A k \in Here(intake') : intake'[k] = intake[k]
  BY <1>2, <1>4 DEF MergeTyped, Shelf, Here
<1>7. KeysIn(intake) \subseteq KeysIn(intake') \union {CollisionKey[n]} /\ CollisionKey[m] \in KeysIn(racks)
  BY <1>3, <1>6 DEF KeysIn
<1>8. EveryKeyKeepsACopy'
  BY <1>1, <1>2, <1>4, <1>7 DEF EveryKeyKeepsACopy, Renamed
<1>9. Phases' /\ NamesAreEvidence'
  BY <1>2, <1>4, <1>5, <1>6 DEF Phases, Watching, NamesAreEvidence
<1>10. SweepIsSafe'
  <2> SUFFICES ASSUME mergeTool = "maintenance", NEW k \in shelved'
               PROVE  \/ k \in KeysIn(racks')
                      \/ \E i \in merger'.left : i \in Here(intake') /\ CollisionKey[i] = k
    BY <1>2, <1>5 DEF SweepIsSafe
  <2>1. CollisionKey[n] \in KeysIn(racks)
    BY <1>3, <1>4, <1>7 DEF Phases, Watching
  <2> QED
    BY <1>1, <1>2, <1>4, <1>5, <1>6, <2>1 DEF SweepIsSafe, Renamed
<1> QED
  BY <1>2, <1>4, <1>5, <1>6, <1>8, <1>9, <1>10 DEF MergeInv, MergeTyped, Phases

LEMMA Ending == ASSUME MergeInv, PassFails \/ FinishPass PROVE MergeInv'
<1>1. CASE PassFails
  BY <1>1 DEF PassFails, MergeInv, MergeTyped, EveryKeyKeepsACopy, NamesAreEvidence
<1>2. CASE FinishPass /\ mergeTool # "maintenance"
  BY <1>2 DEF FinishPass, MergeInv, MergeTyped, EveryKeyKeepsACopy, NamesAreEvidence
<1>3. CASE FinishPass /\ mergeTool = "maintenance"
  <2>1. /\ merger.phase \in {"merging", "landing"} /\ merger.left = {} /\ merger' = NoPass
        /\ intake' = [n \in FileNames |-> NoArchive]
        /\ UNCHANGED <<mergeTool, racks, folder, shelved>>
    BY <1>3 DEF FinishPass
  <2>2. Phases /\ SweepIsSafe
    BY <2>1, PassFields DEF MergeInv
  <2>3. merger.phase = "merging"
    BY <1>3, <2>1, <2>2 DEF Phases, Watching
  <2>4. shelved \subseteq KeysIn(racks)
    BY <1>3, <2>1, <2>2, <2>3 DEF SweepIsSafe
  <2>5. intake' \in Shelf /\ Here(intake') = {}
    BY <2>1 DEF Shelf, Here
  <2> QED
    BY <2>1, <2>4, <2>5 DEF MergeInv, MergeTyped, EveryKeyKeepsACopy, NamesAreEvidence
<1> QED
  BY <1>1, <1>2, <1>3

LEMMA MergeStep == MergeInv /\ [MergeNext]_mergeVars => MergeInv'
<1> SUFFICES ASSUME MergeInv, [MergeNext]_mergeVars PROVE MergeInv'
  OBVIOUS
<1>1. CASE UNCHANGED mergeVars
  BY <1>1 DEF mergeVars, MergeInv, MergeTyped, EveryKeyKeepsACopy, NamesAreEvidence, Phases,
              SweepIsSafe, Watching
<1> QED
  BY <1>1, Arriving, Appearing, Starting, Naming, Refusing, StartsMerging, StartsLoose,
     StartsMoving, MovingWhole, LandingNames, MovingIn,
     HoldingBack, Taking, Replacing, Discarding, Ending DEF MergeNext

-----------------------------------------------------------------------------
(* What is gone for good *)

TagStep ==
  racks' # racks \/ intake' # intake \/ aside' # aside => \A a \in GoneForGood :
     mergeTool \in {"watcher", "resolver"} =>
         /\ merger' # NoPass
         /\ LET n == merger'.file
                m == merger'.to
            IN \/ intake[n].as \notin Tagged
               \/ CollisionKey[intake[n].as] = CollisionKey[m]
               \/ SameBytes(intake[n], racks[m])
ResolverStep ==
  mergeTool = "resolver" =>
     \A a \in GoneForGood : \E c \in Everywhere' : c # NoArchive /\ SameBytes(a, c)

(* Most steps only move archives about, or add one.                        *)
LEMMA MovesLoseNothing ==
  ASSUME \/ \E n \in FileNames : \/ ArchiveArrives(n) \/ NameArchive(n) \/ LandDeferredName(n)
                                 \/ MoveIn(n) \/ HoldArchive(n)
         \/ FolderAppears \/ StartPass \/ RefusePass \/ StartMerge \/ StartLooseMerge
         \/ StartMoveWhole \/ MoveWhole \/ MoveInside \/ FallBackToMerge \/ PutInItsPlace
         \/ PassFails \/ (FinishPass /\ mergeTool # "maintenance") \/ UNCHANGED mergeVars,
         MergeInv
  PROVE  GoneForGood = {}
<1> SUFFICES ASSUME NEW a \in Everywhere, a # NoArchive PROVE a \in Everywhere'
  BY DEF GoneForGood
<1>1. MergeTyped
  BY DEF MergeInv
<1>2. ASSUME NEW n \in FileNames, ArchiveArrives(n) PROVE a \in Everywhere'
  <2>1. PICK b : intake' = [intake EXCEPT ![n] = b] /\ intake[n] = NoArchive
                   /\ UNCHANGED <<racks, aside>>
    BY <1>2 DEF ArchiveArrives
  <2>2. \A k \in FileNames : intake[k] # NoArchive => intake'[k] = intake[k]
    BY <1>1, <2>1 DEF MergeTyped, Shelf
  <2> QED
    BY <2>1, <2>2 DEF Everywhere
<1>3. ASSUME NEW n \in FileNames, NameArchive(n) PROVE a \in Everywhere'
  <2> DEFINE to == Display[n]
  <2>1. UNCHANGED <<racks, aside>> /\ to \in FileNames
    BY <1>3, DisplayAssumption DEF NameArchive
  <2>2. CASE intake' = intake
    BY <2>1, <2>2 DEF Everywhere
  <2>3. CASE intake[to] = NoArchive /\ intake' = [intake EXCEPT ![to] = intake[n], ![n] = NoArchive]
    <3>1. CASE n = to
      <4>1. \A k \in FileNames : intake[k] # NoArchive => intake'[k] = intake[k]
        BY <1>1, <2>1, <2>3, <3>1 DEF MergeTyped, Shelf
      <4> QED
        BY <2>1, <4>1 DEF Everywhere
    <3>2. CASE n # to
      <4>1. /\ \A k \in FileNames \ {n} : intake[k] # NoArchive => intake'[k] = intake[k]
            /\ intake'[to] = intake[n]
        BY <1>1, <2>1, <2>3, <3>2 DEF MergeTyped, Shelf
      <4> QED
        BY <2>1, <4>1 DEF Everywhere
    <3> QED
      BY <3>1, <3>2
  <2> QED
    BY <1>3, <2>2, <2>3 DEF NameArchive
<1>4. ASSUME NEW n \in FileNames, LandDeferredName(n) PROVE a \in Everywhere'
  <2> DEFINE to == Display[n]
  <2>1. UNCHANGED <<intake, aside>> /\ to \in FileNames
    BY <1>4, DisplayAssumption DEF LandDeferredName
  <2>2. CASE racks' = racks
    BY <2>1, <2>2 DEF Everywhere
  <2>3. CASE /\ racks[n] # NoArchive /\ CollisionKey[to] \notin KeysIn(racks)
             /\ racks' = [racks EXCEPT ![to] = racks[n], ![n] = NoArchive]
    <3>1. racks[to] = NoArchive
      BY <2>1, <2>3 DEF KeysIn, Here
    <3>2. CASE n = to
      <4>1. \A k \in FileNames : racks[k] # NoArchive => racks'[k] = racks[k]
        BY <1>1, <2>1, <2>3, <3>1, <3>2 DEF MergeTyped, Shelf
      <4> QED
        BY <2>1, <4>1 DEF Everywhere
    <3>3. CASE n # to
      <4>1. /\ \A k \in FileNames \ {n} : racks[k] # NoArchive => racks'[k] = racks[k]
            /\ racks'[to] = racks[n]
        BY <1>1, <2>1, <2>3, <3>1, <3>3 DEF MergeTyped, Shelf
      <4> QED
        BY <2>1, <4>1 DEF Everywhere
    <3> QED
      BY <3>2, <3>3
  <2> QED
    BY <1>4, <2>2, <2>3 DEF LandDeferredName
<1>5. ASSUME NEW n \in FileNames, NEW to \in FileNames, racks[to] = NoArchive, PutDown(n, to),
             UNCHANGED aside
      PROVE  a \in Everywhere'
  <2>1. /\ \A k \in FileNames \ {n} : intake'[k] = intake[k]
        /\ \A k \in FileNames \ {to} : racks'[k] = racks[k]
        /\ racks'[to] = intake[n]
    BY <1>1, <1>5 DEF MergeTyped, Shelf, PutDown
  <2> QED
    BY <1>5, <2>1 DEF Everywhere
<1>6. ASSUME NEW n \in FileNames, MoveIn(n) PROVE a \in Everywhere'
  BY <1>5, <1>6, MeetingFacts DEF MoveIn
<1>7. ASSUME PutInItsPlace PROVE a \in Everywhere'
  <2>1. merger.phase = "replacing" /\ PutDown(merger.file, merger.to) /\ UNCHANGED aside
    BY <1>7 DEF PutInItsPlace
  <2>2. Phases
    BY <1>1, <2>1, PassFields DEF MergeInv
  <2> QED
    BY <1>5, <2>1, <2>2 DEF Phases, Here
<1>10. ASSUME FolderAppears PROVE a \in Everywhere'
  <2>1. UNCHANGED <<intake, aside>> /\ Here(racks) = {}
    BY <1>10 DEF FolderAppears, MergeInv
  <2> QED
    BY <2>1 DEF Everywhere, Here
<1>11. ASSUME StartMerge \/ FallBackToMerge PROVE a \in Everywhere'
  <2>1. UNCHANGED <<mergeTool, intake, aside>> /\ Backfill
    BY <1>11 DEF StartMerge, FallBackToMerge
  <2>2. \A k \in FileNames : racks[k] # NoArchive => \E i \in FileNames : racks'[i] = racks[k]
    BY <1>1, <2>1, Backfilling DEF MergeInv
  <2> QED
    BY <2>1, <2>2 DEF Everywhere
<1>12. ASSUME MoveInside PROVE a \in Everywhere'
  <2>1. aside' = aside \union {intake[n] : n \in Here(intake)} /\ racks' = racks
    BY <1>12 DEF MoveInside
  <2> QED
    BY <2>1 DEF Everywhere, Here
<1>8. ASSUME MoveWhole PROVE a \in Everywhere'
  <2>1. racks' = intake /\ UNCHANGED aside /\ Here(racks) = {}
    BY <1>8 DEF MoveWhole, MergeInv
  <2> QED
    BY <2>1 DEF Everywhere, Here
<1>9. ASSUME UNCHANGED <<racks, intake, aside>> PROVE a \in Everywhere'
  BY <1>9 DEF Everywhere
<1> QED
  BY <1>2, <1>3, <1>4, <1>6, <1>7, <1>8, <1>9, <1>10, <1>11, <1>12
     DEF HoldArchive, StartPass, RefusePass, StartLooseMerge, StartMoveWhole, PassFails, FinishPass,
         mergeVars

(* One that is replaced or discarded had a rival with its key, not just a  *)
(* rival that a dropped tag made, or the resolver put it aside.            *)
LEMMA TagJudged ==
  ASSUME MergeInv, mergeTool \in {"watcher", "resolver"}, NEW n \in FileNames, Visiting(n),
         NEW m \in Meets(n), ~HeldBack(n, m)
  PROVE  \/ intake[n].as \notin Tagged
         \/ CollisionKey[intake[n].as] = CollisionKey[m]
         \/ SameBytes(intake[n], racks[m])
<1>1. CASE n \in merger.stripped
  BY <1>1 DEF HeldBack
<1>2. CASE n \notin merger.stripped
  <2>1. n \in Here(intake) /\ CollisionKey[m] = CollisionKey[n]
    BY <1>2, MeetingFacts
  <2>2. CameAs(n, intake[n].as)
    BY <2>1 DEF MergeInv, NamesAreEvidence
  <2> QED
    BY <2>1, <2>2 DEF CameAs
<1> QED
  BY <1>1, <1>2

LEMMA LosersAreJudged ==
  ASSUME MergeInv, NEW n \in FileNames, TakeFromShelf(n) \/ DiscardIncoming(n)
  PROVE  TagStep /\ ResolverStep
<1>1. PICK m \in Meets(n) : /\ ~HeldBack(n, m)
                           /\ \E phase \in {"merging", "replacing"} : Visited(n, phase, m)
                           /\ \/ /\ racks' = [racks EXCEPT ![m] = NoArchive] /\ intake' = intake
                                 /\ aside' = IF mergeTool = "resolver" THEN aside \union {racks[m]}
                                             ELSE aside
                              \/ /\ intake' = [intake EXCEPT ![n] = NoArchive] /\ racks' = racks
                                 /\ aside' = IF /\ mergeTool = "resolver"
                                                /\ ~SameBytes(intake[n], racks[m])
                                             THEN aside \union {intake[n]} ELSE aside
  BY DEF TakeFromShelf, DiscardIncoming
<1>2. Visiting(n) /\ merger.phase = "merging" /\ MergeTyped
  BY DEF TakeFromShelf, DiscardIncoming, Visiting, MergeInv
<1>3. m \in Here(racks) /\ m \in FileNames
  BY <1>2, MeetingFacts DEF Here
<1>4. merger' # NoPass /\ merger'.file = n /\ merger'.to = m
  BY <1>1, <1>2, <1>3, VisitChanges
<1>5. TagStep
  BY <1>2, <1>1, <1>4, TagJudged DEF TagStep
<1>6. ResolverStep
  <2> SUFFICES ASSUME mergeTool = "resolver", NEW a \in Everywhere, a # NoArchive, a \notin Everywhere'
               PROVE  \E c \in Everywhere' : c # NoArchive /\ SameBytes(a, c)
    BY DEF ResolverStep, GoneForGood
  <2>1. CASE /\ racks' = [racks EXCEPT ![m] = NoArchive] /\ intake' = intake
             /\ aside' = aside \union {racks[m]}
    <3>1. \A k \in FileNames \ {m} : racks'[k] = racks[k]
      BY <1>2, <1>3, <2>1 DEF MergeTyped, Shelf
    <3> QED
      BY <2>1, <3>1 DEF Everywhere
  <2>2. CASE /\ intake' = [intake EXCEPT ![n] = NoArchive] /\ racks' = racks
             /\ aside' = IF ~SameBytes(intake[n], racks[m]) THEN aside \union {intake[n]} ELSE aside
    <3>1. \A k \in FileNames \ {n} : intake'[k] = intake[k]
      BY <1>2, <2>2 DEF MergeTyped, Shelf
    <3>2. a = intake[n] /\ SameBytes(a, racks[m])
      BY <2>2, <3>1 DEF Everywhere
    <3> QED
      BY <1>3, <2>2, <3>2 DEF Everywhere, Here
  <2> QED
    BY <1>1, <2>1, <2>2
<1> QED
  BY <1>5, <1>6

LEMMA StepsLoseNothing == MergeInv /\ [MergeNext]_mergeVars => TagStep /\ ResolverStep
<1> SUFFICES ASSUME MergeInv, [MergeNext]_mergeVars PROVE TagStep /\ ResolverStep
  OBVIOUS
<1>1. CASE GoneForGood = {}
  BY <1>1 DEF TagStep, ResolverStep
<1>2. CASE FinishPass /\ mergeTool = "maintenance"
  BY <1>2 DEF TagStep, ResolverStep
<1> QED
  BY <1>1, <1>2, MovesLoseNothing, LosersAreJudged DEF MergeNext

(* A merge keeps a copy of every issue, whichever tool merges: the library *)
(* or the intake has one under every key the library had, a tag that was  *)
(* dropped decides nothing, and a resolver's pass deletes only equal files.*)
THEOREM MergesAreSafe == MergeSpec => MergeSafety
<1>1. MergeInv => EveryKeyKeepsACopy
  BY DEF MergeInv
<1>2. MergeInv /\ [MergeNext]_mergeVars => [TagStep /\ ResolverStep]_mergeVars
  BY StepsLoseNothing
<1> QED
  BY MergeBegins, MergeStep, <1>1, <1>2, PTL
     DEF MergeSpec, MergeSafety, TagIsNoEvidence, ResolverDiscardsNothing, TagStep, ResolverStep

-----------------------------------------------------------------------------
(* Routing                                                                 *)

(* A set of natural numbers has a least one.                              *)
LEMMA LeastExists ==
  ASSUME NEW T, T \subseteq Nat, T # {}
  PROVE  \E m \in T : \A k \in T : m <= k
<1> DEFINE R == OpToRel(<, Nat)
<1>1. \A k, m \in Nat : k < m => <<k, m>> \in R
  BY DEF OpToRel
<1>2. IsWellFoundedOn(R, Nat)
  BY NatLessThanWellFounded
<1> HIDE DEF R
<1>3. PICK m \in T : \A k \in T : <<k, m>> \notin R
  BY <1>2, WFMin
<1>4. \A k \in T : m <= k
  <2> SUFFICES ASSUME NEW k \in T, ~ m <= k PROVE FALSE
    OBVIOUS
  <2>1. k < m /\ k \in Nat /\ m \in Nat
    OBVIOUS
  <2> QED
    BY <1>1, <1>3, <2>1
<1> QED
  BY <1>4

Homesteads == {Place(r, f) : r \in Destinations \union {"retired"}, f \in Titles}
Destined(p) == p \in Homesteads /\ p.root \in Destinations

(* A pass that is under way holds the key of its title, and writes to a    *)
(* destination.                                                            *)
Bearing(r) ==
  /\ r = [at |-> r.at, title |-> r.title, dest |-> r.dest, home |-> r.home,
          verdict |-> r.verdict, handoff |-> r.handoff, hand |-> r.hand]
  /\ r.title \in Titles /\ r.dest \in Destinations /\ Destined(r.home)
  /\ r.at \in {"moving", "merging", "landed"} => Keyed(r.home) = SeriesKey[r.title]
  /\ r.hand # {} => r.at = "merging"
  /\ \A h \in r.hand : Destined(h.to)

Move(row) == row.from \in Homesteads /\ Destined(row.to)

ToolTyped ==
  /\ migration = [at |-> migration.at, rows |-> migration.rows, digest |-> migration.digest,
                  row |-> migration.row, left |-> migration.left, hand |-> migration.hand,
                  runs |-> migration.runs]
  /\ \A row \in migration.rows \union migration.row : Move(row)
  /\ \A h \in migration.hand : Destined(h.to)

RoutingTyped ==
  /\ standing \subseteq Homesteads /\ \A p \in index \union unnoted : Destined(p)
  /\ pass = [t \in RouterPasses |-> pass[t]] /\ \A t \in RouterPasses : Bearing(pass[t])
  /\ ToolTyped

(* Of a series no other tool has touched, the disk has the folders of the  *)
(* index, those that passes are merging into or have landed in and not     *)
(* noted, those that failed moves left, and no others.                     *)
Air(r) == IF r.at \in {"merging", "landed"} THEN {r.home} ELSE {}
InAir(passes) == UNION {Air(pass[t]) : t \in passes}

IndexHolds ==
  \A p \in Homesteads : Keyed(p) \notin stale =>
     (p \in Built <=> p \in index \union unnoted \union InAir(RouterPasses))

RoutingInv == RoutingTyped /\ IndexHolds

LEMMA PlaceFields ==
  ASSUME NEW r, NEW f
  PROVE  /\ Place(r, f) = [root |-> r, folder |-> f, inner |-> <<>>]
         /\ Place(r, f).root = r /\ Place(r, f).folder = f
         /\ r \in Destinations /\ f \in Titles => Destined(Place(r, f))
  BY DEF Place, Destined, Homesteads

LEMMA HomesteadFields ==
  ASSUME NEW p \in Homesteads
  PROVE  /\ p.folder \in Titles /\ Keyed(p) \in SeriesKeys
         /\ p = [root |-> p.root, folder |-> p.folder, inner |-> <<>>]
  BY DEF Homesteads, Place, Keyed, SeriesKeys

LEMMA ATitle == AnyTitle \in Titles
  BY IssuesAssumption DEF AnyTitle

LEMMA RestingIsBearing ==
  /\ Bearing(Resting) /\ Resting.at = "resting" /\ Resting.hand = {} /\ Air(Resting) = {}
  /\ Resting.title = AnyTitle
<1>1. Destined(Place(DefaultDest, AnyTitle))
  BY ATitle, PlaceFields, DestinationsAssumption
<1> QED
  BY <1>1, ATitle, DestinationsAssumption DEF Bearing, Resting, Air

LEMMA NoneInAir ==
  ASSUME \A t \in RouterPasses : pass[t].at = "resting", index = Built, unnoted = {}
  PROVE  IndexHolds
<1>1. InAir(RouterPasses) = {}
  BY DEF InAir, Air
<1> QED
  BY <1>1 DEF IndexHolds

LEMMA BuiltIsDestined == ASSUME standing \subseteq Homesteads PROVE \A p \in Built : Destined(p)
BY DEF Built, Destined

LEMMA RoutingBegins == RoutingInit => RoutingInv
<1> SUFFICES ASSUME RoutingInit PROVE RoutingInv
  OBVIOUS
<1>1. standing \subseteq Homesteads
  <2> SUFFICES ASSUME NEW a \in Issues, placed[a].root \in Destinations \cup {"retired"}
               PROVE  placed[a] \in Homesteads
    BY DEF RoutingInit
  <2>1. placed[a] = Place(Placed[a].root, Placed[a].folder) /\ Placed[a].folder \in Titles
    BY IssuesAssumption DEF RoutingInit
  <2> QED
    BY <2>1, PlaceFields DEF Homesteads
<1>2. /\ pass = [t \in RouterPasses |-> pass[t]]
      /\ \A t \in RouterPasses : Bearing(pass[t]) /\ pass[t].at = "resting"
  BY RestingIsBearing DEF RoutingInit
<1>3. ToolTyped
  BY DEF RoutingInit, ToolTyped
<1>4. index = Built /\ unnoted = {}
  BY DEF RoutingInit
<1> QED
  BY <1>1, <1>2, <1>3, <1>4, NoneInAir, BuiltIsDestined DEF RoutingInv, RoutingTyped

-----------------------------------------------------------------------------
(* The watcher's passes *)

LEMMA PassChanges ==
  ASSUME RoutingTyped, NEW t \in RouterPasses, NEW r, pass' = [pass EXCEPT ![t] = r]
  PROVE  /\ pass' = [u \in RouterPasses |-> pass'[u]] /\ pass'[t] = r
         /\ \A u \in RouterPasses \ {t} : pass'[u] = pass[u]
BY DEF RoutingTyped

(* A pass changes the index as much as the disk.                           *)
LEMMA PassStep ==
  ASSUME RoutingInv, NEW t \in RouterPasses, NEW r, Bearing(r), pass' = [pass EXCEPT ![t] = r],
         UNCHANGED <<stale, migration>>,
         standing \subseteq standing', standing' \subseteq standing \union Air(r),
         Air(r) \subseteq standing' \union Air(pass[t]),
         Air(pass[t]) \subseteq index' \union unnoted' \union Air(r),
         index \union unnoted \subseteq index' \union unnoted',
         index' \union unnoted' \subseteq index \union unnoted \union Air(pass[t])
  PROVE  RoutingInv'
<1>1. RoutingTyped /\ IndexHolds /\ Bearing(pass[t])
  BY DEF RoutingInv, RoutingTyped
<1>2. /\ pass' = [u \in RouterPasses |-> pass'[u]] /\ pass'[t] = r
      /\ \A u \in RouterPasses \ {t} : pass'[u] = pass[u]
  BY <1>1, PassChanges
<1>3. (\A p \in Air(r) : Destined(p)) /\ \A p \in Air(pass[t]) : Destined(p)
  BY <1>1 DEF Air, Bearing
<1>4. /\ standing' \subseteq Homesteads /\ \A p \in index' \union unnoted' : Destined(p)
      /\ \A u \in RouterPasses : Bearing(pass'[u])
  BY <1>1, <1>2, <1>3 DEF RoutingTyped, Destined
<1> DEFINE others == InAir(RouterPasses \ {t})
<1>5. InAir(RouterPasses) = others \union Air(pass[t]) /\ InAir(RouterPasses)' = others \union Air(r)
  BY <1>2 DEF InAir
<1> HIDE DEF others
<1>6. ASSUME NEW p \in Homesteads, Keyed(p) \notin stale
      PROVE  p \in Built' <=> p \in index' \union unnoted' \union InAir(RouterPasses)'
  <2>1. p \in Built <=> p \in index \union unnoted \union others \union Air(pass[t])
    BY <1>1, <1>5, <1>6 DEF IndexHolds
  <2>2. p \in Air(r) => p.root \in Destinations
    BY <1>3 DEF Destined
  <2>3. p \in Built => p \in Built'
    BY DEF Built
  <2>4. p \in Built' => p \in Built \union Air(r)
    BY DEF Built
  <2>5. p \in Air(r) => p \in Built' \union Air(pass[t])
    BY <2>2 DEF Built
  <2> QED
    BY <1>5, <2>1, <2>3, <2>4, <2>5
<1>7. ToolTyped'
  BY <1>1 DEF RoutingTyped, ToolTyped
<1> QED
  BY <1>2, <1>4, <1>6, <1>7 DEF RoutingInv, RoutingTyped, IndexHolds

(* A pass starts afresh, with a new title and home.                        *)
Anew(at, name, dest, home) ==
  [at |-> at, title |-> name, dest |-> dest, home |-> home,
   verdict |-> Resting.verdict, handoff |-> Resting.handoff, hand |-> {}]

LEMMA AnewForm ==
  \E R1, R2, R3, R4, R5, R6, R7 :
     Resting \in [at : R1, title : R2, dest : R3, home : R4, verdict : R5, handoff : R6, hand : R7]
<1> DEFINE R1 == {Resting.at}
           R2 == {Resting.title}
           R3 == {Resting.dest}
           R4 == {Resting.home}
           R5 == {Resting.verdict}
           R6 == {Resting.handoff}
           R7 == {Resting.hand}
<1>1. Resting \in [at : R1, title : R2, dest : R3, home : R4, verdict : R5, handoff : R6, hand : R7]
  BY RestingIsBearing DEF Bearing
<1> HIDE DEF R1, R2, R3, R4, R5, R6, R7
<1> WITNESS R1, R2, R3, R4, R5, R6, R7
<1> QED
  BY <1>1

LEMMA AnewHome ==
  ASSUME NEW x, NEW y, NEW z
  PROVE  [Resting EXCEPT !.at = x, !.title = y, !.home = z] = Anew(x, y, Resting.dest, z)
<1>1. PICK R1, R2, R3, R4, R5, R6, R7 :
         Resting \in [at : R1, title : R2, dest : R3, home : R4, verdict : R5, handoff : R6, hand : R7]
  BY AnewForm
<1>2. ASSUME NEW s, s = [Resting EXCEPT !.at = x, !.title = y, !.home = z]
      PROVE  s = Anew(x, y, Resting.dest, z)
  BY <1>1, <1>2, RestingIsBearing DEF Anew
<1> QED
  BY <1>2

LEMMA AnewDest ==
  ASSUME NEW x, NEW y, NEW d
  PROVE  [Resting EXCEPT !.at = x, !.title = y, !.dest = d] = Anew(x, y, d, Resting.home)
<1>1. PICK R1, R2, R3, R4, R5, R6, R7 :
         Resting \in [at : R1, title : R2, dest : R3, home : R4, verdict : R5, handoff : R6, hand : R7]
  BY AnewForm
<1>2. ASSUME NEW s, s = [Resting EXCEPT !.at = x, !.title = y, !.dest = d]
      PROVE  s = Anew(x, y, d, Resting.home)
  BY <1>1, <1>2, RestingIsBearing DEF Anew
<1> QED
  BY <1>2

LEMMA AnewFacts ==
  ASSUME NEW x, NEW y \in Titles, NEW d \in Destinations, NEW z, Destined(z),
         x \in {"moving", "merging", "landed"} => Keyed(z) = SeriesKey[y]
  PROVE  /\ Bearing(Anew(x, y, d, z))
         /\ Air(Anew(x, y, d, z)) = IF x \in {"merging", "landed"} THEN {z} ELSE {}
  BY DEF Anew, Bearing, Air

(* A pass goes on: its stage, its verdict and its hand may change.         *)
Onward(r, at, verdict, handoff, hand) ==
  [at |-> at, title |-> r.title, dest |-> r.dest, home |-> r.home,
   verdict |-> verdict, handoff |-> handoff, hand |-> hand]

LEMMA PassForm ==
  ASSUME RoutingTyped
  PROVE  /\ \E R1, R2, R3, R4, R5, R6, R7 :
               pass \in [RouterPasses -> [at : R1, title : R2, dest : R3, home : R4, verdict : R5,
                                         handoff : R6, hand : R7]]
         /\ pass = [u \in RouterPasses |-> pass[u]]
<1> DEFINE P == RouterPasses
           R1 == {pass[u].at : u \in P}
           R2 == {pass[u].title : u \in P}
           R3 == {pass[u].dest : u \in P}
           R4 == {pass[u].home : u \in P}
           R5 == {pass[u].verdict : u \in P}
           R6 == {pass[u].handoff : u \in P}
           R7 == {pass[u].hand : u \in P}
<1>1. \A u \in P : pass[u] \in [at : R1, title : R2, dest : R3, home : R4, verdict : R5, handoff : R6, hand : R7]
  BY DEF RoutingTyped, Bearing
<1> HIDE DEF R1, R2, R3, R4, R5, R6, R7
<1>2. pass = [u \in P |-> pass[u]]
  BY DEF RoutingTyped
<1>3. pass \in [P -> [at : R1, title : R2, dest : R3, home : R4, verdict : R5, handoff : R6, hand : R7]]
  BY <1>1, <1>2
<1> QED
  BY <1>2, <1>3

LEMMA PassReplaced ==
  ASSUME RoutingTyped, NEW t \in RouterPasses, NEW q,
         pass' = [u \in RouterPasses |-> pass'[u]], pass'[t] = q,
         \A u \in RouterPasses \ {t} : pass'[u] = pass[u]
  PROVE  pass' = [pass EXCEPT ![t] = q]
  BY DEF RoutingTyped

LEMMA OnwardAt ==
  ASSUME RoutingTyped, NEW t \in RouterPasses, NEW x,
         pass' = [pass EXCEPT ![t].at = x]
  PROVE  pass' = [pass EXCEPT ![t] = Onward(pass[t], x, pass[t].verdict, pass[t].handoff, pass[t].hand)]
<1> PICK R1, R2, R3, R4, R5, R6, R7 :
       pass \in [RouterPasses -> [at : R1, title : R2, dest : R3, home : R4, verdict : R5,
                                 handoff : R6, hand : R7]]
  BY PassForm
<1> DEFINE q == Onward(pass[t], x, pass[t].verdict, pass[t].handoff, pass[t].hand)
<1>1. pass'[t] = q
  BY DEF Onward
<1>2. /\ pass' = [u \in RouterPasses |-> pass'[u]]
      /\ \A u \in RouterPasses \ {t} : pass'[u] = pass[u]
  BY PassForm
<1> HIDE DEF q
<1>3. pass' = [pass EXCEPT ![t] = q]
  BY <1>1, <1>2, PassReplaced
<1> QED
  BY <1>3 DEF q

LEMMA OnwardHand ==
  ASSUME RoutingTyped, NEW t \in RouterPasses, NEW n,
         pass' = [pass EXCEPT ![t].hand = n]
  PROVE  pass' = [pass EXCEPT ![t] = Onward(pass[t], pass[t].at, pass[t].verdict, pass[t].handoff, n)]
<1> PICK R1, R2, R3, R4, R5, R6, R7 :
       pass \in [RouterPasses -> [at : R1, title : R2, dest : R3, home : R4, verdict : R5,
                                 handoff : R6, hand : R7]]
  BY PassForm
<1> DEFINE q == Onward(pass[t], pass[t].at, pass[t].verdict, pass[t].handoff, n)
<1>1. pass'[t] = q
  BY DEF Onward
<1>2. /\ pass' = [u \in RouterPasses |-> pass'[u]]
      /\ \A u \in RouterPasses \ {t} : pass'[u] = pass[u]
  BY PassForm
<1> HIDE DEF q
<1>3. pass' = [pass EXCEPT ![t] = q]
  BY <1>1, <1>2, PassReplaced
<1> QED
  BY <1>3 DEF q

LEMMA OnwardFailed ==
  ASSUME RoutingTyped, NEW t \in RouterPasses, NEW x, NEW h,
         pass' = [pass EXCEPT ![t].at = x, ![t].handoff = h]
  PROVE  pass' = [pass EXCEPT ![t] = Onward(pass[t], x, pass[t].verdict, h, pass[t].hand)]
<1> PICK R1, R2, R3, R4, R5, R6, R7 :
       pass \in [RouterPasses -> [at : R1, title : R2, dest : R3, home : R4, verdict : R5,
                                 handoff : R6, hand : R7]]
  BY PassForm
<1> DEFINE q == Onward(pass[t], x, pass[t].verdict, h, pass[t].hand)
<1>1. pass'[t] = q
  BY DEF Onward
<1>2. /\ pass' = [u \in RouterPasses |-> pass'[u]]
      /\ \A u \in RouterPasses \ {t} : pass'[u] = pass[u]
  BY PassForm
<1> HIDE DEF q
<1>3. pass' = [pass EXCEPT ![t] = q]
  BY <1>1, <1>2, PassReplaced
<1> QED
  BY <1>3 DEF q

LEMMA OnwardRouted ==
  ASSUME RoutingTyped, NEW t \in RouterPasses, NEW x, NEW v, NEW h,
         pass' = [pass EXCEPT ![t].at = x, ![t].verdict = v, ![t].handoff = h]
  PROVE  pass' = [pass EXCEPT ![t] = Onward(pass[t], x, v, h, pass[t].hand)]
<1> PICK R1, R2, R3, R4, R5, R6, R7 :
       pass \in [RouterPasses -> [at : R1, title : R2, dest : R3, home : R4, verdict : R5,
                                 handoff : R6, hand : R7]]
  BY PassForm
<1> DEFINE q == Onward(pass[t], x, v, h, pass[t].hand)
<1>1. pass'[t] = q
  BY DEF Onward
<1>2. /\ pass' = [u \in RouterPasses |-> pass'[u]]
      /\ \A u \in RouterPasses \ {t} : pass'[u] = pass[u]
  BY PassForm
<1> HIDE DEF q
<1>3. pass' = [pass EXCEPT ![t] = q]
  BY <1>1, <1>2, PassReplaced
<1> QED
  BY <1>3 DEF q

LEMMA OnwardFacts ==
  ASSUME NEW r, Bearing(r), NEW x, NEW v, NEW h, NEW n,
         x \in {"moving", "merging", "landed"} => r.at \in {"moving", "merging", "landed"},
         n # {} => x = "merging", \A i \in n : Destined(i.to)
  PROVE  /\ Bearing(Onward(r, x, v, h, n))
         /\ Air(Onward(r, x, v, h, n)) = IF x \in {"merging", "landed"} THEN {r.home} ELSE {}
  BY DEF Onward, Bearing, Air

LEMMA Settling ==
  ASSUME RoutingInv, NEW t \in RouterPasses, NEW name \in Titles, Settle(t, name)
  PROVE  RoutingInv'
<1> DEFINE r == Anew("settled", name, LegacyDest[name], Resting.home)
<1>1. /\ pass' = [pass EXCEPT ![t] = r] /\ pass[t].at = "resting"
      /\ UNCHANGED <<placed, standing, index, stale, unnoted, migration>>
  BY AnewDest DEF Settle
<1>2. Bearing(r) /\ Air(r) = {}
  <2>1. Destined(Resting.home) /\ LegacyDest[name] \in Destinations
    BY RestingIsBearing, DestinationsAssumption DEF Bearing
  <2> QED
    BY <2>1, AnewFacts
<1>3. Air(pass[t]) = {}
  BY <1>1 DEF Air
<1> HIDE DEF r
<1> QED
  BY <1>1, <1>2, <1>3, PassStep

LEMMA ShadowFailsOnward ==
  ASSUME RoutingTyped, NEW t \in RouterPasses, ShadowFails(t)
  PROVE  pass' = [pass EXCEPT ![t] = Onward(pass[t], "routed", pass[t].verdict,
                                            "classification_failed", pass[t].hand)]
<1>1. pass' = [pass EXCEPT ![t].at = "routed", ![t].handoff = "classification_failed"]
  BY DEF ShadowFails
<1> QED
  BY <1>1, OnwardFailed

Says(t) == Ranked(pass[t].title, Spread(Arrived(pass[t].title)), index, WatchConfig)

LEMMA ShadowOnward ==
  ASSUME RoutingTyped, NEW t \in RouterPasses, Shadow(t)
  PROVE  pass' = [pass EXCEPT ![t] = Onward(pass[t], "routed", Says(t), Handoff(Says(t), Mixed(t)),
                                            pass[t].hand)]
<1> DEFINE v == Says(t)
           h == Handoff(v, Mixed(t))
<1>1. pass' = [pass EXCEPT ![t].at = "routed", ![t].verdict = v, ![t].handoff = h]
  BY DEF Shadow, Says
<1> HIDE DEF h, v
<1>2. pass' = [pass EXCEPT ![t] = Onward(pass[t], "routed", v, h, pass[t].hand)]
  BY <1>1, OnwardRouted
<1> QED
  BY <1>2 DEF h, v

LEMMA Shadowing ==
  ASSUME RoutingInv, NEW t \in RouterPasses, ShadowFails(t) \/ Shadow(t)
  PROVE  RoutingInv'
<1>1. RoutingTyped /\ Bearing(pass[t])
  BY DEF RoutingInv, RoutingTyped
<1>2. PICK w, h : pass' = [pass EXCEPT ![t] = Onward(pass[t], "routed", w, h, pass[t].hand)]
  <2>1. CASE ShadowFails(t)
    BY <1>1, <2>1, ShadowFailsOnward
  <2>2. CASE Shadow(t)
    BY <1>1, <2>2, ShadowOnward
  <2> QED
    BY <2>1, <2>2
<1>3. pass[t].at = "settled" /\ UNCHANGED <<standing, index, stale, unnoted, migration>>
  BY DEF Shadow, ShadowFails
<1> DEFINE r == Onward(pass[t], "routed", w, h, pass[t].hand)
<1>4. Bearing(r) /\ Air(r) = {}
  <2>1. pass[t].hand = {}
    BY <1>1, <1>3 DEF Bearing
  <2> QED
    BY <1>1, <2>1, OnwardFacts
<1>5. Air(pass[t]) = {} /\ pass' = [pass EXCEPT ![t] = r]
  BY <1>2, <1>3 DEF Air
<1> HIDE DEF r
<1> QED
  BY <1>3, <1>4, <1>5, PassStep

(* A title's home is in its destination, under its key.                    *)
LEMMA HomeFacts ==
  ASSUME RoutingTyped, NEW dest \in Destinations, NEW name \in Titles,
         NEW home \in Homes(dest, name) \union WholeHomes(dest, name)
  PROVE  Destined(home) /\ Keyed(home) = SeriesKey[name]
<1>1. Destined(Place(dest, name)) /\ Keyed(Place(dest, name)) = SeriesKey[name]
  BY PlaceFields DEF Keyed
<1>2. CASE home = Place(dest, name)
  BY <1>1, <1>2
<1>3. CASE home \in Locations(Series(dest), SeriesKey[name])
  BY <1>3 DEF Locations, Series, RoutingTyped, Destined
<1> QED
  BY <1>2, <1>3 DEF Homes, WholeHomes

LEMMA StartingToLand ==
  ASSUME RoutingInv, NEW t \in RouterPasses, StartLanding(t) \/ StartLoose(t)
  PROVE  RoutingInv'
<1>1. PICK home \in Homes(pass[t].dest, pass[t].title) \union WholeHomes(pass[t].dest, pass[t].title),
           at \in {"moving", "merging"} :
         /\ pass' = [pass EXCEPT ![t] = Anew(at, pass[t].title, Resting.dest, home)]
         /\ standing' \in {standing, standing \union (IF at = "merging" THEN {home} ELSE {})}
         /\ at = "merging" => home \in standing'
  <2>1. CASE StartLanding(t)
    <3>1. PICK home \in WholeHomes(pass[t].dest, pass[t].title) :
             pass' = [pass EXCEPT ![t] = [Resting EXCEPT
                        !.at = IF home \in standing THEN "merging" ELSE "moving",
                        !.title = pass[t].title, !.home = home]]
      BY <2>1 DEF StartLanding
    <3> DEFINE at == IF home \in standing THEN "merging" ELSE "moving"
    <3>2. pass' = [pass EXCEPT ![t] = Anew(at, pass[t].title, Resting.dest, home)]
      <4>1. [Resting EXCEPT !.at = at, !.title = pass[t].title, !.home = home]
              = Anew(at, pass[t].title, Resting.dest, home)
        BY AnewHome
      <4> QED
        BY <3>1, <4>1
    <3>3. standing' = standing /\ at \in {"moving", "merging"} /\ (at = "merging" => home \in standing)
      BY <2>1 DEF StartLanding
    <3> HIDE DEF at
    <3> QED
      BY <3>2, <3>3
  <2>2. CASE StartLoose(t)
    <3>1. PICK home \in Homes(pass[t].dest, pass[t].title) :
             /\ pass' = [pass EXCEPT ![t] = [Resting EXCEPT
                           !.at = "merging", !.title = pass[t].title, !.home = home]]
             /\ standing' = standing \union {home}
      BY <2>2 DEF StartLoose
    <3>2. pass' = [pass EXCEPT ![t] = Anew("merging", pass[t].title, Resting.dest, home)]
      <4>1. [Resting EXCEPT !.at = "merging", !.title = pass[t].title, !.home = home]
              = Anew("merging", pass[t].title, Resting.dest, home)
        BY AnewHome
      <4> QED
        BY <3>1, <4>1
    <3> QED
      BY <3>1, <3>2
  <2> QED
    BY <2>1, <2>2
<1>2. pass[t].at = "routed" /\ UNCHANGED <<index, stale, unnoted, migration>>
  BY DEF StartLanding, StartLoose
<1>3. RoutingTyped /\ Bearing(pass[t])
  BY DEF RoutingInv, RoutingTyped
<1>4. Destined(home) /\ Keyed(home) = SeriesKey[pass[t].title]
  BY <1>3, HomeFacts DEF Bearing
<1> DEFINE r == Anew(at, pass[t].title, Resting.dest, home)
<1>5. Bearing(r) /\ Air(r) = IF at = "merging" THEN {home} ELSE {}
  <2>1. pass[t].title \in Titles /\ Resting.dest \in Destinations
    BY <1>3, RestingIsBearing DEF Bearing
  <2> QED
    BY <1>4, <2>1, AnewFacts
<1>6. pass' = [pass EXCEPT ![t] = r] /\ Air(pass[t]) = {}
  BY <1>1, <1>2 DEF Air
<1> HIDE DEF r
<1> QED
  BY <1>1, <1>2, <1>5, <1>6, PassStep

(* The steps of a pass that has a home.                                    *)
LEMMA Landing ==
  ASSUME RoutingInv, NEW t \in RouterPasses,
         LandWhole(t) \/ LandByMerging(t) \/ MergeLanded(t)
  PROVE  RoutingInv'
<1>1. PICK at \in {"merging", "landed"} : pass' = [pass EXCEPT ![t].at = at]
  BY DEF LandWhole, LandByMerging, MergeLanded
<1> DEFINE home == pass[t].home
<1>2. /\ pass[t].at \in {"moving", "merging"} /\ UNCHANGED <<index, stale, unnoted, migration>>
      /\ standing' \in {standing, standing \union {home}}
      /\ home \in standing' \/ pass[t].at = "merging"
      /\ pass[t].hand # {} => pass[t].at = "moving"
  BY DEF LandWhole, LandByMerging, MergeLanded
<1>3. RoutingTyped /\ Bearing(pass[t])
  BY DEF RoutingInv, RoutingTyped
<1>4. pass[t].hand = {}
  BY <1>2, <1>3 DEF Bearing
<1> DEFINE r == Onward(pass[t], at, pass[t].verdict, pass[t].handoff, pass[t].hand)
<1>5. pass' = [pass EXCEPT ![t] = r]
  BY <1>1, <1>3, OnwardAt
<1>6. Bearing(r) /\ Air(r) = {home}
  BY <1>2, <1>3, <1>4, OnwardFacts
<1>7. Air(pass[t]) = IF pass[t].at = "merging" THEN {home} ELSE {}
  BY <1>2 DEF Air
<1> HIDE DEF r, home
<1> QED
  BY <1>2, <1>5, <1>6, <1>7, PassStep

LEMMA HandStep ==
  ASSUME RoutingInv, NEW t \in RouterPasses, NEW n, pass' = [pass EXCEPT ![t].hand = n],
         pass[t].at = "merging", \A h \in n : Destined(h.to),
         UNCHANGED <<index, stale, unnoted, migration>>,
         standing' \in {standing, standing \union {pass[t].home}}
  PROVE  RoutingInv'
<1> DEFINE home == pass[t].home
           r == Onward(pass[t], pass[t].at, pass[t].verdict, pass[t].handoff, n)
<1>1. RoutingTyped /\ Bearing(pass[t])
  BY DEF RoutingInv, RoutingTyped
<1>2. pass' = [pass EXCEPT ![t] = r]
  BY <1>1, OnwardHand
<1>3. Bearing(r) /\ Air(r) = {home}
  BY <1>1, OnwardFacts
<1>4. Air(pass[t]) = {home}
  BY DEF Air
<1> HIDE DEF r
<1> QED
  BY <1>2, <1>3, <1>4, PassStep

LEMMA HandlingIssue ==
  ASSUME RoutingInv, NEW t \in RouterPasses,
         (\E a \in Issues : LookForHome(t, a)) \/ LandIssue(t) \/ KeepLarger(t)
  PROVE  RoutingInv'
<1>1. RoutingTyped /\ Bearing(pass[t])
  BY DEF RoutingInv, RoutingTyped
<1>2. UNCHANGED <<index, stale, unnoted, migration>> /\ standing' \in {standing, standing \union {pass[t].home}}
  BY DEF LookForHome, LandIssue, KeepLarger
<1>3. CASE \E a \in Issues : LookForHome(t, a)
  <2>1. PICK a \in Issues : LookForHome(t, a)
    BY <1>3
  <2> DEFINE n == {Hand(Path(a), pass[t].home)}
  <2>2. pass' = [pass EXCEPT ![t].hand = n] /\ pass[t].at = "merging"
    BY <2>1 DEF LookForHome
  <2>3. \A h \in n : Destined(h.to)
    BY <1>1 DEF Bearing, Hand
  <2> HIDE DEF n
  <2> QED
    BY <1>2, <2>2, <2>3, HandStep
<1>4. CASE LandIssue(t) \/ KeepLarger(t)
  <2>1. pass' = [pass EXCEPT ![t].hand = {}]
    BY <1>4 DEF LandIssue, KeepLarger
  <2>2. pass[t].hand # {}
    BY <1>4 DEF LandIssue, KeepLarger
  <2>3. pass[t].at = "merging"
    BY <1>1, <2>2 DEF Bearing
  <2> DEFINE n == {}
  <2>4. pass' = [pass EXCEPT ![t].hand = n] /\ \A h \in n : Destined(h.to)
    BY <2>1
  <2> HIDE DEF n
  <2> QED
    BY <1>2, <2>3, <2>4, HandStep
<1> QED
  BY <1>3, <1>4

LEMMA PassEnds ==
  ASSUME RoutingInv, NEW t \in RouterPasses, MoveFails(t) \/ NoteMove(t)
  PROVE  RoutingInv'
<1>1. /\ pass' = [pass EXCEPT ![t] = Resting] /\ UNCHANGED <<standing, stale, migration>>
      /\ index \union unnoted \subseteq index' \union unnoted'
      /\ Air(pass[t]) \subseteq index' \union unnoted'
      /\ index' \union unnoted' \subseteq index \union unnoted \union Air(pass[t])
  BY DEF MoveFails, NoteMove, Air
<1> QED
  BY <1>1, RestingIsBearing, PassStep

LEMMA Restarting == ASSUME RoutingInv, RestartRouter PROVE RoutingInv'
<1>1. /\ index' = Built /\ unnoted' = {} /\ pass' = [t \in RouterPasses |-> Resting]
      /\ UNCHANGED <<standing, migration>>
  BY DEF RestartRouter
<1>2. index' = Built' /\ \A t \in RouterPasses : pass'[t].at = "resting"
  BY <1>1, RestingIsBearing DEF Built
<1>3. InAir(RouterPasses)' = {}
  BY <1>2 DEF InAir, Air
<1>4. IndexHolds'
  BY <1>1, <1>2, <1>3 DEF IndexHolds
<1>5. \A p \in index' : Destined(p)
  BY <1>1, BuiltIsDestined DEF RoutingInv, RoutingTyped
<1>6. ToolTyped'
  BY <1>1 DEF RoutingInv, RoutingTyped, ToolTyped
<1> QED
  BY <1>1, <1>4, <1>5, <1>6, RestingIsBearing DEF RoutingInv, RoutingTyped

-----------------------------------------------------------------------------
(* The migration tool *)

LEMMA ToolOnly ==
  ASSUME RoutingInv, UNCHANGED <<standing, index, stale, pass, unnoted>>, ToolTyped'
  PROVE  RoutingInv'
<1>1. RoutingTyped'
  BY DEF RoutingInv, RoutingTyped
<1>2. IndexHolds'
  BY DEF RoutingInv, IndexHolds, Built, InAir
<1> QED
  BY <1>1, <1>2 DEF RoutingInv

LEMMA RulesTyped ==
  \A i \in DOMAIN RoutingRules : RoutingRules[i] \in [dest : Destinations, strength : {"strong", "weak"}]
<1> DEFINE T == [dest : Destinations, strength : {"strong", "weak"}]
<1>1. RoutingRules \in Seq(T)
  BY DestinationsAssumption
<1> HIDE DEF T
<1>2. \A i \in DOMAIN RoutingRules : RoutingRules[i] \in T
  BY <1>1
<1> QED
  BY <1>2 DEF T

LEMMA RulesNumbered == DOMAIN RoutingRules \subseteq Nat
<1> DEFINE T == [dest : Destinations, strength : {"strong", "weak"}]
<1>1. RoutingRules \in Seq(T)
  BY DestinationsAssumption
<1> HIDE DEF T
<1> QED
  BY <1>1

LEMMA FirstIsOne ==
  ASSUME NEW T, T \subseteq Nat, T # {}
  PROVE  FirstOf(T) \in T
<1>1. \E m \in T : \A k \in T : m <= k
  BY LeastExists
<1> QED
  BY <1>1 DEF FirstOf

(* A configuration names rules and overrides there are.                    *)
Config(cfg) ==
  /\ cfg.rules \subseteq DOMAIN RoutingRules /\ cfg.overrides \subseteq DOMAIN Overrides
  /\ cfg.default \in Destinations

LEMMA OverrideFacts ==
  ASSUME NEW cfg, Config(cfg), NEW name \in Titles
  PROVE  Canonical(name, cfg) \in Titles /\ PinOf(name, cfg) \in Destinations \union {NoPin}
<1> DEFINE S == OverridesFor(name, cfg)
<1>1. S \subseteq DOMAIN Overrides /\ S \subseteq Nat
  BY DestinationsAssumption DEF OverridesFor, Config
<1>2. CASE S = {}
  BY <1>2 DEF Canonical, PinOf
<1>3. CASE S # {}
  <2>1. FirstOf(S) \in DOMAIN Overrides
    <3> HIDE DEF S
    <3> QED
      BY <1>1, <1>3, FirstIsOne
  <2>2. /\ Canonical(name, cfg) = Overrides[FirstOf(S)].canonical
        /\ PinOf(name, cfg) = Overrides[FirstOf(S)].dest
    BY <1>3 DEF Canonical, PinOf
  <2> HIDE DEF S
  <2> QED
    BY <2>1, <2>2, DestinationsAssumption
<1> QED
  BY <1>2, <1>3

LEMMA RouteIsDestined ==
  ASSUME NEW cfg, Config(cfg), NEW name \in Titles, NEW met \in SUBSET DOMAIN RoutingRules
  PROVE  LET v == RouteOf(name, met, {}, cfg) IN v.dest \in Destinations /\ v.canonical \in Titles
<1> DEFINE canonical == Canonical(name, cfg)
           pin == PinOf(name, cfg)
           rules == met \cap cfg.rules
<1>1. canonical \in Titles /\ pin \in Destinations \union {NoPin} /\ cfg.default \in Destinations
  BY OverrideFacts DEF Config
<1>2. Locations({}, SeriesKey[canonical]) = {}
  BY DEF Locations
<1>3. CASE pin # NoPin
  <2>1. RouteOf(name, met, {}, cfg) = Verdict(pin, "none", "pin", FALSE, canonical)
    BY <1>3 DEF RouteOf
  <2> HIDE DEF pin, canonical
  <2> QED
    BY <1>1, <1>3, <2>1 DEF Verdict
<1>4. CASE pin = NoPin /\ rules # {}
  <2>1. rules \subseteq Nat /\ rules \subseteq DOMAIN RoutingRules
    BY RulesNumbered DEF Config
  <2>2. RouteOf(name, met, {}, cfg)
          = Verdict(RoutingRules[FirstOf(rules)].dest, RoutingRules[FirstOf(rules)].strength,
                    "rule", FALSE, canonical)
    BY <1>2, <1>4 DEF RouteOf
  <2> HIDE DEF rules, canonical
  <2>3. FirstOf(rules) \in DOMAIN RoutingRules
    BY <1>4, <2>1, FirstIsOne
  <2>4. RoutingRules[FirstOf(rules)] \in [dest : Destinations, strength : {"strong", "weak"}]
    BY <2>3, RulesTyped
  <2> QED
    BY <1>1, <2>2, <2>4 DEF Verdict
<1>5. CASE pin = NoPin /\ rules = {}
  <2>1. RouteOf(name, met, {}, cfg) = Verdict(cfg.default, "none", "nothing", FALSE, canonical)
    BY <1>2, <1>5 DEF RouteOf
  <2> HIDE DEF canonical
  <2> QED
    BY <1>1, <2>1 DEF Verdict
<1> QED
  BY <1>3, <1>4, <1>5

(* The ranks of samples have a greatest, and its first sample is the best. *)
LEMMA BestExists ==
  ASSUME NEW S, S \subseteq Nat, S # {}, NEW rank, rank \in [S -> 0..3]
  PROVE  \E a \in S : \A b \in S : rank[b] < rank[a] \/ (rank[b] = rank[a] /\ a <= b)
<1> DEFINE T == {3 - rank[a] : a \in S}
<1>1. T \subseteq Nat /\ T # {}
  <2>1. \A a \in S : rank[a] \in 0..3
    OBVIOUS
  <2>2. \A n \in 0..3 : 3 - n \in Nat
    OBVIOUS
  <2> QED
    BY <2>1, <2>2
<1>2. PICK m \in T : \A k \in T : m <= k
  BY <1>1, LeastExists
<1>3. PICK c \in S : m = 3 - rank[c]
  BY <1>2
<1>4. \A b \in S : rank[b] <= rank[c]
  <2> SUFFICES ASSUME NEW b \in S PROVE rank[b] <= rank[c]
    OBVIOUS
  <2>1. m <= 3 - rank[b] /\ rank[b] \in 0..3 /\ rank[c] \in 0..3
    BY <1>2
  <2> QED
    BY <1>3, <2>1
<1> DEFINE U == {a \in S : rank[a] = rank[c]}
<1>5. U \subseteq Nat /\ U # {}
  BY <1>3
<1>6. PICK a \in U : \A b \in U : a <= b
  BY <1>5, LeastExists
<1>7. ASSUME NEW b \in S PROVE rank[b] < rank[a] \/ (rank[b] = rank[a] /\ a <= b)
  <2>1. rank[b] <= rank[c] /\ rank[a] = rank[c] /\ rank[b] \in 0..3 /\ rank[c] \in 0..3
    BY <1>3, <1>4, <1>6, <1>7
  <2>2. CASE rank[b] = rank[c]
    BY <1>6, <1>7, <2>1, <2>2
  <2>3. CASE rank[b] # rank[c]
    BY <2>1, <2>3
  <2> QED
    BY <2>2, <2>3
<1> QED
  BY <1>6, <1>7

BestOf(name, issues, knows, cfg) ==
  CHOOSE a \in issues : \A b \in issues :
     \/ SampleRank(RouteOf(name, Satisfies[b], knows, cfg))
           < SampleRank(RouteOf(name, Satisfies[a], knows, cfg))
     \/ /\ SampleRank(RouteOf(name, Satisfies[b], knows, cfg))
              = SampleRank(RouteOf(name, Satisfies[a], knows, cfg))
        /\ a <= b

LEMMA RankIsSmall == ASSUME NEW v PROVE SampleRank(v) \in 0..3
BY DEF SampleRank

LEMMA RankedIsBest ==
  ASSUME NEW name, NEW issues, issues \subseteq Nat, issues # {}, NEW knows, NEW cfg
  PROVE  /\ BestOf(name, issues, knows, cfg) \in issues
         /\ Ranked(name, issues, knows, cfg)
               = RouteOf(name, Satisfies[BestOf(name, issues, knows, cfg)], knows, cfg)
         /\ \A b \in issues : SampleRank(RouteOf(name, Satisfies[b], knows, cfg))
                                 <= SampleRank(Ranked(name, issues, knows, cfg))
<1> DEFINE of(a) == SampleRank(RouteOf(name, Satisfies[a], knows, cfg))
           rank == [a \in issues |-> of(a)]
           Best(a) == \A b \in issues : of(b) < of(a) \/ (of(b) = of(a) /\ a <= b)
<1>1. \A a : of(a) \in 0..3
  BY RankIsSmall
<1> HIDE DEF of
<1>2. rank \in [issues -> 0..3]
  BY <1>1
<1>3. \E a \in issues : \A b \in issues : rank[b] < rank[a] \/ (rank[b] = rank[a] /\ a <= b)
  <2> HIDE DEF rank
  <2> QED
    BY <1>2, BestExists
<1>4. \E a \in issues : Best(a)
  BY <1>3
<1>5. BestOf(name, issues, knows, cfg) = CHOOSE a \in issues : Best(a)
  BY DEF BestOf, of
<1> DEFINE best == BestOf(name, issues, knows, cfg)
<1>6. best \in issues /\ Best(best)
  <2> HIDE DEF Best, best
  <2> QED
    BY <1>4, <1>5 DEF best
<1>7. Ranked(name, issues, knows, cfg) = RouteOf(name, Satisfies[best], knows, cfg)
  BY DEF Ranked, BestOf
<1>8. \A b \in issues : of(b) <= of(best)
  <2> HIDE DEF best
  <2> QED
    BY <1>1, <1>6
<1> QED
  BY <1>6, <1>7, <1>8 DEF of

LEMMA SampledAreIssues == ASSUME NEW p PROVE Spread(Inside(p)) \subseteq Issues
BY DEF Spread, Inside

LEMMA RankedIsDestined ==
  ASSUME NEW cfg, Config(cfg), NEW name \in Titles, NEW p
  PROVE  LET v == Ranked(name, Spread(Inside(p)), {}, cfg) IN
         v.dest \in Destinations /\ v.canonical \in Titles
<1> DEFINE issues == Spread(Inside(p))
<1>1. issues \subseteq Issues /\ issues \subseteq Nat
  BY SampledAreIssues, IssuesAssumption
<1> HIDE DEF issues
<1>2. PICK met \in SUBSET DOMAIN RoutingRules :
         Ranked(name, issues, {}, cfg) = RouteOf(name, met, {}, cfg)
  <2>1. CASE issues = {}
    <3>1. Ranked(name, issues, {}, cfg) = RouteOf(name, {}, {}, cfg)
      BY <2>1 DEF Ranked
    <3> QED
      BY <3>1
  <2>2. CASE issues # {}
    <3>1. PICK a \in issues :
             Ranked(name, issues, {}, cfg) = RouteOf(name, Satisfies[a], {}, cfg)
      BY <1>1, <2>2, RankedIsBest
    <3>2. Satisfies[a] \in SUBSET DOMAIN RoutingRules
      BY <1>1, <3>1, IssuesAssumption
    <3> QED
      BY <3>1, <3>2
  <2> QED
    BY <2>1, <2>2
<1> DEFINE v == RouteOf(name, met, {}, cfg)
<1>3. v.dest \in Destinations /\ v.canonical \in Titles
  BY RouteIsDestined
<1> HIDE DEF v
<1> QED
  BY <1>2, <1>3 DEF v, issues

LEMMA MigrationConfigured == Config(MigrationConfig)
  BY DestinationsAssumption DEF Config, MigrationConfig, EveryRule

(* Where a folder with the key may be already, else one is made.           *)
LEMMA TargetIsDestined ==
  ASSUME RoutingTyped, NEW dest \in Destinations, NEW name \in Titles, NEW k,
         NEW to, to = IF Locations(Series(dest), k) # {}
                      THEN CHOOSE q \in Locations(Series(dest), k) : TRUE ELSE Place(dest, name)
  PROVE  Destined(to)
<1>1. CASE Locations(Series(dest), k) = {}
  BY <1>1, PlaceFields
<1>2. CASE Locations(Series(dest), k) # {}
  <2>1. to \in Locations(Series(dest), k)
    BY <1>2
  <2> QED
    BY <2>1 DEF Locations, Series, RoutingTyped, Destined
<1> QED
  BY <1>1, <1>2

LEMMA RowsPlanned ==
  ASSUME RoutingTyped, NEW p \in Homesteads PROVE Move(PlanRow(p))
<1> DEFINE v == Ranked(p.folder, Spread(Inside(p)), {}, MigrationConfig)
           to == PlanRow(p).to
<1>1. p.folder \in Titles
  BY HomesteadFields
<1>2. v.dest \in Destinations /\ v.canonical \in Titles
  BY <1>1, RankedIsDestined, MigrationConfigured
<1>3. /\ PlanRow(p).from = p
      /\ to = IF Locations(Series(v.dest), SeriesKey[v.canonical]) # {}
              THEN CHOOSE q \in Locations(Series(v.dest), SeriesKey[v.canonical]) : TRUE
              ELSE Place(v.dest, v.canonical)
  BY DEF PlanRow
<1> HIDE DEF v
<1>4. Destined(to)
  <2> HIDE DEF to
  <2> QED
    BY <1>2, <1>3, TargetIsDestined
<1> QED
  BY <1>3, <1>4 DEF Move

LEMMA ToolForm ==
  ASSUME ToolTyped
  PROVE  \E R1, R2, R3, R4, R5, R6, R7 :
            migration \in [at : R1, rows : R2, digest : R3, row : R4, left : R5, hand : R6, runs : R7]
<1> DEFINE R1 == {migration.at}
           R2 == {migration.rows}
           R3 == {migration.digest}
           R4 == {migration.row}
           R5 == {migration.left}
           R6 == {migration.hand}
           R7 == {migration.runs}
<1>1. migration \in [at : R1, rows : R2, digest : R3, row : R4, left : R5, hand : R6, runs : R7]
  BY DEF ToolTyped
<1> HIDE DEF R1, R2, R3, R4, R5, R6, R7
<1> WITNESS R1, R2, R3, R4, R5, R6, R7
<1> QED
  BY <1>1

(* The tool's rows, row and hand after a step.                             *)
ToolMakes(rows, row, hand) ==
  migration' = [at |-> migration'.at, rows |-> rows, digest |-> migration'.digest, row |-> row,
                left |-> migration'.left, hand |-> hand, runs |-> migration'.runs]

LEMMA ToolStays ==
  ASSUME ToolTyped, NEW rows, NEW row, NEW hand, ToolMakes(rows, row, hand),
         \A r \in rows \union row : Move(r), \A h \in hand : Destined(h.to)
  PROVE  ToolTyped'
  BY DEF ToolMakes, ToolTyped

LEMMA Planning == ASSUME RoutingInv, PlanMigration PROVE RoutingInv'
<1> DEFINE rows == {PlanRow(p) : p \in {q \in Series("retired") : Inside(q) # {}}}
<1>1. RoutingTyped /\ ToolTyped
  BY DEF RoutingInv, RoutingTyped
<1>0. PICK R1, R2, R3, R4, R5, R6, R7 :
         migration \in [at : R1, rows : R2, digest : R3, row : R4, left : R5, hand : R6, runs : R7]
  BY <1>1, ToolForm
<1>2. \A r \in rows : Move(r)
  BY <1>1, RowsPlanned DEF RoutingTyped, Series
<1> HIDE DEF rows
<1>3. /\ UNCHANGED <<standing, index, stale, pass, unnoted>>
      /\ migration' = [migration EXCEPT !.at = "planned", !.digest = TreeDigest,
                                        !.runs = migration.runs + 1, !.rows = rows]
  BY DEF PlanMigration, rows
<1>4. ToolMakes(rows, migration.row, migration.hand)
  BY <1>0, <1>3 DEF ToolMakes
<1>5. ToolTyped'
  BY <1>1, <1>2, <1>4, ToolStays DEF ToolTyped
<1> QED
  BY <1>3, <1>5, ToolOnly

LEMMA MovingSeries ==
  ASSUME RoutingInv, NEW from \in Destinations, NEW dest \in Destinations, NEW k \in SeriesKeys,
         MoveSeries(from, dest, k)
  PROVE  RoutingInv'
<1>1. RoutingTyped /\ ToolTyped
  BY DEF RoutingInv, RoutingTyped
<1>0. PICK R1, R2, R3, R4, R5, R6, R7 :
         migration \in [at : R1, rows : R2, digest : R3, row : R4, left : R5, hand : R6, runs : R7]
  BY <1>1, ToolForm
<1> DEFINE there == Locations(Series(dest), k)
           to(p) == IF there # {} THEN CHOOSE q \in there : TRUE ELSE Place(dest, p.folder)
           row(p) == [from |-> p, review |-> FALSE, to |-> to(p)]
<1>2. PICK p \in Locations(Series(from), k) :
         migration' = [migration EXCEPT !.at = "applying", !.runs = migration.runs + 1, !.rows = {row(p)}]
  BY DEF MoveSeries
<1>3. UNCHANGED <<standing, index, stale, pass, unnoted>>
  BY DEF MoveSeries
<1>4. p \in Homesteads /\ p.folder \in Titles
  BY <1>1, HomesteadFields DEF Locations, Series, RoutingTyped
<1>5. Destined(to(p))
  BY <1>1, <1>4, TargetIsDestined
<1> HIDE DEF to
<1>6. Move(row(p))
  BY <1>4, <1>5 DEF Move
<1> HIDE DEF row
<1>7. ToolMakes({row(p)}, migration.row, migration.hand)
  BY <1>0, <1>2 DEF ToolMakes
<1>8. ToolTyped'
  BY <1>1, <1>6, <1>7, ToolStays DEF ToolTyped
<1> QED
  BY <1>3, <1>8, ToolOnly

LEMMA ToolProceeds ==
  ASSUME RoutingInv,
         \/ ApplyMigration \/ RefuseMigration \/ MergedRow \/ MigrationEnds \/ ToolDies
         \/ \E row \in migration.rows : TakeRow(row) \/ SkipRow(row)
  PROVE  RoutingInv'
<1>1. ToolTyped
  BY DEF RoutingInv, RoutingTyped
<1>0. PICK R1, R2, R3, R4, R5, R6, R7 :
         migration \in [at : R1, rows : R2, digest : R3, row : R4, left : R5, hand : R6, runs : R7]
  BY <1>1, ToolForm
<1>2. UNCHANGED <<standing, index, stale, pass, unnoted>>
  BY DEF ApplyMigration, RefuseMigration, MergedRow, MigrationEnds, ToolDies, TakeRow, SkipRow
<1>3. CASE ApplyMigration
  <2>1. PICK held \in {{}, {r \in migration.rows : r.review}} :
           migration' = [migration EXCEPT !.at = "applying", !.rows = migration.rows \ held]
    BY <1>3 DEF ApplyMigration
  <2>2. ToolMakes(migration.rows \ held, migration.row, migration.hand)
    BY <1>0, <2>1 DEF ToolMakes
  <2>3. ToolTyped'
    BY <1>1, <2>2, ToolStays DEF ToolTyped
  <2> QED
    BY <1>2, <2>3, ToolOnly
<1>4. CASE RefuseMigration \/ MigrationEnds \/ ToolDies
  <2>1. ToolMakes({}, {}, {})
    BY <1>4 DEF RefuseMigration, MigrationEnds, ToolDies, NothingPlanned, ToolMakes
  <2>2. ToolTyped'
    BY <1>1, <2>1, ToolStays
  <2> QED
    BY <1>2, <2>2, ToolOnly
<1>5. CASE MergedRow
  <2>1. ToolMakes(migration.rows, {}, migration.hand)
    BY <1>0, <1>5 DEF MergedRow, ToolMakes
  <2>2. ToolTyped'
    BY <1>1, <2>1, ToolStays DEF ToolTyped
  <2> QED
    BY <1>2, <2>2, ToolOnly
<1>6. CASE \E row \in migration.rows : TakeRow(row)
  <2>1. PICK row \in migration.rows : TakeRow(row)
    BY <1>6
  <2> DEFINE at == IF row.to \in standing THEN "merging" ELSE "moving"
             left == IF row.to \in standing THEN {Path(a) : a \in Inside(row.from)} ELSE {}
  <2>2. migration' = [migration EXCEPT !.at = at, !.rows = migration.rows \ {row}, !.row = {row},
                                       !.left = left]
    BY <2>1 DEF TakeRow
  <2> HIDE DEF at, left
  <2>3. ToolMakes(migration.rows \ {row}, {row}, migration.hand)
    BY <1>0, <2>2 DEF ToolMakes
  <2>4. ToolTyped'
    BY <1>1, <2>3, ToolStays DEF ToolTyped
  <2> QED
    BY <1>2, <2>4, ToolOnly
<1>7. CASE \E row \in migration.rows : SkipRow(row)
  <2>1. PICK row \in migration.rows : migration' = [migration EXCEPT !.rows = migration.rows \ {row}]
    BY <1>7 DEF SkipRow
  <2>2. ToolMakes(migration.rows \ {row}, migration.row, migration.hand)
    BY <1>0, <2>1 DEF ToolMakes
  <2>3. ToolTyped'
    BY <1>1, <2>2, ToolStays DEF ToolTyped
  <2> QED
    BY <1>2, <2>3, ToolOnly
<1> QED
  BY <1>3, <1>4, <1>5, <1>6, <1>7

(* Series a whole row is moved of are no longer the index's to know.       *)
LEMMA FolderMoved ==
  ASSUME RoutingInv, NEW row \in migration.row, MoveFolder(row)
  PROVE  RoutingInv'
<1>1. RoutingTyped /\ ToolTyped /\ Move(row)
  BY DEF RoutingInv, RoutingTyped, ToolTyped
<1>0. PICK R1, R2, R3, R4, R5, R6, R7 :
         migration \in [at : R1, rows : R2, digest : R3, row : R4, left : R5, hand : R6, runs : R7]
  BY <1>1, ToolForm
<1>2. /\ standing' = (standing \ {row.from}) \union {row.to}
      /\ stale' = stale \union {Keyed(row.from), Keyed(row.to)} /\ UNCHANGED <<index, pass, unnoted>>
      /\ migration' = [migration EXCEPT !.at = "applying", !.row = {}]
  BY DEF MoveFolder
<1>3. ToolMakes(migration.rows, {}, migration.hand)
  BY <1>0, <1>2 DEF ToolMakes
<1>4. ToolTyped'
  BY <1>1, <1>3, ToolStays DEF ToolTyped
<1>5. RoutingTyped'
  BY <1>1, <1>2, <1>4 DEF RoutingTyped, Move, Destined
<1>6. ASSUME NEW p \in Homesteads, Keyed(p) \notin stale'
      PROVE  p \in Built' <=> p \in index' \union unnoted' \union InAir(RouterPasses)'
  <2>1. p # row.from /\ p # row.to /\ Keyed(p) \notin stale
    BY <1>2, <1>6
  <2>2. p \in Built' <=> p \in Built
    BY <1>2, <2>1 DEF Built
  <2>3. InAir(RouterPasses)' = InAir(RouterPasses)
    BY <1>2 DEF InAir
  <2> QED
    BY <1>2, <2>1, <2>2, <2>3 DEF RoutingInv, IndexHolds
<1> QED
  BY <1>5, <1>6 DEF RoutingInv, IndexHolds

LEMMA RowMerged ==
  ASSUME RoutingInv, NEW row \in migration.row,
         MergeIssue(row) \/ \E path \in migration.left : LookForTarget(row, path)
  PROVE  RoutingInv'
<1>1. RoutingTyped /\ ToolTyped /\ Move(row)
  BY DEF RoutingInv, RoutingTyped, ToolTyped
<1>0. PICK R1, R2, R3, R4, R5, R6, R7 :
         migration \in [at : R1, rows : R2, digest : R3, row : R4, left : R5, hand : R6, runs : R7]
  BY <1>1, ToolForm
<1>2. UNCHANGED <<standing, index, stale, pass, unnoted>>
  BY DEF MergeIssue, LookForTarget
<1>3. PICK h : /\ ToolMakes(migration.rows, migration.row, h)
               /\ \A i \in h : i.to = row.to
  <2>1. CASE MergeIssue(row)
    <3>1. migration' = [migration EXCEPT !.hand = {}]
      BY <2>1 DEF MergeIssue
    <3> QED
      BY <1>0, <3>1 DEF ToolMakes
  <2>2. CASE \E path \in migration.left : LookForTarget(row, path)
    <3>1. PICK path \in migration.left : LookForTarget(row, path)
      BY <2>2
    <3> DEFINE i == Hand(path, row.to)
    <3>2. migration' = [migration EXCEPT !.left = migration.left \ {path}, !.hand = {i}]
      BY <3>1 DEF LookForTarget
    <3>3. i.to = row.to
      BY DEF Hand
    <3> HIDE DEF i
    <3>4. ToolMakes(migration.rows, migration.row, {i})
      BY <1>0, <3>2 DEF ToolMakes
    <3> QED
      BY <3>3, <3>4
  <2> QED
    BY <2>1, <2>2
<1>4. ToolTyped'
  BY <1>1, <1>3, ToolStays DEF ToolTyped, Move
<1> QED
  BY <1>2, <1>4, ToolOnly

(* A retired folder taken away is none the index knows.                    *)
LEMMA TakingAway ==
  ASSUME RoutingInv, NEW q \in standing, TakeAway(q)
  PROVE  RoutingInv'
<1>1. /\ q.root = "retired" /\ standing' = standing \ {q}
      /\ UNCHANGED <<index, stale, pass, unnoted, migration>>
  BY DEF TakeAway, Series
<1>2. Built' = Built
  BY <1>1, DestinationsAssumption DEF Built
<1>3. RoutingTyped'
  BY <1>1 DEF RoutingInv, RoutingTyped, ToolTyped
<1>4. IndexHolds'
  BY <1>1, <1>2 DEF RoutingInv, IndexHolds, InAir
<1> QED
  BY <1>3, <1>4 DEF RoutingInv

LEMMA RoutingStep == RoutingInv /\ [RoutingNext]_rvars => RoutingInv'
<1> SUFFICES ASSUME RoutingInv, [RoutingNext]_rvars PROVE RoutingInv'
  OBVIOUS
<1>1. CASE UNCHANGED rvars
  BY <1>1 DEF rvars, RoutingInv, RoutingTyped, ToolTyped, IndexHolds, Built, InAir
<1> QED
  BY <1>1, Settling, Shadowing, StartingToLand, Landing, HandlingIssue, PassEnds, Restarting,
     Planning, MovingSeries, ToolProceeds, FolderMoved, RowMerged, TakingAway DEF RoutingNext

-----------------------------------------------------------------------------
(* What is promised *)

LEMMA RouterSees == RoutingInv => RouterSeesTheDisk
<1> SUFFICES ASSUME RoutingInv PROVE RouterSeesTheDisk
  OBVIOUS
<1> DEFINE landing == {t \in RouterPasses : pass[t].at \in {"merging", "landed"}}
           settled == {k \in SeriesKeys \ stale : \A t \in landing : SeriesKey[pass[t].title] # k}
<1>1. /\ RoutingTyped /\ IndexHolds
      /\ \A p \in Built \union index \union unnoted : Destined(p) /\ p \in Homesteads
  BY BuiltIsDestined DEF RoutingInv, RoutingTyped, Destined
<1>2. ASSUME NEW p \in Homesteads, Keyed(p) \in settled
      PROVE  p \in Built <=> p \in index \union unnoted
  <2>1. p \notin InAir(RouterPasses)
    <3> SUFFICES ASSUME NEW t \in RouterPasses, p \in Air(pass[t]) PROVE FALSE
      BY DEF InAir
    <3>1. t \in landing /\ p = pass[t].home
      BY DEF Air
    <3>2. Keyed(p) = SeriesKey[pass[t].title]
      BY <1>1, <3>1 DEF RoutingTyped, Bearing
    <3> QED
      BY <1>2, <3>1, <3>2
  <2> QED
    BY <1>1, <1>2, <2>1 DEF IndexHolds
<1>3. ASSUME NEW k \in settled
      PROVE  Locations(Built, k) = Locations(index, k) \union Locations(unnoted, k)
  BY <1>1, <1>2, <1>3 DEF Locations
<1>4. ASSUME settled = SeriesKeys, unnoted = {}, GateIsClear(index), NEW p \in Built, NEW q \in Built,
             Keyed(p) = Keyed(q)
      PROVE  p = q
  <2>1. Keyed(p) \in settled /\ Keyed(q) \in settled
    BY <1>1, <1>4, HomesteadFields
  <2>2. p \in index /\ q \in index
    BY <1>1, <1>2, <1>4, <2>1
  <2>3. q \in Locations(index, Keyed(p))
    BY <1>4, <2>2 DEF Locations
  <2> QED
    BY <1>4, <2>2, <2>3 DEF GateIsClear
<1> QED
  BY <1>3, <1>4 DEF RouterSeesTheDisk

EvidenceStep ==
  pass' # pass => \A t \in RouterPasses :
     LET v == pass'[t].verdict
         seen == Spread(Arrived(pass[t].title))
         strength(a) == RoutingRules[FirstOf(Satisfies[a])].strength
     IN (pass[t].at = "settled" /\ pass'[t].at = "routed" /\ pass'[t].handoff # "classification_failed"
          /\ v.by \in {"rule", "nothing"})
         => \A a \in seen : Satisfies[a] # {} =>
                v.by = "rule" /\ (strength(a) = "strong" => v.strength = "strong")

IssuesStep ==
  placed' # placed =>
     \A a \in Issues : placed'[a] = Overwritten /\ placed[a] # Overwritten =>
         \/ placed[a].root = "quarantine"
         \/ \E h \in migration.hand \union UNION {pass[t].hand : t \in RouterPasses} :
               a \in FileAt(h.to, h.path) /\ a \notin h.saw

LEMMA OtherRoots ==
  /\ Removed # Overwritten
  /\ \A p : Destined(p) => /\ p # Overwritten
                           /\ \A i : [p EXCEPT !.inner = i] # Overwritten
<1>1. Overwritten.root = "overwritten" /\ Removed.root = "discarded"
  BY PlaceFields DEF Overwritten, Removed
<1>2. ASSUME NEW p, Destined(p), NEW i
      PROVE  p # Overwritten /\ [p EXCEPT !.inner = i] # Overwritten
  <2>1. p.root # "overwritten" /\ p = [root |-> p.root, folder |-> p.folder, inner |-> <<>>]
    BY <1>2, HomesteadFields, DestinationsAssumption DEF Destined
  <2>2. [p EXCEPT !.inner = i].root = p.root
    BY <2>1
  <2> QED
    BY <1>1, <2>1, <2>2
<1> QED
  BY <1>1, <1>2

(* A file put into a destination or the quarantine goes over what is there. *)
LEMMA PutOverFacts ==
  ASSUME NEW issue \in Issues, NEW p, PutOver(issue, p), NEW a \in Issues,
         placed'[a] = Overwritten, placed[a] # Overwritten,
         Destined(p) \/ \E f : p = Place("quarantine", f)
  PROVE  a \in FileAt(p, Path(issue))
<1>1. [p EXCEPT !.inner = placed[issue].inner] # Overwritten
  <2>1. CASE Destined(p)
    BY <2>1, OtherRoots
  <2>2. CASE \E f : p = Place("quarantine", f)
    <3>1. PICK f : p = [root |-> "quarantine", folder |-> f, inner |-> <<>>]
      BY <2>2, PlaceFields
    <3>2. [p EXCEPT !.inner = placed[issue].inner].root = "quarantine"
      BY <3>1
    <3>3. Overwritten.root = "overwritten"
      BY PlaceFields DEF Overwritten
    <3> QED
      BY <3>2, <3>3
  <2> QED
    BY <2>1, <2>2
<1>2. a # issue
  BY <1>1 DEF PutOver
<1> QED
  BY <1>2 DEF PutOver

LEMMA IssuesKept == RoutingInv /\ [RoutingNext]_rvars => IssuesStep
<1> SUFFICES ASSUME RoutingInv, RoutingNext, placed' # placed, NEW a \in Issues,
                    placed'[a] = Overwritten, placed[a] # Overwritten
             PROVE  \/ placed[a].root = "quarantine"
                    \/ \E h \in migration.hand \union UNION {pass[t].hand : t \in RouterPasses} :
                          a \in FileAt(h.to, h.path) /\ a \notin h.saw
  BY DEF IssuesStep, rvars
<1>1. RoutingTyped /\ ToolTyped /\ \A t \in RouterPasses : Bearing(pass[t])
  BY DEF RoutingInv, RoutingTyped
<1>2. ASSUME NEW from, NEW to, Destined(to), Rename(from, to) \/ Nest(from, to) PROVE FALSE
  BY <1>2, OtherRoots DEF Rename, Nest
<1>3. ASSUME NEW t \in RouterPasses, LandWhole(t) PROVE FALSE
  <2>1. Destined(pass[t].home)
    BY <1>1 DEF Bearing
  <2> QED
    BY <1>2, <1>3, <2>1 DEF LandWhole
<1>4. ASSUME NEW t \in RouterPasses, KeepLarger(t) PROVE FALSE
  <2>1. PICK h \in pass[t].hand : \E b \in Arrived(pass[t].title) :
           \E losers \in {{b}, FileAt(h.to, h.path)} :
              placed' = [c \in Issues |-> IF c \in losers THEN Removed
                                          ELSE IF c = b THEN h.to ELSE placed[c]]
    BY <1>4 DEF KeepLarger
  <2>2. placed'[a] \in {Removed, h.to, placed[a]}
    BY <2>1
  <2>3. Destined(h.to)
    BY <1>1, <2>1 DEF Bearing
  <2> QED
    BY <2>2, <2>3, OtherRoots
<1>5. ASSUME NEW t \in RouterPasses, LandIssue(t)
      PROVE  \E h \in pass[t].hand : a \in FileAt(h.to, h.path) /\ a \notin h.saw
  <2>1. PICK h \in pass[t].hand, b \in Issues :
           h.saw = {} /\ Path(b) = h.path /\ PutOver(b, h.to)
    BY <1>5 DEF LandIssue, Arrived, Inside
  <2>2. Destined(h.to)
    BY <1>1, <2>1 DEF Bearing
  <2>3. a \in FileAt(h.to, h.path)
    BY <2>1, <2>2, PutOverFacts
  <2> QED
    BY <2>1, <2>3
<1>6. ASSUME NEW row \in migration.row, MoveFolder(row) PROVE FALSE
  <2>1. Destined(row.to)
    BY <1>1 DEF ToolTyped, Move
  <2> QED
    BY <1>2, <1>6, <2>1 DEF MoveFolder
<1>7. ASSUME NEW row \in migration.row, MergeIssue(row)
      PROVE  \/ placed[a].root = "quarantine"
             \/ \E h \in migration.hand : a \in FileAt(h.to, h.path) /\ a \notin h.saw
  <2>1. PICK h \in migration.hand, b \in Issues :
           /\ b \in FileAt(row.from, h.path)
           /\ PutOver(b, IF h.saw = {} THEN h.to ELSE Place("quarantine", row.from.folder))
    BY <1>7 DEF MergeIssue, FileAt, Inside
  <2>2. Destined(h.to) /\ b \in Issues /\ Path(b) = h.path
    BY <1>1, <2>1 DEF ToolTyped, FileAt, Inside
  <2>3. CASE h.saw = {}
    BY <2>1, <2>2, <2>3, PutOverFacts
  <2>4. CASE h.saw # {}
    <3> DEFINE p == Place("quarantine", row.from.folder)
    <3>1. PutOver(b, p) /\ p.root = "quarantine"
      BY <2>1, <2>4, PlaceFields
    <3>2. a \in FileAt(p, Path(b))
      BY <2>2, <3>1, PutOverFacts
    <3> HIDE DEF p
    <3> QED
      BY <3>1, <3>2 DEF FileAt, Inside
  <2> QED
    BY <2>3, <2>4
<1>8. ASSUME NEW p \in standing, TakeAway(p) PROVE FALSE
  BY <1>8, OtherRoots DEF TakeAway
<1> QED
  BY <1>3, <1>4, <1>5, <1>6, <1>7, <1>8
     DEF RoutingNext, Settle, Shadow, ShadowFails, StartLanding, StartLoose, LandByMerging,
         LookForHome, MergeLanded, MoveFails, NoteMove, RestartRouter, PlanMigration, ApplyMigration,
         RefuseMigration, MoveSeries, TakeRow, SkipRow, LookForTarget, MergedRow, MigrationEnds, ToolDies

(* Where neither a pin nor a folder decides, the first rule met does.      *)
LEMMA RulesDecide ==
  ASSUME NEW name, NEW knows, NEW b \in Issues,
         RouteOf(name, Satisfies[b], knows, WatchConfig).by \in {"rule", "nothing"}
  PROVE  \A a \in Issues :
            LET v == RouteOf(name, Satisfies[a], knows, WatchConfig) IN
            IF Satisfies[a] = {} THEN v.by = "nothing" /\ v.strength = "none"
            ELSE v.by = "rule" /\ v.strength = RoutingRules[FirstOf(Satisfies[a])].strength
<1> DEFINE canonical == Canonical(name, WatchConfig)
           pin == PinOf(name, WatchConfig)
<1>1. pin = NoPin /\ Locations(knows, SeriesKey[canonical]) = {}
  <2>1. CASE pin # NoPin
    <3>1. RouteOf(name, Satisfies[b], knows, WatchConfig) = Verdict(pin, "none", "pin", FALSE, canonical)
      BY <2>1 DEF RouteOf
    <3> HIDE DEF pin, canonical
    <3> QED
      BY <3>1 DEF Verdict
  <2>2. CASE pin = NoPin /\ Locations(knows, SeriesKey[canonical]) # {}
    <3> DEFINE dest == BestPlaced(knows, SeriesKey[canonical]).root
               more == Cardinality(Locations(knows, SeriesKey[canonical])) > 1
    <3>1. RouteOf(name, Satisfies[b], knows, WatchConfig)
            = Verdict(dest, "none", "index", more, canonical)
      BY <2>2 DEF RouteOf
    <3> HIDE DEF dest, more, pin, canonical
    <3> QED
      BY <3>1 DEF Verdict
  <2> QED
    BY <2>1, <2>2
<1>2. ASSUME NEW a \in Issues
      PROVE  Satisfies[a] \cap WatchConfig.rules = Satisfies[a]
  BY <1>2, IssuesAssumption DEF EveryRule, WatchConfig
<1>3. ASSUME NEW a \in Issues, Satisfies[a] = {}
      PROVE  LET v == RouteOf(name, Satisfies[a], knows, WatchConfig) IN
             v.by = "nothing" /\ v.strength = "none"
  <2>1. RouteOf(name, Satisfies[a], knows, WatchConfig)
          = Verdict(WatchConfig.default, "none", "nothing", FALSE, canonical)
    BY <1>1, <1>2, <1>3 DEF RouteOf
  <2> HIDE DEF canonical
  <2> QED
    BY <2>1 DEF Verdict
<1>4. ASSUME NEW a \in Issues, Satisfies[a] # {}
      PROVE  LET v == RouteOf(name, Satisfies[a], knows, WatchConfig) IN
             v.by = "rule" /\ v.strength = RoutingRules[FirstOf(Satisfies[a])].strength
  <2>1. RouteOf(name, Satisfies[a], knows, WatchConfig)
          = Verdict(RoutingRules[FirstOf(Satisfies[a])].dest,
                    RoutingRules[FirstOf(Satisfies[a])].strength, "rule", FALSE, canonical)
    BY <1>1, <1>2, <1>4 DEF RouteOf
  <2> HIDE DEF canonical
  <2> QED
    BY <2>1 DEF Verdict
<1> QED
  BY <1>3, <1>4

LEMMA SamplesDecide ==
  ASSUME NEW name, NEW knows, NEW issues, issues \subseteq Issues, NEW a \in issues, Satisfies[a] # {},
         Ranked(name, issues, knows, WatchConfig).by \in {"rule", "nothing"}
  PROVE  /\ Ranked(name, issues, knows, WatchConfig).by = "rule"
         /\ RoutingRules[FirstOf(Satisfies[a])].strength = "strong"
               => Ranked(name, issues, knows, WatchConfig).strength = "strong"
<1> DEFINE of(b) == RouteOf(name, Satisfies[b], knows, WatchConfig)
           best == BestOf(name, issues, knows, WatchConfig)
           v == Ranked(name, issues, knows, WatchConfig)
           strength == RoutingRules[FirstOf(Satisfies[a])].strength
<1>1. issues \subseteq Nat /\ issues # {}
  BY IssuesAssumption
<1>2. best \in issues /\ v = of(best) /\ SampleRank(of(a)) <= SampleRank(v)
  BY <1>1, RankedIsBest
<1> HIDE DEF best
<1>3. of(best).by \in {"rule", "nothing"}
  BY <1>2
<1>4. /\ of(a).by = "rule" /\ of(a).strength = strength
      /\ v.by = "rule" \/ (v.by = "nothing" /\ v.strength = "none")
  <2>1. a \in Issues /\ best \in Issues
    BY <1>2
  <2>2. of(a).by = "rule" /\ of(a).strength = strength
    BY <1>3, <2>1, RulesDecide
  <2>3. of(best).by = "rule" \/ (of(best).by = "nothing" /\ of(best).strength = "none")
    BY <1>3, <2>1, RulesDecide
  <2> QED
    BY <1>2, <2>2, <2>3
<1>5. strength \in {"strong", "weak"}
  <2>1. Satisfies[a] \subseteq DOMAIN RoutingRules /\ Satisfies[a] \subseteq Nat
    BY IssuesAssumption, RulesNumbered
  <2>2. FirstOf(Satisfies[a]) \in DOMAIN RoutingRules
    BY <2>1, FirstIsOne
  <2>3. RoutingRules[FirstOf(Satisfies[a])] \in [dest : Destinations, strength : {"strong", "weak"}]
    BY <2>2, RulesTyped
  <2> QED
    BY <2>3
<1> HIDE DEF of, v, strength
<1>6. SampleRank(of(a)) = IF strength = "strong" THEN 2 ELSE 1
  BY <1>4, <1>5 DEF SampleRank
<1>7. v.by = "rule"
  <2> SUFFICES ASSUME v.by = "nothing", v.strength = "none" PROVE FALSE
    BY <1>4
  <2>1. SampleRank(v) = 0
    BY DEF SampleRank
  <2> QED
    BY <1>2, <1>6, <2>1
<1>8. ASSUME strength = "strong" PROVE v.strength = "strong"
  <2> SUFFICES ASSUME v.strength # "strong" PROVE FALSE
    OBVIOUS
  <2>1. SampleRank(v) \in {0, 1}
    BY <1>7 DEF SampleRank
  <2> QED
    BY <1>2, <1>6, <1>8, <2>1
<1> QED
  BY <1>7, <1>8 DEF v, strength

LEMMA EvidenceHolds == RoutingInv /\ [RoutingNext]_rvars => EvidenceStep
<1> SUFFICES ASSUME RoutingInv, RoutingNext, pass' # pass, NEW t \in RouterPasses,
                    pass[t].at = "settled", pass'[t].at = "routed",
                    pass'[t].handoff # "classification_failed",
                    pass'[t].verdict.by \in {"rule", "nothing"},
                    NEW a \in Spread(Arrived(pass[t].title)), Satisfies[a] # {}
             PROVE  /\ pass'[t].verdict.by = "rule"
                    /\ RoutingRules[FirstOf(Satisfies[a])].strength = "strong"
                           => pass'[t].verdict.strength = "strong"
  <2> SUFFICES ASSUME RoutingInv, RoutingNext, pass' # pass PROVE EvidenceStep
    BY DEF EvidenceStep, rvars
  <2> QED
    BY DEF EvidenceStep
<1>1. RoutingTyped
  BY DEF RoutingInv
<1>2. ASSUME NEW u \in RouterPasses, NEW q, pass' = [pass EXCEPT ![u] = q] PROVE u = t
  <2>1. \A w \in RouterPasses \ {u} : pass'[w] = pass[w]
    BY <1>1, <1>2, PassChanges
  <2> QED
    BY <2>1
<1>3. ASSUME NEW u \in RouterPasses, NEW q, pass' = [pass EXCEPT ![u] = q], pass[u].at # "settled"
      PROVE  FALSE
  BY <1>2, <1>3
<1>4. ~ RestartRouter
  BY RestingIsBearing DEF RestartRouter
<1>5. ASSUME NEW u \in RouterPasses, ShadowFails(u) PROVE FALSE
  <2> DEFINE r == pass[u]
             q == Onward(r, "routed", r.verdict, "classification_failed", r.hand)
  <2>1. pass' = [pass EXCEPT ![u] = q]
    BY <1>1, <1>5, ShadowFailsOnward
  <2>2. q.handoff = "classification_failed"
    BY DEF Onward
  <2> HIDE DEF q
  <2> QED
    BY <1>1, <1>2, <2>1, <2>2, PassChanges
<1>6. PICK u \in RouterPasses : Shadow(u)
  <2>1. ASSUME NEW u \in RouterPasses, NEW name \in Titles, Settle(u, name) PROVE FALSE
    BY <1>3, <2>1 DEF Settle
  <2>2. ASSUME NEW u \in RouterPasses, StartLanding(u) \/ StartLoose(u) PROVE FALSE
    BY <1>3, <2>2 DEF StartLanding, StartLoose
  <2>3. ASSUME NEW u \in RouterPasses, LandWhole(u) \/ LandByMerging(u) \/ MergeLanded(u) PROVE FALSE
    <3>1. PICK x : pass' = [pass EXCEPT ![u].at = x]
      BY <2>3 DEF LandWhole, LandByMerging, MergeLanded
    <3>2. pass[u].at # "settled"
      BY <2>3 DEF LandWhole, LandByMerging, MergeLanded
    <3> QED
      BY <1>1, <1>3, <3>1, <3>2, OnwardAt
  <2>4. ASSUME NEW u \in RouterPasses,
               (\E i \in Issues : LookForHome(u, i)) \/ LandIssue(u) \/ KeepLarger(u)
        PROVE  FALSE
    <3>1. PICK n : pass' = [pass EXCEPT ![u].hand = n]
      BY <2>4 DEF LookForHome, LandIssue, KeepLarger
    <3>2. pass[u].at # "settled"
      BY <1>1, <2>4 DEF LookForHome, LandIssue, KeepLarger, RoutingTyped, Bearing
    <3> QED
      BY <1>1, <1>3, <3>1, <3>2, OnwardHand
  <2>5. ASSUME NEW u \in RouterPasses, MoveFails(u) \/ NoteMove(u) PROVE FALSE
    BY <1>3, <2>5 DEF MoveFails, NoteMove
  <2> QED
    BY <1>4, <1>5, <2>1, <2>2, <2>3, <2>4, <2>5
       DEF RoutingNext, PlanMigration, ApplyMigration, RefuseMigration, MoveSeries, TakeRow, SkipRow,
           MoveFolder, LookForTarget, MergeIssue, MergedRow, MigrationEnds, ToolDies, TakeAway
<1> DEFINE r == pass[u]
           issues == Spread(Arrived(r.title))
           v == Says(u)
           q == Onward(r, "routed", v, Handoff(v, Mixed(u)), r.hand)
<1>7. pass' = [pass EXCEPT ![u] = q]
  BY <1>1, <1>6, ShadowOnward
<1>8. q.verdict = v
  BY DEF Onward
<1> HIDE DEF q, v
<1>9. u = t /\ pass'[t].verdict = v
  BY <1>1, <1>2, <1>7, <1>8, PassChanges
<1>10. issues \subseteq Issues /\ a \in issues
  BY <1>9, SampledAreIssues DEF Arrived
<1>11. v = Ranked(r.title, issues, index, WatchConfig)
  BY DEF v, Says
<1> HIDE DEF issues
<1>12. v.by \in {"rule", "nothing"}
  BY <1>9
<1>13. /\ v.by = "rule"
       /\ RoutingRules[FirstOf(Satisfies[a])].strength = "strong" => v.strength = "strong"
  <2> DEFINE name == r.title
  <2> HIDE DEF name
  <2>1. v = Ranked(name, issues, index, WatchConfig)
    BY <1>11 DEF name
  <2> QED
    BY <1>10, <1>12, <2>1, SamplesDecide
<1> QED
  BY <1>9, <1>13

(* The router has the folders of every series no other tool has moved, but *)
(* for those a failed move left; arrivals are routed by the strongest      *)
(* evidence sampled from them, wherever in the sample it is found; and     *)
(* what a mover writes over in the library came there after it had looked  *)
(* and seen nothing: for any rules, overrides, series and orders of their  *)
(* moves, failures and crashes.                                            *)
THEOREM RoutingIsSafe == RoutingSpec => RoutingSafety
<1>1. RoutingInv /\ [RoutingNext]_rvars => [EvidenceStep /\ IssuesStep]_rvars
  BY EvidenceHolds, IssuesKept
<1> QED
  BY <1>1, RoutingBegins, RoutingStep, RouterSees, PTL
     DEF RoutingSpec, RoutingSafety, AnyEvidenceDecides, LibraryKeepsItsIssues, EvidenceStep, IssuesStep

-----------------------------------------------------------------------------
(* Field resolution                                                        *)

(* What is attested of a folder is finite, and so is what is said of it.   *)
FactsFinite == IsFiniteSet(attested)
Values == {f[4] : f \in attested}

LEMMA FactsStayFinite == ResolutionSpec => []FactsFinite
<1>1. ResolutionInit => FactsFinite
  BY FactsAssumption DEF ResolutionInit, FactsFinite
<1>2. FactsFinite /\ [FactArrives]_attested => FactsFinite'
  BY FS_AddElement DEF FactArrives, FactsFinite
<1> QED
  BY <1>1, <1>2, PTL DEF ResolutionSpec

LEMMA ValuesAreFinite ==
  ASSUME FactsFinite, NEW T, T \subseteq Values
  PROVE  /\ IsFiniteSet(T) /\ Cardinality(T) \in Nat
         /\ Cardinality(T) = 0 <=> T = {}
         /\ One(T) <=> \E v : T = {v}
<1> DEFINE value == [f \in attested |-> f[4]]
<1>1. value \in Surjection(attested, Values)
  BY DEF Surjection, Values
<1> HIDE DEF value
<1>2. IsFiniteSet(Values)
  BY <1>1, FS_Surjection DEF FactsFinite, ExistsSurjection
<1>3. IsFiniteSet(T)
  BY <1>2, FS_Subset
<1> QED
  BY <1>3, FS_CardinalityType, FS_EmptySet, FS_Singleton DEF One

LEMMA TheOneOfOne ==
  ASSUME FactsFinite, NEW T, T \subseteq Values, One(T)
  PROVE  T = {TheOne(T)}
<1>1. PICK v : T = {v}
  BY ValuesAreFinite
<1> QED
  BY <1>1 DEF TheOne

(* Where each set of values comes from. *)
LEMMA SaidAreValues ==
  ASSUME NEW a, NEW source, NEW field
  PROVE  Said(a, source, field) \subseteq Values
BY DEF Said, Values

LEMMA SetsAreValues ==
  ASSUME NEW a
  PROVE  /\ \A field : Human(a, field) \subseteq Values /\ Xml(a, field) \subseteq Values
         /\ VolumeTokens(a) \subseteq Values /\ CollectedNumber(a) \subseteq Values
         /\ RunVolume(a) \subseteq Values
         /\ \A t \in Tokens(a) : t[1] \in Values
<1>1. \A source, field : Said(a, source, field) \subseteq Values
  BY SaidAreValues
<1> QED
  BY <1>1 DEF Human, Xml, VolumeTokens, CollectedNumber, RunVolume, Tokens

-----------------------------------------------------------------------------
(* A human decides alone *)

LEMMA HumansDecide ==
  ASSUME FactsFinite, NEW T, T \subseteq Values, One(T), NEW deciding, NEW name
  PROVE  Resolve(T, deciding, name).value = TheOne(T)
<1>1. T # {}
  BY TheOneOfOne
<1> QED
  BY <1>1 DEF Resolve, Decided

LEMMA HumanDecidesHolds == ASSUME FactsFinite PROVE HumanDecides
<1> SUFFICES ASSUME NEW a \in Archived, NEW field \in {"series", "number", "volume", "version"},
                    One(Human(a, field))
             PROVE  FieldOf(a, field).value = TheOne(Human(a, field))
  BY DEF HumanDecides
<1>1. \A deciding, name :
         Resolve(Human(a, field), deciding, name).value = TheOne(Human(a, field))
  BY HumansDecide, SetsAreValues
<1>2. Human(a, field) # {}
  BY TheOneOfOne, SetsAreValues
<1>3. CASE field = "series"
  BY <1>1, <1>2, <1>3 DEF FieldOf, SeriesOf
<1>4. CASE field = "number"
  BY <1>1, <1>4 DEF FieldOf, NumberOf
<1>5. CASE field = "volume"
  BY <1>1, <1>5 DEF FieldOf, VolumeOf
<1>6. CASE field = "version"
  BY <1>1, <1>6 DEF FieldOf, VersionOf
<1> QED
  BY <1>3, <1>4, <1>5, <1>6

-----------------------------------------------------------------------------
(* Families *)

LEMMA OneDeclaration ==
  ASSUME FactsFinite, NEW a, ConflictedOn(a) = {}, NEW f \in Declared(a)
  PROVE  Declared(a) = {f} /\ One(Declared(a))
<1>1. Declared(a) = Human(a, "family")
  BY DEF Declared
<1>2. Declared(a) \subseteq Values
  BY <1>1, SetsAreValues
<1>3. ~ Cardinality(Declared(a)) > 1
  BY <1>1 DEF ConflictedOn
<1>4. Cardinality(Declared(a)) \in Nat /\ Cardinality(Declared(a)) # 0
  BY <1>2, ValuesAreFinite
<1>5. One(Declared(a))
  BY <1>3, <1>4 DEF One
<1>6. PICK v : Declared(a) = {v}
  BY <1>2, <1>5, ValuesAreFinite
<1> QED
  BY <1>5, <1>6

LEMMA FamiliesAreDisjointHolds == ASSUME FactsFinite PROVE FamiliesAreDisjoint
<1> SUFFICES ASSUME NEW g \in Established, NEW h \in Established, NEW a \in g, a \in h
             PROVE  g = h
  BY DEF FamiliesAreDisjoint
<1> DEFINE undeclared == {b \in Archived : InWork(b)}
           DeclaredAs(k) == \E f : k = {b \in Archived : f \in Declared(b)}
           OfWork(k) == \E w : k = {b \in undeclared : Work(b) = w}
<1>1. /\ DeclaredAs(g) \/ OfWork(g)
      /\ DeclaredAs(h) \/ OfWork(h)
  BY DEF Established, Groups
<1>2. ConflictedOn(a) = {}
  BY DEF Established, Unrefused
<1>3. \A f \in Declared(a) : Declared(a) = {f} /\ One(Declared(a))
  BY <1>2, OneDeclaration
<1>4. \A b \in undeclared : ~ One(Declared(b))
  BY DEF InWork
<1> HIDE DEF undeclared
<1>5. CASE DeclaredAs(g) /\ DeclaredAs(h)
  BY <1>3, <1>5
<1>6. CASE DeclaredAs(g) /\ OfWork(h)
  BY <1>3, <1>4, <1>6
<1>7. CASE OfWork(g) /\ DeclaredAs(h)
  BY <1>3, <1>4, <1>7
<1>8. CASE OfWork(g) /\ OfWork(h)
  BY <1>8
<1> QED
  BY <1>1, <1>5, <1>6, <1>7, <1>8

-----------------------------------------------------------------------------
(* Names keep their words *)

LEMMA SettledValue ==
  ASSUME FactsFinite, NEW deciding, deciding \subseteq Values, NEW v \in deciding, NEW name,
         NEW r, r = Resolve({}, deciding, name), r.why # "conflict"
  PROVE  r.value = v
<1>1. r = Decided(deciding, "conflict")
  BY DEF Resolve
<1>2. One(deciding) /\ r.value = TheOne(deciding)
  BY <1>1 DEF Decided
<1> QED
  BY <1>2, TheOneOfOne

LEMMA RenamesKeepTheirWordsHolds == ASSUME FactsFinite PROVE RenamesKeepTheirWords
<1> SUFFICES ASSUME NEW a \in Archived, NEW t \in Tokens(a), Formatted(a),
                    Human(a, "volume") \union Human(a, "version") = {}
             PROVE  t[1] \in {VolumeOf(a).value, VersionOf(a).value}
  BY DEF RenamesKeepTheirWords
<1>1. Human(a, "volume") = {} /\ Human(a, "version") = {}
  OBVIOUS
<1>2. VolumeOf(a).why # "conflict" /\ VersionOf(a).why # "conflict"
  <2>1. Settled(a, "volume") /\ Settled(a, "version")
    BY DEF Formatted
  <2> QED
    BY <2>1 DEF Settled, OtherKind, FieldOf
<1>3. t[1] \in Values
  BY SetsAreValues
<1>4. Classified(a, t[1], t[2]) # "unresolved"
  BY DEF Formatted, Renamable
<1>5. CASE Classified(a, t[1], t[2]) = "volume"
  <2> DEFINE deciding == Xml(a, "volume") \union CollectedNumber(a) \union RunVolume(a)
  <2>1. t[1] \in MetadataVolume(a) \union RunVolume(a)
    BY <1>1, <1>5 DEF Classified
  <2>2. t[1] \in deciding /\ deciding \subseteq Values
    BY <2>1, SetsAreValues DEF MetadataVolume
  <2>3. VolumeOf(a) = Resolve({}, deciding, VolumeTokens(a))
    BY <1>1 DEF VolumeOf
  <2> HIDE DEF deciding
  <2> QED
    BY <1>2, <2>2, <2>3, SettledValue
<1>6. CASE Classified(a, t[1], t[2]) = "version"
  <2> DEFINE deciding == {u[1] : u \in {w \in Tokens(a) :
                                     /\ Classified(a, w[1], w[2]) = "version"
                                     /\ w[1] \notin Human(a, "version")}}
  <2>1. t[1] \in deciding /\ deciding \subseteq Values
    BY <1>1, <1>6, SetsAreValues
  <2>2. VersionOf(a) = Resolve({}, deciding, {u[1] : u \in Tokens(a)})
    BY <1>1 DEF VersionOf
  <2> HIDE DEF deciding
  <2> QED
    BY <1>2, <2>1, <2>2, SettledValue
<1> QED
  BY <1>4, <1>5, <1>6 DEF Classified

(* A single human decision decides its field, an archive is a version in   *)
(* one family at most, and a rename loses no version-like word of a name,  *)
(* for any facts a folder attests and any that come.                       *)
THEOREM ResolutionIsSafe == ResolutionSpec => []ResolutionSafety
<1>1. FactsFinite => ResolutionSafety
  BY HumanDecidesHolds, FamiliesAreDisjointHolds, RenamesKeepTheirWordsHolds
     DEF ResolutionSafety
<1> QED
  BY <1>1, FactsStayFinite, PTL

-----------------------------------------------------------------------------
(* Library maintenance                                                     *)

Shelved == SeriesFolders \X ArchiveNames
HeldBook == {NoBook} \union [pages : FileContents, size : FileSizes]
Ops ==
  [op : {"file"}, src : Shelved, dest : Shelved] \union [op : {"delete"}, src : Shelved]
     \union [op : {"rmtree"}, folder : SeriesFolders]

Replaying == [mode |-> "replay", pass |-> "replay"]
(* A run of `all` or of decisions: the folders and archives it is about are *)
(* there.                                                                   *)
Upkeep ==
  /\ session = [mode |-> session.mode, pass |-> session.pass, left |-> session.left,
                pair |-> session.pair, consumed |-> session.consumed,
                reviewed |-> session.reviewed, known |-> session.known, local |-> session.local]
  /\ session.mode \in {"live", "dry"}
  /\ session.pass \in {"strip", "dedupe", "merge", "merging", "sweep"}
  /\ session.pass = "merging" =>
        session.left \subseteq ArchiveNames /\ session.pair \in SeriesFolders \X SeriesFolders
MaintenanceTyped ==
  /\ shelves \in [SeriesFolders -> [ArchiveNames -> HeldBook]]
  /\ queue \in Seq(Ops) /\ savedPlan \in Seq(Ops)
  /\ \/ session = NoSession /\ queue = <<>>
     \/ session = Replaying
     \/ Upkeep

(* While a live run deletes, each archive yet to go has its pages in one    *)
(* that stays.                                                              *)
Doomed == {queue[i].src : i \in DOMAIN queue}
At(t, p) == t[p[1]][p[2]]
KeptOf(p) == \E q \in Shelved \ Doomed : BookAt(q) # NoBook /\ BookAt(q).pages = BookAt(p).pages
Deleting == \E i \in DOMAIN queue : queue[i].op = "delete"
DeletesHold ==
  Deleting /\ session.mode = "live" =>
     \A i \in DOMAIN queue :
        /\ queue[i].op = "delete"
        /\ BookAt(queue[i].src) # NoBook => KeptOf(queue[i].src)
UpkeepInv == MaintenanceTyped /\ DeletesHold

(* Finite sets have a best element in any order that has no cycles.        *)
LEMMA BestIsThere ==
  ASSUME NEW S, IsFiniteSet(S), S # {}, NEW R,
         \A x \in S : <<x, x>> \notin R,
         \A x, y, z \in S : <<x, y>> \in R /\ <<y, z>> \in R => <<x, z>> \in R
  PROVE  \E x \in S : \A y \in S : <<y, x>> \notin R
<1> DEFINE Above(x) == {y \in S : <<y, x>> \in R}
           T == {Above(x) : x \in S}
           W == StrictSubsetOrdering(S)
<1>1. IsWellFoundedOn(W, SUBSET S)
  <2>1. FiniteSubsetsOf(S) = SUBSET S
    BY FS_FiniteSubsetsOfFinite
  <2> QED
    BY <2>1, FS_StrictSubsetOrderingWellFounded
<1>2. T \subseteq SUBSET S /\ T # {}
  <2>1. \A x \in S : Above(x) \in SUBSET S
    OBVIOUS
  <2> HIDE DEF Above
  <2>2. T \subseteq SUBSET S
    BY <2>1
  <2>3. T # {}
    OBVIOUS
  <2> QED
    BY <2>2, <2>3
<1>3. PICK U \in T : \A V \in T : <<V, U>> \notin W
  <2> HIDE DEF T, W
  <2> QED
    BY <1>1, <1>2, WFMin
<1>4. PICK x \in S : U = Above(x)
  BY <1>3
<1>5. ASSUME NEW y \in S, <<y, x>> \in R PROVE FALSE
  <2>1. Above(y) \subseteq Above(x) /\ y \in Above(x) /\ y \notin Above(y)
    BY <1>5
  <2>2. <<Above(y), U>> \in W
    BY <1>4, <2>1 DEF StrictSubsetOrdering
  <2>3. Above(y) \in T
    BY <1>5
  <2> QED
    BY <1>3, <2>2, <2>3
<1> QED
  BY <1>5

(* A duplicate that goes has its pages in an archive that is no duplicate. *)
LEMMA LoserIsKept ==
  ASSUME MaintenanceTyped, NEW f \in SeriesFolders, NEW m \in Losers(f)
  PROVE  /\ m \in Archives(f)
         /\ \E n \in Archives(f) \ Losers(f) : shelves[f][n].pages = shelves[f][m].pages
<1>1. m \in Archives(f)
  <2>1. LosersByName(f) \subseteq Archives(f)
    BY DEF LosersByName
  <2>2. Losers(f) \subseteq LosersByName(f) \union (Archives(f) \ LosersByName(f))
    BY DEF Losers
  <2> QED
    BY <2>1, <2>2
<1> DEFINE S == {n \in Archives(f) : shelves[f][n].pages = shelves[f][m].pages}
           R == {e \in S \X S : KeepsFirst(f, e[1], e[2])}
<1>2. \A n \in S : n \in Nat /\ shelves[f][n].size \in Nat
  <2> SUFFICES ASSUME NEW n \in S PROVE n \in Nat /\ shelves[f][n].size \in Nat
    OBVIOUS
  <2>1. n \in ArchiveNames /\ shelves[f][n] # NoBook
    BY DEF Archives
  <2>2. shelves[f][n] \in HeldBook
    BY <2>1 DEF MaintenanceTyped
  <2> QED
    BY <2>1, <2>2, MaintenanceAssumption DEF HeldBook
<1>3. IsFiniteSet(S) /\ S # {}
  BY <1>1, MaintenanceAssumption, FS_Subset DEF Archives
<1>4. PICK n \in S : \A k \in S : <<k, n>> \notin R
  <2>1. \A x \in S : <<x, x>> \notin R
    BY <1>2 DEF KeepsFirst
  <2>2. \A x, y, z \in S : <<x, y>> \in R /\ <<y, z>> \in R => <<x, z>> \in R
    BY <1>2 DEF KeepsFirst
  <2> HIDE DEF S, R
  <2> QED
    BY <1>3, <2>1, <2>2, BestIsThere
<1>5. ASSUME n \in Losers(f) PROVE FALSE
  <2>1. PICK k \in Archives(f) : ByName(f, k, n) \/ ByMetadata(f, k, n)
    BY <1>5 DEF Losers, LosersByName
  <2>2. shelves[f][k].pages = shelves[f][n].pages /\ KeepsFirst(f, k, n)
    BY <2>1 DEF ByName, ByMetadata, SameContent
  <2> QED
    BY <1>4, <2>1, <2>2
<1> QED
  BY <1>1, <1>4, <1>5

LEMMA SessionChanges ==
  ASSUME Upkeep, NEW a, NEW b, NEW c, NEW d, NEW e,
         \/ session' = [session EXCEPT !.left = a]
         \/ session' = [session EXCEPT !.pass = b]
         \/ session' = [session EXCEPT !.pass = b, !.left = a]
         \/ session' = [session EXCEPT !.pass = b, !.left = a, !.pair = c]
         \/ session' = [session EXCEPT !.pass = b, !.left = a, !.pair = c, !.consumed = d]
         \/ session' = [session EXCEPT !.local = d, !.known = e]
         \/ session' = [session EXCEPT !.local = d]
  PROVE  /\ session' = [mode |-> session'.mode, pass |-> session'.pass, left |-> session'.left,
                        pair |-> session'.pair, consumed |-> session'.consumed,
                        reviewed |-> session'.reviewed, known |-> session'.known,
                        local |-> session'.local]
         /\ session'.mode = session.mode /\ session'.pass \in {session.pass, b}
         /\ session'.left \in {session.left, a} /\ session'.pair \in {session.pair, c}
<1> DEFINE R1 == {session.mode}
           R2 == {session.pass, b}
           R3 == {session.left, a}
           R4 == {session.pair, c}
           R5 == {session.consumed, d}
           R6 == {session.reviewed}
           R7 == {session.known, e}
           R8 == {session.local, d}
<1>1. session \in [mode : R1, pass : R2, left : R3, pair : R4, consumed : R5, reviewed : R6,
                   known : R7, local : R8]
  BY DEF Upkeep
<1>2. a \in R3 /\ b \in R2 /\ c \in R4 /\ d \in R5 /\ e \in R7 /\ d \in R8
  OBVIOUS
<1> HIDE DEF R1, R2, R3, R4, R5, R6, R7, R8
<1>3. session' \in [mode : R1, pass : R2, left : R3, pair : R4, consumed : R5, reviewed : R6,
                    known : R7, local : R8]
  BY <1>1, <1>2
<1>4. session'.mode \in R1 /\ session'.pass \in R2 /\ session'.left \in R3 /\ session'.pair \in R4
  BY <1>3
<1> QED
  BY <1>3, <1>4 DEF R1, R2, R3, R4

(* What the operations of a plan do to the shelves.                        *)
LEMMA OperationTyped ==
  ASSUME MaintenanceTyped, PerformOp
  PROVE  /\ queue # <<>> /\ Head(queue) \in Ops /\ queue' = Tail(queue) /\ queue' \in Seq(Ops)
         /\ \A i \in DOMAIN queue' : i + 1 \in DOMAIN queue /\ queue'[i] = queue[i + 1]
         /\ shelves' \in [SeriesFolders -> [ArchiveNames -> HeldBook]]
<1>1. queue # <<>> /\ queue' = Tail(queue) /\ queue \in Seq(Ops)
  BY DEF PerformOp, MaintenanceTyped
<1>2. /\ Head(queue) \in Ops /\ queue' \in Seq(Ops)
      /\ \A i \in DOMAIN queue' : i + 1 \in DOMAIN queue /\ queue'[i] = queue[i + 1]
  <2> HIDE DEF Ops
  <2> QED
    BY <1>1
<1> DEFINE op == Head(queue)
<1>3. NoBook \in HeldBook
  BY DEF HeldBook
<1>4. CASE op.op = "rmtree"
  <2>1. shelves' = [shelves EXCEPT ![op.folder] = [n \in ArchiveNames |-> NoBook]]
    BY <1>4 DEF PerformOp
  <2> QED
    BY <1>1, <1>2, <1>3, <2>1 DEF MaintenanceTyped
<1>5. CASE op.op = "delete"
  <2>1. shelves' = [shelves EXCEPT ![op.src[1]][op.src[2]] = NoBook]
    BY <1>5 DEF PerformOp
  <2> QED
    BY <1>1, <1>2, <1>3, <2>1 DEF MaintenanceTyped
<1>6. CASE op.op = "file"
  <2>1. op \in [op : {"file"}, src : Shelved, dest : Shelved]
    BY <1>2, <1>6 DEF Ops
  <2>2. op.src \in Shelved /\ op.dest \in Shelved
    BY <2>1
  <2>3. shelves' = shelves \/ shelves' = LargerWins(op.src, op.dest)
    BY <1>6 DEF PerformOp
  <2>4. BookAt(op.src) \in HeldBook /\ BookAt(op.dest) \in HeldBook
    BY <2>2 DEF BookAt, MaintenanceTyped, Shelved
  <2>5. LargerWins(op.src, op.dest) \in [SeriesFolders -> [ArchiveNames -> HeldBook]]
    <3> HIDE DEF op
    <3> QED
      BY <1>3, <2>4 DEF LargerWins, MaintenanceTyped
  <2> QED
    BY <1>1, <1>2, <2>3, <2>5 DEF MaintenanceTyped
<1>7. op.op \in {"file", "delete", "rmtree"}
  BY <1>2 DEF Ops
<1> QED
  BY <1>1, <1>2, <1>4, <1>5, <1>6, <1>7

(* A delete takes one archive.                                             *)
LEMMA DeleteTakes ==
  ASSUME MaintenanceTyped, PerformOp, Head(queue).op = "delete"
  PROVE  /\ Head(queue).src \in Shelved
         /\ \A q \in Shelved : At(shelves', q) = IF q = Head(queue).src THEN NoBook ELSE BookAt(q)
<1>1. Head(queue) \in Ops
  BY OperationTyped
<1> DEFINE p == Head(queue).src
<1>2. p \in Shelved
  BY <1>1 DEF Ops
<1>3. shelves' = [shelves EXCEPT ![p[1]][p[2]] = NoBook]
  BY DEF PerformOp
<1> HIDE DEF p
<1>4. PICK f \in SeriesFolders, n \in ArchiveNames : p = <<f, n>>
  BY <1>2 DEF Shelved
<1>5. \A g \in SeriesFolders, m \in ArchiveNames :
         shelves'[g][m] = IF g = f /\ m = n THEN NoBook ELSE shelves[g][m]
  BY <1>3, <1>4 DEF MaintenanceTyped
<1>6. ASSUME NEW q \in Shelved PROVE At(shelves', q) = IF q = p THEN NoBook ELSE BookAt(q)
  <2>1. PICK g \in SeriesFolders, m \in ArchiveNames : q = <<g, m>>
    BY DEF Shelved
  <2> QED
    BY <1>4, <1>5, <2>1 DEF BookAt, At
<1> QED
  BY <1>2, <1>6 DEF p

LEMMA PerformKeeps == ASSUME UpkeepInv, PerformOp PROVE UpkeepInv'
<1>1. /\ MaintenanceTyped /\ UNCHANGED <<session, savedPlan>> /\ queue # <<>>
      /\ queue' \in Seq(Ops) /\ shelves' \in [SeriesFolders -> [ArchiveNames -> HeldBook]]
      /\ queue \in Seq(Ops)
      /\ \A i \in DOMAIN queue' : i + 1 \in DOMAIN queue /\ queue'[i] = queue[i + 1]
  BY OperationTyped DEF UpkeepInv, PerformOp, MaintenanceTyped
<1>2. MaintenanceTyped'
  BY <1>1 DEF MaintenanceTyped, Upkeep
<1>3. ASSUME session.mode = "live", Deleting', NEW i \in DOMAIN queue', NEW s, s = queue'[i].src
      PROVE  /\ queue'[i].op = "delete"
             /\ At(shelves', s) # NoBook =>
                   \E q \in Shelved : /\ \A j \in DOMAIN queue' : queue'[j].src # q
                                      /\ At(shelves', q) # NoBook
                                      /\ At(shelves', q).pages = At(shelves', s).pages
  <2>1. Deleting
    BY <1>1, <1>3 DEF Deleting
  <2>2. \A j \in DOMAIN queue : queue[j].op = "delete" /\ queue[j] \in Ops
    <3>1. \A j \in DOMAIN queue : queue[j].op = "delete"
      BY <1>3, <2>1 DEF UpkeepInv, DeletesHold
    <3>2. \A j \in DOMAIN queue : queue[j] \in Ops
      <4> HIDE DEF Ops
      <4> QED
        BY <1>1
    <3> QED
      BY <3>1, <3>2
  <2>3. Head(queue) = queue[1] /\ 1 \in DOMAIN queue
    <3> HIDE DEF Ops
    <3> QED
      BY <1>1
  <2> DEFINE p == Head(queue).src
  <2>4. p \in Doomed /\ p \in Shelved
        /\ \A q \in Shelved : At(shelves', q) = IF q = p THEN NoBook ELSE BookAt(q)
    BY <1>1, <2>2, <2>3, DeleteTakes DEF Doomed
  <2>5. \A j \in DOMAIN queue' : queue'[j].src \in Doomed
    BY <1>1 DEF Doomed
  <2>6. queue'[i] = queue[i + 1] /\ i + 1 \in DOMAIN queue
    BY <1>1
  <2>7. s \in Shelved
    BY <1>3, <2>2, <2>6 DEF Ops
  <2> HIDE DEF p
  <2>8. ASSUME At(shelves', s) # NoBook
        PROVE  \E q \in Shelved : /\ \A j \in DOMAIN queue' : queue'[j].src # q
                                  /\ At(shelves', q) # NoBook
                                  /\ At(shelves', q).pages = At(shelves', s).pages
    <3>1. At(shelves', s) = BookAt(s) /\ BookAt(s) # NoBook
      BY <2>4, <2>7, <2>8
    <3>2. KeptOf(s)
      BY <1>3, <2>1, <2>6, <3>1 DEF UpkeepInv, DeletesHold
    <3>3. PICK q \in Shelved \ Doomed : BookAt(q) # NoBook /\ BookAt(q).pages = BookAt(s).pages
      BY <3>2 DEF KeptOf
    <3>4. At(shelves', q) = BookAt(q) /\ \A j \in DOMAIN queue' : queue'[j].src # q
      BY <2>4, <2>5, <3>3
    <3> QED
      BY <3>1, <3>3, <3>4
  <2> QED
    BY <2>2, <2>6, <2>8
<1>4. DeletesHold'
  BY <1>1, <1>3 DEF DeletesHold, Deleting, KeptOf, Doomed, BookAt, At
<1> QED
  BY <1>2, <1>4 DEF UpkeepInv

(* What a step that plans or performs operations leaves.                   *)
LEMMA Planned ==
  ASSUME UpkeepInv, Upkeep, queue = <<>>, NEW ops \in Seq(Ops), PlanOrDo(ops), UNCHANGED shelves,
         Upkeep', session'.mode = session.mode,
         \/ \A i \in DOMAIN ops : ops[i].op # "delete"
         \/ \A i \in DOMAIN ops : /\ ops[i].op = "delete"
                                 /\ \E q \in Shelved : /\ \A j \in DOMAIN ops : ops[j].src # q
                                                        /\ BookAt(q) # NoBook
                                                        /\ BookAt(q).pages = BookAt(ops[i].src).pages
  PROVE  UpkeepInv'
<1>1. queue' \in Seq(Ops) /\ savedPlan' \in Seq(Ops) /\ queue' \in {ops, <<>>}
  <2>1. queue \in Seq(Ops) /\ savedPlan \in Seq(Ops)
    BY DEF UpkeepInv, MaintenanceTyped
  <2> HIDE DEF Ops
  <2>2. savedPlan \o ops \in Seq(Ops)
    BY <2>1, ConcatProperties
  <2>3. CASE session.mode = "live"
    BY <2>1, <2>3 DEF PlanOrDo
  <2>4. CASE session.mode # "live"
    BY <2>1, <2>2, <2>4 DEF PlanOrDo
  <2> QED
    BY <2>3, <2>4
<1>2. MaintenanceTyped'
  BY <1>1 DEF UpkeepInv, MaintenanceTyped
<1>3. CASE queue' = <<>>
  BY <1>2, <1>3 DEF UpkeepInv, DeletesHold, Deleting
<1>4. CASE queue' = ops
  BY <1>2, <1>4 DEF UpkeepInv, DeletesHold, Deleting, KeptOf, Doomed, BookAt
<1> QED
  BY <1>1, <1>3, <1>4

LEMMA OneOperation ==
  ASSUME UpkeepInv, Upkeep, queue = <<>>, NEW op \in Ops, op.op # "delete", PlanOrDo(<<op>>),
         UNCHANGED shelves, Upkeep', session'.mode = session.mode
  PROVE  UpkeepInv'
<1>1. <<op>> \in Seq(Ops) /\ \A i \in DOMAIN <<op>> : <<op>>[i].op # "delete"
  <2> HIDE DEF Ops
  <2> QED
    OBVIOUS
<1> QED
  BY <1>1, Planned

LEMMA DeletionsAreDuplicates ==
  ASSUME MaintenanceTyped, NEW f \in SeriesFolders, NEW ops \in Deletions(f)
  PROVE  /\ ops \in Seq(Ops)
         /\ \A i \in DOMAIN ops : /\ ops[i].op = "delete"
                                 /\ \E q \in Shelved : /\ \A j \in DOMAIN ops : ops[j].src # q
                                                        /\ BookAt(q) # NoBook
                                                        /\ BookAt(q).pages = BookAt(ops[i].src).pages
<1> DEFINE L == Losers(f)
           k == Cardinality(L)
<1>1. PICK losers \in Bijection(1..k, L) : ops = [i \in DOMAIN losers |-> DeleteOp(f, losers[i])]
  BY DEF Deletions
<1>2. losers \in [1..k -> L]
  BY DEF Bijection, Injection
<1>3. L \subseteq Archives(f) /\ Archives(f) \subseteq ArchiveNames
  BY LoserIsKept DEF Archives
<1>4. k \in Nat
  <2>1. IsFiniteSet(L)
    BY <1>3, MaintenanceAssumption, FS_Subset
  <2> QED
    BY <2>1, FS_CardinalityType
<1> HIDE DEF k, L
<1>5. DOMAIN ops = 1..k /\ \A i \in 1..k : losers[i] \in L /\ ops[i] = DeleteOp(f, losers[i])
  BY <1>1, <1>2
<1>6. \A i \in 1..k : ops[i] \in Ops /\ ops[i].op = "delete" /\ ops[i].src = <<f, losers[i]>>
  BY <1>3, <1>5 DEF Ops, DeleteOp, Shelved
<1>7. ops \in Seq(Ops)
  <2>1. ops = [i \in 1..k |-> ops[i]]
    BY <1>1, <1>2
  <2> HIDE DEF Ops
  <2> QED
    BY <1>4, <1>6, <2>1, IsASeq
<1>8. ASSUME NEW i \in DOMAIN ops
      PROVE  \E q \in Shelved : /\ \A j \in DOMAIN ops : ops[j].src # q
                                /\ BookAt(q) # NoBook
                                /\ BookAt(q).pages = BookAt(ops[i].src).pages
  <2>1. PICK n \in Archives(f) \ L : shelves[f][n].pages = shelves[f][losers[i]].pages
    BY <1>5, LoserIsKept DEF L
  <2>2. <<f, n>> \in Shelved /\ BookAt(<<f, n>>) = shelves[f][n] /\ shelves[f][n] # NoBook
    BY <1>3, <2>1 DEF Shelved, BookAt, Archives
  <2>3. BookAt(ops[i].src) = shelves[f][losers[i]]
    BY <1>5, <1>6 DEF BookAt
  <2>4. \A j \in DOMAIN ops : ops[j].src # <<f, n>>
    BY <1>5, <1>6, <2>1
  <2> QED
    BY <2>1, <2>2, <2>3, <2>4
<1> QED
  BY <1>5, <1>6, <1>7, <1>8

LEMMA WorkingIsUpkeep ==
  ASSUME UpkeepInv, NEW p, Working(p), p \in {"strip", "dedupe", "merge", "merging", "sweep"}
  PROVE  Upkeep /\ queue = <<>> /\ session.pass = p
<1>1. session # NoSession /\ session # Replaying
  BY DEF Working, NoSession, Replaying
<1> QED
  BY <1>1 DEF UpkeepInv, MaintenanceTyped, Working

LEMMA SessionKeeps ==
  ASSUME UpkeepInv, queue = <<>>, UNCHANGED <<shelves, queue, savedPlan>>,
         session' = NoSession \/ session' = Replaying \/ Upkeep'
  PROVE  UpkeepInv'
BY DEF UpkeepInv, MaintenanceTyped, DeletesHold, Deleting

LEMMA UpkeepBegins == MaintenanceInit => UpkeepInv
<1> SUFFICES ASSUME MaintenanceInit PROVE UpkeepInv
  OBVIOUS
<1>1. shelves \in [SeriesFolders -> [ArchiveNames -> HeldBook]]
  BY DEF MaintenanceInit, HeldBook
<1>2. queue = <<>> /\ savedPlan = <<>> /\ session = NoSession
  BY DEF MaintenanceInit
<1>3. queue \in Seq(Ops) /\ savedPlan \in Seq(Ops)
  <2> HIDE DEF Ops
  <2> QED
    BY <1>2
<1> QED
  BY <1>1, <1>2, <1>3 DEF UpkeepInv, MaintenanceTyped, DeletesHold, Deleting

(* A move from an archive's place to another is an operation.              *)
LEMMA FileOpTyped ==
  ASSUME NEW f \in SeriesFolders, NEW n \in ArchiveNames, NEW g \in SeriesFolders,
         NEW k \in ArchiveNames
  PROVE  FileOp(f, n, g, k) \in Ops /\ FileOp(f, n, g, k).op # "delete"
BY DEF FileOp, Ops, Shelved

LEMMA StartingKeeps ==
  ASSUME UpkeepInv, session = NoSession, UNCHANGED <<shelves, queue>>, Upkeep',
         savedPlan' \in {<<>>, savedPlan}
  PROVE  UpkeepInv'
<1>1. queue = <<>> /\ savedPlan \in Seq(Ops)
  BY DEF UpkeepInv, MaintenanceTyped, Upkeep, NoSession, Replaying
<1>2. savedPlan' \in Seq(Ops)
  <2> HIDE DEF Ops
  <2>1. <<>> \in Seq(Ops)
    OBVIOUS
  <2> QED
    BY <1>1, <2>1, Zenon
<1> QED
  BY <1>1, <1>2 DEF UpkeepInv, MaintenanceTyped, DeletesHold, Deleting

LEMMA UpkeepStep == ASSUME UpkeepInv, [MaintenanceNext]_upkeepVars PROVE UpkeepInv'
<1>1. CASE UNCHANGED upkeepVars
  BY <1>1 DEF upkeepVars, UpkeepInv, MaintenanceTyped, Upkeep, DeletesHold, Deleting, KeptOf,
              Doomed, BookAt
<1>2. ASSUME NEW mode \in {"live", "dry"}, StartAll(mode) PROVE UpkeepInv'
  <2>1. Upkeep'
    BY <1>2 DEF StartAll, Upkeep
  <2> QED
    BY <1>2, <2>1, StartingKeeps DEF StartAll
<1>3. ASSUME NEW mode \in {"live", "dry"}, StartDecisions(mode) PROVE UpkeepInv'
  <2>1. Upkeep'
    BY <1>3 DEF StartDecisions, Upkeep
  <2> QED
    BY <1>3, <2>1, StartingKeeps DEF StartDecisions
<1>4. CASE PerformOp
  BY <1>4, PerformKeeps
<1>5. ASSUME NEW f \in SeriesFolders, NEW n \in ArchiveNames, StripName(f, n) PROVE UpkeepInv'
  <2>1. Upkeep /\ queue = <<>> /\ session.pass = "strip"
    BY <1>5, WorkingIsUpkeep DEF StripName
  <2>2. Upkeep' /\ session'.mode = session.mode
    <3>1. session' = [session EXCEPT !.left = session.left \ {<<f, n>>}]
      BY <1>5 DEF StripName
    <3> QED
      BY <2>1, <3>1, SessionChanges DEF Upkeep
  <2>3. CleanToken[n] \in ArchiveNames
    BY MaintenanceAssumption
  <2> QED
    BY <1>5, <2>1, <2>2, <2>3, FileOpTyped, OneOperation DEF StripName
<1>6. CASE EndStrip
  <2>1. Upkeep /\ queue = <<>>
    BY <1>6, WorkingIsUpkeep DEF EndStrip
  <2>2. session' = [session EXCEPT !.pass = "dedupe", !.left = SeriesFolders]
    BY <1>6 DEF EndStrip
  <2>3. session'.pass = "dedupe"
    BY <2>1, <2>2 DEF Upkeep
  <2>4. Upkeep'
    BY <2>1, <2>2, <2>3, SessionChanges DEF Upkeep
  <2> QED
    BY <1>6, <2>1, <2>4, SessionKeeps DEF EndStrip
<1>7. ASSUME NEW f \in SeriesFolders, DedupeFolder(f) PROVE UpkeepInv'
  <2>1. PICK p \in {"dedupe", "merge", "sweep"} : Working(p)
    BY <1>7 DEF DedupeFolder
  <2>2. Upkeep /\ queue = <<>> /\ session.pass = p
    BY <2>1, WorkingIsUpkeep
  <2>3. Upkeep' /\ session'.mode = session.mode
    <3>1. session' = [session EXCEPT !.left = session.left \ {f}]
      BY <1>7 DEF DedupeFolder
    <3> QED
      BY <2>2, <3>1, SessionChanges DEF Upkeep
  <2>4. PICK ops \in Deletions(f) : PlanOrDo(ops)
    BY <1>7 DEF DedupeFolder
  <2>5. MaintenanceTyped /\ UNCHANGED shelves
    BY <1>7 DEF UpkeepInv, DedupeFolder
  <2> QED
    BY <2>2, <2>3, <2>4, <2>5, DeletionsAreDuplicates, Planned
<1>8. CASE EndDedupe
  <2>1. Upkeep /\ queue = <<>>
    BY <1>8, WorkingIsUpkeep DEF EndDedupe
  <2>2. session' = [session EXCEPT !.pass = "merge"]
    BY <1>8 DEF EndDedupe
  <2>3. session'.pass = "merge"
    BY <2>1, <2>2 DEF Upkeep
  <2>4. Upkeep'
    BY <2>1, <2>2, <2>3, SessionChanges DEF Upkeep
  <2> QED
    BY <1>8, <2>1, <2>4, SessionKeeps DEF EndDedupe
<1>9. ASSUME NEW f \in SeriesFolders, NEW g \in SeriesFolders, MatchFolders(f, g)
      PROVE  UpkeepInv'
  <2>1. Upkeep /\ queue = <<>>
    BY <1>9, WorkingIsUpkeep DEF MatchFolders
  <2>2. session' = [session EXCEPT !.pass = "merging", !.left = Archives(f), !.pair = <<f, g>>]
    BY <1>9 DEF MatchFolders
  <2>3. session'.left = Archives(f) /\ session'.pair = <<f, g>> /\ session'.pass = "merging"
    BY <2>1, <2>2 DEF Upkeep
  <2>4. Archives(f) \subseteq ArchiveNames
    BY DEF Archives
  <2>5. Upkeep'
    BY <2>1, <2>2, <2>3, <2>4, SessionChanges DEF Upkeep
  <2> QED
    BY <1>9, <2>1, <2>5, SessionKeeps DEF MatchFolders
<1>10. ASSUME NEW f \in SeriesFolders, NEW g \in SeriesFolders, ExcludePair(f, g)
       PROVE  UpkeepInv'
  <2>1. Upkeep /\ queue = <<>> /\ session.pass = "merge"
    BY <1>10, WorkingIsUpkeep DEF ExcludePair
  <2>2. PICK d, e : session' = [session EXCEPT !.local = d, !.known = e]
    BY <1>10 DEF ExcludePair
  <2>3. Upkeep'
    BY <2>1, <2>2, SessionChanges DEF Upkeep
  <2> QED
    BY <1>10, <2>1, <2>3, SessionKeeps DEF ExcludePair
<1>11. ASSUME NEW n \in ArchiveNames, MergeArchive(n) PROVE UpkeepInv'
  <2>1. Upkeep /\ queue = <<>> /\ session.pass = "merging"
    BY <1>11, WorkingIsUpkeep DEF MergeArchive
  <2>2. session.left \subseteq ArchiveNames /\ session.pair \in SeriesFolders \X SeriesFolders
    BY <2>1 DEF Upkeep
  <2>3. Upkeep' /\ session'.mode = session.mode
    <3>1. session' = [session EXCEPT !.left = session.left \ {n}]
      BY <1>11 DEF MergeArchive
    <3> QED
      BY <2>1, <2>2, <3>1, SessionChanges DEF Upkeep
  <2>4. PICK k \in Targets(n, session.pair[2]) :
             PlanOrDo(<<FileOp(session.pair[1], n, session.pair[2], k)>>)
    BY <1>11 DEF MergeArchive
  <2>5. k \in ArchiveNames
    BY <2>4 DEF Targets, Archives
  <2>6. session.pair[1] \in SeriesFolders /\ session.pair[2] \in SeriesFolders
    BY <2>2
  <2> QED
    BY <1>11, <2>1, <2>3, <2>4, <2>5, <2>6, FileOpTyped, OneOperation DEF MergeArchive
<1>12. CASE EndMerge
  <2>1. Upkeep /\ queue = <<>> /\ session.pass = "merging"
    BY <1>12, WorkingIsUpkeep DEF EndMerge
  <2>2. session.pair[1] \in SeriesFolders
    BY <2>1 DEF Upkeep
  <2>3. session' = [session EXCEPT !.pass = "merge", !.left = {session.pair[2]}, !.pair = <<>>,
                                   !.consumed = session.consumed \union {session.pair[1]}]
    BY <1>12 DEF EndMerge
  <2>4. session'.pass = "merge"
    BY <2>1, <2>3 DEF Upkeep
  <2>5. Upkeep' /\ session'.mode = session.mode
    BY <2>1, <2>3, <2>4, SessionChanges DEF Upkeep
  <2>6. TreeOp(session.pair[1]) \in Ops /\ TreeOp(session.pair[1]).op # "delete"
    BY <2>2 DEF TreeOp, Ops
  <2> QED
    BY <1>12, <2>1, <2>5, <2>6, OneOperation DEF EndMerge
<1>13. CASE NextParent
  <2>1. Upkeep /\ queue = <<>> /\ session.pass = "merge"
    BY <1>13, WorkingIsUpkeep DEF NextParent
  <2>2. session' = [session EXCEPT !.local = session.known]
    BY <1>13 DEF NextParent
  <2>3. Upkeep'
    BY <2>1, <2>2, SessionChanges DEF Upkeep
  <2> QED
    BY <1>13, <2>1, <2>3, SessionKeeps DEF NextParent
<1>14. CASE EndMatching
  <2>1. Upkeep /\ queue = <<>> /\ session.pass = "merge"
    BY <1>14, WorkingIsUpkeep DEF EndMatching
  <2>2. PICK a : session' = [session EXCEPT !.pass = "sweep", !.left = a]
    BY <1>14 DEF EndMatching
  <2>3. session'.pass = "sweep"
    BY <2>1, <2>2 DEF Upkeep
  <2>4. Upkeep'
    BY <2>1, <2>2, <2>3, SessionChanges DEF Upkeep
  <2> QED
    BY <1>14, <2>1, <2>4, SessionKeeps DEF EndMatching
<1>15. CASE EndSession
  BY <1>15, SessionKeeps DEF EndSession, Working
<1>16. CASE StartReplay
  <2>1. savedPlan \in Seq(Ops) /\ session' = Replaying /\ queue' = savedPlan
        /\ UNCHANGED <<shelves, savedPlan>>
    BY <1>16 DEF StartReplay, UpkeepInv, MaintenanceTyped, Replaying
  <2>2. session'.mode = "replay"
    BY <2>1 DEF Replaying
  <2> QED
    BY <2>1, <2>2 DEF UpkeepInv, MaintenanceTyped, DeletesHold
<1> QED
  BY <1>1, <1>2, <1>3, <1>4, <1>5, <1>6, <1>7, <1>8, <1>9, <1>10, <1>11, <1>12, <1>13, <1>14,
     <1>15, <1>16 DEF MaintenanceNext

(* A delete of a live run leaves the pages somewhere.                      *)
LEMMA LiveDelete ==
  ASSUME UpkeepInv, [MaintenanceNext]_upkeepVars, Deletes, session.mode = "live"
  PROVE  PagesIn(shelves') = PagesIn(shelves)
<1>1. MaintenanceTyped /\ queue \in Seq(Ops)
  BY DEF UpkeepInv, MaintenanceTyped
<1>2. queue # <<>> /\ queue' = Tail(queue) /\ Head(queue).op = "delete"
  BY DEF Deletes
<1>3. Head(queue) = queue[1] /\ 1 \in DOMAIN queue /\ Tail(queue) # queue
  <2> HIDE DEF Ops
  <2>1. Len(Tail(queue)) # Len(queue)
    BY <1>1, <1>2
  <2> QED
    BY <1>1, <1>2, <2>1
<1>4. session # NoSession
  BY <1>1, <1>2 DEF MaintenanceTyped, NoSession, Replaying, Upkeep
<1>5. PerformOp
  BY <1>2, <1>3, <1>4 DEF MaintenanceNext, upkeepVars, StartAll, StartDecisions, StripName,
     EndStrip, DedupeFolder, EndDedupe, MatchFolders, MergeArchive, EndMerge, ExcludePair,
     NextParent, EndMatching, EndSession, StartReplay, Working
<1> DEFINE p == Head(queue).src
<1>6. p \in Shelved /\ \A q \in Shelved : At(shelves', q) = IF q = p THEN NoBook ELSE BookAt(q)
  BY <1>1, <1>2, <1>5, DeleteTakes
<1>7. p \in Doomed /\ (BookAt(p) # NoBook => KeptOf(p))
  <2>1. Deleting
    BY <1>2, <1>3 DEF Deleting
  <2> QED
    BY <1>3, <2>1 DEF UpkeepInv, DeletesHold, Doomed
<1> HIDE DEF p
<1>8. \A t : PagesIn(t) = {At(t, q).pages : q \in {r \in Shelved : At(t, r) # NoBook}}
  BY DEF PagesIn, At, Shelved
<1>9. ASSUME NEW q \in Shelved, BookAt(q) # NoBook
      PROVE  \E r \in Shelved : At(shelves', r) # NoBook /\ At(shelves', r).pages = BookAt(q).pages
  <2>1. CASE q # p
    BY <1>6, <1>9, <2>1
  <2>2. CASE q = p
    <3>1. PICK r \in Shelved \ Doomed : BookAt(r) # NoBook /\ BookAt(r).pages = BookAt(p).pages
      BY <1>7, <1>9, <2>2 DEF KeptOf
    <3> QED
      BY <1>6, <1>7, <2>2, <3>1
  <2> QED
    BY <2>1, <2>2
<1>10. \A q \in Shelved : At(shelves', q) # NoBook => At(shelves', q) = BookAt(q)
  BY <1>6
<1>11. \A q : At(shelves, q) = BookAt(q)
  BY DEF At, BookAt
<1>12. PagesIn(shelves') = {At(shelves', q).pages : q \in {r \in Shelved : At(shelves', r) # NoBook}}
       /\ PagesIn(shelves) = {BookAt(q).pages : q \in {r \in Shelved : BookAt(r) # NoBook}}
  BY <1>8, <1>11
<1>13. \A q \in Shelved : At(shelves', q) # NoBook => BookAt(q) # NoBook
  BY <1>10
<1>14. PagesIn(shelves') \subseteq PagesIn(shelves)
  BY <1>10, <1>12, <1>13
<1>15. PagesIn(shelves) \subseteq PagesIn(shelves')
  BY <1>9, <1>12
<1> QED
  BY <1>14, <1>15

(* A live run of maintenance deletes as a duplicate only what it keeps the *)
(* pages of: whatever the folders hold, however names and metadata propose *)
(* groups and in whatever order they are deleted.                          *)
THEOREM LiveDeletesAreDuplicates == MaintenanceSpec => LiveDeletesDuplicates
<1>1. UpkeepInv /\ [MaintenanceNext]_upkeepVars => UpkeepInv'
  BY UpkeepStep
<1>2. MaintenanceSpec => []UpkeepInv
  BY UpkeepBegins, <1>1, PTL DEF MaintenanceSpec
<1>3. UpkeepInv /\ [MaintenanceNext]_upkeepVars
        => [Deletes /\ session.mode = "live" => PagesIn(shelves') = PagesIn(shelves)]_upkeepVars
  BY LiveDelete
<1> QED
  BY <1>2, <1>3, PTL DEF MaintenanceSpec, LiveDeletesDuplicates
=============================================================================
