---------------------------- MODULE FieldResolution ----------------------------
(***************************************************************************)
(* What a folder's evidence says of its archives: series, number, volume   *)
(* and version of each, which of them are versions of one book, and which  *)
(* may be renamed.  A fact is <<archive, source, field, value>>; facts     *)
(* accumulate as names are read, metadata edited, pages hashed and human   *)
(* decisions recorded, and the folder is resolved anew from all of them.   *)
(*                                                                         *)
(* A name says "series", "chapter", "issue", "Vol", "v" (a bare v<N>,      *)
(* volume or version), "[v]" (bracketed), "marker" (a word before the      *)
(* number that is title text or an edition) and "tag".                     *)
(***************************************************************************)
EXTENDS Naturals, FiniteSets

CONSTANTS
    Archived,       \* archives of the folder
    FirstFacts,     \* what may be known of the folder at first: sets of facts
    PossibleFacts,  \* facts that may come
    MaxGiven,       \* bound on the facts that come
    SeriesFolder,   \* the resolved series folder, or NoValue
    FolderWins,     \* whether it outranks metadata
    WithMarker,     \* title -> the title with the marker word in it
    NoValue

ASSUME FactsAssumption == \A facts \in FirstFacts : IsFiniteSet(facts)

VARIABLE attested

Said(a, source, field) ==
    {f[4] : f \in {g \in attested : g[1] = a /\ g[2] = source /\ g[3] = field}}
TheOne(values) == CHOOSE v \in values : TRUE
One(values) == Cardinality(values) = 1

ResolutionInit == attested \in FirstFacts

\* An edited name, another ComicInfo value, page hashes, a decision.
FactArrives ==
    /\ Cardinality(attested \ UNION FirstFacts) < MaxGiven
    /\ \E f \in PossibleFacts \ attested : attested' = attested \union {f}

ResolutionSpec == ResolutionInit /\ [][FactArrives]_attested

-----------------------------------------------------------------------------
(* One field                                                               *)

Decided(values, clash) ==
    IF One(values) THEN [value |-> TheOne(values), why |-> "resolved"]
    ELSE [value |-> NoValue, why |-> clash]
NameResolved(r) == r.why = "resolved"

\* Human decisions decide alone. Otherwise metadata, folder, family and
\* policy must agree. What only a name says is a candidate.
Resolve(human, deciding, name) ==
    IF human # {} THEN Decided(human, "human_conflict")
    ELSE IF deciding # {} THEN Decided(deciding, "conflict")
    ELSE [value |-> NoValue,
          why |-> IF name = {} THEN "no_attested" ELSE "filename_candidate_only"]

\* What the injector writes into its template restates the name.
InjectorWrites == {"series", "number"}
Consistent(a) ==
    \A field \in {"series", "number", "volume", "language"} :
        Cardinality(Said(a, "xml", field)) < 2
Xml(a, field) ==
    IF ~Consistent(a) \/ (field \in InjectorWrites /\ Said(a, "xml", "template") # {})
    THEN {} ELSE Said(a, "xml", field)

Human(a, field) == Said(a, "human", field)

\* Mutant of ConflictedOn: the family a decision declares is not compared.
ConflictedOnFields(a) ==
    {f \in {"series", "number", "volume", "version"} : Cardinality(Human(a, f)) > 1}

ConflictedOn(a) ==
    {f \in {"series", "number", "volume", "version", "family"} :
        Cardinality(Human(a, f)) > 1}

-----------------------------------------------------------------------------
(* Series, number, and the siblings' runs                                  *)

Offered == IF SeriesFolder = NoValue THEN {} ELSE {SeriesFolder}

\* Mutant of SeriesOf: a winning folder outranks the human too.
SeriesOfFolder(a) ==
    IF FolderWins /\ Offered # {} THEN [value |-> SeriesFolder, why |-> "resolved"]
    ELSE Resolve(Human(a, "series"), Xml(a, "series") \union Offered, Said(a, "name", "series"))

SeriesOf(a) ==
    IF FolderWins /\ Offered # {} /\ Human(a, "series") = {}
    THEN [value |-> SeriesFolder, why |-> "resolved"]
    ELSE Resolve(Human(a, "series"), Xml(a, "series") \union Offered,
                 Said(a, "name", "series"))

Primary(a) == ({"chapter"} \X Said(a, "name", "chapter"))
                  \union ({"issue"} \X Said(a, "name", "issue"))
VolumeTokens(a) == Said(a, "name", "Vol") \union Said(a, "name", "v")
Distinct(identity) == Cardinality({identity[a] : a \in Archived}) = Cardinality(Archived)
SameFor(said) == One({said[a] : a \in Archived})

\* At least two archives with one number each, of one kind and one series,
\* no two of them numbered alike.
NumberRun ==
    /\ Cardinality(Archived) > 1 /\ \A a \in Archived : One(Primary(a))
    /\ SameFor([a \in Archived |-> TheOne(Primary(a))[1]])
    /\ SameFor([a \in Archived |-> Said(a, "name", "series")])
    /\ Distinct([a \in Archived |-> <<Primary(a), VolumeTokens(a), Said(a, "name", "[v]"),
                                    Said(a, "name", "marker")>>])

PageDigests(a) == Said(a, "page", "digest")
Comparable(a) == PageDigests(a) # {} /\ Said(a, "page", "unordered") = {}

\* Different volumes of the run are different books: they share no page.
VolumeRun ==
    /\ Cardinality(Archived) > 1
    /\ \A a \in Archived : One(VolumeTokens(a)) /\ Comparable(a)
    /\ SameFor([a \in Archived |-> Said(a, "name", "series")])
    /\ ~SameFor([a \in Archived |-> VolumeTokens(a)])
    /\ Distinct([a \in Archived |-> <<VolumeTokens(a), Primary(a)>>])
    /\ \A a, b \in Archived :
          VolumeTokens(a) # VolumeTokens(b) => PageDigests(a) \intersect PageDigests(b) = {}

NumberOf(a) ==
    Resolve(Human(a, "number"),
            Xml(a, "number") \union (IF NumberRun THEN {p[2] : p \in Primary(a)} ELSE {}),
            {p[2] : p \in Primary(a)})

-----------------------------------------------------------------------------
(* Version families                                                        *)

\* effective_markers: the marker word is title text when the decided series
\* has it; with another series than either reading's, nobody can tell.
MarkerReading(a) ==
    LET series == SeriesOf(a).value
        title == Said(a, "name", "series") IN
    IF Said(a, "name", "marker") = {} THEN [words |-> {}, ambiguous |-> FALSE]
    ELSE [words |-> IF series # NoValue /\ series \in {WithMarker[t] : t \in title}
                    THEN {} ELSE Said(a, "name", "marker"),
          ambiguous |-> /\ series # NoValue
                        /\ series \notin title \union {WithMarker[t] : t \in title}]

Declared(a) == Human(a, "family")
Work(a) == <<SeriesOf(a).value, NumberOf(a).value>>
InWork(a) == NameResolved(SeriesOf(a)) /\ NameResolved(NumberOf(a)) /\ ~One(Declared(a))

\* Declared families, and the works of the archives without one declaration.
Groups ==
    LET undeclared == {a \in Archived : InWork(a)} IN
    {{a \in Archived : f \in Declared(a)} : f \in UNION {Declared(a) : a \in Archived}}
    \union {{a \in undeclared : Work(a) = work} : work \in {Work(a) : a \in undeclared}}

KnownVolume(a) == Resolve(Human(a, "volume"), Xml(a, "volume"), {})
VersionMarked(a) == Said(a, "name", "v") \union Said(a, "name", "[v]") # {}
HumanFamily(g) == \E f \in UNION {Declared(a) : a \in g} : \A a \in g : Declared(a) = {f}

SameWork(g) ==
    /\ \A a \in g : NameResolved(SeriesOf(a)) /\ NameResolved(NumberOf(a))
    /\ One({Work(a) : a \in g})
    /\ Cardinality({KnownVolume(a).value : a \in {b \in g : NameResolved(KnownVolume(b))}}) < 2
    /\ \E a \in g : VersionMarked(a)

\* establish_family: pages can stop a family, never start one.
Unrefused(g) ==
    /\ Cardinality(g) > 1
    /\ \A a \in g : ConflictedOn(a) = {} /\ ~MarkerReading(a).ambiguous
    /\ HumanFamily(g) \/ SameWork(g)
    /\ One({MarkerReading(a).words : a \in g})
    /\ One({Xml(a, "language") : a \in g})
    /\ One({Said(a, "name", "tag") : a \in g})
Established == {g \in Groups : Unrefused(g) /\ \A a \in g : Comparable(a)}
InFamily(a) == \E g \in Established : a \in g

-----------------------------------------------------------------------------
(* Volume and version                                                      *)

\* A number agreeing with the one labelled volume is a volume.
CollectedNumber(a) ==
    IF /\ Primary(a) = {} /\ One(VolumeTokens(a)) /\ Said(a, "name", "Vol") # {}
       /\ VolumeTokens(a) = {NumberOf(a).value}
    THEN VolumeTokens(a) ELSE {}

MetadataVolume(a) ==
    IF Xml(a, "volume") # {} THEN Xml(a, "volume") ELSE CollectedNumber(a)
RunVolume(a) == IF VolumeRun THEN VolumeTokens(a) ELSE {}

\* _classify_v_token: exactly one kind of evidence; a human's comes first.
Classified(a, v, bracketed) ==
    LET humanVolume == ~bracketed /\ v \in Human(a, "volume")
        humanVersion == v \in Human(a, "version")
        byHuman == humanVolume \/ humanVersion
        volume == humanVolume \/ (~byHuman /\ ~bracketed /\
                                  v \in MetadataVolume(a) \union RunVolume(a))
        version == humanVersion \/ (~byHuman /\ InFamily(a)) IN
    IF ConflictedOn(a) \intersect {"volume", "version"} # {} \/ volume = version
    THEN "unresolved" ELSE IF volume THEN "volume" ELSE "version"

Tokens(a) == (Said(a, "name", "v") \X {FALSE}) \union (Said(a, "name", "[v]") \X {TRUE})

VolumeOf(a) ==
    Resolve(Human(a, "volume"),
            Xml(a, "volume") \union CollectedNumber(a) \union RunVolume(a),
            VolumeTokens(a))

VersionOf(a) ==
    Resolve(Human(a, "version"),
            {t[1] : t \in {u \in Tokens(a) : /\ Classified(a, u[1], u[2]) = "version"
                                            /\ u[1] \notin Human(a, "version")}},
            {t[1] : t \in Tokens(a)})

FieldOf(a, field) ==
    CASE field = "series" -> SeriesOf(a)
      [] field = "number" -> NumberOf(a)
      [] field = "volume" -> VolumeOf(a)
      [] field = "version" -> VersionOf(a)

Numbered(a) ==
    IF NumberOf(a).why # "no_attested" THEN NameResolved(NumberOf(a)) ELSE NameResolved(VolumeOf(a))

\* An archive nothing is left to review on.
Renamable(a) ==
    /\ NameResolved(SeriesOf(a)) /\ Numbered(a)
    /\ ConflictedOn(a) = {} /\ ~MarkerReading(a).ambiguous
    /\ \A t \in Tokens(a) : Classified(a, t[1], t[2]) # "unresolved"

\* _destination formats resolved fields. A v<N> that was classified as one of
\* volume and version is no open question of the other.
ClassifiedAs(a, kind) ==
    Tokens(a) # {} /\ \A t \in Tokens(a) : Classified(a, t[1], t[2]) = kind

OtherKind(a, field) ==
    /\ FieldOf(a, field).why = "filename_candidate_only"
    /\ \/ field = "volume" /\ Said(a, "name", "Vol") = {} /\ ClassifiedAs(a, "version")
       \/ field = "version" /\ Said(a, "name", "[v]") = {} /\ ClassifiedAs(a, "volume")

\* Mutant of Settled: only what renamable looks at is refused, not a conflict.
SettledDespiteConflict(a, field) ==
    FieldOf(a, field).why \in {"resolved", "no_attested", "conflict"} \/ OtherKind(a, field)

Settled(a, field) ==
    FieldOf(a, field).why \in {"resolved", "no_attested"} \/ OtherKind(a, field)
Formatted(a) ==
    Renamable(a) /\ \A field \in {"series", "number", "volume", "version"} : Settled(a, field)

-----------------------------------------------------------------------------
(* Properties                                                              *)

\* Whatever metadata, folder, siblings, family and name say, a field a human
\* decided has the value decided.
HumanDecides ==
    \A a \in Archived, field \in {"series", "number", "volume", "version"} :
        One(Human(a, field)) => FieldOf(a, field).value = TheOne(Human(a, field))

\* No archive is a version in two families: which keeper it is older than
\* would depend on the order they are settled in.
FamiliesAreDisjoint ==
    \A g, h \in Established : g # h => g \intersect h = {}

\* A rename says what the name said: every version-like word of an archive the
\* plan renames is its new volume or version, unless a human decided those.
RenamesKeepTheirWords ==
    \A a \in Archived : \A t \in Tokens(a) :
        Formatted(a) /\ Human(a, "volume") \union Human(a, "version") = {}
            => t[1] \in {VolumeOf(a).value, VersionOf(a).value}

\* What is resolved of what a folder attests follows its human decisions, puts an
\* archive in one family at most, and loses no word of a name.
ResolutionSafety ==
    attested # {} => HumanDecides /\ FamiliesAreDisjoint /\ RenamesKeepTheirWords

=============================================================================
