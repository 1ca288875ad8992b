------------------------ MODULE SchemasBuilderProofs ------------------------
(***************************************************************************)
(* Proofs about the SchemasBuilder for every set of files and texts, every *)
(* resolver, every setting of the prefix flags and every order of the      *)
(* alternative prefixes.                                                   *)
(***************************************************************************)
EXTENDS SchemasBuilder, ParserProofs, FiniteSetTheorems

-----------------------------------------------------------------------------
(* What a step is.                                                         *)

\* The builder does something, or the parser does, or nobody.
LEMMA StepKinds ==
  ASSUME [BuilderNext]_builderVars
  PROVE  \/ Load /\ UNCHANGED builder
         \/ Build
         \/ UNCHANGED builderVars
  BY DEF BuilderNext, BuilderTerminated

\* The builder leaves the parser alone.
LEMMA BuildKeepsParser == ASSUME Build PROVE UNCHANGED vars
  BY DEF Build, BuildIdCache, BuildPrefixCache, AddNamespace, AddSchema, EntriesDone, MainPrefix,
         MainDone, NextAlternatives, AlternativePrefix, AlternativesDone, GeneratePrefix, Built

LEMMA ParserStep == ASSUME [BuilderNext]_builderVars PROVE [Next]_vars
<1>1. CASE Load
  BY <1>1 DEF Load, Next
<1>2. CASE UNCHANGED builderVars
  BY <1>2 DEF builderVars
<1> QED
  BY <1>1, <1>2, StepKinds, BuildKeepsParser

-----------------------------------------------------------------------------
(* The ids of namespaces.                                                  *)

\* Everything an info has, by field.
InfoRecord(r) == r = [ns |-> r.ns, prefix |-> r.prefix, schemas |-> r.schemas]

Others == DOMAIN known \ {NoNs}

\* The namespaces that have a name are numbered from 2 on, in the order they are met; the
\* id of a namespace leads to its own info.
NamespaceInv ==
  /\ IsFiniteSet(DOMAIN known)
  /\ DOMAIN infos = {known[ns] : ns \in DOMAIN known}
  /\ \A ns \in DOMAIN known :
       /\ known[ns] \in 1 .. 1 + Cardinality(Others)
       /\ known[ns] = Anonymous <=> ns = NoNs
       /\ infos[known[ns]].ns = ns
  /\ \A i \in DOMAIN infos : InfoRecord(infos[i])

\* An info that is looked up or made anew is that of the namespace.
LEMMA InfoFound ==
  ASSUME NamespaceInv, NEW ns
  PROVE  /\ InfoRecord(Info(ns)) /\ Info(ns).ns = ns
         /\ NamespaceId(ns) \in Nat
         /\ ns \notin DOMAIN known => NamespaceId(ns) \notin DOMAIN infos
         /\ ns \in DOMAIN known => NamespaceId(ns) \in DOMAIN infos /\ infos[NamespaceId(ns)] = Info(ns)
<1>1. IsFiniteSet(Others) /\ Cardinality(Others) \in Nat
  BY FS_Subset, FS_CardinalityType DEF NamespaceInv, Others
<1>2. CASE ns \in DOMAIN known
  BY <1>1, <1>2 DEF NamespaceInv, Info, NamespaceId, Anonymous
<1>3. CASE ns \notin DOMAIN known
  <2>1. Info(ns) = [ns |-> ns, prefix |-> NoPrefix, schemas |-> <<>>]
    BY <1>3 DEF Info
  <2>2. NamespaceId(ns) = IF ns = NoNs THEN 1 ELSE Cardinality(Others) + 2
    BY <1>1, <1>3 DEF NamespaceId, Anonymous, Others
  <2>3. \A n \in DOMAIN known : known[n] # NamespaceId(ns)
    BY <1>1, <1>3, <2>2 DEF NamespaceInv, Anonymous
  <2> QED
    BY <1>1, <1>3, <2>1, <2>2, <2>3 DEF NamespaceInv, InfoRecord
<1> QED
  BY <1>2, <1>3

\* One namespace is entered, or its info replaced.
LEMMA NamespaceEntered ==
  ASSUME NamespaceInv, NEW ns, NEW r, InfoRecord(r), r.ns = ns,
         known' = With(known, ns, NamespaceId(ns)),
         infos' = With(infos, NamespaceId(ns), r)
  PROVE  /\ NamespaceInv'
         /\ DOMAIN infos' = DOMAIN infos \cup {NamespaceId(ns)}
         /\ infos'[NamespaceId(ns)] = r
         /\ \A i \in DOMAIN infos : i # NamespaceId(ns) => infos'[i] = infos[i]
<1>1. /\ DOMAIN infos' = DOMAIN infos \cup {NamespaceId(ns)}
      /\ infos'[NamespaceId(ns)] = r
      /\ \A i \in DOMAIN infos : i # NamespaceId(ns) => infos'[i] = infos[i]
  BY DEF With
<1>2. /\ DOMAIN known' = DOMAIN known \cup {ns}
      /\ known'[ns] = NamespaceId(ns)
      /\ \A n \in DOMAIN known : known'[n] = known[n]
  <2>1. ns \in DOMAIN known => NamespaceId(ns) = known[ns]
    BY DEF NamespaceId
  <2> QED
    BY <2>1 DEF With
<1>3. /\ IsFiniteSet(DOMAIN known) /\ IsFiniteSet(DOMAIN known')
      /\ IsFiniteSet(Others) /\ IsFiniteSet(Others')
      /\ Cardinality(Others) \in Nat /\ Cardinality(Others') \in Nat
      /\ Cardinality(Others) <= Cardinality(Others')
      /\ ns \notin DOMAIN known /\ ns # NoNs => Cardinality(Others') = Cardinality(Others) + 1
  <2>1. IsFiniteSet(DOMAIN known) /\ IsFiniteSet(DOMAIN known')
    BY <1>2, FS_AddElement DEF NamespaceInv
  <2>2. IsFiniteSet(Others) /\ IsFiniteSet(Others')
    BY <2>1, FS_Subset DEF Others
  <2>3. Others \subseteq Others'
    BY <1>2 DEF Others
  <2>4. ns \notin DOMAIN known /\ ns # NoNs => Others' = Others \cup {ns} /\ ns \notin Others
    BY <1>2 DEF Others
  <2>5. Cardinality(Others) <= Cardinality(Others')
    BY <2>2, <2>3, FS_Subset
  <2> QED
    BY <2>1, <2>2, <2>4, <2>5, FS_AddElement, FS_CardinalityType
<1>4. NamespaceId(ns) \in 1 .. 1 + Cardinality(Others') /\ (NamespaceId(ns) = 1 <=> ns = NoNs)
  <2>1. CASE ns \in DOMAIN known
    BY <1>3, <2>1 DEF NamespaceInv, NamespaceId, Anonymous
  <2>2. CASE ns \notin DOMAIN known
    BY <1>3, <2>2 DEF NamespaceId, Anonymous, Others
  <2> QED
    BY <2>1, <2>2
<1>5. DOMAIN infos' = {known'[n] : n \in DOMAIN known'}
  BY <1>1, <1>2 DEF NamespaceInv
<1>6. ASSUME NEW n \in DOMAIN known'
      PROVE  /\ known'[n] \in 1 .. 1 + Cardinality(Others')
             /\ known'[n] = Anonymous <=> n = NoNs
             /\ infos'[known'[n]].ns = n
  <2>1. CASE n = ns
    BY <1>1, <1>2, <1>4, <2>1 DEF Anonymous
  <2>2. CASE n # ns
    <3>1. n \in DOMAIN known /\ known'[n] = known[n] /\ known[n] \in DOMAIN infos
      BY <1>2, <2>2 DEF NamespaceInv
    <3>2. known[n] # NamespaceId(ns)
      <4>1. CASE ns \in DOMAIN known
        BY <3>1, <2>2, <4>1, InfoFound DEF NamespaceInv
      <4>2. CASE ns \notin DOMAIN known
        BY <3>1, <4>2, InfoFound
      <4> QED
        BY <4>1, <4>2
    <3>3. infos'[known'[n]].ns = n
      BY <1>1, <3>1, <3>2 DEF NamespaceInv
    <3>4. known[n] \in 1 .. 1 + Cardinality(Others) /\ (known[n] = Anonymous <=> n = NoNs)
      BY <3>1 DEF NamespaceInv
    <3> QED
      BY <1>3, <3>1, <3>3, <3>4
  <2> QED
    BY <2>1, <2>2
<1>7. \A i \in DOMAIN infos' : InfoRecord(infos'[i])
  BY <1>1 DEF NamespaceInv
<1> QED
  BY <1>1, <1>3, <1>5, <1>6, <1>7 DEF NamespaceInv, InfoRecord

-----------------------------------------------------------------------------
(* Prefixes.                                                               *)

\* A namespace whose alternatives are tried has an info, and they are its own.
AltInv == stage = "alt" => cursor \in DOMAIN infos /\ altLeft \subseteq Candidates.alts

\* A prefix that is offered is taken if it is free, and changes nothing else.
LEMMA Taken ==
  ASSUME NamespaceInv, cursor \in DOMAIN infos, NEW p, Take(p)
  PROVE  /\ DOMAIN infos' = DOMAIN infos
         /\ \A i \in DOMAIN infos :
              /\ InfoRecord(infos'[i])
              /\ infos'[i].ns = infos[i].ns /\ infos'[i].schemas = infos[i].schemas
              /\ i # cursor => infos'[i] = infos[i]
         /\ \/ UNCHANGED <<infos, knownPrefixes>>
            \/ /\ p # NoPrefix /\ p \notin DOMAIN knownPrefixes /\ infos'[cursor].prefix = p
               /\ knownPrefixes' = With(knownPrefixes, p, cursor)
<1>1. CASE UNCHANGED <<infos, knownPrefixes>>
  BY <1>1 DEF NamespaceInv
<1>2. CASE /\ infos' = [infos EXCEPT ![cursor].prefix = p]
           /\ knownPrefixes' = With(knownPrefixes, p, cursor)
           /\ p # NoPrefix /\ p \notin DOMAIN knownPrefixes
  <2>1. \A i \in DOMAIN infos : infos[i] = [ns |-> infos[i].ns, prefix |-> infos[i].prefix, schemas |-> infos[i].schemas]
    BY DEF NamespaceInv, InfoRecord
  <2>2. infos'[cursor] = [infos[cursor] EXCEPT !.prefix = p]
    BY <1>2
  <2>3. infos'[cursor] = [ns |-> infos[cursor].ns, prefix |-> p, schemas |-> infos[cursor].schemas]
    BY <2>1, <2>2
  <2>4. \A i \in DOMAIN infos : i # cursor => infos'[i] = infos[i]
    BY <1>2
  <2>5. DOMAIN infos' = DOMAIN infos
    BY <1>2
  <2>6. InfoRecord(infos'[cursor])
    BY <2>3 DEF InfoRecord
  <2>7. \A i \in DOMAIN infos : InfoRecord(infos[i])
    BY DEF NamespaceInv
  <2> QED
    BY <1>2, <2>3, <2>4, <2>5, <2>6, <2>7
<1> QED
  BY <1>1, <1>2 DEF Take

\* A prefix is offered to a namespace in the main pass, or as one of the alternatives.
LEMMA Offered ==
  ASSUME AltInv, NEW p, \/ MainPrefix /\ Wanting /\ p = Candidates.prefix
                        \/ AlternativePrefix(p)
  PROVE  /\ Take(p) /\ cursor \in DOMAIN infos /\ stage' = stage /\ stage \in {"main", "alt"}
         /\ UNCHANGED <<known, prefixCache, schemas>>
         /\ \/ p = prefixCache[infos[cursor].ns].prefix
            \/ p \in prefixCache[infos[cursor].ns].alts
  BY DEF AltInv, MainPrefix, Wanting, AlternativePrefix, Candidates

\* What a step does to the namespaces: one is entered with the entry the builder has come
\* to, a prefix is offered to one, or they stay as they are.
LEMMA InfoSteps ==
  ASSUME AltInv, [BuilderNext]_builderVars
  PROVE  \/ AddNamespace \/ AddSchema
         \/ \E p : \/ MainPrefix /\ Wanting /\ p = Candidates.prefix
                 \/ AlternativePrefix(p)
         \/ UNCHANGED <<known, infos>>
  BY StepKinds DEF builderVars, builder, Build, BuildIdCache, BuildPrefixCache, EntriesDone,
         MainPrefix, MainDone, NextAlternatives, AlternativesDone, GeneratePrefix, Built

\* The namespace of an entry is entered with an info of its own.
LEMMA Entered ==
  ASSUME NamespaceInv, AddNamespace \/ AddSchema
  PROVE  LET ns == entries[cursor].ns
         IN  \E r : /\ InfoRecord(r) /\ r.ns = ns /\ r.prefix = Info(ns).prefix
                    /\ known' = With(known, ns, NamespaceId(ns))
                    /\ infos' = With(infos, NamespaceId(ns), r)
<1> DEFINE ns == entries[cursor].ns
<1>1. InfoRecord(Info(ns)) /\ Info(ns).ns = ns
  BY InfoFound
<1>2. CASE AddNamespace
  BY <1>1, <1>2 DEF AddNamespace
<1>3. CASE AddSchema
  <2> DEFINE r == [Info(ns) EXCEPT !.schemas = Append(@, idCache[entries[cursor].id])]
  <2>1. Info(ns) = [ns |-> Info(ns).ns, prefix |-> Info(ns).prefix, schemas |-> Info(ns).schemas]
    BY <1>1 DEF InfoRecord
  <2>2. r = [ns |-> Info(ns).ns, prefix |-> Info(ns).prefix,
             schemas |-> Append(Info(ns).schemas, idCache[entries[cursor].id])]
    BY <2>1
  <2>3. InfoRecord(r) /\ r.ns = ns /\ r.prefix = Info(ns).prefix
    BY <1>1, <2>2 DEF InfoRecord
  <2>4. known' = With(known, ns, NamespaceId(ns)) /\ infos' = With(infos, NamespaceId(ns), r)
    BY <1>3 DEF AddSchema
  <2> QED
    BY <2>3, <2>4
<1> QED
  BY <1>2, <1>3

LEMMA NamespaceInit == BuilderInit => NamespaceInv /\ AltInv
<1>1. IsFiniteSet({})
  BY FS_EmptySet
<1> QED
  BY <1>1 DEF BuilderInit, NamespaceInv, AltInv, Empty

LEMMA NamespaceStep ==
  ASSUME NamespaceInv, AltInv, [BuilderNext]_builderVars
  PROVE  NamespaceInv'
<1>1. CASE AddNamespace \/ AddSchema
  BY <1>1, Entered, NamespaceEntered
<1>2. ASSUME NEW p, \/ MainPrefix /\ Wanting /\ p = Candidates.prefix
                    \/ AlternativePrefix(p)
      PROVE  NamespaceInv'
  <2>1. Take(p) /\ cursor \in DOMAIN infos /\ known' = known
    BY <1>2, Offered
  <2>2. /\ DOMAIN infos' = DOMAIN infos
        /\ \A i \in DOMAIN infos : InfoRecord(infos'[i]) /\ infos'[i].ns = infos[i].ns
    BY <2>1, Taken
  <2>3. \A ns \in DOMAIN known : known[ns] \in DOMAIN infos
    BY DEF NamespaceInv
  <2>4. Others' = Others
    BY <2>1 DEF Others
  <2>5. \A i \in DOMAIN infos' : InfoRecord(infos'[i])
    BY <2>2
  <2> QED
    BY <2>1, <2>2, <2>3, <2>4, <2>5 DEF NamespaceInv
<1>3. CASE UNCHANGED <<known, infos>>
  <2>1. Others' = Others
    BY <1>3 DEF Others
  <2> QED
    BY <1>3, <2>1 DEF NamespaceInv
<1> QED
  BY <1>1, <1>2, <1>3, InfoSteps

LEMMA AltStep ==
  ASSUME NamespaceInv, AltInv, [BuilderNext]_builderVars
  PROVE  AltInv'
<1>1. CASE NextAlternatives
  BY <1>1 DEF NextAlternatives, Wanting, AltInv, Candidates
<1>2. ASSUME NEW p, AlternativePrefix(p) PROVE AltInv'
  <2>1. /\ DOMAIN infos' = DOMAIN infos
        /\ \A i \in DOMAIN infos : infos'[i].ns = infos[i].ns
        /\ prefixCache' = prefixCache /\ cursor \in DOMAIN infos
    BY <1>2, Offered, Taken
  <2> QED
    BY <1>2, <2>1 DEF AltInv, AlternativePrefix, Candidates
<1>3. CASE stage' # "alt"
  BY <1>3 DEF AltInv
<1>4. CASE UNCHANGED builder
  BY <1>4 DEF AltInv, Candidates, builder
<1>5. NextAlternatives \/ (\E p : AlternativePrefix(p)) \/ stage' # "alt" \/ UNCHANGED builder
  BY StepKinds DEF builderVars, builder, Build, BuildIdCache, BuildPrefixCache, AddNamespace, AddSchema, EntriesDone,
         MainPrefix, MainDone, AlternativesDone, GeneratePrefix, Built
<1> QED
  BY <1>1, <1>2, <1>3, <1>4, <1>5

-----------------------------------------------------------------------------
(* Prefixes are distinct.                                                  *)

\* A namespace that found a prefix found it where the schemas declared it.
Given(i) == \/ infos[i].prefix = prefixCache[infos[i].ns].prefix
            \/ infos[i].prefix \in prefixCache[infos[i].ns].alts

Before == {"ids", "prefixes", "entries", "panic"}
Passes == {"main", "next", "alt"}

\* Before the passes no namespace has a prefix.
NoneGiven == stage \in Before => \A i \in DOMAIN infos : infos[i].prefix = NoPrefix

\* In the passes the table of known prefixes leads back to the namespace that has one.
\* After them, when the generated prefixes are entered, the table may be overwritten.
TableLeadsBack ==
  stage \in Passes =>
    \A i \in DOMAIN infos : infos[i].prefix # NoPrefix =>
      infos[i].prefix \in DOMAIN knownPrefixes /\ knownPrefixes[infos[i].prefix] = i

AllGiven == stage \notin Before => \A i \in DOMAIN infos : infos[i].prefix # NoPrefix => Given(i)

AllDistinct ==
  \A i, j \in DOMAIN infos : infos[i].prefix # NoPrefix /\ infos[i].prefix = infos[j].prefix => i = j

PrefixInv == NoneGiven /\ TableLeadsBack /\ AllGiven /\ AllDistinct

LEMMA PrefixesAreDistinct == ASSUME PrefixInv PROVE PrefixesDistinct
  BY DEF PrefixInv, NoneGiven, AllGiven, Given, AllDistinct, PrefixesDistinct

LEMMA PrefixInit == BuilderInit => PrefixInv
  BY DEF BuilderInit, Empty, PrefixInv, NoneGiven, TableLeadsBack, AllGiven, AllDistinct

\* A namespace that is entered has no prefix, and takes none away.
LEMMA EnteredWithout ==
  ASSUME NamespaceInv, NoneGiven, AddNamespace \/ AddSchema
  PROVE  PrefixInv'
<1> DEFINE ns == entries[cursor].ns
<1>1. PICK r : /\ InfoRecord(r) /\ r.ns = ns /\ r.prefix = Info(ns).prefix
               /\ known' = With(known, ns, NamespaceId(ns))
               /\ infos' = With(infos, NamespaceId(ns), r)
  BY Entered
<1>2. stage \in Before /\ stage' \in Before
  BY DEF AddNamespace, AddSchema, Before
<1>3. \A i \in DOMAIN infos : infos[i].prefix = NoPrefix
  BY <1>2 DEF NoneGiven
<1>4. Info(ns).prefix = NoPrefix
  BY <1>3 DEF Info, NamespaceInv
<1>5. \A i \in DOMAIN infos' : infos'[i].prefix = NoPrefix
  BY <1>1, <1>3, <1>4 DEF With
<1> QED
  BY <1>2, <1>5 DEF PrefixInv, NoneGiven, TableLeadsBack, AllGiven, AllDistinct, Before, Passes

\* A prefix that is taken was free, so no other namespace has it.
LEMMA TakenDistinct ==
  ASSUME NamespaceInv, AltInv, PrefixInv,
         NEW p, \/ MainPrefix /\ Wanting /\ p = Candidates.prefix
                \/ AlternativePrefix(p)
  PROVE  PrefixInv'
<1>1. /\ Take(p) /\ cursor \in DOMAIN infos /\ stage' = stage /\ stage \in {"main", "alt"}
      /\ prefixCache' = prefixCache
      /\ \/ p = prefixCache[infos[cursor].ns].prefix
         \/ p \in prefixCache[infos[cursor].ns].alts
  BY Offered
<1>2. /\ DOMAIN infos' = DOMAIN infos
      /\ \A i \in DOMAIN infos :
           infos'[i].ns = infos[i].ns /\ (i # cursor => infos'[i] = infos[i])
      /\ \/ UNCHANGED <<infos, knownPrefixes>>
         \/ /\ p # NoPrefix /\ p \notin DOMAIN knownPrefixes /\ infos'[cursor].prefix = p
            /\ knownPrefixes' = With(knownPrefixes, p, cursor)
  BY <1>1, Taken
<1>3. \A i \in DOMAIN infos : infos[i].prefix # NoPrefix =>
        /\ infos[i].prefix \in DOMAIN knownPrefixes /\ knownPrefixes[infos[i].prefix] = i
        /\ Given(i)
  BY <1>1 DEF PrefixInv, TableLeadsBack, AllGiven, Before, Passes
<1>4. CASE UNCHANGED <<infos, knownPrefixes>>
  BY <1>1, <1>4 DEF PrefixInv, NoneGiven, TableLeadsBack, AllGiven, Given, AllDistinct
<1>5. CASE /\ p # NoPrefix /\ p \notin DOMAIN knownPrefixes /\ infos'[cursor].prefix = p
           /\ knownPrefixes' = With(knownPrefixes, p, cursor)
  <2>1. /\ DOMAIN knownPrefixes' = DOMAIN knownPrefixes \cup {p} /\ knownPrefixes'[p] = cursor
        /\ \A q \in DOMAIN knownPrefixes : knownPrefixes'[q] = knownPrefixes[q]
    BY <1>5 DEF With
  <2>2. TableLeadsBack'
    BY <1>1, <1>2, <1>3, <1>5, <2>1 DEF TableLeadsBack
  <2>3. AllGiven'
    BY <1>1, <1>2, <1>3, <1>5 DEF AllGiven, Given
  <2>4. AllDistinct'
    BY <1>2, <1>3, <1>5 DEF AllDistinct
  <2>5. NoneGiven'
    BY <1>1 DEF NoneGiven, Before
  <2> QED
    BY <2>2, <2>3, <2>4, <2>5 DEF PrefixInv
<1> QED
  BY <1>2, <1>4, <1>5

\* What the other steps do to the prefixes: nothing, or a pass begins or ends, or the last
\* pass enters a generated prefix into the table.
LEMMA OtherPrefixSteps ==
  ASSUME [BuilderNext]_builderVars, UNCHANGED infos
  PROVE  \/ UNCHANGED <<stage, prefixCache, knownPrefixes>>
         \/ stage \in Before /\ stage' \in Before \cup {"main"}
         \/ /\ stage \notin Before /\ stage' \notin Before /\ UNCHANGED <<prefixCache, knownPrefixes>>
            /\ stage \in Passes \/ stage' \notin Passes
         \/ stage = "generate" /\ stage' = stage /\ prefixCache' = prefixCache
         \/ \E p : \/ MainPrefix /\ Wanting /\ p = Candidates.prefix
                 \/ AlternativePrefix(p)
  BY StepKinds DEF builderVars, builder, Build, BuildIdCache, BuildPrefixCache, AddNamespace, AddSchema, EntriesDone,
         MainPrefix, MainDone, NextAlternatives, AlternativesDone, GeneratePrefix, Built, Before, Passes

LEMMA PrefixStep ==
  ASSUME NamespaceInv, AltInv, PrefixInv, [BuilderNext]_builderVars
  PROVE  PrefixInv'
<1>1. CASE AddNamespace \/ AddSchema
  BY <1>1, EnteredWithout DEF PrefixInv
<1>2. ASSUME NEW p, \/ MainPrefix /\ Wanting /\ p = Candidates.prefix
                    \/ AlternativePrefix(p)
      PROVE  PrefixInv'
  BY <1>2, TakenDistinct
<1>3. CASE UNCHANGED <<infos, stage, prefixCache, knownPrefixes>>
  BY <1>3 DEF PrefixInv, NoneGiven, TableLeadsBack, AllGiven, Given, AllDistinct
<1>4. CASE UNCHANGED infos /\ stage \in Before /\ stage' \in Before \cup {"main"}
  BY <1>4 DEF PrefixInv, NoneGiven, TableLeadsBack, AllGiven, AllDistinct, Before, Passes
<1>5. CASE stage \notin Before /\ stage' \notin Before /\ UNCHANGED <<infos, prefixCache, knownPrefixes>>
           /\ (stage \in Passes \/ stage' \notin Passes)
  BY <1>5 DEF PrefixInv, NoneGiven, TableLeadsBack, AllGiven, Given, AllDistinct
<1>6. CASE stage = "generate" /\ UNCHANGED <<stage, infos, prefixCache>>
  BY <1>6 DEF PrefixInv, NoneGiven, TableLeadsBack, AllGiven, Given, AllDistinct, Before, Passes
<1> QED
  BY <1>1, <1>2, <1>3, <1>4, <1>5, <1>6, InfoSteps, OtherPrefixSteps

-----------------------------------------------------------------------------
(* From temporary ids to schema ids.                                       *)

\* What is known of the parser, and that it is idle once it has finished.
ParserInv ==
  /\ TypeOK /\ LoadedOnce /\ IdsAccounted /\ DependenciesFollowed
  /\ phase = "finished" => pending = <<>>

LEMMA ParserInit == BuilderInit => ParserInv
  BY TypeInit, LoadedOnceInit, IdsInit, DependenciesInit DEF BuilderInit, ParserInv, Init

LEMMA ParserInvStep ==
  ASSUME ~ LateResolver, ParserInv, [BuilderNext]_builderVars
  PROVE  ParserInv'
<1>1. [Next]_vars
  BY ParserStep
<1>2. (phase = "finished" => pending = <<>>)'
  BY <1>1 DEF ParserInv, Next, Configure, Add, Resolve, WithAnonymousNamespace, WithNamespace,
         WithResolver, SetFlag, AddFromStr, AddFromStrError, AddFromUrl, ResolveHit, ResolveLoad,
         ResolveError, Finish, Terminated, Idle, Busy, vars
<1>3. TypeOK'
  BY <1>1, TypeStep DEF ParserInv
<1>4. LoadedOnce' /\ IdsAccounted' /\ DependenciesFollowed'
  BY <1>1, LoadedOnceStep, IdsStep, DependenciesStep DEF ParserInv
<1> QED
  BY <1>2, <1>3, <1>4 DEF ParserInv

\* Once the builder has begun the parser is at rest.
Frozen == stage # "ids" => phase = "finished"

LEMMA FrozenStep ==
  ASSUME Frozen, [BuilderNext]_builderVars
  PROVE  Frozen' /\ (stage # "ids" => UNCHANGED vars)
<1>1. CASE Build
  <2>1. UNCHANGED vars
    BY <1>1, BuildKeepsParser
  <2>2. stage = "ids" => BuildIdCache
    BY <1>1 DEF Build, BuildPrefixCache, AddNamespace, AddSchema, EntriesDone, MainPrefix,
         MainDone, NextAlternatives, AlternativePrefix, AlternativesDone, GeneratePrefix, Built
  <2> QED
    BY <2>1, <2>2 DEF Frozen, BuildIdCache, vars
<1>2. CASE Load /\ UNCHANGED builder
  <2>1. Load => phase = "open"
    BY DEF Load, Configure, Add, Resolve, WithAnonymousNamespace, WithNamespace,
         WithResolver, SetFlag, AddFromStr, AddFromStrError, AddFromUrl, ResolveHit, ResolveLoad,
         ResolveError, Finish, Idle, Busy
  <2> QED
    BY <1>2, <2>1 DEF Frozen, builder
<1>3. CASE UNCHANGED builderVars
  BY <1>3 DEF Frozen, builderVars, builder, vars
<1> QED
  BY <1>1, <1>2, <1>3, StepKinds

\* No two schemas share a temporary id: the ids of a location belong to the one schema
\* that was loaded from it, those of texts to nobody else.
LEMMA IdsDisjoint ==
  ASSUME LoadedOnce, IdsAccounted, phase # "failed",
         NEW i \in SchemaEntries, NEW j \in SchemaEntries,
         NEW t, t \in IdsOf(i), t \in IdsOf(j)
  PROVE  i = j
<1>1. /\ TextIds \cap CachedIds = {}
      /\ \A x, y \in SchemaEntries : entries[x].id = entries[y].id => x = y
      /\ \A k, l \in DOMAIN cache : cache[k] \cap cache[l] # {} => k = l
  BY DEF IdsAccounted
<1>2. /\ DOMAIN cache = {entries[x].loc : x \in SchemaEntries} \ {NoLoc}
      /\ \A x \in SchemaEntries : entries[x].loc # NoLoc => entries[x].id \in cache[entries[x].loc]
      /\ \A x, y \in SchemaEntries : entries[x].loc = entries[y].loc /\ entries[x].loc # NoLoc => x = y
  BY DEF LoadedOnce
<1>3. ASSUME NEW x \in SchemaEntries, t \in IdsOf(x), entries[x].loc # NoLoc
      PROVE  entries[x].loc \in DOMAIN cache /\ t \in cache[entries[x].loc] /\ t \in CachedIds
  BY <1>2, <1>3 DEF IdsOf, CachedIds
<1>4. ASSUME NEW x \in SchemaEntries, t \in IdsOf(x), entries[x].loc = NoLoc
      PROVE  t = entries[x].id /\ t \in TextIds
  BY <1>2, <1>4 DEF IdsOf, TextIds
<1>5. CASE entries[i].loc # NoLoc /\ entries[j].loc # NoLoc
  BY <1>1, <1>2, <1>3, <1>5
<1>6. CASE entries[i].loc = NoLoc /\ entries[j].loc = NoLoc
  BY <1>1, <1>4, <1>6
<1>7. (entries[i].loc = NoLoc) <=> (entries[j].loc = NoLoc)
  BY <1>1, <1>3, <1>4
<1> QED
  BY <1>5, <1>6, <1>7

\* The entries are a finite sequence.
LEMMA EntriesFinite ==
  ASSUME TypeOK
  PROVE  /\ Len(entries) \in Nat /\ DOMAIN entries = 1 .. Len(entries)
         /\ SchemaEntries \subseteq 1 .. Len(entries) /\ IsFiniteSet(SchemaEntries)
<1>1. Len(entries) \in Nat /\ DOMAIN entries = 1 .. Len(entries)
  BY DEF TypeOK
<1>2. SchemaEntries \subseteq 1 .. Len(entries)
  BY <1>1 DEF SchemaEntries
<1>3. IsFiniteSet(1 .. Len(entries))
  BY <1>1, FS_Interval
<1>4. IsFiniteSet(SchemaEntries)
  BY <1>2, <1>3, FS_Subset
<1> QED
  BY <1>1, <1>2, <1>4

\* Schemas are numbered in the order of their entries, each with a number of its own.
LEMMA SchemaIdDistinct ==
  ASSUME TypeOK, NEW i \in SchemaEntries, NEW j \in SchemaEntries, SchemaId(i) = SchemaId(j)
  PROVE  i = j
<1>1. IsFiniteSet(SchemaEntries) /\ SchemaEntries \subseteq Int
  BY EntriesFinite
<1>2. ASSUME NEW x \in SchemaEntries, NEW y \in SchemaEntries, x < y
      PROVE  SchemaId(x) # SchemaId(y)
  <2> DEFINE S(z) == {k \in SchemaEntries : k <= z}
  <2>1. IsFiniteSet(S(y)) /\ S(x) \subseteq S(y) /\ y \in S(y) /\ y \notin S(x)
    <3>1. IsFiniteSet(S(y))
      BY <1>1, FS_Subset
    <3>2. \A k \in SchemaEntries : k <= x => k <= y
      BY <1>1, <1>2
    <3>3. y <= y /\ ~ (y <= x)
      BY <1>1, <1>2
    <3> QED
      BY <3>1, <3>2, <3>3
  <2>2. Cardinality(S(x)) # Cardinality(S(y))
    <3> HIDE DEF S
    <3>1. S(x) \in SUBSET S(y) /\ S(x) # S(y)
      BY <2>1
    <3> QED
      BY <2>1, <3>1, FS_Subset
  <2> QED
    BY <2>2 DEF SchemaId
<1> QED
  BY <1>1, <1>2

LEMMA SchemaIdTyped ==
  ASSUME TypeOK, NEW i
  PROVE  SchemaId(i) \in Nat
<1>1. IsFiniteSet({j \in SchemaEntries : j <= i})
  BY EntriesFinite, FS_Subset
<1> QED
  BY <1>1, FS_CardinalityType DEF SchemaId

\* Every temporary id of a schema is translated to the id of this schema.
IdsTranslated ==
  stage # "ids" =>
    \A i \in SchemaEntries : \A t \in IdsOf(i) : t \in DOMAIN idCache /\ idCache[t] = SchemaId(i)

LEMMA TranslationStep ==
  ASSUME ParserInv, Frozen, IdsTranslated, [BuilderNext]_builderVars
  PROVE  IdsTranslated'
<1>1. CASE BuildIdCache
  <2>1. /\ UNCHANGED vars /\ phase # "failed"
        /\ idCache' = [t \in UNION {IdsOf(i) : i \in SchemaEntries} |->
                   SchemaId(CHOOSE i \in SchemaEntries :
                     /\ t \in IdsOf(i)
                     /\ \A j \in SchemaEntries : t \in IdsOf(j) => j <= i)]
    BY <1>1 DEF BuildIdCache
  <2>2. SchemaEntries' = SchemaEntries /\ \A i : IdsOf(i)' = IdsOf(i) /\ SchemaId(i)' = SchemaId(i)
    BY <2>1 DEF vars, SchemaEntries, IdsOf, SchemaId
  <2>3. ASSUME NEW i \in SchemaEntries, NEW t \in IdsOf(i)
        PROVE  t \in DOMAIN idCache' /\ idCache'[t] = SchemaId(i)
    <3> DEFINE Last(x) == x \in SchemaEntries /\ t \in IdsOf(x) /\ \A j \in SchemaEntries : t \in IdsOf(j) => j <= x
    <3>1. \A j \in SchemaEntries : t \in IdsOf(j) => j = i
      BY <2>1, IdsDisjoint DEF ParserInv
    <3>2. i <= i
      BY EntriesFinite DEF ParserInv
    <3>3. (CHOOSE x \in SchemaEntries : t \in IdsOf(x) /\ \A j \in SchemaEntries : t \in IdsOf(j) => j <= x) = i
      BY <3>1, <3>2
    <3>4. t \in UNION {IdsOf(x) : x \in SchemaEntries}
      OBVIOUS
    <3> QED
      BY <2>1, <3>3, <3>4
  <2> QED
    BY <2>2, <2>3 DEF IdsTranslated
<1>2. CASE stage # "ids" /\ idCache' = idCache
  <2>1. UNCHANGED vars
    BY <1>2, FrozenStep
  <2>2. SchemaEntries' = SchemaEntries /\ \A i : IdsOf(i)' = IdsOf(i) /\ SchemaId(i)' = SchemaId(i)
    BY <2>1 DEF vars, SchemaEntries, IdsOf, SchemaId
  <2> QED
    BY <1>2, <2>2 DEF IdsTranslated
<1>3. CASE stage' = "ids"
  BY <1>3 DEF IdsTranslated
<1>4. BuildIdCache \/ (stage # "ids" /\ idCache' = idCache) \/ stage' = "ids"
  BY StepKinds DEF builderVars, builder, Build, BuildPrefixCache, AddNamespace, AddSchema, EntriesDone,
         MainPrefix, MainDone, NextAlternatives, AlternativePrefix, AlternativesDone, GeneratePrefix, Built
<1> QED
  BY <1>1, <1>2, <1>3, <1>4

-----------------------------------------------------------------------------
(* Schemas.                                                                *)

\* The entries of schemas the builder has passed.
Processed ==
  IF stage \in {"ids", "prefixes"} THEN {}
  ELSE IF stage = "entries" THEN {i \in SchemaEntries : i < cursor} ELSE SchemaEntries

\* The schema of an entry is there, with its location, its dependencies and its namespace.
Arrived(i) ==
  LET s == schemas[SchemaId(i)]
  IN  /\ s.loc = entries[i].loc
      /\ s.deps = Translated(entries[i].deps)
      /\ s.ns \in DOMAIN infos /\ infos[s.ns].ns = entries[i].ns

\* A namespace lists the schemas that have it, and none of them twice.
Lists(n) ==
  LET list == infos[n].schemas
  IN  /\ list \in Seq(Nat)
      /\ \A k, l \in DOMAIN list : list[k] = list[l] => k = l
      /\ {list[k] : k \in DOMAIN list} = {s \in DOMAIN schemas : schemas[s].ns = n}

SchemasInv ==
  /\ stage # "panic"
  /\ stage = "entries" => cursor \in Nat \ {0}
  /\ DOMAIN schemas = {SchemaId(i) : i \in Processed}
  /\ \A i \in Processed : Arrived(i)
  /\ \A n \in DOMAIN infos : Lists(n)

LEMMA SchemasInit == BuilderInit => SchemasInv
  BY DEF BuilderInit, Empty, SchemasInv, Processed

\* A step that adds no schema and leaves the lists of the namespaces as they are.
LEMMA SchemasKept ==
  ASSUME SchemasInv, stage' # "panic", stage' = "entries" => cursor' \in Nat \ {0},
         Processed' = Processed, Processed = {} \/ UNCHANGED <<entries, idCache>>,
         schemas' = schemas, DOMAIN infos \subseteq DOMAIN infos',
         \A n \in DOMAIN infos : infos'[n].ns = infos[n].ns /\ infos'[n].schemas = infos[n].schemas,
         \A n \in DOMAIN infos' : n \notin DOMAIN infos => infos'[n].schemas = <<>>
  PROVE  SchemasInv'
<1>1. \A i \in Processed : SchemaId(i)' = SchemaId(i) /\ Arrived(i)'
  <2>1. SUFFICES ASSUME UNCHANGED <<entries, idCache>>, NEW i \in Processed
                 PROVE  SchemaId(i)' = SchemaId(i) /\ Arrived(i)'
    OBVIOUS
  <2>2. SchemaId(i)' = SchemaId(i) /\ Translated(entries[i].deps)' = Translated(entries[i].deps)
    BY <2>1 DEF SchemaId, SchemaEntries, Translated
  <2>3. Arrived(i)
    BY DEF SchemasInv
  <2> QED
    BY <2>1, <2>2, <2>3 DEF Arrived
<1>2. DOMAIN schemas' = {SchemaId(i)' : i \in Processed'}
  BY <1>1 DEF SchemasInv
<1>3. ASSUME NEW n \in DOMAIN infos' PROVE Lists(n)'
  <2>1. CASE n \in DOMAIN infos
    <3>1. Lists(n) /\ infos'[n].schemas = infos[n].schemas
      BY <2>1 DEF SchemasInv
    <3> QED
      BY <3>1 DEF Lists
  <2>2. CASE n \notin DOMAIN infos
    <3>1. infos'[n].schemas = <<>>
      BY <2>2
    <3>2. \A s \in DOMAIN schemas : schemas[s].ns \in DOMAIN infos
      BY DEF SchemasInv, Arrived
    <3> QED
      BY <2>2, <3>1, <3>2 DEF Lists
  <2> QED
    BY <2>1, <2>2
<1> QED
  BY <1>1, <1>2, <1>3 DEF SchemasInv

\* The schema of the entry the builder has come to is new.
LEMMA SchemaIsNew ==
  ASSUME ParserInv, IdsTranslated, SchemasInv, AddSchema
  PROVE  /\ cursor \in SchemaEntries /\ cursor \notin Processed
         /\ SchemaEntries' = SchemaEntries
         /\ idCache[entries[cursor].id] = SchemaId(cursor)
         /\ SchemaId(cursor) \notin DOMAIN schemas
         /\ stage' = "entries" => Processed' = Processed \cup {cursor}
<1>1. /\ cursor \in Nat \ {0} /\ cursor <= Len(entries) /\ stage = "entries"
      /\ cursor' = cursor + 1 /\ entries' = entries /\ entries[cursor].kind = "schema"
  BY DEF SchemasInv, AddSchema, vars
<1>2. /\ Len(entries) \in Nat /\ DOMAIN entries = 1 .. Len(entries)
      /\ SchemaEntries \subseteq 1 .. Len(entries) /\ TypeOK
  BY EntriesFinite DEF ParserInv
<1>3. cursor \in SchemaEntries /\ SchemaEntries' = SchemaEntries
  BY <1>1, <1>2 DEF SchemaEntries
<1>4. Processed = {i \in SchemaEntries : i < cursor}
  BY <1>1 DEF Processed
<1>5. cursor \notin Processed
  BY <1>1, <1>4
<1>6. stage' = "entries" => Processed' = Processed \cup {cursor}
  <2>1. \A i \in SchemaEntries : i < cursor + 1 <=> i < cursor \/ i = cursor
    BY <1>1, <1>2
  <2> QED
    BY <1>1, <1>3, <1>4, <2>1 DEF Processed
<1>7. idCache[entries[cursor].id] = SchemaId(cursor)
  <2>1. entries[cursor].id \in IdsOf(cursor)
    BY DEF IdsOf
  <2> QED
    BY <1>1, <1>3, <2>1 DEF IdsTranslated
<1>8. SchemaId(cursor) \notin DOMAIN schemas
  <2>1. \A i \in Processed : i \in SchemaEntries /\ i # cursor
    BY <1>4, <1>5
  <2>2. \A i \in Processed : SchemaId(i) # SchemaId(cursor)
    BY <1>2, <1>3, <2>1, SchemaIdDistinct
  <2> QED
    BY <2>2 DEF SchemasInv
<1> QED
  BY <1>3, <1>5, <1>6, <1>7, <1>8

\* What add_schema appends to a list that does not have it.
LEMMA ListAppended ==
  ASSUME NEW list \in Seq(Nat), \A k, l \in DOMAIN list : list[k] = list[l] => k = l,
         NEW s \in Nat, s \notin {list[k] : k \in DOMAIN list}
  PROVE  LET longer == Append(list, s)
         IN  /\ longer \in Seq(Nat)
             /\ \A k, l \in DOMAIN longer : longer[k] = longer[l] => k = l
             /\ {longer[k] : k \in DOMAIN longer} = {list[k] : k \in DOMAIN list} \cup {s}
<1> DEFINE longer == Append(list, s)
<1>1. /\ longer \in Seq(Nat) /\ Len(list) \in Nat
      /\ DOMAIN list = 1 .. Len(list) /\ DOMAIN longer = 1 .. Len(list) + 1
      /\ \A k \in 1 .. Len(list) : longer[k] = list[k]
      /\ longer[Len(list) + 1] = s
  OBVIOUS
<1> HIDE DEF longer
<1>2. \A k \in DOMAIN longer : k \in DOMAIN list \/ k = Len(list) + 1
  BY <1>1
<1>3. \A k, l \in DOMAIN longer : longer[k] = longer[l] => k = l
  BY <1>1, <1>2
<1>4. {longer[k] : k \in DOMAIN longer} = {list[k] : k \in DOMAIN list} \cup {s}
  BY <1>1, <1>2
<1> QED
  BY <1>1, <1>3, <1>4 DEF longer

\* A schema is added to the namespace its entry names.
LEMMA SchemaArrives ==
  ASSUME ParserInv, IdsTranslated, NamespaceInv, SchemasInv, AddSchema
  PROVE  SchemasInv'
<1> DEFINE e  == entries[cursor]
           id == SchemaId(cursor)
           nsId == NamespaceId(e.ns)
           r  == [Info(e.ns) EXCEPT !.schemas = Append(@, id)]
           s  == [loc |-> e.loc, ns |-> nsId, deps |-> Translated(e.deps)]
<1>1. /\ cursor \in SchemaEntries /\ cursor \notin Processed
      /\ idCache[e.id] = id /\ id \notin DOMAIN schemas /\ id \in Nat
      /\ stage' = "entries" => Processed' = Processed \cup {cursor}
  BY SchemaIsNew, SchemaIdTyped DEF ParserInv
<1>2. /\ known' = With(known, e.ns, nsId) /\ infos' = With(infos, nsId, r)
      /\ schemas' = With(schemas, id, s) /\ stage' = stage /\ stage = "entries"
      /\ cursor' = cursor + 1 /\ UNCHANGED <<entries, idCache>>
  BY <1>1 DEF AddSchema, vars
<1>3. InfoRecord(Info(e.ns)) /\ Info(e.ns).ns = e.ns
  BY InfoFound
<1>4. r = [ns |-> e.ns, prefix |-> Info(e.ns).prefix, schemas |-> Append(Info(e.ns).schemas, id)]
  <2>1. Info(e.ns) = [ns |-> e.ns, prefix |-> Info(e.ns).prefix, schemas |-> Info(e.ns).schemas]
    BY <1>3 DEF InfoRecord
  <2> QED
    BY <2>1
<1> HIDE DEF r, s, id, nsId
<1>5. /\ DOMAIN infos' = DOMAIN infos \cup {nsId} /\ infos'[nsId] = r
      /\ \A n \in DOMAIN infos : n # nsId => infos'[n] = infos[n]
  BY <1>2 DEF With
<1>6. /\ DOMAIN schemas' = DOMAIN schemas \cup {id} /\ schemas'[id] = s
      /\ \A t \in DOMAIN schemas : schemas'[t] = schemas[t]
  BY <1>1, <1>2 DEF With
<1>7. /\ s.loc = e.loc /\ s.ns = nsId /\ s.deps = Translated(e.deps)
      /\ r.ns = e.ns /\ r.schemas = Append(Info(e.ns).schemas, id)
  BY <1>4 DEF s
<1>8. /\ e.ns \in DOMAIN known => nsId \in DOMAIN infos /\ infos[nsId] = Info(e.ns)
      /\ e.ns \notin DOMAIN known => nsId \notin DOMAIN infos /\ Info(e.ns).schemas = <<>>
  BY InfoFound DEF nsId, Info
<1>9. \A n \in DOMAIN infos : infos'[n].ns = infos[n].ns
  BY <1>3, <1>5, <1>7, <1>8
<1>10. ASSUME NEW i \in Processed' PROVE Arrived(i)'
  <2>1. SchemaId(i)' = SchemaId(i) /\ Translated(entries[i].deps)' = Translated(entries[i].deps)
    BY <1>2 DEF SchemaId, SchemaEntries, Translated
  <2>2. CASE i \in Processed
    <3>1. Arrived(i) /\ SchemaId(i) \in DOMAIN schemas
      BY <2>2 DEF SchemasInv
    <3> QED
      BY <1>2, <1>5, <1>6, <1>9, <2>1, <3>1 DEF Arrived
  <2>3. CASE i = cursor
    BY <1>2, <1>5, <1>6, <1>7, <2>1, <2>3 DEF Arrived, id
  <2> QED
    BY <1>1, <1>2, <2>2, <2>3
<1>11. DOMAIN schemas' = {SchemaId(i)' : i \in Processed'}
  <2>1. \A i : SchemaId(i)' = SchemaId(i)
    BY <1>2 DEF SchemaId, SchemaEntries
  <2>2. DOMAIN schemas = {SchemaId(i) : i \in Processed}
    BY DEF SchemasInv
  <2> QED
    BY <1>1, <1>2, <1>6, <2>1, <2>2 DEF id
<1>12. ASSUME NEW n \in DOMAIN infos' PROVE Lists(n)'
  <2>1. CASE n # nsId
    <3>1. n \in DOMAIN infos /\ infos'[n] = infos[n] /\ Lists(n)
      BY <1>5, <2>1 DEF SchemasInv
    <3>2. {t \in DOMAIN schemas' : schemas'[t].ns = n} = {t \in DOMAIN schemas : schemas[t].ns = n}
      BY <1>1, <1>6, <1>7, <2>1
    <3> QED
      BY <3>1, <3>2 DEF Lists
  <2>2. CASE n = nsId
    <3> DEFINE list == Info(e.ns).schemas
    <3>1. /\ list \in Seq(Nat)
          /\ \A k, l \in DOMAIN list : list[k] = list[l] => k = l
          /\ {list[k] : k \in DOMAIN list} = {t \in DOMAIN schemas : schemas[t].ns = nsId}
      <4>1. CASE e.ns \in DOMAIN known
        <5>1. Lists(nsId) /\ infos[nsId] = Info(e.ns)
          BY <1>8, <4>1 DEF SchemasInv
        <5> QED
          BY <5>1 DEF Lists
      <4>2. CASE e.ns \notin DOMAIN known
        <5>1. \A t \in DOMAIN schemas : schemas[t].ns \in DOMAIN infos
          BY DEF SchemasInv, Arrived
        <5>2. list = <<>> /\ {t \in DOMAIN schemas : schemas[t].ns = nsId} = {}
          BY <1>8, <4>2, <5>1
        <5> QED
          BY <5>2
      <4> QED
        BY <4>1, <4>2
    <3>2. id \notin {list[k] : k \in DOMAIN list}
      BY <1>1, <3>1 DEF id
    <3>3. infos'[n].schemas = Append(list, id)
      BY <1>5, <1>7, <2>2
    <3> HIDE DEF list
    <3>4. id \in Nat
      BY <1>1
    <3>5. LET longer == Append(list, id)
          IN  /\ longer \in Seq(Nat)
              /\ \A k, l \in DOMAIN longer : longer[k] = longer[l] => k = l
              /\ {longer[k] : k \in DOMAIN longer} = {list[k] : k \in DOMAIN list} \cup {id}
      BY <3>1, <3>2, <3>4, ListAppended
    <3>6. {t \in DOMAIN schemas' : schemas'[t].ns = n} = {t \in DOMAIN schemas : schemas[t].ns = nsId} \cup {id}
      BY <1>1, <1>6, <1>7, <2>2
    <3> PICK longer : longer = Append(list, id)
      OBVIOUS
    <3>7. /\ longer \in Seq(Nat)
          /\ \A k, l \in DOMAIN longer : longer[k] = longer[l] => k = l
          /\ {longer[k] : k \in DOMAIN longer} = {t \in DOMAIN schemas' : schemas'[t].ns = n}
      <4>1. {longer[k] : k \in DOMAIN longer} = {list[k] : k \in DOMAIN list} \cup {id}
        BY <3>5
      <4>2. {longer[k] : k \in DOMAIN longer} = {t \in DOMAIN schemas' : schemas'[t].ns = n}
        BY <3>1, <3>6, <4>1
      <4> QED
        BY <3>5, <4>2
    <3>8. infos'[n].schemas = longer
      BY <3>3
    <3> QED
      BY <3>7, <3>8 DEF Lists
  <2> QED
    BY <2>1, <2>2
<1>13. stage' # "panic" /\ cursor' \in Nat \ {0}
  BY <1>2 DEF SchemasInv
<1> QED
  BY <1>10, <1>11, <1>12, <1>13 DEF SchemasInv

\* The other steps pass no entry of a schema, add none and do not panic.
LEMMA QuietSteps ==
  ASSUME ParserInv, Frozen, SchemasInv, [BuilderNext]_builderVars, ~ AddSchema
  PROVE  /\ stage' # "panic" /\ schemas' = schemas
         /\ stage' = "entries" => cursor' \in Nat \ {0}
         /\ Processed' = Processed
         /\ Processed = {} \/ UNCHANGED <<entries, idCache>>
<1>1. /\ DOMAIN entries = 1 .. Len(entries) /\ Len(entries) \in Nat
      /\ SchemaEntries \subseteq 1 .. Len(entries)
  BY EntriesFinite DEF ParserInv
<1>2. CASE stage \in {"ids", "prefixes"}
  <2>1. /\ stage' \in {"ids", "prefixes", "entries"} /\ schemas' = schemas
        /\ stage' = "entries" => cursor' = 1 /\ stage = "prefixes"
    BY <1>2, StepKinds DEF builderVars, builder, Build, BuildIdCache, BuildPrefixCache, AddNamespace,
         AddSchema, EntriesDone, MainPrefix, MainDone, NextAlternatives, AlternativePrefix,
         AlternativesDone, GeneratePrefix, Built
  <2>2. CASE stage' = "entries"
    <3>1. SchemaEntries' = SchemaEntries
      BY <2>1, <2>2, FrozenStep DEF vars, SchemaEntries
    <3>2. \A i \in SchemaEntries : ~ (i < 1)
      BY <1>1
    <3> QED
      BY <1>2, <2>1, <2>2, <3>1, <3>2 DEF Processed
  <2> QED
    BY <1>2, <2>1, <2>2 DEF Processed
<1>3. CASE stage \notin {"ids", "prefixes"}
  <2>1. UNCHANGED vars /\ SchemaEntries' = SchemaEntries
    BY <1>3, FrozenStep DEF vars, SchemaEntries
  <2>2. schemas' = schemas /\ idCache' = idCache
    BY <1>3, StepKinds DEF builderVars, builder, Build, BuildIdCache, BuildPrefixCache, AddNamespace,
         AddSchema, EntriesDone, MainPrefix, MainDone, NextAlternatives, AlternativePrefix,
         AlternativesDone, GeneratePrefix, Built
  <2>3. CASE AddNamespace
    <3>1. cursor \notin SchemaEntries
      BY <2>3 DEF AddNamespace, SchemaEntries
    <3>2. \A i \in SchemaEntries : i < cursor + 1 <=> i < cursor
      BY <1>1, <2>3, <3>1 DEF SchemasInv, AddNamespace
    <3> QED
      BY <2>1, <2>2, <2>3, <3>2 DEF AddNamespace, Processed, vars, SchemasInv
  <2>4. CASE EntriesDone
    <3>1. \A i \in SchemaEntries : i < cursor
      BY <1>1, <2>4 DEF EntriesDone, SchemasInv
    <3> QED
      BY <2>1, <2>2, <2>4, <3>1 DEF EntriesDone, Processed, vars
  <2>5. \/ AddNamespace \/ EntriesDone \/ UNCHANGED <<stage, cursor>>
        \/ /\ stage \notin {"ids", "prefixes", "entries"}
           /\ stage' \notin {"ids", "prefixes", "entries", "panic"}
    BY <1>3, StepKinds DEF builderVars, builder, Build, BuildIdCache, BuildPrefixCache,
         AddSchema, MainPrefix, MainDone, NextAlternatives, AlternativePrefix,
         AlternativesDone, GeneratePrefix, Built, SchemasInv
  <2>6. CASE UNCHANGED <<stage, cursor>>
    BY <2>1, <2>2, <2>6 DEF Processed, vars, SchemasInv
  <2>7. CASE stage \notin {"ids", "prefixes", "entries"} /\ stage' \notin {"ids", "prefixes", "entries", "panic"}
    BY <2>1, <2>2, <2>7 DEF Processed, vars
  <2> QED
    BY <2>3, <2>4, <2>5, <2>6, <2>7
<1> QED
  BY <1>2, <1>3

LEMMA SchemasStep ==
  ASSUME ParserInv, Frozen, IdsTranslated, NamespaceInv, AltInv, SchemasInv,
         [BuilderNext]_builderVars
  PROVE  SchemasInv'
<1>1. CASE AddSchema
  BY <1>1, SchemaArrives
<1>2. CASE ~ AddSchema
  <2>1. /\ stage' # "panic" /\ schemas' = schemas
        /\ stage' = "entries" => cursor' \in Nat \ {0}
        /\ Processed' = Processed
        /\ Processed = {} \/ UNCHANGED <<entries, idCache>>
    BY <1>2, QuietSteps
  <2>2. /\ DOMAIN infos \subseteq DOMAIN infos'
        /\ \A n \in DOMAIN infos : infos'[n].ns = infos[n].ns /\ infos'[n].schemas = infos[n].schemas
        /\ \A n \in DOMAIN infos' : n \notin DOMAIN infos => infos'[n].schemas = <<>>
    <3>1. CASE AddNamespace
      <4> DEFINE ns == entries[cursor].ns
      <4>1. infos' = With(infos, NamespaceId(ns), Info(ns))
        BY <3>1 DEF AddNamespace
      <4>2. /\ Info(ns).ns = ns
            /\ NamespaceId(ns) \in DOMAIN infos => infos[NamespaceId(ns)] = Info(ns)
            /\ ns \notin DOMAIN known => Info(ns).schemas = <<>>
            /\ ns \in DOMAIN known => NamespaceId(ns) \in DOMAIN infos
        BY InfoFound DEF Info
      <4> HIDE DEF ns
      <4> QED
        BY <4>1, <4>2 DEF With
    <3>2. ASSUME NEW p, \/ MainPrefix /\ Wanting /\ p = Candidates.prefix
                        \/ AlternativePrefix(p)
          PROVE  /\ DOMAIN infos' = DOMAIN infos
                 /\ \A n \in DOMAIN infos : infos'[n].ns = infos[n].ns /\ infos'[n].schemas = infos[n].schemas
      <4>1. Take(p) /\ cursor \in DOMAIN infos
        BY <3>2, Offered
      <4> QED
        BY <4>1, Taken
    <3>3. CASE UNCHANGED infos
      BY <3>3
    <3> QED
      BY <1>2, <3>1, <3>2, <3>3, InfoSteps
  <2> QED
    BY <2>1, <2>2, SchemasKept
<1> QED
  BY <1>1, <1>2

-----------------------------------------------------------------------------
(* What is there in the end.                                               *)

BuilderInv ==
  /\ ParserInv /\ Frozen /\ IdsTranslated
  /\ NamespaceInv /\ AltInv /\ SchemasInv

LEMMA BuilderInvInit == BuilderInit => BuilderInv
<1>1. BuilderInit => Frozen /\ IdsTranslated
  BY DEF BuilderInit, Frozen, IdsTranslated
<1> QED
  BY <1>1, ParserInit, NamespaceInit, SchemasInit DEF BuilderInv

LEMMA BuilderInvStep ==
  ASSUME ~ LateResolver, BuilderInv, [BuilderNext]_builderVars
  PROVE  BuilderInv'
<1>1. ParserInv' /\ Frozen' /\ IdsTranslated'
  BY ParserInvStep, FrozenStep, TranslationStep DEF BuilderInv
<1>2. NamespaceInv' /\ AltInv' /\ SchemasInv'
  BY NamespaceStep, AltStep, SchemasStep DEF BuilderInv
<1> QED
  BY <1>1, <1>2 DEF BuilderInv

\* In the end every schema that was loaded has arrived.
LEMMA AllArrived ==
  ASSUME BuilderInv, stage = "done"
  PROVE  /\ DOMAIN schemas = {SchemaId(i) : i \in SchemaEntries}
         /\ \A i \in SchemaEntries : Arrived(i)
         /\ \A n \in DOMAIN infos : Lists(n)
  BY DEF BuilderInv, SchemasInv, Processed

LEMMA ResolvedInTheEnd == ASSUME BuilderInv PROVE DependenciesResolve
<1> SUFFICES ASSUME stage = "done", NEW i \in SchemaEntries
             PROVE  LET deps == schemas[SchemaId(i)].deps
                    IN  /\ DOMAIN deps = DOMAIN entries[i].deps
                        /\ \A n \in DOMAIN deps :
                             /\ deps[n].id \in DOMAIN schemas
                             /\ schemas[deps[n].id].loc = Resolved[n, entries[i].loc]
  BY DEF DependenciesResolve
<1> DEFINE old == entries[i].deps
           new == schemas[SchemaId(i)].deps
<1>1. new = Translated(old)
  BY AllArrived DEF Arrived
<1>2. ASSUME NEW n \in DOMAIN old
      PROVE  \E j \in SchemaEntries : /\ old[n].id \in IdsOf(j)
                                      /\ entries[j].loc = Resolved[n, entries[i].loc]
  <2>1. phase = "finished" /\ pending = <<>> /\ LoadedOnce /\ DependenciesFollowed
    BY DEF BuilderInv, Frozen, ParserInv
  <2>2. Loaded(old[n].id, n, entries[i].loc)
    BY <2>1 DEF DependenciesFollowed, Queued
  <2>3. Resolved[n, entries[i].loc] \in DOMAIN cache /\ old[n].id \in cache[Resolved[n, entries[i].loc]]
    BY <2>2 DEF Loaded, Location
  <2>4. PICK j \in SchemaEntries : entries[j].loc = Resolved[n, entries[i].loc]
    BY <2>1, <2>3 DEF LoadedOnce
  <2> QED
    BY <2>3, <2>4 DEF IdsOf
<1>3. ASSUME NEW n \in DOMAIN old
      PROVE  \E j \in SchemaEntries : /\ old[n].id \in DOMAIN idCache
                                      /\ idCache[old[n].id] = SchemaId(j)
                                      /\ entries[j].loc = Resolved[n, entries[i].loc]
  <2>1. PICK j \in SchemaEntries : /\ old[n].id \in IdsOf(j)
                                   /\ entries[j].loc = Resolved[n, entries[i].loc]
    BY <1>2
  <2> QED
    BY <2>1 DEF BuilderInv, IdsTranslated
<1>4. \A n \in DOMAIN old : old[n] \in Dependency
  <2>1. IsEntry(entries[i]) /\ entries[i].kind = "schema"
    BY DEF BuilderInv, ParserInv, TypeOK, SchemaEntries
  <2> QED
    BY <2>1 DEF IsEntry
<1> HIDE DEF old, new
<1>5. DOMAIN new = DOMAIN old
  BY <1>1, <1>3 DEF Translated
<1>6. ASSUME NEW n \in DOMAIN new
      PROVE  new[n].id \in DOMAIN schemas /\ schemas[new[n].id].loc = Resolved[n, entries[i].loc]
  <2>1. PICK j \in SchemaEntries : /\ old[n].id \in DOMAIN idCache
                                   /\ idCache[old[n].id] = SchemaId(j)
                                   /\ entries[j].loc = Resolved[n, entries[i].loc]
    BY <1>3, <1>5
  <2>2. new[n] = [old[n] EXCEPT !.id = idCache[old[n].id]]
    BY <1>1, <1>5, <2>1 DEF Translated
  <2>3. new[n].id = SchemaId(j)
    BY <1>4, <1>5, <2>1, <2>2 DEF Dependency
  <2>4. SchemaId(j) \in DOMAIN schemas /\ schemas[SchemaId(j)].loc = entries[j].loc
    BY AllArrived DEF Arrived
  <2> QED
    BY <2>1, <2>3, <2>4
<1> QED
  BY <1>5, <1>6 DEF old, new

LEMMA CompleteInTheEnd == ASSUME BuilderInv PROVE SchemasComplete
<1> SUFFICES ASSUME stage = "done"
             PROVE  /\ Cardinality(DOMAIN schemas) = Cardinality(SchemaEntries)
                    /\ {schemas[s].loc : s \in DOMAIN schemas} = {entries[i].loc : i \in SchemaEntries}
                    /\ \A s \in DOMAIN schemas :
                         /\ infos[schemas[s].ns].ns = entries[CHOOSE i \in SchemaEntries : SchemaId(i) = s].ns
                         /\ \A i \in DOMAIN infos :
                              Cardinality({k \in DOMAIN infos[i].schemas : infos[i].schemas[k] = s}) =
                                IF i = schemas[s].ns THEN 1 ELSE 0
  BY DEF SchemasComplete
<1>1. /\ DOMAIN schemas = {SchemaId(i) : i \in SchemaEntries}
      /\ \A i \in SchemaEntries : Arrived(i)
      /\ \A n \in DOMAIN infos : Lists(n)
  BY AllArrived
<1>2. TypeOK
  BY DEF BuilderInv, ParserInv
<1>3. Cardinality(DOMAIN schemas) = Cardinality(SchemaEntries)
  <2> DEFINE f == [i \in SchemaEntries |-> SchemaId(i)]
  <2>1. f \in Bijection(SchemaEntries, DOMAIN schemas)
    BY <1>1, <1>2, SchemaIdDistinct DEF Bijection, Injection, Surjection, IsInjective
  <2>2. IsFiniteSet(SchemaEntries) /\ ExistsBijection(SchemaEntries, DOMAIN schemas)
    BY <1>2, <2>1, EntriesFinite DEF ExistsBijection
  <2> QED
    BY <2>2, FS_Bijection
<1>4. {schemas[s].loc : s \in DOMAIN schemas} = {entries[i].loc : i \in SchemaEntries}
  BY <1>1 DEF Arrived
<1>5. ASSUME NEW s \in DOMAIN schemas
      PROVE  /\ infos[schemas[s].ns].ns = entries[CHOOSE i \in SchemaEntries : SchemaId(i) = s].ns
             /\ \A n \in DOMAIN infos :
                  Cardinality({k \in DOMAIN infos[n].schemas : infos[n].schemas[k] = s}) =
                    IF n = schemas[s].ns THEN 1 ELSE 0
  <2>1. infos[schemas[s].ns].ns = entries[CHOOSE i \in SchemaEntries : SchemaId(i) = s].ns
    BY <1>1 DEF Arrived
  <2>2. ASSUME NEW n \in DOMAIN infos
        PROVE  Cardinality({k \in DOMAIN infos[n].schemas : infos[n].schemas[k] = s}) =
                 IF n = schemas[s].ns THEN 1 ELSE 0
    <3> DEFINE list == infos[n].schemas
               at   == {k \in DOMAIN list : list[k] = s}
    <3>1. /\ \A k, l \in DOMAIN list : list[k] = list[l] => k = l
          /\ {list[k] : k \in DOMAIN list} = {t \in DOMAIN schemas : schemas[t].ns = n}
      BY <1>1 DEF Lists
    <3> HIDE DEF list
    <3>2. CASE n = schemas[s].ns
      <4>1. PICK k \in DOMAIN list : list[k] = s
        BY <3>1, <3>2
      <4>2. at = {k}
        BY <3>1, <4>1
      <4> QED
        BY <3>2, <4>2, FS_Singleton DEF list
    <3>3. CASE n # schemas[s].ns
      <4>1. at = {}
        BY <3>1, <3>3
      <4> QED
        BY <3>3, <4>1, FS_EmptySet DEF list
    <3> QED
      BY <3>2, <3>3
  <2> QED
    BY <2>1, <2>2
<1> QED
  BY <1>3, <1>4, <1>5

-----------------------------------------------------------------------------
(* The theorems.                                                           *)

\* No prefix is handed out twice, whatever the schemas declare for their own namespace
\* and for others, whichever flags are set and in whatever order the alternatives of a
\* namespace are tried; and every prefix that is handed out was declared.
THEOREM PrefixesAlwaysDistinct == BuilderSpec => []PrefixesDistinct
<1> DEFINE Inv == NamespaceInv /\ AltInv /\ PrefixInv
<1>1. BuilderInit => Inv
  BY NamespaceInit, PrefixInit
<1>2. Inv /\ [BuilderNext]_builderVars => Inv'
  BY NamespaceStep, AltStep, PrefixStep
<1>3. Inv => PrefixesDistinct
  BY PrefixesAreDistinct
<1> QED
  BY <1>1, <1>2, <1>3, PTL DEF BuilderSpec

\* The assertion in add_schema never fails: no schema id is used twice, as no two schemas
\* share a temporary id, when the resolver is set before the first schema.
THEOREM AlwaysReachable ==
  ASSUME ~ LateResolver
  PROVE  BuilderSpec => []NeverUnreachable
<1>1. BuilderInv => NeverUnreachable
  BY DEF BuilderInv, SchemasInv, NeverUnreachable
<1>2. BuilderInv /\ [BuilderNext]_builderVars => BuilderInv'
  BY BuilderInvStep
<1> QED
  BY <1>1, <1>2, BuilderInvInit, PTL DEF BuilderSpec

\* Every schema that was loaded is there in the end, once, and listed once, by the
\* namespace it names.
THEOREM SchemasAlwaysComplete ==
  ASSUME ~ LateResolver
  PROVE  BuilderSpec => []SchemasComplete
<1>1. BuilderInv => SchemasComplete
  BY CompleteInTheEnd
<1>2. BuilderInv /\ [BuilderNext]_builderVars => BuilderInv'
  BY BuilderInvStep
<1> QED
  BY <1>1, <1>2, BuilderInvInit, PTL DEF BuilderSpec

\* The interpreter finds what it unwraps: each dependency that was recorded leads to the
\* schema that was loaded from the location its name has, over any chain of documents.
THEOREM DependenciesAlwaysResolve ==
  ASSUME ~ LateResolver
  PROVE  BuilderSpec => []DependenciesResolve
<1>1. BuilderInv => DependenciesResolve
  BY ResolvedInTheEnd
<1>2. BuilderInv /\ [BuilderNext]_builderVars => BuilderInv'
  BY BuilderInvStep
<1> QED
  BY <1>1, <1>2, BuilderInvInit, PTL DEF BuilderSpec
=============================================================================
