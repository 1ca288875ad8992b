--------------------------- MODULE SchemasBuilder ---------------------------
(***************************************************************************)
(* What Parser::finish makes of the entries of the parser (SchemasBuilder  *)
(* in xsd-parser/src/pipeline/parser/mod.rs): the temporary ids become the *)
(* ids of schemas, every namespace gets an id and, if there is one left,   *)
(* a prefix that no other namespace has.                                   *)
(*                                                                         *)
(* The builder works through the entries and the namespaces in order; the  *)
(* alternative prefixes of a namespace are in a HashSet, their order is    *)
(* open.                                                                   *)
(***************************************************************************)
EXTENDS Parser, FiniteSets

CONSTANTS
  NoPrefix,       \* None
  Extended(_, _)  \* a prefix followed by "_" and the id of a namespace

VARIABLES
  stage,        \* the loop of build() the builder is in
  cursor,       \* the entry, or the namespace id, it has come to
  altLeft,      \* the alternative prefixes still to try for that namespace
  idCache,      \* id_cache: the schema id of each temporary id
  prefixCache,  \* prefix_cache: the prefixes found for each namespace
  known,        \* Schemas.known_namespaces: the id of each namespace
  infos,        \* Schemas.namespace_infos
  schemas,      \* Schemas.schemas
  knownPrefixes \* Schemas.known_prefixes: the namespace id of each prefix

builder == <<stage, cursor, altLeft, idCache, prefixCache, known, infos, schemas, knownPrefixes>>
builderVars == <<vars, builder>>

Empty == [x \in {} |-> x]

\* f with y at x, which may be new.
With(f, x, y) == [z \in DOMAIN f \cup {x} |-> IF z = x THEN y ELSE f[z]]

BuilderInit ==
  /\ Init
  /\ stage = "ids" /\ cursor = 1 /\ altLeft = {}
  /\ idCache = Empty /\ prefixCache = Empty
  /\ known = Empty /\ infos = Empty /\ schemas = Empty /\ knownPrefixes = Empty

-----------------------------------------------------------------------------
(* Ids.                                                                    *)

\* Mutant: the other ids of a location are forgotten.
IdsOfOwn(i) == {entries[i].id}

\* The temporary ids that stand for the schema of the i-th entry.
IdsOf(i) ==
  {entries[i].id} \cup
  (IF entries[i].loc \in DOMAIN cache THEN cache[entries[i].loc] ELSE {})

\* SchemaEntries are numbered in the order of their entries, from 1.
SchemaId(i) == Cardinality({j \in SchemaEntries : j <= i})

\* build_id_cache: of two schemas with one temporary id the later one counts.
BuildIdCache ==
  /\ phase = "finished" /\ stage = "ids"
  /\ idCache' = [t \in UNION {IdsOf(i) : i \in SchemaEntries} |->
                   SchemaId(CHOOSE i \in SchemaEntries :
                     /\ t \in IdsOf(i)
                     /\ \A j \in SchemaEntries : t \in IdsOf(j) => j <= i)]
  /\ stage' = "prefixes"
  /\ UNCHANGED <<vars, cursor, altLeft, prefixCache, known, infos, schemas, knownPrefixes>>

-----------------------------------------------------------------------------
(* Prefixes and entries.                                                   *)

Prefixes(ns) ==
  IF ns \in DOMAIN prefixCache THEN prefixCache[ns] ELSE [prefix |-> NoPrefix, alts |-> {}]

Declared(e, ns) == {e.declares[i].prefix : i \in {i \in DOMAIN e.declares : e.declares[i].ns = ns}}

\* The prefix a schema declares first for its own namespace.
OwnPrefix(e) ==
  IF Declared(e, e.ns) = {} THEN NoPrefix
  ELSE e.declares[CHOOSE i \in DOMAIN e.declares :
         /\ e.declares[i].ns = e.ns
         /\ \A j \in DOMAIN e.declares : e.declares[j].ns = e.ns => i <= j].prefix

\* The cache after the prefixes of entry e were added.  The prefix of a namespace
\* definition replaces one that was found before, that of a schema does not.
Collected(e) ==
  LET old == Prefixes(e.ns)
      found == {e.declares[i].ns : i \in DOMAIN e.declares}
  IN  IF e.kind = "namespace"
        THEN With(prefixCache, e.ns,
                  IF e.ns = NoNs THEN old ELSE [old EXCEPT !.prefix = e.prefix])
        ELSE [ns \in DOMAIN prefixCache \cup {e.ns} \cup found |->
                [prefix |-> IF ns = e.ns /\ old.prefix = NoPrefix THEN OwnPrefix(e)
                            ELSE Prefixes(ns).prefix,
                 alts |-> Prefixes(ns).alts \cup Declared(e, ns)]]

BuildPrefixCache ==
  /\ stage = "prefixes"
  /\ IF cursor <= Len(entries)
       THEN /\ prefixCache' = Collected(entries[cursor])
            /\ cursor' = cursor + 1 /\ UNCHANGED stage
       ELSE /\ stage' = "entries" /\ cursor' = 1
            /\ UNCHANGED prefixCache
  /\ UNCHANGED <<vars, altLeft, idCache, known, infos, schemas, knownPrefixes>>

Anonymous == 1

\* get_or_create_namespace_info_mut
NamespaceId(ns) ==
  IF ns \in DOMAIN known THEN known[ns]
  ELSE IF ns = NoNs THEN Anonymous
  ELSE Anonymous + Cardinality(DOMAIN known \ {NoNs}) + 1

\* Mutant: a namespace is entered anew by every schema.
InfoFresh(ns) == [ns |-> ns, prefix |-> NoPrefix, schemas |-> <<>>]

Info(ns) ==
  IF ns \in DOMAIN known THEN infos[known[ns]]
  ELSE [ns |-> ns, prefix |-> NoPrefix, schemas |-> <<>>]

AddNamespace ==
  /\ stage = "entries"
  /\ cursor <= Len(entries) /\ entries[cursor].kind = "namespace"
  /\ LET ns == entries[cursor].ns
     IN  /\ known' = With(known, ns, NamespaceId(ns))
         /\ infos' = With(infos, NamespaceId(ns), Info(ns))
  /\ cursor' = cursor + 1
  /\ UNCHANGED <<vars, stage, altLeft, idCache, prefixCache, schemas, knownPrefixes>>

\* The dependencies of a schema with the ids translated; an unknown one is dropped.
Translated(deps) ==
  [n \in {n \in DOMAIN deps : deps[n].id \in DOMAIN idCache} |->
     [deps[n] EXCEPT !.id = idCache[@]]]

\* SchemasBuilder::add_schema; a second schema with the same id is a panic.
AddSchema ==
  /\ stage = "entries"
  /\ cursor <= Len(entries) /\ entries[cursor].kind = "schema"
  /\ LET e  == entries[cursor]
         id == idCache[e.id]
     IN  /\ known' = With(known, e.ns, NamespaceId(e.ns))
         /\ infos' = With(infos, NamespaceId(e.ns),
                          [Info(e.ns) EXCEPT !.schemas = Append(@, id)])
         /\ IF id \in DOMAIN schemas
              THEN stage' = "panic" /\ UNCHANGED schemas
              ELSE /\ schemas' = With(schemas, id,
                        [loc |-> e.loc, ns |-> NamespaceId(e.ns), deps |-> Translated(e.deps)])
                   /\ UNCHANGED stage
  /\ cursor' = cursor + 1
  /\ UNCHANGED <<vars, altLeft, idCache, prefixCache, knownPrefixes>>

EntriesDone ==
  /\ stage = "entries" /\ cursor > Len(entries)
  /\ stage' = "main" /\ cursor' = Anonymous
  /\ UNCHANGED <<vars, altLeft, idCache, prefixCache, known, infos, schemas, knownPrefixes>>

-----------------------------------------------------------------------------
(* determine_prefixes: three passes over the namespaces.                   *)

\* The namespace the pass has come to still needs a prefix.
Wanting == cursor \in DOMAIN infos /\ infos[cursor].prefix = NoPrefix
Candidates == prefixCache[infos[cursor].ns]
LastId == Anonymous + Cardinality(DOMAIN known)

\* Mutant: a prefix is taken away from the namespace that has it.
TakeAnyway(p) ==
  /\ infos' = [infos EXCEPT ![cursor].prefix = p]
  /\ knownPrefixes' = With(knownPrefixes, p, cursor)

Take(p) ==
  IF p = NoPrefix \/ p \in DOMAIN knownPrefixes
    THEN UNCHANGED <<infos, knownPrefixes>>
    ELSE /\ infos' = [infos EXCEPT ![cursor].prefix = p]
         /\ knownPrefixes' = With(knownPrefixes, p, cursor)

MainPrefix ==
  /\ stage = "main" /\ cursor <= LastId
  /\ IF Wanting THEN Take(Candidates.prefix) ELSE UNCHANGED <<infos, knownPrefixes>>
  /\ cursor' = cursor + 1
  /\ UNCHANGED <<vars, stage, altLeft, idCache, prefixCache, known, schemas>>

\* One pass is over; the next one is skipped unless its flag is set.
MainDone ==
  /\ stage = "main" /\ cursor > LastId
  /\ stage' = IF "ALTERNATIVE_PREFIXES" \in flags THEN "next" ELSE "generate"
  /\ cursor' = Anonymous
  /\ UNCHANGED <<vars, altLeft, idCache, prefixCache, known, infos, schemas, knownPrefixes>>

NextAlternatives ==
  /\ stage = "next" /\ cursor <= LastId
  /\ IF Wanting
       THEN altLeft' = Candidates.alts /\ stage' = "alt" /\ UNCHANGED cursor
       ELSE cursor' = cursor + 1 /\ UNCHANGED <<altLeft, stage>>
  /\ UNCHANGED <<vars, idCache, prefixCache, known, infos, schemas, knownPrefixes>>

\* Every alternative that is free is taken, the last one stays in the info.
AlternativePrefix(p) ==
  /\ stage = "alt" /\ p \in altLeft
  /\ Take(p)
  /\ altLeft' = altLeft \ {p}
  /\ UNCHANGED <<vars, stage, cursor, idCache, prefixCache, known, schemas>>

AlternativesDone ==
  /\ \/ stage = "alt" /\ altLeft = {} /\ stage' = "next" /\ cursor' = cursor + 1
     \/ stage = "next" /\ cursor > LastId /\ stage' = "generate" /\ cursor' = Anonymous
  /\ UNCHANGED <<vars, altLeft, idCache, prefixCache, known, infos, schemas, knownPrefixes>>

\* The generated prefix is made of the main one, or of any alternative.
GeneratePrefix ==
  /\ stage = "generate" /\ cursor <= LastId
  /\ IF Wanting /\ "GENERATE_PREFIXES" \in flags
       THEN \E p \in IF Candidates.prefix # NoPrefix THEN {Candidates.prefix}
                     ELSE IF Candidates.alts # {} THEN Candidates.alts ELSE {NoPrefix} :
              IF p = NoPrefix THEN UNCHANGED knownPrefixes
              ELSE knownPrefixes' = With(knownPrefixes, Extended(p, cursor), cursor)
       ELSE UNCHANGED knownPrefixes
  /\ cursor' = cursor + 1
  /\ UNCHANGED <<vars, stage, altLeft, idCache, prefixCache, known, infos, schemas>>

Built ==
  /\ stage = "generate" /\ cursor > LastId
  /\ stage' = "done"
  /\ UNCHANGED <<vars, cursor, altLeft, idCache, prefixCache, known, infos, schemas, knownPrefixes>>

Build == \/ BuildIdCache \/ BuildPrefixCache \/ AddNamespace \/ AddSchema \/ EntriesDone
         \/ MainPrefix \/ MainDone
         \/ NextAlternatives \/ (\E p \in Prefix : AlternativePrefix(p)) \/ AlternativesDone
         \/ GeneratePrefix \/ Built

Load == Configure \/ Add \/ Resolve \/ Finish

BuilderTerminated ==
  /\ phase = "failed" \/ stage \in {"done", "panic"}
  /\ UNCHANGED builderVars

BuilderNext == (Load /\ UNCHANGED builder) \/ Build \/ BuilderTerminated

BuilderSpec == BuilderInit /\ [][BuilderNext]_builderVars

-----------------------------------------------------------------------------
(* Properties.                                                             *)

\* The assertion in SchemasBuilder::add_schema: no schema id is used twice.
NeverUnreachable == stage # "panic"

\* What was loaded arrives: one schema per loaded document, listed by exactly one
\* namespace, once, and that is the namespace the schema itself names.
SchemasComplete ==
  stage = "done" =>
    /\ Cardinality(DOMAIN schemas) = Cardinality(SchemaEntries)
    /\ {schemas[s].loc : s \in DOMAIN schemas} = {entries[i].loc : i \in SchemaEntries}
    /\ \A s \in DOMAIN schemas :
         /\ infos[schemas[s].ns].ns = entries[CHOOSE i \in SchemaEntries : SchemaId(i) = s].ns
         /\ \A i \in DOMAIN infos :
              Cardinality({k \in DOMAIN infos[i].schemas : infos[i].schemas[k] = s}) =
                IF i = schemas[s].ns THEN 1 ELSE 0

\* The interpreter looks up the schema of every schemaLocation and unwraps it:
\* each dependency that was recorded is still there and leads to the schema that
\* was loaded from the location the name has.
DependenciesResolve ==
  stage = "done" =>
    \A i \in SchemaEntries :
      LET deps == schemas[SchemaId(i)].deps
      IN  /\ DOMAIN deps = DOMAIN entries[i].deps
          /\ \A n \in DOMAIN deps :
               /\ deps[n].id \in DOMAIN schemas
               /\ schemas[deps[n].id].loc = Resolved[n, entries[i].loc]

\* No two namespaces have the same prefix, and none has a prefix no schema and
\* no definition gives to it.
PrefixesDistinct ==
  \A i, j \in DOMAIN infos :
    infos[i].prefix # NoPrefix =>
      /\ infos[i].prefix = infos[j].prefix => i = j
      /\ \/ infos[i].prefix = prefixCache[infos[i].ns].prefix
         \/ infos[i].prefix \in prefixCache[infos[i].ns].alts
=============================================================================
