----------------------------- MODULE NodeCache -----------------------------
(***************************************************************************)
(* How the interpreter connects the declarations of several schemas        *)
(* (xsd-parser/src/pipeline/interpreter/state/crate_node_cache.rs and      *)
(* models/ident_cache.rs): every schema is processed after the schemas it  *)
(* mentions, every reference is resolved to the declaration that is found  *)
(* first, and where a schema redefines or overrides declarations of        *)
(* another one, whatever it sees of them is redirected to its own.         *)
(*                                                                         *)
(* Abstractions: a declaration has a name that no declaration of another   *)
(* kind has, and refers to named declarations of the schemas.  An include  *)
(* or an import is a redefinition of nothing, and xs:override is treated   *)
(* as xs:redefine is, both as in the code.  Which kind of dependency a     *)
(* reference makes is the subject of NodeList.                             *)
(***************************************************************************)
EXTENDS Integers, Sequences, FiniteSets, SequencesExt

CONSTANTS
  Schema,   \* the schema ids, numbered in their order
  Ns,       \* the namespaces
  Name,     \* the names of declarations
  NoIdent,  \* the lack of an identifier
  Worlds    \* the sets of schemas the interpreter may be given

Ident == [ns : Ns, schema : Schema, name : Name]
Reference == [ns : Ns, name : Name]
Decl == [name : Name, refs : SUBSET Reference]
Directive == [to : Schema, decls : SUBSET Decl]

ASSUME SchemaAssumption == Schema \subseteq Nat /\ IsFiniteSet(Schema)
ASSUME NoIdentAssumption == NoIdent \notin Ident

\* dirs and decls are the content of a schema, deps its dependencies in the order
\* of their locations.
ASSUME WorldAssumption ==
  \A w \in Worlds :
    /\ w.ns \in [Schema -> Ns]
    /\ w.dirs \in [Schema -> Seq(Directive)]
    /\ w.decls \in [Schema -> Seq(Decl)]
    /\ w.deps \in [Schema -> Seq(Schema)]
    /\ \A s \in Schema :
         /\ IsInjective(w.deps[s])
         /\ ToSet(w.deps[s]) = {w.dirs[s][i].to : i \in DOMAIN w.dirs[s]}

VARIABLES
  world,      \* the schemas
  order,      \* the order in which search_in_schema comes to the dependencies of a schema
  listing,    \* the order in which SchemaSetIter does
  types,      \* ident_cache: the names each schema has
  cache,      \* node_cache: dependencies and redefined base of every identifier
  processed,  \* processed_schemas
  stack,      \* the calls of process_schema, each with the place it has come to
  redo,       \* the identifiers that resolve_dependencies has left
  phase

vars == <<world, order, listing, types, cache, processed, stack, redo, phase>>

Declared(w, s) ==
  {d.name : d \in ToSet(w.decls[s]) \cup UNION {w.dirs[s][i].decls : i \in DOMAIN w.dirs[s]}}

\* One step of search_in_schema: a schema that was seen is passed over, of any other the
\* dependencies come next.
Advance(deps, w) ==
  IF w.todo = <<>> THEN w
  ELSE IF Contains(w.seen, Head(w.todo)) THEN [seen |-> w.seen, todo |-> Tail(w.todo)]
  ELSE [seen |-> Append(w.seen, Head(w.todo)), todo |-> deps[Head(w.todo)] \o Tail(w.todo)]

\* The schemas a search comes to that begins with a list of them, in its order: depth first.
Enough == Cardinality(Schema) + Cardinality(Schema) * Cardinality(Schema)
Search(deps, start) ==
  LET search[k \in 0 .. Enough] ==
        IF k = 0 THEN [seen |-> <<>>, todo |-> start] ELSE Advance(deps, search[k - 1])
  IN  search
DepthFirst(deps, start) == Search(deps, start)[Enough].seen

\* SchemaSetIter does not mark the schema it starts with: where a circle leads back to it, its
\* dependencies are listed again, before what is still to come.
Listed(deps, s) == <<s>> \o DepthFirst(deps, deps[s])

Init ==
  /\ world \in Worlds
  /\ order = [s \in Schema |-> DepthFirst(world.deps, <<s>>)]
  /\ listing = [s \in Schema |-> Listed(world.deps, s)]
  /\ types = [s \in Schema |-> Declared(world, s)]
  /\ cache = [x \in {} |-> NoIdent]
  /\ processed = {}
  /\ stack = <<>>
  /\ redo = {}
  /\ phase = "work"

-----------------------------------------------------------------------------
(* The ident cache.                                                        *)

\* The place of the first schema in q that is among S, 0 if there is none.
Found(q, S) == SelectInSeq(q, LAMBDA t : t \in S)

ResolveForSchema(s, r) ==
  LET i == Found(order[s], {t \in Schema : world.ns[t] = r.ns /\ r.name \in types[t]})
  IN  IF i = 0 THEN NoIdent ELSE [ns |-> r.ns, schema |-> order[s][i], name |-> r.name]

\* schema_set: every name once, whatever its namespace.
SchemaSet(s) ==
  LET q == listing[s]
  IN  {LET t == q[Found(q, {u \in Schema : n \in types[u]})]
       IN  [ns |-> world.ns[t], schema |-> t, name |-> n] :
         n \in UNION {types[t] : t \in ToSet(q)}}

-----------------------------------------------------------------------------
(* The schemas.                                                            *)

Top == stack[Len(stack)]
Current == Top.schema
At(part) == phase = "work" /\ stack # <<>> /\ Top.part = part
Moved(part, at) == [stack EXCEPT ![Len(stack)].part = part, ![Len(stack)].at = at]
Called(s) == [schema |-> s, part |-> "visit", at |-> 1]

Directives == world.dirs[Current]
Decls == world.decls[Current]
With(f, x, y) == [z \in DOMAIN f \cup {x} |-> IF z = x THEN y ELSE f[z]]

\* The identifier of a declaration of the current schema, as if it were in schema s.
Own(n, s) == [ns |-> world.ns[Current], schema |-> s, name |-> n]

\* resolve_type_ident: the redefinition means its base when it mentions its own name.
Entry(d, base) ==
  [base |-> base,
   deps |-> [r \in d.refs |->
               IF base # NoIdent /\ r = [ns |-> base.ns, name |-> base.name]
                 THEN base ELSE ResolveForSchema(Current, r)]]
Unknown(e) == \E r \in DOMAIN e.deps : e.deps[r] = NoIdent

ProcessSchema ==
  /\ phase = "work" /\ stack = <<>> /\ processed # Schema
  /\ LET s == CHOOSE s \in Schema \ processed : \A t \in Schema \ processed : s <= t
     IN  processed' = processed \cup {s} /\ stack' = <<Called(s)>>
  /\ UNCHANGED <<world, order, listing, types, cache, redo, phase>>

\* Whatever a directive names is processed before the directive is.
Visit ==
  /\ At("visit") /\ Top.at <= Len(Directives)
  /\ LET base == Directives[Top.at].to
     IN  IF base \in processed
           THEN stack' = Moved("apply", Top.at) /\ UNCHANGED processed
           ELSE /\ processed' = processed \cup {base}
                /\ stack' = Append(Moved("apply", Top.at), Called(base))
  /\ UNCHANGED <<world, order, listing, types, cache, redo, phase>>

\* process_redefine and process_override: the new declarations, and what they replace.
Redefine ==
  /\ At("apply")
  /\ LET dir == Directives[Top.at]
         Made(d) == Entry(d, Own(d.name, dir.to))
         made == {Own(d.name, Current) : d \in dir.decls}
         Of(x) == CHOOSE d \in dir.decls : d.name = x.name
     IN  IF \E d \in dir.decls : Unknown(Made(d))
           THEN phase' = "unknown" /\ UNCHANGED <<stack, cache, redo>>
           ELSE /\ cache' = [x \in DOMAIN cache \cup made |->
                               IF x \in made THEN Made(Of(x)) ELSE cache[x]]
                /\ redo' = {Own(d.name, dir.to) : d \in dir.decls}
                /\ stack' = Moved("resolve", Top.at)
                /\ UNCHANGED phase
  /\ UNCHANGED <<world, order, listing, types, processed>>

\* The entries the current schema sees that refer to x, and are not made from it.
Referring(x) ==
  {e \in SchemaSet(Current) \cap DOMAIN cache :
     /\ cache[e].base # x
     /\ \E r \in DOMAIN cache[e].deps : cache[e].deps[r] = x}

Redirected(e, x) ==
  [e EXCEPT !.deps = [r \in DOMAIN e.deps |->
     IF e.deps[r] = x THEN [x EXCEPT !.schema = Current] ELSE e.deps[r]]]

Moves(e) == [e EXCEPT !.schema = Current]

\* Mutant: entries are redirected where they are.
ResolveInPlace(x) ==
  /\ At("resolve") /\ x \in redo
  /\ cache' = [e \in DOMAIN cache |-> IF e \in Referring(x) THEN Redirected(cache[e], x) ELSE cache[e]]
  /\ redo' = redo \ {x}
  /\ UNCHANGED <<world, order, listing, types, processed, stack, phase>>

\* Mutant: the entries of other schemas are left as they are.
ResolveOwn(x) ==
  /\ At("resolve") /\ x \in redo
  /\ cache' = [e \in DOMAIN cache |->
                 IF e \in Referring(x) /\ e.schema = Current THEN Redirected(cache[e], x) ELSE cache[e]]
  /\ redo' = redo \ {x}
  /\ UNCHANGED <<world, order, listing, types, processed, stack, phase>>

\* Mutant: a copy gets its name in the schema, but not its entry.
ResolveUnfiled(x) ==
  /\ At("resolve") /\ x \in redo
  /\ LET foreign == {e \in Referring(x) : e.schema # Current}
     IN  /\ cache' = [e \in DOMAIN cache |->
                        IF e \in Referring(x) \ foreign THEN Redirected(cache[e], x) ELSE cache[e]]
         /\ types' = [types EXCEPT ![Current] = @ \cup {e.name : e \in foreign}]
         /\ redo' = redo \ {x}
  /\ UNCHANGED <<world, order, listing, processed, stack, phase>>

\* Mutant: an identifier that was resolved is not removed.
ResolveKept(x) ==
  /\ At("resolve") /\ x \in redo
  /\ LET foreign == {e \in Referring(x) : e.schema # Current}
         copies == {Moves(e) : e \in foreign}
         Of(c) == CHOOSE e \in foreign : Moves(e) = c
     IN  /\ cache' = [e \in DOMAIN cache \cup copies |->
                        CASE e \in copies -> [Redirected(cache[Of(e)], x) EXCEPT !.base = Of(e)]
                          [] e \in Referring(x) \ (foreign \cup copies) -> Redirected(cache[e], x)
                          [] OTHER -> cache[e]]
         /\ types' = [types EXCEPT ![Current] = @ \cup {e.name : e \in foreign}]
         /\ redo' = redo \cup foreign
  /\ UNCHANGED <<world, order, listing, processed, stack, phase>>

\* Mutant: a copy has the redirected dependency only.
ResolveBare(x) ==
  /\ At("resolve") /\ x \in redo
  /\ LET foreign == {e \in Referring(x) : e.schema # Current}
         copies == {Moves(e) : e \in foreign}
         Of(c) == CHOOSE e \in foreign : Moves(e) = c
     IN  /\ cache' = [e \in DOMAIN cache \cup copies |->
                        CASE e \in copies -> [base |-> Of(e), deps |-> [r \in {r \in DOMAIN cache[Of(e)].deps : cache[Of(e)].deps[r] = x} |->
                                                              [x EXCEPT !.schema = Current]]]
                          [] e \in Referring(x) \ (foreign \cup copies) -> Redirected(cache[e], x)
                          [] OTHER -> cache[e]]
         /\ types' = [types EXCEPT ![Current] = @ \cup {e.name : e \in foreign}]
         /\ redo' = (redo \ {x}) \cup foreign
  /\ UNCHANGED <<world, order, listing, processed, stack, phase>>

\* One identifier of resolve_dependencies, in any order: the entries of the current
\* schema are redirected, those of other schemas are copied into it.
Resolve(x) ==
  /\ At("resolve") /\ x \in redo
  /\ LET foreign == {e \in Referring(x) : e.schema # Current}
         copies == {Moves(e) : e \in foreign}
         Of(c) == CHOOSE e \in foreign : Moves(e) = c
     IN  /\ cache' = [e \in DOMAIN cache \cup copies |->
                        CASE e \in copies -> [Redirected(cache[Of(e)], x) EXCEPT !.base = Of(e)]
                          [] e \in Referring(x) \ (foreign \cup copies) -> Redirected(cache[e], x)
                          [] OTHER -> cache[e]]
         /\ types' = [types EXCEPT ![Current] = @ \cup {e.name : e \in foreign}]
         /\ redo' = (redo \ {x}) \cup foreign
  /\ UNCHANGED <<world, order, listing, processed, stack, phase>>

Resolved ==
  /\ At("resolve") /\ redo = {}
  /\ stack' = Moved("visit", Top.at + 1)
  /\ UNCHANGED <<world, order, listing, types, cache, processed, redo, phase>>

Imported ==
  /\ At("visit") /\ Top.at > Len(Directives)
  /\ stack' = Moved("declare", 1)
  /\ UNCHANGED <<world, order, listing, types, cache, processed, redo, phase>>

Declare ==
  /\ At("declare") /\ Top.at <= Len(Decls)
  /\ LET d == Decls[Top.at]
         e == Entry(d, NoIdent)
     IN  IF Unknown(e)
           THEN phase' = "unknown" /\ UNCHANGED <<stack, cache>>
           ELSE /\ cache' = With(cache, Own(d.name, Current), e)
                /\ stack' = Moved("declare", Top.at + 1)
                /\ UNCHANGED phase
  /\ UNCHANGED <<world, order, listing, types, processed, redo>>

Return ==
  /\ At("declare") /\ Top.at > Len(Decls)
  /\ stack' = Front(stack)
  /\ UNCHANGED <<world, order, listing, types, cache, processed, redo, phase>>

Finish ==
  /\ phase = "work" /\ stack = <<>> /\ processed = Schema
  /\ phase' = "done"
  /\ UNCHANGED <<world, order, listing, types, cache, processed, stack, redo>>

Terminated == phase # "work" /\ UNCHANGED vars

Work == \/ ProcessSchema \/ Visit \/ Redefine \/ (\E x \in redo : Resolve(x)) \/ Resolved
        \/ Imported \/ Declare \/ Return \/ Finish
Next == Work \/ Terminated

\* The interpreter is one call.
Spec == Init /\ [][Next]_vars /\ WF_vars(Work)

-----------------------------------------------------------------------------
(* Properties.                                                             *)

\* What the declarations of a schema refer to is found from that schema: a
\* redefinition elsewhere, of whatever the schema shares with others, is not
\* seen by schemas that do not depend on it.
ViewsSeparate ==
  \A e \in DOMAIN cache : \A r \in DOMAIN cache[e].deps :
    Contains(order[e.schema], cache[e].deps[r].schema)

\* The declarations that directive i of schema s replaces, seen from s.
ReplacedBy(s, i) ==
  {[ns |-> world.ns[s], schema |-> world.dirs[s][i].to, name |-> d.name] : d \in world.dirs[s][i].decls}
Replaced(s) == UNION {ReplacedBy(s, i) : i \in DOMAIN world.dirs[s]}

\* Every declaration that is referred to is there when all schemas were processed,
\* but for two cases: the copy of a declaration of another namespace is found under
\* the namespace of the schema it was copied into, and the base of a redefinition is
\* looked for in the schema the directive names, not in what that one includes.
OnlyStrayCopiesDangle ==
  phase = "done" =>
    \A e \in DOMAIN cache : \A r \in DOMAIN cache[e].deps :
      LET d == cache[e].deps[r]
      IN  d \notin DOMAIN cache =>
            \/ \E c \in DOMAIN cache : c.schema = d.schema /\ c.name = d.name /\ c.ns # d.ns
            \/ \E s \in Schema : d \in Replaced(s) /\ d.name \notin Declared(world, d.schema)

\* A copy has the dependencies of the entry it was made of, and differs from it only
\* where it was redirected to its own schema, although the copy may change later.  If
\* the schema of the original leads back to the one of the copy, the original may too.
CopiesAgree ==
  phase = "done" =>
    \A e \in DOMAIN cache :
      LET base == cache[e].base
      IN  base # NoIdent /\ e.name \notin Declared(world, e.schema) /\ ~ Contains(order[base.schema], e.schema) =>
            /\ DOMAIN cache[e].deps = DOMAIN cache[base].deps
            /\ \A r \in DOMAIN cache[e].deps :
                 cache[e].deps[r] \in {cache[base].deps[r], [cache[base].deps[r] EXCEPT !.schema = e.schema]}

\* What a user of schema s gets: what is found for a name, and whatever that refers to.
Seen(s) ==
  LET Targets(S) == UNION {{cache[e].deps[r] : r \in DOMAIN cache[e].deps} : e \in S}
      within[k \in 0 .. Cardinality(DOMAIN cache)] ==
        IF k = 0 THEN {ResolveForSchema(s, r) : r \in Reference}
        ELSE within[k - 1] \cup Targets(within[k - 1] \cap DOMAIN cache)
  IN  within[Cardinality(DOMAIN cache)] \cap DOMAIN cache

\* e still refers to x, which the declaration of the same name in s replaces.
Stale(s, e, x) ==
  /\ \E r \in DOMAIN cache[e].deps : cache[e].deps[r] = x
  /\ ~ (e.schema = s /\ e.name = x.name)

\* "resolved redefinitions and overrides by updating the dependencies to point to
\* the new identifiers": nothing that a schema sees refers to what it replaced.
RedefinitionsReachAll ==
  phase = "done" => \A s \in Schema : \A e \in Seen(s), x \in Replaced(s) : ~ Stale(s, e, x)

\* What the directives of s up to the i-th one lead to, but for those that lead back to s.
Before(s, i) ==
  UNION {ToSet(order[world.dirs[s][j].to]) : j \in {j \in 1 .. i : ~ Contains(order[world.dirs[s][j].to], s)}}

\* A declaration that a schema sees refers to what a directive of the schema replaced only if
\* it was not processed before the directive was, or if another declaration has its name
\* and is listed first: the schema's own copy or redefinition, one of another namespace, or
\* one that only comes first because schema_set does not list schemas as names are resolved.
OnlyLateOrHiddenStale ==
  phase = "done" =>
    \A s \in Schema : \A e \in Seen(s) : \A i \in DOMAIN world.dirs[s] : \A x \in ReplacedBy(s, i) :
      Stale(s, e, x) => e.schema \notin Before(s, i) \/ e \notin SchemaSet(s)

\* All schemas are processed, or a name is unknown.
Returns == <>(phase # "work")
=============================================================================
