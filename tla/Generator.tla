------------------------------ MODULE Generator ------------------------------
(***************************************************************************)
(* The worklist and the loop detection of the code generator               *)
(* (xsd-parser/src/pipeline/generator).  A caller registers user supplied  *)
(* types, fixes the configuration and requests types; the generator gives  *)
(* every type that is mentioned a path and an id, queues it, generates the *)
(* queued types in order and decides for every element of a generated type *)
(* whether its field needs a Box so that the Rust type has a finite size.  *)
(*                                                                         *)
(* A meta type is abstracted to its kind and the sequence of references    *)
(* DataType::new follows while it is generated:                            *)
(*   struct, choice  element references (boxing is decided here), and plain*)
(*                   ones for attributes and trait implementations         *)
(*   alias           one value reference (ReferenceMeta)                   *)
(*   union           direct value references (UnionMeta, EnumerationMeta)  *)
(*   opaque          plain references only (SimpleMeta, DynamicMeta,       *)
(*                   BuildInMeta, CustomMeta)                              *)
(* A reference is direct when the field holds the target itself and not a  *)
(* Vec of it (Occurs::is_direct, for element and enclosing type).          *)
(* Generating one type is a Begin step, one Follow step per reference and  *)
(* an End step, so that every call of get_or_create_type_ref* is a step.   *)
(***************************************************************************)
EXTENDS Integers, Sequences

CONSTANTS
  Ident,     \* TypeIdent, as numbers in the order of the BTreeMap
  Models,    \* the MetaTypes the generator may be started with
  BoxModes,  \* the BoxFlags the generator may be configured with
  MaxFixed,  \* bound: with_type calls of one run
  NoIdent    \* no type is being generated

Kinds == {"struct", "choice", "alias", "union", "opaque"}
Hows  == {"element", "value", "plain"}
Reference == [to : Ident, how : Hows, direct : BOOLEAN]
MetaType  == [kind : Kinds, named : BOOLEAN, refs : Seq(Reference)]

ASSUME IdentAssumption == Ident \subseteq Nat /\ NoIdent \notin Ident
ASSUME BoxModesAssumption ==
  /\ BoxModes \subseteq SUBSET {"ENUM_ELEMENTS", "STRUCT_ELEMENTS"}
  /\ MaxFixed \in Nat
ASSUME ModelsAssumption ==
  \A m \in Models : /\ DOMAIN m \subseteq Ident
                    /\ \A t \in DOMAIN m : m[t] \in MetaType

VARIABLES
  meta,      \* MetaData.types: the defined types; never changes
  boxFlags,  \* MetaData.box_flags; never changes
  phase,     \* which API object exists: Generator, GeneratorFixed, or none
  types,     \* LoopDetection.types: the ident of each id
  cache,     \* State.cache: the id and the reachable set of each ident
  pending,   \* State.pending: the idents queued for generation
  fixed,     \* the idents registered by with_type
  todo,      \* the idents the running generate_* call has still to request
  cur,       \* PendingType in work, or NoIdent
  ctxReach,  \* Context.reachable of the type in work
  boxed,     \* the need_indirection answers of the type in work so far
  items      \* DataTypes.items: the need_indirection answers of each type

vars == <<meta, boxFlags, phase, types, cache, pending, fixed, todo,
          cur, ctxReach, boxed, items>>

Cached == DOMAIN cache

TypeRef == [id : Nat, reachable : SUBSET Nat]

Init ==
  /\ meta \in Models
  /\ boxFlags \in BoxModes
  /\ phase = "config"
  /\ types = <<>>
  /\ cache = [t \in {} |-> [id |-> 0, reachable |-> {}]]
  /\ pending = <<>>
  /\ fixed = {}
  /\ todo = {}
  /\ cur = NoIdent
  /\ ctxReach = {}
  /\ boxed = <<>>
  /\ items = [t \in {} |-> <<>>]

-----------------------------------------------------------------------------
(* The type reference table.                                               *)

\* The cache after t was looked up or created and reach was added to the
\* types it can be reached from.
WithRef(t, reach) ==
  LET ref == IF t \in Cached THEN cache[t] ELSE [id |-> Len(types), reachable |-> {}]
  IN  [x \in Cached \cup {t} |->
         IF x = t THEN [id |-> ref.id, reachable |-> ref.reachable \cup reach]
                  ELSE cache[x]]

\* Mutant: a known type is queued as long as it is not generated.
GetOrCreateRequeue(t, reach) ==
  /\ t \in Cached \cup DOMAIN meta
  /\ cache' = WithRef(t, reach)
  /\ types' = IF t \in Cached THEN types ELSE Append(types, t)
  /\ pending' = IF t \in DOMAIN items THEN pending ELSE Append(pending, t)

\* get_or_create_type_ref_mut: a type that is seen for the first time gets the
\* next id and is queued; an undefined one is an error.
GetOrCreate(t, reach) ==
  /\ t \in Cached \cup DOMAIN meta
  /\ cache' = WithRef(t, reach)
  /\ IF t \in Cached
       THEN UNCHANGED <<types, pending>>
       ELSE types' = Append(types, t) /\ pending' = Append(pending, t)

\* Mutant: only what is recorded with the type itself.
GetReachableShallow(t) == {cache[t].id} \cup cache[t].reachable

\* LoopDetection::get_reachable: the type itself, the types recorded with it
\* and what is recorded with those now: one level, not the closure.
GetReachable(t) ==
  LET seen == cache[t].reachable
  IN  {cache[t].id} \cup seen \cup UNION {cache[types[i + 1]].reachable : i \in seen}

-----------------------------------------------------------------------------
(* need_box: starting at the target, typedefs and the members of unions are*)
(* followed as long as they are in the cache; a box is needed when the walk*)
(* comes to a type the current one is reachable from, or to itself.        *)

RefsOf(m, t) == {m[t].refs[i] : i \in DOMAIN m[t].refs}
RefSet(t) == RefsOf(meta, t)

Visible == DOMAIN meta \cap Cached

Through(t) ==
  IF meta[t].kind \in {"alias", "union"}
    THEN {r.to : r \in {r \in RefSet(t) : r.how = "value" /\ r.direct}} \cap Visible
    ELSE {}

Chain(t) ==
  {y \in Visible : \A S \in SUBSET Visible :
      t \in S /\ (\A x \in S : Through(x) \subseteq S) => y \in S}

NeedBox(t) ==
  /\ t \in Visible
  /\ \E y \in Chain(t) : \/ cache[y].id \in ctxReach
                         \/ \E z \in Through(y) : y \in Chain(z)

ForceBox(t) ==
  \/ meta[t].kind = "choice" /\ "ENUM_ELEMENTS" \in boxFlags
  \/ meta[t].kind = "struct" /\ "STRUCT_ELEMENTS" \in boxFlags

-----------------------------------------------------------------------------
(* Generator: configuration.                                               *)

\* Mutant: a registered type is queued like any other.
WithTypeQueued(t) ==
  /\ phase = "config"
  /\ Len(types) < MaxFixed /\ t \in DOMAIN meta
  /\ types' = Append(types, t)
  /\ cache' = [x \in Cached \cup {t} |->
                 IF x = t THEN [id |-> Len(types), reachable |-> {}] ELSE cache[x]]
  /\ fixed' = fixed \cup {t}
  /\ pending' = Append(pending, t)
  /\ UNCHANGED <<meta, boxFlags, phase, todo, cur, ctxReach, boxed, items>>

\* with_type: the user supplies the Rust type of t.  The id is taken anew each
\* time, an earlier entry of t is replaced.
WithType(t) ==
  /\ phase = "config"
  /\ Len(types) < MaxFixed
  /\ types' = Append(types, t)
  /\ cache' = [x \in Cached \cup {t} |->
                 IF x = t THEN [id |-> Len(types), reachable |-> {}] ELSE cache[x]]
  /\ fixed' = fixed \cup {t}
  /\ UNCHANGED <<meta, boxFlags, phase, pending, todo, cur, ctxReach, boxed, items>>

IntoFixed ==
  /\ phase = "config"
  /\ phase' = "fixed"
  /\ UNCHANGED <<meta, boxFlags, types, cache, pending, fixed, todo, cur, ctxReach, boxed, items>>

-----------------------------------------------------------------------------
(* GeneratorFixed: requests.  Each call drains the queue before it returns.*)

Idle == todo = {} /\ pending = <<>> /\ cur = NoIdent

Call(requests) ==
  /\ phase = "fixed"
  /\ Idle
  /\ todo' = requests
  /\ UNCHANGED <<meta, boxFlags, phase, types, cache, pending, fixed, cur, ctxReach, boxed, items>>

GenerateType(t) == Call({t})
GenerateAllTypes == Call(DOMAIN meta)
GenerateNamedTypes == Call({t \in DOMAIN meta : meta[t].named})

\* One iteration of the request loop, in the order of the keys.
Enqueue(t) ==
  /\ phase = "fixed"
  /\ t \in todo
  /\ \A u \in todo : t <= u
  /\ GetOrCreate(t, {})
  /\ todo' = todo \ {t}
  /\ UNCHANGED <<meta, boxFlags, phase, fixed, cur, ctxReach, boxed, items>>

EnqueueUnknown(t) ==
  /\ phase = "fixed"
  /\ t \in todo
  /\ \A u \in todo : t <= u
  /\ t \notin Cached \cup DOMAIN meta
  /\ phase' = "failed"
  /\ UNCHANGED <<meta, boxFlags, types, cache, pending, fixed, todo, cur, ctxReach, boxed, items>>

-----------------------------------------------------------------------------
(* generate_pending and generate_type_intern.                              *)

\* Mutant: the front of the queue is read and not removed.
BeginPeek ==
  /\ phase = "fixed"
  /\ todo = {} /\ cur = NoIdent /\ pending # <<>>
  /\ cur' = Head(pending)
  /\ ctxReach' = GetReachable(Head(pending))
  /\ boxed' = <<>>
  /\ UNCHANGED <<meta, boxFlags, phase, types, cache, pending, fixed, todo, items>>

\* Mutant: the context of the type before is used again.
BeginNoReset ==
  /\ phase = "fixed"
  /\ todo = {} /\ cur = NoIdent /\ pending # <<>>
  /\ cur' = Head(pending)
  /\ pending' = Tail(pending)
  /\ ctxReach' = ctxReach \cup GetReachable(Head(pending))
  /\ boxed' = <<>>
  /\ UNCHANGED <<meta, boxFlags, phase, types, cache, fixed, todo, items>>

Begin ==
  /\ phase = "fixed"
  /\ todo = {} /\ cur = NoIdent /\ pending # <<>>
  /\ cur' = Head(pending)
  /\ pending' = Tail(pending)
  /\ ctxReach' = GetReachable(Head(pending))
  /\ boxed' = <<>>
  /\ UNCHANGED <<meta, boxFlags, phase, types, cache, fixed, todo, items>>

\* The reference that is followed next; it exists while refs are left.
NextRef == meta[cur].refs[Len(boxed) + 1]
RefsLeft == phase = "fixed" /\ cur # NoIdent /\ Len(boxed) < Len(meta[cur].refs)

\* get_or_create_type_ref_for_element: without a box the target can be reached
\* from wherever the current type can be reached from, also through a Vec.
FollowElement ==
  /\ RefsLeft
  /\ NextRef.how = "element"
  /\ LET force  == ForceBox(cur)
         isBoxed == ~ force /\ NextRef.direct /\ NeedBox(NextRef.to)
     IN  /\ GetOrCreate(NextRef.to, IF isBoxed THEN {} ELSE ctxReach)
         /\ boxed' = Append(boxed, isBoxed \/ force)
  /\ UNCHANGED <<meta, boxFlags, phase, fixed, todo, cur, ctxReach, items>>

\* get_or_create_type_ref_for_value
FollowValue ==
  /\ RefsLeft
  /\ NextRef.how = "value"
  /\ GetOrCreate(NextRef.to, IF NextRef.direct THEN ctxReach ELSE {})
  /\ boxed' = Append(boxed, FALSE)
  /\ UNCHANGED <<meta, boxFlags, phase, fixed, todo, cur, ctxReach, items>>

\* Mutant: the type of an attribute is recorded like that of an element.
FollowPlainRecorded ==
  /\ RefsLeft
  /\ NextRef.how = "plain"
  /\ GetOrCreate(NextRef.to, ctxReach)
  /\ boxed' = Append(boxed, FALSE)
  /\ UNCHANGED <<meta, boxFlags, phase, fixed, todo, cur, ctxReach, items>>

\* get_or_create_type_ref
FollowPlain ==
  /\ RefsLeft
  /\ NextRef.how = "plain"
  /\ GetOrCreate(NextRef.to, {})
  /\ boxed' = Append(boxed, FALSE)
  /\ UNCHANGED <<meta, boxFlags, phase, fixed, todo, cur, ctxReach, items>>

FollowUnknown ==
  /\ RefsLeft
  /\ NextRef.to \notin Cached \cup DOMAIN meta
  /\ phase' = "failed"
  /\ UNCHANGED <<meta, boxFlags, types, cache, pending, fixed, todo, cur, ctxReach, boxed, items>>

End ==
  /\ phase = "fixed"
  /\ cur # NoIdent
  /\ Len(boxed) = Len(meta[cur].refs)
  /\ items' = [t \in DOMAIN items \cup {cur} |-> IF t = cur THEN boxed ELSE items[t]]
  /\ cur' = NoIdent
  /\ UNCHANGED <<meta, boxFlags, phase, types, cache, pending, fixed, todo, ctxReach, boxed>>

Finish ==
  /\ phase = "fixed"
  /\ Idle
  /\ phase' = "finished"
  /\ UNCHANGED <<meta, boxFlags, types, cache, pending, fixed, todo, cur, ctxReach, boxed, items>>

\* The object was consumed by finish() or by an error: nothing happens any more.
Terminated == phase \in {"failed", "finished"} /\ UNCHANGED vars

Configure == IntoFixed \/ \E t \in Ident : WithType(t)
Requests == \/ GenerateAllTypes
            \/ GenerateNamedTypes
            \/ Finish
            \/ \E t \in Ident : GenerateType(t)
Run == \/ \E t \in Ident : Enqueue(t) \/ EnqueueUnknown(t)
       \/ Begin \/ FollowElement \/ FollowValue \/ FollowPlain \/ FollowUnknown \/ End

Next == Configure \/ Requests \/ Run \/ Terminated

\* A generate_* call runs on its own once it was made: nothing else is
\* scheduled before it returns.  When and whether it is made is up to the user.
Fairness == WF_vars(Run)

Spec == Init /\ [][Next]_vars /\ Fairness

-----------------------------------------------------------------------------
(* Properties.                                                             *)

TypeOK ==
  /\ meta \in Models
  /\ boxFlags \in BoxModes
  /\ phase \in {"config", "fixed", "failed", "finished"}
  /\ types \in Seq(Ident)
  /\ DOMAIN cache \subseteq Ident
  /\ \A t \in Cached : cache[t] \in TypeRef
  /\ pending \in Seq(Ident)
  /\ fixed \subseteq Ident
  /\ todo \subseteq Ident
  /\ cur \in Ident \cup {NoIdent}
  /\ ctxReach \subseteq Nat
  /\ boxed \in Seq(BOOLEAN)
  /\ DOMAIN items \subseteq Ident
  /\ \A t \in DOMAIN items : items[t] \in Seq(BOOLEAN)

Ids == 0 .. Len(types) - 1

\* Every id that is stored anywhere stands for a type that has a reference:
\* the two lookups of get_reachable, by id and by ident, never panic.  The
\* reference of a type holds the id under which the table lists it.
IdsConsistent ==
  /\ \A t \in Cached : /\ cache[t].id \in Ids
                         /\ types[cache[t].id + 1] = t
                         /\ cache[t].reachable \subseteq Ids
  /\ \A n \in Ids : types[n + 1] \in Cached
  /\ ctxReach \subseteq Ids

Queued == {pending[i] : i \in DOMAIN pending}

\* A type that mentions itself, directly or through others, is queued again and
\* again; it is generated once, and a user supplied type never.  Whatever has a
\* reference is in exactly one place: user supplied, queued, in work, or done.
GeneratedOnce ==
  /\ \A i, j \in DOMAIN pending : pending[i] = pending[j] => i = j
  /\ Cached = fixed \cup Queued \cup ({cur} \ {NoIdent}) \cup DOMAIN items
  /\ Queued \cap (fixed \cup {cur} \cup DOMAIN items) = {}
  /\ cur \notin fixed \cup DOMAIN items
  /\ fixed \cap DOMAIN items = {}

\* A generated type names only types that have a path; when a call returns,
\* everything that was given a path is generated or supplied by the user.
NothingDangling ==
  /\ \A t \in DOMAIN items : \A r \in RefSet(t) : r.to \in Cached
  /\ phase = "fixed" /\ Idle => Cached \ fixed = DOMAIN items
  /\ \A t \in DOMAIN items : Len(items[t]) = Len(meta[t].refs)

\* The references along which reachability is recorded.
Propagates(r) == r.how = "element" \/ (r.how = "value" /\ r.direct)

\* b is a or is mentioned by a, directly or through other types of m.
LeadsTo(m, a, b) ==
  \A S \in SUBSET Ident :
    /\ a \in S
    /\ \A x \in S \cap DOMAIN m : \A r \in RefsOf(m, x) : Propagates(r) => r.to \in S
    => b \in S

\* What the loop detection records is true: a type is listed as one that t can
\* be reached from only if it really mentions t, over any number of types.
ReachSound ==
  /\ \A t \in Cached : \A n \in cache[t].reachable : LeadsTo(meta, types[n + 1], t)
  /\ cur # NoIdent => \A n \in ctxReach : LeadsTo(meta, types[n + 1], cur)

\* The i-th reference of t leads back to t, or to a typedef or union that
\* contains itself.
Recursive(m, t, i) ==
  \/ LeadsTo(m, m[t].refs[i].to, t)
  \/ \E x \in DOMAIN m : \E r \in RefsOf(m, x) :
       Propagates(r) /\ LeadsTo(m, m[t].refs[i].to, x) /\ LeadsTo(m, r.to, x)

\* BoxFlags::AUTO: a field is boxed only where its type comes back to the type
\* that has the field.
BoxOnlyOnCycle ==
  \A t \in DOMAIN items : \A i \in DOMAIN items[t] :
    items[t][i] /\ ~ ForceBox(t) => Recursive(meta, t, i)

\* The declared references that put the target into the field itself.
ByValue(r) == r.how # "plain" /\ r.direct

\* The types a field of t embeds by value in the generated code.
Embeds(t) == {meta[t].refs[i].to : i \in {i \in DOMAIN items[t] :
                /\ ByValue(meta[t].refs[i])
                /\ ~ items[t][i]}}

\* A schema of structs and choices: a typedef or a union may lead back to a type before
\* it has a reference, and then need_box does not look through it.
Structured == \A t \in DOMAIN meta : meta[t].kind \in {"struct", "choice", "opaque"}

\* Every generated type has a finite size: no generated type contains itself by
\* value, over any number of types.
NoInfiniteType ==
  Idle /\ Structured => \A t \in DOMAIN items :
    \E S \in SUBSET DOMAIN items :
      /\ Embeds(t) \cap DOMAIN items \subseteq S
      /\ \A x \in S : Embeds(x) \cap DOMAIN items \subseteq S
      /\ t \notin S

\* A request returns: the queue runs empty although types mention each other.
Returns == [](~ Idle => <>(Idle \/ phase = "failed"))

Abstract == INSTANCE GeneratorClosure WITH
  mentions <- [t \in DOMAIN meta |-> {r.to : r \in RefSet(t)}],
  external <- fixed,
  known    <- Cached,
  done     <- DOMAIN items,
  failed   <- phase = "failed"

\* Seen from outside the generator is a closure: it gives a path to what is
\* requested or mentioned and nothing else, and generates each of them once,
\* after everything it mentions has a path.
ImplementsClosure == Abstract!Spec
=============================================================================
