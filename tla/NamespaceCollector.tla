-------------------------- MODULE NamespaceCollector --------------------------
(***************************************************************************)
(* Which namespaces the root element declares when namespaces are written  *)
(* globally (NamespaceCollector in xsd-parser/src/pipeline/renderer/steps/ *)
(* quick_xml/serialize.rs).  The collector walks the meta types depth      *)
(* first; a type that is in work, or done, is not entered again, so types  *)
(* that contain each other end the walk.                                   *)
(*                                                                         *)
(* A meta type is abstracted to its namespace, the namespaces of its       *)
(* qualified attributes and its members: the elements of its content, each *)
(* with the namespace of its tag and the type of its value.  Every type    *)
(* and element is qualified.                                               *)
(***************************************************************************)
EXTENDS Integers, Sequences, SequencesExt

CONSTANTS
  Schemas,     \* the schemas code is generated for
  Modules,     \* their namespaces, by id
  NoPrefix,    \* None
  Xsi,         \* the namespace of xsi:nil and xsi:type, one of Modules
  Xs,          \* the namespace of the built-in types, one of Modules
  Simple,      \* values that are text
  AnySimple,   \* values of xs:anySimpleType
  AnyElement   \* elements of any type

\* The elements of the content of a type.
Content(types) ==
  [tag : ToSet(Modules), type : DOMAIN types \cup {Simple, AnySimple, AnyElement}, nillable : BOOLEAN]

ASSUME SchemaAssumption ==
  \A s \in Schemas : \A t \in DOMAIN s.types : s.types[t].members \in Seq(Content(s.types))

\* Namespaces and prefixes have names, those of the built-in types and of xsi:nil are among
\* them, the types of a schema are of its modules and are rendered in one of the two modes
\* that know their namespaces, and xs:any is neither text nor nillable.
ASSUME ModuleAssumption ==
  /\ Modules \in Seq(STRING) /\ Xsi \in ToSet(Modules) /\ Xs \in ToSet(Modules)
  /\ NoPrefix \in STRING /\ AnyElement \notin {Simple, AnySimple}
  /\ \A s \in Schemas :
       /\ s.prefix \in [ToSet(Modules) -> STRING] /\ s.mode \in {"local", "global"}
       /\ \A t \in DOMAIN s.types :
            /\ s.types[t].ns \in ToSet(Modules) /\ s.types[t].attrs \subseteq ToSet(Modules)
            /\ \A m \in ToSet(s.types[t].members) : m.nillable => m.type # AnyElement

VARIABLES
  schema,  \* the schema: its types, the prefix of each module, the default namespace, the mode
  cache,   \* cache of the collector: what is known of each type
  frames   \* the calls of get_namespaces_impl that are in progress

collector == <<schema, cache, frames>>

Types == DOMAIN schema.types

Absent == [state |-> "absent", keys |-> {}]
InWork == [state |-> "in work", keys |-> {}]
Done(keys) == [state |-> "done", keys |-> keys]

\* NamespaceKey: declared with the prefix of its module, or as the default.
Normal(n) == [ns |-> n, default |-> FALSE]
Default(n) == [ns |-> n, default |-> TRUE]

CollectorInit ==
  /\ schema \in Schemas
  /\ cache = [t \in Types |-> Absent]
  /\ frames = <<>>

\* make_value: a module without a prefix has no prefix constant to refer to.
Emittable(keys) == {k \in keys : k.default \/ schema.prefix[k.ns] # NoPrefix}

OwnKey(t) ==
  LET n == schema.types[t].ns IN IF n = schema.default THEN Default(n) ELSE Normal(n)

\* The namespaces a custom type is configured with.
CustomKeys(type) == IF type = AnySimple THEN {Normal(Xs), Normal(Xsi)} ELSE {}

\* What a type needs besides that of its members.
OwnKeys(t) ==
  Emittable({OwnKey(t)} \cup {Normal(n) : n \in schema.types[t].attrs} \cup
            (UNION {IF m.nillable THEN {Normal(Xsi)} ELSE {} : m \in ToSet(schema.types[t].members)}) \cup
            (UNION {CustomKeys(m.type) : m \in ToSet(schema.types[t].members)}))

\* The members, by number, whose type is a meta type with namespaces of its own.
Merged(t) ==
  LET members == schema.types[t].members IN {i \in DOMAIN members : members[i].type \in Types}

Frame(t) == [type |-> t, todo |-> Merged(t), keys |-> OwnKeys(t)]

\* get_namespaces, when the serializer of type t is rendered.
Collect(t) ==
  /\ frames = <<>> /\ cache[t].state = "absent"
  /\ frames' = <<Frame(t)>>
  /\ cache' = [cache EXCEPT ![t] = InWork]
  /\ UNCHANGED schema

Top == Last(frames)
Merging == frames # <<>> /\ Top.todo # {}

\* The members are merged in their order.
NextMember == CHOOSE i \in Top.todo : \A j \in Top.todo : i <= j
NextType == schema.types[Top.type].members[NextMember].type

\* Mutant: a type that was walked already adds nothing.
ForgetKnown ==
  /\ Merging /\ cache[NextType].state # "absent"
  /\ frames' = Append(Front(frames), [Top EXCEPT !.todo = @ \ {NextMember}])
  /\ UNCHANGED <<schema, cache>>

\* merge, of a type that is done or in work: the latter adds nothing.
MergeKnown ==
  /\ Merging /\ cache[NextType].state # "absent"
  /\ frames' = Append(Front(frames),
                 [Top EXCEPT !.todo = @ \ {NextMember}, !.keys = @ \cup cache[NextType].keys])
  /\ UNCHANGED <<schema, cache>>

\* merge, of a type that was not asked for before; it is merged when it is done.
MergeNew ==
  /\ Merging /\ cache[NextType].state = "absent"
  /\ frames' = Append(frames, Frame(NextType))
  /\ cache' = [cache EXCEPT ![NextType] = InWork]
  /\ UNCHANGED schema

Collected ==
  /\ frames # <<>> /\ Top.todo = {}
  /\ cache' = [cache EXCEPT ![Top.type] = Done(Top.keys)]
  /\ frames' = Front(frames)
  /\ UNCHANGED schema

Collecting == (\E t \in Types : Collect(t)) \/ MergeKnown \/ MergeNew \/ Collected

\* All serializers are rendered.
Rendered == frames = <<>> /\ \A t \in Types : cache[t].state = "done"

-----------------------------------------------------------------------------
(* Properties.                                                             *)

TypesOf(t) == {schema.types[t].members[i].type : i \in Merged(t)}

\* The types a value of type t can contain, itself included.
Contained(t) ==
  {u \in Types : \A s \in SUBSET Types : t \in s /\ (\A v \in s : TypesOf(v) \subseteq s) => u \in s}

Circular(t) == \E u \in TypesOf(t) : t \in Contained(u)

KeysWithin(t) == UNION {OwnKeys(u) : u \in Contained(t)}

\* "All namespace definitions are serialized to the root element": what was collected
\* for a type is all that its content needs, and nothing else, in whatever order the
\* types are rendered; for the content of a type that contains itself, which is cut
\* off where the walk meets a type in work, it is at least nothing else.
CollectedComplete ==
  \A t \in Types :
    cache[t].state = "done" =>
      /\ cache[t].keys \subseteq KeysWithin(t)
      /\ (\A u \in Contained(t) : ~ Circular(u)) => cache[t].keys = KeysWithin(t)
=============================================================================
