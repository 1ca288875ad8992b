# A TLA+ verification of xsd-parser

xsd-parser turns XML schemas into Rust code. This directory holds a formal
model of its core: TLA+ modules translated from the source, TLC configurations
that check them on small instances, and theorems that TLAPS proves for every
value of the constants. Paths below are relative to `src/xsd-parser/src` unless
they start with `xsd-parser-types`.

To check: `tlc -config Builder_schemas.cfg MCSchemasBuilder` (module and configuration of
each run are listed under "Runs"), `tlapm ParserProofs.tla`.

## 1. The system

xsd-parser is a pipeline (`lib.rs`: `exec_parser`, `exec_interpreter`,
`exec_optimizer`, `exec_generator`, `exec_render`). Every stage consumes the data
of the one before; nothing flows back, and no stage runs concurrently with
another. A stage is an object whose owner calls its methods in any order it
likes (most stages are public), and it is consumed by `finish`, or by an error.
What is hard in it is therefore not concurrency but order: the order of calls, of
documents, of declarations, of the iteration over maps and sets; recursion and
circles in the data; tables that are read before they are complete; and calls that
fail half way. The code that is generated runs on `xsd-parser-types`, which drives
(de)serializers as resumable state machines over a stream of XML events.

### Inventory

| component | state it keeps | operations | hard behaviours | what makes it correct |
|---|---|---|---|---|
| `Parser` (`pipeline/parser/mod.rs`) | known locations, queue of requests, entries, next temporary id, flags | `with_*`, `add_schema_from_*`, `resolve_pending`, `finish` | documents include each other in circles, under several names; one location serves several requests; the owner changes the resolver and flags between calls; errors in the middle of a call | each document loaded once; each id has exactly one meaning; each dependency leads to the document it names; calls return; an included schema has the namespace of its includer |
| resolvers (`pipeline/parser/resolver`) | the list of resolvers | `resolve` | names relative to the including document | a name and a place determine one location |
| `SchemasBuilder` (`pipeline/parser/mod.rs`), `Schemas` (`models/schema/mod.rs`) | id cache, prefix cache, namespaces, schemas, prefixes | `build_id_cache`, `build_prefix_cache`, `add_schema`, `determine_prefixes` | temporary ids are translated after all documents are loaded; prefixes compete, alternatives come out of a hash set | one schema per document, in its namespace, with its dependencies; a prefix belongs to one namespace |
| node cache (`pipeline/interpreter/state/crate_node_cache.rs`), ident cache (`models/ident_cache.rs`) | declared names of each schema, dependencies of each declaration, schemas in work | process schema, redefine/override, resolve, copy | imports in circles, redefinition of shared documents, copies of copies, hash set order | a redefinition is seen by the schemas that depend on it and by no other; references lead to declarations |
| node list (`state/create_node_list.rs`) | visited and done marks, call stack | `exec`, `visit_node` | groups are visited without a mark; circles; order of declarations | bases come first; each type once; a reported circle is one |
| type processor, variant processor (`state/generate_types*`) | stack of active types, the types | `process_node`, `create_type`, `get_type`, `copy_base_type` | a base that does not exist is a panic; substitution groups change the type of their head afterwards | bases and heads exist when they are needed |
| naming conflicts (`state/fix_element_naming_conflicts.rs`) | display names | one pass | names that are equal in two or in one namespace, three of a kind | names are distinct afterwards |
| `Interpreter` (`pipeline/interpreter/mod.rs`, `state.rs`) | types of the owner | `with_type`, `with_default_typedefs`, `finish` | identifiers are resolved at the time of the call | a type of the owner replaces the declared one |
| `Optimizer` (`pipeline/optimizer`) | the meta types, a map of typedefs | fourteen passes in a fixed order, five of them twice | typedef chains, duplicates that refer to each other, a map that is kept while passes rewrite the table, contents that two types come to share | passes end; the meaning of the types is kept |
| `Generator` (`pipeline/generator`) | table of type references, queue, reachable sets, data types | `with_type`, `generate_type`, `generate_all_types`, `generate_named_types`, `finish` | recursive types, reachability that is recorded while types are generated, order dependence, errors in the middle of a call | every type that is mentioned is generated once; generated types have finite size; no needless boxes; calls return |
| `TraitInfos` (`pipeline/generator/state.rs`) | traits of each type | `new`, `collect_traits` | transitive traits | the direct traits cover all |
| `Renderer` and its steps (`pipeline/renderer`), `Module` (`models/code`), naming (`models/naming`) | modules, values of the steps | `initialize`, `render_type`, `finish`, `write_to_files` | order of steps, names that clash | — |
| run time: deserializer (`xsd-parser-types/src/quick_xml/deserialize.rs`) | current deserializer, depth of skipped elements, scopes of namespaces | `handle_event`, `handle_skip`, `finish_*` | unknown elements inside suspended deserializers, end of the file, scopes left one event late | scopes match the open elements; skipping ends where it should |
| run time: serializer (`quick_xml/serialize.rs`) | active namespaces with their level | `write_xmlns`, `add_qname_namespace`, `begin/end_ns_scope` | prefixes that are bound again further inside | an element is read back in the namespace it was written in |
| run time: types, readers, errors (`xml/*`, `quick_xml/reader`, `quick_xml/error.rs`) | nesting of mixed and nillable content, path of the error | init/next/finish | fallbacks and events that are given back | — |
| schema of schemas (`models/schema/xs_generated.rs`), printer, configuration, benchmark, examples | — | — | generated code, printing, data | — |

How they interact: the parser reads documents through a resolver and hands its
entries to the builder; the builder's schemas, with the schema id of every
`schemaLocation`, are what the node cache walks over; the dependencies in the
node cache are what the node list orders; the list is what the type processor
works through; the meta types pass through the optimizer to the generator, whose
data types the renderer prints; the printed code calls the run time.

## 2. The modules

| module | models | checked by | proved in |
|---|---|---|---|
| `GeneratorClosure` | what the generator promises: a closure over what is requested | refinement of `Generator` | — |
| `Generator` | the generator with its table, queue, loop detection and boxes | `MCGenerator` | `GeneratorProofs` |
| `Parser` | the parser up to `finish` | `MCSchemasBuilder`, which extends `MCParser` | `ParserProofs` |
| `SchemasBuilder` (extends `Parser`) | the parser and what `finish` makes of it | `MCSchemasBuilder` | `SchemasBuilderProofs` |
| `NodeCache` | identifiers, redefinition and override across schemas | `MCNodeCache` | `NodeCacheProofs` |
| `NodeList` | dependencies of declarations, their order, and bases that must exist | `MCNodeList` | `NodeListProofs` |
| `Substitutions` (extends `NodeList`) | elements, the groups they substitute in, and the names of the members of a type | `MCSubstitutions`, which extends `MCNodeList` | `SubstitutionsProofs` |
| `MetaTypes` | the table of types: references, equality, and the values a type accepts | `MCOptimizer` | — |
| `Optimizer` (extends `MetaTypes`) | the passes of the optimizer | `MCOptimizer` | `OptimizerProofs` |
| `Shapes` | what the renderer knows of a type | `MCDeserialize` | — |
| `XsSchema` | the shapes of the types of XML Schema (`models/schema/xs_generated.rs`) | `MCDeserialize` | — |
| `FeatureTypes` | the shapes of types of the feature tests that XML Schema has no like of | `MCDeserialize` | — |
| `Deserializer` | the code the renderer emits for a type: what every state does with an event | `MCDeserialize` | — |
| `Deserialize` (extends `Deserializer`) | the loop over the events of a document, skipping, and a plain reading of the document to compare with | `MCDeserialize` | — |
| `NamespaceCollector` | which namespaces the root element declares | `MCNamespaceScopes` | `NamespaceScopesProofs` |
| `NamespaceScopes` (extends `NamespaceCollector`) | namespaces as they are written and read | `MCNamespaceScopes` | `NamespaceScopesProofs` |

`PROJECT.json` maps every definition to the lines it stands for. A definition
whose comment starts with "Mutant:" is a plausible bug of that code; each
property is shown to fail when one of them takes the place of the real definition.

### Generator

State: `types` and `cache` are the two maps of `State` and `LoopDetection`
(`generator/state.rs`): the identifier of every id, and the id and the set
of ids a type is reachable from. `pending` is the queue, `cur`, `ctxReach` and
`boxed` are the `Context` of the type in work, `items` the data types. A meta type
is its kind and the references that `DataType::new` follows, with the way it asks
for their path: `element` (a box is decided), `value` (reachability is recorded)
or `plain`. Requests are `GenerateType`, `GenerateAllTypes` and
`GenerateNamedTypes`; each is a `Call` followed by one `Enqueue` per type; every
type of the queue is a `Begin`, one `Follow*` per reference and an `End`.
`EnqueueUnknown` and `FollowUnknown` are the error of an undefined type, which
consumes the generator. `need_box` walks over typedefs and unions while it
remembers what it visited; `Chain` and `NeedBox` say what that walk answers.
`boxed` holds the answer `need_indirection` of every reference.

`GeneratorClosure` is the abstract specification: types become known when they
are registered, requested or mentioned by a known one, and are generated after all
they mention is known. `ImplementsClosure` maps `cache`, `fixed` and `items` to it.

### Parser and SchemasBuilder

A document is its namespace, its references and the prefixes it declares; the
resolver is a constant function from a name and a place to a location, `files` is
what it can read. Every public method is an action of the owner, enabled when the
queue is empty (the methods take `self` and return it after the queue is drained);
`ResolveHit`, `ResolveLoad` and `ResolveError` are the three outcomes of
`resolve_location` for the front of the queue. `with_resolver` rebuilds the parser
with its entries and nothing else; the constant `LateResolver` says whether the
owner calls it after a schema was added. The builder's loops are actions over a
`cursor`; the order in which a `HashSet` of alternative prefixes comes out is a
choice. The assertion in `add_schema` is the stage `panic`.

### NodeCache

`world` gives each schema its namespace, its directives (an include or an import is
a redefinition of nothing) and its declarations. `order` is the depth-first search
of `search_in_schema`, which `Search` makes step by step (`Advance`) over a list of the
schemas to come. `listing` is the order of `schema_set` (`SchemaSetIter`), which begins with the
schema itself but does not mark it as visited; where a circle leads back to it, the two orders
differ. `SchemaSet` goes by `listing`, `ResolveForSchema` by `order`. `types` has the names the ident cache has for each schema;
`cache` the node cache: for each identifier the dependencies and the
`redefine_base`. The recursion of `process_schema` is a `stack`; `Visit` goes into
a schema that was not processed, `Redefine` adds the new declarations,
`Resolve` is one round of the loop of `resolve_dependencies` — for an identifier
that comes out of a `HashSet`, in any order — and redirects the entries of the
current schema and copies those of others into it. References that are not found
end in `unknown`.

### NodeList

A declaration has references of three kinds: strong (base, head of a substitution
group), lazy (group), weak. `NewEntry` builds the dependencies of a declaration as
`add_dependency` does, keyed by the name, so that the last reference counts;
`bases` keeps what the type is really built from. The walk is a stack of calls of
`visit_node`; `Skip`, `Descend` and `Circular` are its three answers to a
dependency. `GenerateNode` builds the types of the list in order; `Panic` is
`get_type` on a base that is not there.

### Substitutions

Extends `NodeList` with what the interpreter does when it builds an element, and with the
last step of `State::finish`. `variants` is the table of meta types as far as elements go: an
identifier is an element and what is made of it (itself, its inline type, its nillable
content, its dynamic type). `CreateElement` is `apply_element` up to the walk over the heads;
`Substitute` is one call of the closure of `walk_substitution_groups`, whose recursion is the
list `heads`; `Refuse` is `ExpectedDynamicElement`, for a head whose type the owner gives;
`FinishElement` is the rest. `FixNames` is `fix_element_naming_conflicts`: `DisplayName` says
which of the renamings of the double loop over the members of a type is the last one, so
which name a member keeps. `Heads` are the heads an element names, which are strong
dependencies as the base of its inline type is. `PrefixAssumption` is what the builder
guarantees (`PrefixesDistinct`) and what is taken of the owner who names the modules. The `Spec` of `NodeList` is what the proofs and
`nodelist_content` use; `SpecElements` adds variables, and elements of several steps, to it.

### MetaTypes and Optimizer

A type is a record of its variant; identifiers are numbers in the order of the
`BTreeMap`. `GetResolved` and `TypeEq` are `get_resolved` and `type_eq`. `types` is the
table, `typedefs` the map that `get_typedefs!` makes when there is none and that passes
drop when they make references, `plan` the passes of `exec_optimizer` whose flags are
set. An action is a pass, and for `remove_duplicates` a round of its loop; what a pass
does type by type is a fold in the order of the table, since a later type sees what
became of an earlier one. `Builder`, `AddElement`, `IntoMixed` and `Merge` are the builder
of `flatten_complex_type.rs`. A pass that unwraps an error is the stage `panic`.

`Meaning` is the abstract specification: the values of a simple type, and the words over
element names of a complex one, with text between them where the type is mixed. It is
computed from the schema language's definition of sequence, choice and all, not from the
code. `NothingLost` compares the meanings before and after each pass; a pass may make a
type wider, as most of them do, but never narrower.

### Deserializer and Deserialize

`Shapes` holds what a template is expanded with: the kind of a type (sequence,
choice, all, content, text, any), if it is an element of its own, its members with
their bounds, if unknown content is skipped. `XsSchema` and `FeatureTypes` are the
types themselves, in the order and with the bounds of the generated code;
`old` marks the checked-in code of XML Schema, whose templates differ in a few
places from the current ones.

A deserializer is a path: its state and that of the deserializer it has in work,
and so on inwards. `call` is the stack of the calls of `init` and `next` in
progress, `event` the event they work on, `output` what the last call returned
(`DeserializerOutput`). One step is one turn of the `loop` in `next`: what the
state in work does with the event (`*Next`), or what `handle_*` makes of the output
of a member. The fallback, `ElementHandlerOutput` (`Again`) and the events that are
given back with `Continue` or `Break` are as in the code. Values are the tree of
identifiers of the elements they were read from.

`Deserialize` gives each event of a document to the root's deserializer and judges
what comes back (`HandleEvent`, `HandleOutput`, `HandleSkip`). The document is any
well-formed one: at each point every tag any open type knows, one that nobody
knows, text, a comment, or the end of the element may come. Beside the program,
`dom` is the stack of open elements with the content model each must match, and
`verdict` says what a reader of the schema would say: `fine`, `wrong` with this
event, `misplaced` (wrong, but a repeated group may hide it for a while), or `open`
where the schema is ambiguous for a reader with one tag of look-ahead.

### NamespaceCollector and NamespaceScopes

A schema gives types of a few modules with their members, the prefix of each
module, the default namespace and the mode (`NamespaceSerialization`: `local` or
`global`). The collector is a depth-first walk with a cache in which `in work` is
the `None` that `get_namespaces_impl` puts there; `frames` is its call stack, each with
the numbers of the members it has still to merge, and the types are asked for in any order, as the renderer's order is that of the types.

The writer has the `level` and the `table` of `SerializeHelper` and the stack of
`open` elements; each action is the start of one kind of value: the root, a complex
type (`WriteTyped`), text (`WriteSimple`), `xsi:nil`, `xs:anySimpleType`, an element
of any type with the namespaces it was captured with. `wire` is the event: the
names with the namespace each was written for, and the `xmlns` attributes. The
reader is `DeserializeHelper`: the resolver of quick_xml, which is external, the
cache of `namespaces()` and `pending_pop`. What is in scope is a list of levels, one for
each open element, each with its declarations; `PopOutdated` drops the cached answers of
the levels that were left, which are the last ones.

## 3. Runs

The bounds are in the configurations and in the `MC` modules.

| run | asks | bounds | distinct states |
|---|---|---|---|
| `generator_schemas` | queue, boxes, finite size, reachability, termination, refinement | up to 2 types of every kind with undefined references, all `BoxFlags`, 2 `with_type` calls; 3 structs with up to 2 fields each | 494,644 |
| `generator_rings` (violation) | finite size | 4 structs with one field | about 59,000 |
| `builder_schemas` | loading, ids, dependencies, namespaces of included documents, termination, no panic, complete schemas, prefixes | 1–2 files in different directories with up to 2 references each, 3 names, and a text with two; or 3 texts; 2 namespaces, 2 prefixes, the flags | 1,290,546 |
| `nodecache_views` | views, copies, dangling and stale references, termination | 3 schemas, 1 or 2 namespaces, 3 names; a circle of two that redefine each other, with 4 names; 4 schemas with a circle back to the first | 106,242 |
| `nodecache_redefine` (violation) | redefinitions reach all | a redefined declaration with users | 150 |
| `nodelist_order` | order, circles, bases, members and names of substitution groups, termination | 3 types; 2 types and 2 groups; 2 types with content; all orders; 4 elements with up to 3 heads each in 3 orders, abstract and nillable ones, names in 4 namespaces | 565,969 |
| `nodelist_content` (violation) | bases are available | 2 types | about 2,800 |
| `optimizer_passes` | the map of typedefs, panics, names made twice, values lost, termination | 4 families of 5 or 6 types: simple types, nested groups, two types that may be equal, a substitution group; words of up to 3 elements; each pass, pairs of passes and all of them | 163,121 |
| `deserializer_documents` | deserializers and elements in step, what is rejected, what is accepted, an answer | every type of XML Schema and of 8 feature tests as the root; 2 or 3 elements for the former, 6 for the latter, one text or comment | 356,452 |
| `deserializer_bounds` (violation) | numbers of values | as above | about 1,100 |
| `deserializer_truncated` (violation) | an answer, for documents that end early | as above | 356,452 |
| `namespaces_documents` | collected namespaces, table in scope, names read as written, `namespaces()` | 4 families of 3 types in 2 modules, 7 choices of prefixes, with and without default, both modes; 5 elements, 4 levels | 390,861 |

Why the bounds are enough:

* Generator: what the table and the queue can get wrong needs a type that is
  asked for twice, in work, queued or done: two types and themselves give all of
  it. Reachability is copied over one level, so it takes three types to read
  another type's set, and four to miss something: three hold, four do not.
  `generator_rings` is exactly that border.
* Parser: two files give a circle, a file that names itself, and one location with
  two names; two directories make a name mean two things. `MaxIds` and `MaxEntries`
  bound what exists before the last call of the owner, and not what that call does.
* Builder: two namespaces and two prefixes are the smallest contest; three entries
  let the third prefix decision depend on the first two.
* Node cache: three schemas are a redefiner, a redefined one, and one that either
  shares or hides; with two namespaces the third has names of its own. `Rounds` is the
  least world in which a copy falls behind its original. `Reentered` has a fourth schema, without
  which the orders of `search_in_schema` and `schema_set` are the same. The proofs need no bound.
* Node list: a circle of three, a diamond, a group in a group, and a type that is
  reached over two groups fit. Four elements give a head over a head, two ways to one head,
  a circle of heads, and the third of three equal names.
* Optimizer: a pass looks at a type, what it refers to, and what that refers to, so chains
  of three show what is resolved too little or too far. Each family has the pairs of
  passes that read what the other wrote. Words of three elements tell bounds 0, 1, 2 and
  unbounded apart. Types are numbered in both orders, since the first of two equal types
  stays.
* Deserializer: the state machines of the members do not depend on each other but
  through events that are given back, so a root, an element in it and one beside it show
  each kind of hand-over; XML Schema has them nested four deep. Sequences of groups with
  bounds need more elements: a threshold of two groups of two is six elements.
* Namespaces: a prefix that is bound again needs three nested elements (outer,
  other, outer), a leaked entry a parent with two children and a sibling: five
  elements. Two modules compete for a prefix or for the default.

What the violations show (each is listed under `findings` with the place in the
code and the promise it breaks):

* `generator_rings`: the ring A → D → C → B → A, generated in the order A, B, C, D,
  gets no box at all. `get_reachable` reads the sets of other types one level deep
  and at the time of the call, so what these learn later is not passed on.
* `nodecache_redefine`: a declaration that contains itself and a redefined
  declaration is copied, but the reference of the copy to itself still leads to the
  original. `OnlyLateOrHiddenStale` bounds the damage: apart from declarations
  with such copies (or of other namespaces with the same name), only documents
  that were processed after the redefinition keep an old reference.
* `nodelist_content`: a type that extends a base and contains an element of the base
  has only a weak dependency on it, because the later reference replaces the
  earlier one; if the base is declared after it, the interpreter panics.
  `OnlyLostBasesMissing` shows that nothing else makes it panic.
* `deserializer_bounds`: `finish_vec` joins the two bounds with "and", so a list is
  never too short or too long for it. Only where a state counts the values itself is
  the lower bound enforced.
* `deserializer_truncated`: the end of the file is an event like others, and an event
  that comes back with `allow_any` is dropped: the loop reads the end forever.

### Known deviations

Found while modelling, and kept out of the passing runs by a restriction or an
exception that is named where it is made; none is fixed by a change of the model.

* `with_resolver` after a schema was added starts the ids anew but keeps the entries:
  two schemas get one id and `finish` panics (`parser/mod.rs:142`). The constant
  `LateResolver` is FALSE in the runs, which is how the repository uses it.
* Where two schemas depend on each other, one may copy a declaration of the other before that
  one redirects it: the copy keeps the old dependency, and the two disagree from then on
  (`interpreter/state/crate_node_cache.rs:386`; the exception of `CopiesAgree`).
* A location in the cache answers an include without a comparison of namespaces: a
  document without a namespace stays in the namespace of whoever asked first
  (`parser/mod.rs:461`); `IncludedNamespace` says who may be answered wrongly.
* `schema_set` does not mark the schema it begins with as visited
  (`models/ident_cache.rs:306`): where a circle leads back to the schema, its dependencies are
  listed again within those of another one, in an order that is not that in which
  `search_in_schema` resolves names. A declaration that the schema resolves may then not be in
  its set, and no redefinition of the schema redirects it. `OnlyLateOrHiddenStale` promises
  nothing of what is not in `SchemaSet`.
* A generated prefix is inserted without a look at the table (`parser/mod.rs:840`).
* `need_box` answers no for a typedef or a union that has no reference yet
  (`generator/context.rs:354`).
* A content with room for more hands the start of an element to the parents while its
  own element is open (`renderer/steps/quick_xml/deserialize.rs:2719`, against the
  comment at 2673), so that a parent may take it. Such documents have the verdict
  `open`.
* `write_xmlns` looks for the namespace and not for its prefix: if an element in
  between binds the prefix anew, the name means another namespace (`Rebound`). It
  takes three levels of modules without a prefix, or an element of any type.
* In local mode an element of one module with a type of another binds its prefix to the
  namespace of the type, and text in it is without a declaration (`~ wire.home`).
* `xsi:nil` enters its namespace in the scope around it: of two nil elements beside
  each other the second one has no `xmlns:xsi` (`StrayXsi`).
* `xs:anySimpleType` begins a scope that nothing ends: from then on entries outlive
  their elements (`Drifted`).
* In local mode a qualified attribute in the namespace of its element, if that is the default
  one, has the prefix of the module, but the element declares the module without it: when the
  bindings are rendered, the id of the module is taken to be done (`serialize.rs:712`;
  `OwnAttribute`).
* For types that contain each other, what the collector caches for all but the first
  misses the namespaces of what was in work (`CutOff`).
* An element with several heads that lead to one head is a member of it several times
  (`generate_types/variant_processor.rs:1328`; `HasMembers` says when).
* A nillable element without heads of its own is no longer nillable when it gets a member:
  its reference, which has the mark, is replaced (`variant_processor.rs:294`, `KeepsNil`).
* An element the owner gives with `with_type` is not built, so it is not added to its heads
  (`type_processor.rs:143`); if it is a head itself, its members fail with
  `ExpectedDynamicElement`.
* The third of three members with one name gets the name of the second, or the first one's if
  the second is in another namespace: `index` starts at 2 again for each member
  (`fix_element_naming_conflicts.rs:38`). Three such members are the type of a head and two
  elements of its name, or an element that is a member three times. A made name may also be
  the name of another element. `NamesDistinct` names these cases; each of its exceptions is
  needed.
* Optimizer (the exceptions of `NothingLost`, `FailsOnlyOnReferences` and `NamesApart`; the run fails
  when any one of them is taken away):
  - With `REMOVE_DUPLICATES` and without `RESOLVE_TYPEDEFS` the content of a complex type
    may become a reference. `merge_choice_cardinality` and `simplify_mixed_type` choose
    types by the resolved content but rewrite the content itself, and their error is
    unwrapped.
  - With both flags two complex types may share one content. `merge_choice_cardinalities`
    resets its elements for the first type and finds no bounds for the second, which
    loses repetitions (`SharedContent`); `simplify_mixed_types` adds the fields for text
    twice, under the same names.
  - `merge_choice_cardinality` takes the greater of the bounds of a choice and of its
    elements and not their product (`ProductOfBounds`).
  - `flatten_complex_types` counts elements with one name together, which loses their
    place among the others (`RepeatedName`).
  - `simplify_mixed_types` does not look at the lower bound of a sequence: text in a
    sequence that may be absent now needs the sequence (`TextWithoutContent`).
  - `merge_enum_unions` drops a member whose name is also a value of an enumeration in the
    union (`ValueNamedAsMember`).
  - `resolve_typedefs` replaces the elements of a substitution group by their types when
    `CONVERT_DYNAMIC_TO_CHOICE` has not turned it into a choice, and the generated tag is
    the name of the type (`NamedAsType`).
  - `remove_empty_enum_variants` removes the empty string from the values of a type: that
    is what it is for.
* Two elements of one name in the same group become one whose bounds are those of the last
  (`interpreter/state/generate_types/variant_processor.rs:748`, `update.rs:36`; not modelled).

### Fairness

A call of the owner runs by itself until it returns, in one thread. So the steps
inside a call are weakly fair: `Run` of the generator, `Resolve` of the parser,
`Work` of the interpreter's node cache and node list, `WorkElements` of the latter with
elements, and all of the optimizer, which is
one call. The calls of the owner are not fair: it may stop at any time. `BuilderSpec` has
no fairness of its own; `SmallSpec` of `MCSchemasBuilder` adds that of `Resolve`.
`deserialize` reads until it has an answer, and the reader always returns an event
(`ReadingSpec` of `MCDeserialize`). `ScopeSpec` has no fairness because only safety is asked
of it.

Liveness: each call returns although types, documents, schemas and declarations refer to
each other in circles (`Returns`), the rounds of `remove_duplicates` come to an end (`Ends`),
and each document that is read to its end is accepted or rejected (`Answered`). The exception is known:
groups that contain each other are visited without a mark and have no end, so
`MCNodeList` lets a group contain a later group only.

## 4. Proofs

The theorems hold for all values of the constants that satisfy the named
assumptions of the modules, which only say what the constants are (types of
documents and references, identifiers that are numbers, None outside of the sets), but for
what `NodeListProofs`, `SubstitutionsProofs` and `OptimizerProofs` assume of a schema, as told there.

**`GeneratorProofs`.** `TableInvariant` (the types, and that each id belongs to the
type listed under it) is inductive, because every lookup of the other parts needs
it, and gives `TypeCorrect` and `IdsAlwaysConsistent`. On top of it follow, each
from the ones before: `AlwaysGeneratedOnce`; `AlwaysFollowed`, that all references
of the type in work up to the current one, and of all generated types, have a path,
which is what `NothingEverDangles` needs; `ReachAlwaysSound`, with `LeadsTo` as the
least set closed under references (a second-order definition, so that no induction
over paths is needed); `BoxesOnlyOnCycles`, where the walk of `need_box` is
followed along `Chain`; and `GeneratorImplementsClosure`, that every step is a
step of the closure or a stutter.

**`ParserProofs`.** `TypesCorrect` holds without an assumption. The other four
assume `~ LateResolver`, which is how `exec_parser` uses the parser. `AlwaysLoadedOnce` relates the cache and
the entries. `IdsAlwaysAccounted` is an argument about intervals: the ids of the
queue, of the texts and of the cached locations are disjoint and are together
`0 .. nextId - 1`; the lemmas on queues (`TailIds`, `ConcatIds`, `RequestIds`)
carry it through one step. `DependenciesAlwaysFollowed` follows an id from its
dependency through the queue into the cache. `IncludedAlwaysAlike` needs to know what a
request carries while it waits: `RequestsAlike` says that a queued request has the kind of
the dependency with its id, and the namespace of the schema that has this dependency.

**`SchemasBuilderProofs`.** `BuilderInv` carries what the parser has proved over its end:
`ParserInv` (its own invariant), `Frozen` (once the builder has begun, the parser is at rest),
`IdsTranslated` (the id cache translates each temporary id to the schema that has it; no
two schemas have one, which is where `IdsAccounted` is used), `NamespaceInv` (each namespace
has a number of its own, 1 if it has no name) and `SchemasInv` (what is
there is what the entries up to the cursor give). From it, all under `~ LateResolver`:
`AlwaysReachable`, that the assertion of `add_schema` never fails, `SchemasAlwaysComplete` and
`DependenciesAlwaysResolve`. `PrefixesAlwaysDistinct` needs no assumption. Its invariant
`PrefixInv` says that in the passes that hand prefixes out the table of known
prefixes leads back to the namespace that has one (`TableLeadsBack`), which is not so
any more when the generated prefixes are entered; by then no declared one is handed out.

**`NodeCacheProofs`.** All five safety properties but the one that is false are
theorems, for every set of schemas, in every circle; the only assumptions are the types
of schemas and their content. Three layers:

* `Views`: `order[s]` begins with `s` and lists exactly what `s` leads to, and `listing[s]` does
  so too (`Listings`), in an order of its own. This is a fact
  about a recursive definition: `WalkHolds` follows `Search` step by step
  with a measure — each step shortens the work list or adds a schema that was not seen —
  so that `Enough` steps empty it, with whatever list of schemas the search begins
  (`DepthFirstFinds`). That what a schema resolves and what is listed for it are the same set is
  all that the proofs need of the two orders.
* `Calls`: each call on the stack of `process_schema` leads to the next one and is in front of
  a directive it has visited; what a finished schema names is processed.
* `EntryInv`: `Sees` is `ViewsSeparate` itself, which is inductive only with `Rest` (what an
  entry is redirected to is there) and `Entries` (a schema's names are those it declares and
  those of the copies in it); `Leads` says how each reference came about, `Bases` that a copy
  keeps its name, `Copies` that the original of a copy does not change any more, as its schema
  is finished unless it leads back. Every step satisfies `Keeps`: names and entries are never
  lost, and nothing of a finished schema changes.

`ViewsAlwaysSeparate` and `CopiesAlwaysAgree` follow from this invariant.
`OnlyStrayCopiesEverDangle` adds `Filed`: what a call has applied and added has an entry, so
a finished schema has one for each declaration. `OnlyLateOrHiddenEverStale` adds `Settled`:
what a directive replaced is `Clean` for its schema or waits in `redo`. Its main lemmas are
`BeforeFinished`, that what a schema has visited is finished unless it leads back to
the schema (since everything unfinished leads to the one in work), and `ResolvedClean`, that
a round leaves nothing that refers to `x` in sight, because the copy now hides it.

The proof of `CopiesAgree` failed as it was first stated, which led to the world `Rounds`
and to the exception for schemas that depend on each other (known deviations above).

**`NamespaceScopesProofs`.** `AlwaysCollectedComplete`: for every graph of types, the
collector gives a type no namespace that its content does not need, and all of
them if it contains no circle. `CollectorInv` is the invariant of a depth-first search
with a cache: frames are of different types that are in work and contain each other in
order (`CallsNested`, `CallsInWork`, `CallsDiffer`); what a frame has merged is in its keys, unless
its type is part of a circle (`CallsComplete`); what is done is complete if no type in it is
(`DoneComplete`). `Contained` is the least closed set, so that no induction over paths is needed.
`NamespacesAlwaysInScope`: `Reads` says that each cached answer of the reader is what was
in scope at its level; `Following` says that what is left when the next event comes
(`Staying`, without the scope that is left an event late) are the scopes of the writer's
open elements, so that the theorem is about writer and reader together, whatever was
written before.

In the second part of the module, `TableAlwaysInScope` and `AlwaysReadAsWritten`, for every schema,
document and depth. `WriterInv` adds to `CollectorInv` what the table is and where its entries
come from:

* the table is sorted by level (`TableSorted`), so that `begin` and `end`, which cut off a tail,
  drop exactly the entries of the levels that are left (`PoppedSorted`);
* the level is the number of open elements with a scope (`Counted`) and the entries of each
  level are the declarations of the element that opened it (`Nested`, `TableFits`), both while no
  `xs:anySimpleType` was written (`Exact`): afterwards the level of the code is really wrong,
  which is what `Drifted` excuses;
* an open element is in the content of the root (`MembersWithin`), and the root declares
  what the collector found for its content (`RootDeclares`), which rests on
  `DoneComplete` of the collector's invariant: collector and serializers are proved to agree;
* the names of each open element are declared by it or around it (`NamesDeclared`), and so are those
  of the event that was written last (`WireNamed`).

Each action of the writer is mapped to one of five steps (an element opens, opens with a scope it
does not end, is written whole, ends, or nothing is written), and each step keeps the
invariant. What `write_xmlns` leaves behind is `Wrote`, proved along its steps
(`WriteSteps`); that the innermost entry of a namespace is the one `ReadAsWritten` looks for is
`InnermostPlace`. The assumptions say what schemas and modules are: modules have
names, members are of types of the schema, the modules of XML Schema and of `xsi:nil` are among
them, `xs:any` is neither text nor nillable, and a schema
is rendered in one of two modes. `LiteralAssumption`, that `"xsi"` and `"xs"` are
strings, is part of TLA+ but unknown to the provers. The run checks `WriterInv`'s parts only by
their consequences; all of it was checked on the 390,861 states of that run before it was proved.

**`NodeListProofs`.** `WalkInv` is the inductive invariant of a depth-first walk:
the calls on the stack that are not lazy are the nodes marked `visited`, the list
holds the types marked `done`, what a call is done with is done or weak, and each call on
the stack depends on the next one. It is needed because `StrongFirst` alone does not
say why a strong dependency of the top is in the list when the top is left. From
it: `AlwaysStrongFirst`, `AlwaysListedOnce` and `CircularAlwaysReal` (the stack from the
marked node on is the circle) for every schema, groups in groups included.
`BuildInv` adds that types of the list up to the current one exist;
`OnlyLostBasesEverMissing` assumes that every base is declared or given
(`BasesDeclared`), and `HardDependenciesAlwaysAvailable` also that no type mentions
its base again after it has named it (`LastStrong`) — the condition the finding
is about.

**`SubstitutionsProofs`.** `ElementsInv` holds for all declarations, in every order and
every circle of heads, on top of `WalkInv` and of the list in order, from which an element is
built after its heads. `EntriesInv` relates what an element names to its entry. `MembersInv` says of
every finished element that its heads are finished and that each of them has it (`Members`,
`Added`), and of the element in work (`Making`) that all its heads are those the
walk has come to together with the heads that are left and all theirs, and that no head is reached
twice if there is only one way to it. `AllHeads` is the least closed set (`LeastHeads`),
and `HeadsUnfold`, that all heads of an element are those it names with all theirs, is what moves a
head from one side to the other. From it, when the interpreter is finished:
`MembersAlwaysComplete`. `NamesAlwaysDistinct` is an argument about `DisplayName`: of the
renamings of two members with one name the last one decides (`LastBefore`), a prefix makes a name longer, and
two prefixes do not make one name (`PrefixedDiffer`), under `PrefixAssumption`; `LaterNamed` then says
that two members get different names but where the known deviations apply. The attempt showed that
the model took every strong dependency of an element for a head, the base of its inline
type too, which no instance had; that is what `Heads` is for, and an element of the run has such a
base now.

**`OptimizerProofs`.** `TypedefsAreSound`, for every finite table of types and all flags: references
end, and the map of typedefs, which is kept while passes rewrite the table, leads where they do.
The parts of a type (`Parts`) are its base, its members, the type it refers to, the
derived types and the groups in it, not the types of its elements. The inductive invariant,
`TypedefsInv`, is needed because the property alone says nothing of bases and
members, which become references when an enumeration or a union is emptied:

* `IsTable`: every type has the fields of its kind, its parts are in the table, and every set of
  types has one without a part in the set, so that no type is a part of itself over any
  number of others;
* `MapFits`: the map has an entry for each simple reference, which resolves to what the reference
  does, and no other;
* what dynamic types get as their content is not in the table yet.

Most passes give a type only parts that it reached before, over any number of others
(`Fine`, `Reaches`), and then no ring can be new (`TableStep`): `Reaches` is a least closed set, so
that no path is ever counted. References to what was reached keep the map
(`ReachingReferences`). Two passes are different. `convert_dynamic_to_choice` adds types
(`DynamicsGrown`). `remove_duplicates` makes a type refer to another one that it never
reached; the argument there (`DuplicatesTable`) is that equal types have equal parts once these are
resolved (`EqualParts`), so that a ring of the new table would be one of the first ones of equal
types in the old table. `resolve_typedefs` is the one that uses what the map promises.

Passes are folds, and the functions in them are recursive. `Recursion` is proved once, for a
recursion that needs its values below in any table without rings, by well-founded sets: two partial
solutions agree (`AttemptsAgree`), and a least element without one would have one. Every
recursive function of `Optimizer` and `MetaTypes` is shown to be an instance of it
(`Body` lists them): `FlattenRecursion`, for one, is the proof that `exec` over nested
groups ends. What a pass does to a type is kept in named predicates (`ContentStep`,
`FromGroup`, `Passed`, `Collecting`), one per loop.

The second part, `FailsAlwaysOnReferences`, is about the order of the passes: the unwraps of
`merge_choice_cardinalities` and `simplify_mixed_types` fail for no other reason than a content
that `remove_duplicates` made a reference, which needs that flag without
`RESOLVE_TYPEDEFS`. Its invariant, `PassesInv`, adds to `TypedefsInv`:

* `Layered`: groups and the references to them are apart from all other types; no type but a
  complex one, by its content, leads to them. Otherwise a pass that makes a reference of a
  simple type could make one to a group. Most passes keep this because what they give a type it
  reached before (`Layers`); `EqualLayer` is why duplicates are on the same side;
* `Direct`: no complex type has a reference for its content. It holds from the start, is lost when
  duplicates are removed, and is so again once typedefs are resolved
  (`ResolveTypedefsStep`), which is why `GroupsInv` gives it up only for flags under which nothing
  resolves them;
* `InGoodOrder`: what is left of the plan. Each `remove_duplicates` is followed by a
  `resolve_typedefs`, if that flag is set, and no `resolve_typedefs` comes after a pass that
  unwraps. So when such a pass runs, contents have been resolved or never will be. It is proved of
  the fold that makes the plan, for every set of flags (`PlanInGoodOrder`).

`DirectContent` and `FailsIndirectly` then say that the two passes fail on one content only, and that
it is a reference. The property was first stated together with `NamesApart`, which is a
property of its own now.

Assumed: identifiers are natural numbers and finitely many, as in every run of the program
(`IdentAssumption`), and the tables to start with are tables in which groups are only parts of
groups (`WorldsAssumption`, `GroupsApart`): the interpreter makes a group with the complex type it is
the content of. The interpreter
makes none of a schema whose derivations, groups or substitution groups come around
(`create_node_list.rs:57`). It does not look at members of unions and items of lists, which are weak
dependencies: that they do not come around is what XML Schema demands, and a schema
that violates it is outside of what is proved.

Proved only, and in no run: `TypeCorrect`, `IdsAlwaysConsistent` and `NothingEverDangles` of the generator, and
`TypesCorrect` of the parser and of the node list.

Model-checked only, and why:

* `NamesApart` of `Optimizer`: that the text elements of a mixed type get names of
  their own rests on names made by concatenating strings, of which the provers know nothing.
* All of `Deserialize`, which uses RECURSIVE operators for the tree of values and of types, and
  `NothingLost`, which compares what recursive definitions compute.
* `NoInfiniteType`, which is false for four types.
* Everything about liveness, which is beyond the prover with `ENABLED` and fairness.

No module with theorems uses a RECURSIVE operator; recursion is written as functions, and an
invariant of what such a function computes is proved along its steps (`WalkHolds`, `WriteSteps`) or
by the least element for which it fails (`Recursion`, `LeavesIn`, `FlattenCollected`).

## 5. What is not modelled

* Names, formatting, tokens, documentation, I/O, logging and the debug output.
* Of the deserializers: attributes beyond being complete, the conversion of text and
  values, contents with defaults, mixed and nillable content, and the path of an error.
* Of the namespaces: unqualified elements and attributes, schemas without a namespace,
  the modes `None` and `Dynamic` (a walk over the value at run time), QNames as values
  other than that of `xsi:type`.
* Resolvers: which of several answers, and what reading a file or a URL can do.
* The kinds of declarations that may share a name, and names of anonymous types.
* `Interpreter::with_type` and `IdentCache::resolve`, nillable
  and mixed content of types; the trait infos; the parts of the renderer that only
  format.
* Of the optimizer: `replace_xs_any_type`, custom types, attributes, display names, and the
  limits of depth, which no caller sets. Groups are judged with the type they belong to.

## 6. Plan

Done, in this order: `Generator` with `GeneratorClosure` and its proofs; `Parser` and
`SchemasBuilder` with the parser's proofs; `NodeCache`; `NodeList` with its proofs;
`Substitutions`;
`Deserializer` and `Deserialize`; `NamespaceCollector` and `NamespaceScopes`; `MetaTypes` and
`Optimizer`.

Next:

1. `TypeProcessor`: the content of types, types of the owner, ambiguous identifiers;
   composed with `Substitutions`.
2. Mixed and nillable content and the path of errors in `Deserialize`.
3. `TraitInfos`; then `Renderer` and naming, as far as they keep state.
4. A composition of builder and node cache without `RESOLVE_INCLUDES`.

A proof that is worth its work: the end of the optimizer's passes as a decreasing measure.

The number of runs is kept small: new modules share runs with what they compose with, as
the parser does with the builder and `NodeList` with `Substitutions`.
