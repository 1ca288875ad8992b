----------------------------- MODULE Optimizer -----------------------------
(* The optimizer (pipeline/optimizer): exec_optimizer runs the passes that   *)
(* its flags name, in a fixed order, over the table of types. One action is  *)
(* one pass, and one round of remove_duplicates. replace_xs_any_type is left  *)
(* out, as custom types are.                                                 *)
EXTENDS MetaTypes

CONSTANTS
  Ident,         \* the identifiers of types
  ContentOf,     \* the new identifier of the content of each type
  Worlds,        \* the tables of types to start with
  FlagSets(_)    \* the flags the optimizer is given for a table

\* The table of the interpreter: every type in it has its parts there. Derivation, groups and
\* substitution groups do not come around, as the interpreter makes no list of the nodes of such
\* a schema (create_node_list.rs:57); that no union or list is among its own members or items
\* is what XML Schema demands. Groups are only made with the complex type they are the
\* content of. A dynamic type gets its content under a new identifier.
ASSUME IdentAssumption == Ident \subseteq Nat /\ IsFiniteSet(Ident)
ASSUME WorldsAssumption ==
  \A t \in Worlds :
    /\ DOMAIN t \subseteq Ident /\ IsTable(t) /\ GroupsApart(t)
    /\ \A i \in DOMAIN t : t[i].kind = "dynamic" => ContentOf[i] \in Ident \ DOMAIN t

VARIABLES
  types,         \* Optimizer::types
  typedefs,      \* Optimizer::typedefs: NoTypedefs, or the targets of simple references
  flags,         \* OptimizerConfig::flags
  plan,          \* the passes that are still to run
  stage          \* running, done, or panic

vars == <<types, typedefs, flags, plan, stage>>

NoTypedefs == <<NoIdent>>

\* The order of exec_optimizer.
Passes ==
  <<"USE_UNRESTRICTED_BASE_TYPE", "REMOVE_EMPTY_ENUM_VARIANTS", "REMOVE_EMPTY_ENUMS",
    "CONVERT_DYNAMIC_TO_CHOICE", "FLATTEN_COMPLEX_TYPES", "FLATTEN_UNIONS",
    "MERGE_ENUM_UNIONS", "RESOLVE_TYPEDEFS", "REMOVE_DUPLICATE_UNION_VARIANTS",
    "REMOVE_EMPTY_UNIONS", "REMOVE_DUPLICATES", "RESOLVE_TYPEDEFS",
    "REMOVE_EMPTY_ENUM_VARIANTS", "REMOVE_EMPTY_ENUMS", "REMOVE_DUPLICATE_UNION_VARIANTS",
    "REMOVE_EMPTY_UNIONS", "MERGE_CHOICE_CARDINALITIES", "SIMPLIFY_MIXED_TYPES">>

\* USE_UNRESTRICTED_BASE_TYPE_*, by the kind of type they are for.
UnrestrictedFlags ==
  [kind \in {"complex", "simple", "enumeration", "union"} |->
     CASE kind = "complex" -> "USE_UNRESTRICTED_BASE_TYPE_COMPLEX"
       [] kind = "simple" -> "USE_UNRESTRICTED_BASE_TYPE_SIMPLE"
       [] kind = "enumeration" -> "USE_UNRESTRICTED_BASE_TYPE_ENUM"
       [] kind = "union" -> "USE_UNRESTRICTED_BASE_TYPE_UNION"]

Enabled(f) == [pass \in ToSet(Passes) |->
  pass \in f \/ (pass = "USE_UNRESTRICTED_BASE_TYPE"
                 /\ \E kind \in DOMAIN UnrestrictedFlags : UnrestrictedFlags[kind] \in f)]

Planned(f) ==
  Fold(LAMBDA before, pass : IF Enabled(f)[pass] THEN Append(before, pass) ELSE before,
       <<>>, Passes)

Init ==
  /\ types \in Worlds
  /\ flags \in FlagSets(types)
  /\ plan = Planned(flags)
  /\ typedefs = NoTypedefs
  /\ stage = "running"

InWork(pass) == stage = "running" /\ plan # <<>> /\ Head(plan) = pass
Leave == plan' = Tail(plan) /\ UNCHANGED <<flags, stage>>
Panic == stage' = "panic" /\ UNCHANGED <<types, typedefs, flags, plan>>

InOrder(S) ==
  LET upTo[T \in SUBSET S] == IF T = {} THEN <<>> ELSE Append(upTo[T \ {Max(T)}], Max(T))
  IN upTo[S]
OfKind(kind) == {i \in DOMAIN types : types[i].kind = kind}

\* Mutant: the map of typedefs is kept.
ToReferencesOnly(target) ==
  /\ types' = [i \in DOMAIN types |->
                 IF i \in DOMAIN target THEN Reference(target[i]) ELSE types[i]]
  /\ UNCHANGED typedefs

\* What several passes do: types become references, and the map is dropped.
ToReferences(target) ==
  /\ types' = [i \in DOMAIN types |->
                 IF i \in DOMAIN target THEN Reference(target[i]) ELSE types[i]]
  /\ typedefs' = IF DOMAIN target = {} THEN typedefs ELSE NoTypedefs

\* find_or_insert: what has a name that is known already is dropped.
Distinct(list) == Firsts(list, LAMBDA x : x.name)

\* TypedefMap::new and resolve; get_typedefs! makes the map when there is none.
TypedefMap == [i \in {j \in DOMAIN types : IsSimpleReference(types[j])} |-> types[i].to]
Typedefs == IF typedefs = NoTypedefs THEN TypedefMap ELSE typedefs
Resolve(map, ident) ==
  LET to[i \in Ident] == IF i \in DOMAIN map THEN to[map[i]] ELSE i IN to[ident]

(***************************************************************************)
(* use_unrestricted_base_type                                              *)
(***************************************************************************)
BaseMap ==
  LET base(i) == IF types[i].kind = "simple" THEN Base("restriction", types[i].base)
                 ELSE types[i].base
      same(i) == /\ types[i].kind \in {"enumeration", "union", "complex"}
                 /\ types[i].base.of # NoIdent
                 /\ types[types[i].base.of].kind = types[i].kind
  IN [i \in {j \in DOMAIN types : types[j].kind = "simple" \/ same(j)} |-> base(i)]

GetUnrestricted(ident) ==
  LET bases == BaseMap
      to[i \in Ident] ==
        IF i \in DOMAIN bases /\ bases[i].by = "restriction" THEN to[bases[i].of] ELSE i
  IN to[ident]

UseUnrestrictedBaseType ==
  /\ InWork("USE_UNRESTRICTED_BASE_TYPE")
  /\ LET wanted == {i \in DOMAIN types :
                      /\ types[i].kind \in DOMAIN UnrestrictedFlags
                      /\ UnrestrictedFlags[types[i].kind] \in flags
                      /\ types[i].kind = "simple" => ~types[i].list}
     IN ToReferences([i \in {j \in wanted : GetUnrestricted(j) # j} |-> GetUnrestricted(i)])
  /\ Leave

(***************************************************************************)
(* Enumerations and unions                                                 *)
(***************************************************************************)
RemoveEmptyEnumVariants ==
  /\ InWork("REMOVE_EMPTY_ENUM_VARIANTS")
  /\ types' = [i \in DOMAIN types |->
                 IF types[i].kind = "enumeration"
                 THEN [types[i] EXCEPT !.variants = SelectSeq(@, LAMBDA v : v.name # "")]
                 ELSE types[i]]
  /\ UNCHANGED typedefs
  /\ Leave

RemoveEmptyEnums ==
  /\ InWork("REMOVE_EMPTY_ENUMS")
  /\ LET empty == {i \in OfKind("enumeration") :
                     types[i].variants = <<>> /\ types[i].base.of # NoIdent}
     IN ToReferences([i \in empty |-> types[i].base.of])
  /\ Leave

\* The types a union ends in when nested unions and typedefs are opened.
Leaves(table, ident) ==
  LET of[i \in DOMAIN table] ==
        IF table[i].kind = "union"
        THEN FlattenSeq([k \in DOMAIN table[i].members |-> of[table[i].members[k]]])
        ELSE IF IsSimpleReference(table[i]) THEN of[table[i].to]
        ELSE <<i>>
  IN of[ident]

FlattenUnion(table, ident) ==
  LET t == table[ident]
      nested == \E k \in DOMAIN t.members :
                  table[GetResolved(table, t.members[k])].kind = "union"
  IN IF nested THEN [table EXCEPT ![ident] = Union(t.base, Leaves(table, ident), "any")]
     ELSE table

FlattenUnions ==
  /\ InWork("FLATTEN_UNIONS")
  /\ types' = Fold(FlattenUnion, types, InOrder(OfKind("union")))
  /\ UNCHANGED typedefs
  /\ Leave

MergeEnumUnion(table, ident) ==
  LET leaves == Leaves(table, ident)
      variants(i) == IF table[i].kind = "enumeration" THEN table[i].variants
                     ELSE <<Variant(PropertyName[i], i)>>
      merged == Distinct(FlattenSeq([k \in DOMAIN leaves |-> variants(leaves[k])]))
  IN IF \E k \in DOMAIN leaves : table[leaves[k]].kind = "enumeration"
     THEN [table EXCEPT ![ident] = Enumeration(NoBase, merged)]
     ELSE IF leaves # <<>> THEN [table EXCEPT ![ident] = Union(NoBase, leaves, "any")]
     ELSE table

MergeEnumUnions ==
  /\ InWork("MERGE_ENUM_UNIONS")
  /\ types' = Fold(MergeEnumUnion, types, InOrder(OfKind("union")))
  /\ UNCHANGED typedefs
  /\ Leave

\* Of the members that resolve to one type, the first one stays.
RemoveDuplicateUnionVariants ==
  /\ InWork("REMOVE_DUPLICATE_UNION_VARIANTS")
  /\ types' = [i \in DOMAIN types |->
                 IF types[i].kind = "union"
                 THEN [types[i] EXCEPT !.members = Firsts(@, LAMBDA m : Resolve(Typedefs, m))]
                 ELSE types[i]]
  /\ typedefs' = Typedefs
  /\ Leave

RemoveEmptyUnions ==
  /\ InWork("REMOVE_EMPTY_UNIONS")
  /\ LET target(i) == IF types[i].members = <<>> THEN types[i].base.of ELSE types[i].members[1]
         empty == {i \in OfKind("union") : Len(types[i].members) <= 1 /\ target(i) # NoIdent}
     IN ToReferences([i \in empty |-> target(i)])
  /\ Leave

(***************************************************************************)
(* resolve_typedefs, remove_duplicates                                     *)
(***************************************************************************)
ResolveTypedefs ==
  /\ InWork("RESOLVE_TYPEDEFS")
  /\ LET to(i) == Resolve(Typedefs, i)
         kept(t) == t.kind = "simple" \/ (t.kind = "reference" /\ ~t.single)
     IN types' = [i \in DOMAIN types |->
                    IF kept(types[i]) THEN types[i] ELSE Mapped(types[i], to)]
  /\ typedefs' = Typedefs
  /\ Leave

\* Mutant: types that refer to their duplicate already are counted again.
DuplicatesAgain ==
  LET first(i) == Min({i} \cup {j \in DOMAIN types : TypeEq(types, i, j)})
  IN [i \in {j \in DOMAIN types : first(j) # j} |-> GetResolved(types, first(i))]

\* What a round turns into a reference: all but the first of types that are equal.
Duplicates ==
  LET first(i) == Min({i} \cup {j \in DOMAIN types : TypeEq(types, i, j)})
      target(i) == GetResolved(types, first(i))
      known(i) == types[i].kind = "reference" /\ types[i].to = target(i)
  IN [i \in {j \in DOMAIN types : first(j) # j /\ ~known(j)} |-> target(i)]

\* One round of the loop; the one that changes nothing is the last.
RemoveDuplicates ==
  /\ InWork("REMOVE_DUPLICATES")
  /\ ToReferences(Duplicates)
  /\ IF DOMAIN Duplicates = {} THEN Leave ELSE UNCHANGED <<flags, plan, stage>>

(***************************************************************************)
(* convert_dynamic_to_choice                                               *)
(***************************************************************************)
\* The elements for the types that are derived from a dynamic one.
DerivedElements(table, ident) ==
  LET of[i \in {j \in DOMAIN table : table[j].kind = "dynamic"}] ==
        LET elements(d) ==
              LET to == GetResolved(table, d)
              IN IF table[to].kind = "dynamic" THEN of[to]
                 ELSE <<Element(PropertyName[d], "element", d, 1, 1)>>
            derived == table[i].derived
        IN Distinct(FlattenSeq([k \in DOMAIN derived |-> elements(derived[k])]))
  IN of[ident]

ConvertDynamic(table, ident) ==
  LET elements == DerivedElements(table, ident)
      kind == IF elements = <<>> THEN "sequence" ELSE "choice"
      content == ContentOf[ident]
  IN [i \in DOMAIN table \cup {content} |->
        CASE i = content -> Group(kind, FALSE, elements)
          [] i = ident -> ComplexType(NoBase, content, 1, 1, FALSE, TRUE)
          [] OTHER -> table[i]]

ConvertDynamicToChoice ==
  /\ InWork("CONVERT_DYNAMIC_TO_CHOICE")
  /\ types' = Fold(ConvertDynamic, types, InOrder(OfKind("dynamic")))
  /\ UNCHANGED typedefs
  /\ Leave

(***************************************************************************)
(* flatten_complex_types: a Builder collects the elements of nested groups *)
(***************************************************************************)
Builder(group) ==
  [ok |-> TRUE, new |-> FALSE, old |-> group.kind, mode |-> group.kind, min |-> 1, max |-> 1,
   mixed |-> group.mixed, elements |-> group.elements]
Failed == [ok |-> FALSE]

Once(e) == [e EXCEPT !.min = 1, !.max = 1]
Update(b, min, max) ==
  IF b.old = "choice" THEN [b EXCEPT !.min = Least(@, min), !.max = Greatest(@, max)]
  ELSE [b EXCEPT !.min = Plus(@, min), !.max = Plus(@, max)]

\* Mode::Mixed: any of the elements, as often as all of them together.
IntoMixed(b) ==
  LET count == IF b.mode = "choice" THEN b ELSE [b EXCEPT !.min = 0, !.max = 0]
      counted == Fold(LAMBDA c, e : Update(c, e.min, e.max), count, b.elements)
  IN IF b.mode = "mixed" THEN b
     ELSE [counted EXCEPT !.mode = "mixed", !.new = TRUE,
                          !.elements = [k \in DOMAIN @ |-> Once(@[k])]]

\* Mutant: an element is added again whose name is there already.
AddElementAgain(b, counts, e) ==
  IF ~b.ok \/ ~b.new THEN b ELSE [b EXCEPT !.elements = Append(@, e)]

\* add_element: one with the same name and type is counted, with another type an error.
AddElement(b, counts, e) ==
  LET same == {k \in DOMAIN b.elements : b.elements[k].name = e.name}
      k == Min(same)
      fits == b.elements[k].to = e.to
      more == [b.elements EXCEPT ![k].min = Plus(@, e.min), ![k].max = Plus(@, e.max)]
      updated == IF counts /\ b.mode = "mixed" THEN Update(b, e.min, e.max) ELSE b
      added == IF counts /\ b.mode = "mixed" THEN Once(e) ELSE e
  IN IF ~b.ok \/ ~b.new THEN b
     ELSE IF same = {} THEN [updated EXCEPT !.elements = Append(@, added)]
     ELSE IF ~fits THEN Failed
     ELSE IF counts /\ b.mode # "mixed" THEN [b EXCEPT !.elements = more]
     ELSE updated

\* Mutant: groups of one kind are merged however often the inner one repeats.
SameKindRepeated(b, inner, e) == b.mode = inner.mode

\* Groups of one kind stay what they are if the inner one does not repeat.
SameKind(b, inner, e) ==
  b.mode = inner.mode /\ (b.mode = "all" \/ (b.mode # "mixed" /\ e.max <= 1))

\* merge: the elements of an inner group, between what is before and after it.
MergeElements(b, alike, e, inner) ==
  LET counted == IF alike THEN b ELSE Update(b, inner.min * e.min, Times(inner.max, e.max))
      each(x) == IF alike THEN [x EXCEPT !.min = @ * e.min, !.max = Times(@, e.max)] ELSE Once(x)
  IN Fold(LAMBDA r, x : AddElement(r, alike, x),
          [counted EXCEPT !.mixed = @ \/ inner.mixed],
          [k \in DOMAIN inner.elements |-> each(inner.elements[k])])

Merge(outer, before, e, inner) ==
  LET start == IF outer.new THEN outer ELSE [outer EXCEPT !.new = TRUE, !.elements = before]
      alike == SameKind(start, inner, e)
      both == IF alike THEN <<start, inner>> ELSE <<IntoMixed(start), IntoMixed(inner)>>
  IN Given(both, LAMBDA p : MergeElements(p[1], alike, e, p[2]))

\* The loop of exec: a nested group is merged, once its own elements have been collected.
ExecElement(elements, k, b, exec) ==
  LET e == elements[k]
      merge(inner) == IF inner.ok THEN Merge(b, SubSeq(elements, 1, k - 1), e, inner) ELSE Failed
  IN IF ~b.ok THEN b
     ELSE IF e.mode = "group" THEN Given(exec[e.to], merge)
     ELSE AddElement(b, TRUE, e)

Flatten(table, ident) ==
  LET exec[i \in DOMAIN table] ==
        LET elements == table[i].elements
        IN IF table[i].kind \in Groups
           THEN Fold(LAMBDA b, k : ExecElement(elements, k, b, exec), Builder(table[i]),
                     [k \in DOMAIN elements |-> k])
           ELSE Failed
  IN exec[ident]

\* into_variant: the content is replaced, its occurrence goes to the complex type.
Replaced(table, ident, b) ==
  LET content == table[ident].content
      kind == IF b.mode = "mixed" THEN "choice" ELSE b.mode
      count == IF b.mode = "mixed" THEN b ELSE [min |-> 1, max |-> 1]
  IN IF ~b.ok \/ ~b.new THEN table
     ELSE [table EXCEPT ![content] = Group(kind, b.mixed, b.elements),
                        ![ident].min = @ * count.min, ![ident].max = Times(@, count.max)]
FlattenComplexType(table, ident) ==
  Given(Flatten(table, table[ident].content), LAMBDA b : Replaced(table, ident, b))

FlattenComplexTypes ==
  /\ InWork("FLATTEN_COMPLEX_TYPES")
  /\ LET complex == {i \in DOMAIN types : HasContent(types, types[i], Groups)}
     IN types' = Fold(FlattenComplexType, types, InOrder(complex))
  /\ UNCHANGED typedefs
  /\ Leave

(***************************************************************************)
(* merge_choice_cardinalities, simplify_mixed_types: an error is a panic   *)
(***************************************************************************)
Good(table) == [ok |-> TRUE, types |-> table]
Bad == [ok |-> FALSE]
EndsWith(result) ==
  IF result.ok THEN types' = result.types /\ UNCHANGED typedefs /\ Leave ELSE Panic

MergeChoiceCardinality(result, ident) ==
  LET table == result.types
      content == table[ident].content
      elements == table[content].elements
      min == Fold(LAMBDA m, e : Least(m, e.min), 1, elements)
      max == Fold(LAMBDA m, e : Greatest(m, e.max), 1, elements)
      once == [k \in DOMAIN elements |-> Once(elements[k])]
  IN IF ~result.ok \/ table[content].kind # "choice" THEN Bad
     ELSE Good([table EXCEPT ![content].elements = once,
                             ![ident].min = Least(min, @), ![ident].max = Greatest(max, @)])

\* Mutant: sequences are taken as well.
MergeGroupCardinalities ==
  /\ InWork("MERGE_CHOICE_CARDINALITIES")
  /\ LET all == {i \in DOMAIN types : HasContent(types, types[i], {"choice", "sequence"})}
     IN EndsWith(Fold(MergeChoiceCardinality, Good(types), InOrder(all)))

MergeChoiceCardinalities ==
  /\ InWork("MERGE_CHOICE_CARDINALITIES")
  /\ LET choices == {i \in DOMAIN types : HasContent(types, types[i], {"choice"})}
     IN EndsWith(Fold(MergeChoiceCardinality, Good(types), InOrder(choices)))

\* What the content of a mixed sequence may be.
AtMostOnce(e) == e.min <= 1 /\ e.max = 1

SimplifyMixedType(result, ident) ==
  LET table == result.types
      content == table[ident].content
      group == table[content]
      text(name) == [Text(name) EXCEPT !.min = 0]
      hasText == \E k \in DOMAIN group.elements : group.elements[k].mode = "text"
      between == FlattenSeq([k \in DOMAIN group.elements |->
                   <<group.elements[k], text("text_after_" \o group.elements[k].name)>>])
      simple(elements) ==
        Good([table EXCEPT ![content].elements = elements, ![ident].mixed = FALSE])
  IN CASE ~result.ok -> Bad
       [] result.ok /\ group.kind = "choice" /\ table[ident].max = Unbounded ->
            simple(IF hasText THEN group.elements ELSE Append(group.elements, Text("text")))
       [] result.ok /\ group.kind = "sequence" ->
            IF \A k \in DOMAIN group.elements : AtMostOnce(group.elements[k])
            THEN simple(<<text("text_before")>> \o between) ELSE Bad
       [] OTHER -> Bad

\* The types that are suitable are taken in the order of a HashSet.
SimplifyMixedTypes ==
  /\ InWork("SIMPLIFY_MIXED_TYPES")
  /\ LET suitable(i) ==
           /\ HasContent(types, types[i], {"sequence", "choice"})
           /\ types[i].mixed
           /\ LET c == types[ContentMeta(types, types[i])]
              IN IF c.kind = "sequence"
                 THEN \A k \in DOMAIN c.elements : AtMostOnce(c.elements[k])
                 ELSE types[i].max = Unbounded
         mixed == {i \in DOMAIN types : suitable(i)}
     IN \E order \in SetToSeqs(mixed) : EndsWith(Fold(SimplifyMixedType, Good(types), order))

Finish == stage = "running" /\ plan = <<>> /\ stage' = "done" /\ UNCHANGED <<types, typedefs, flags, plan>>

Next ==
  \/ UseUnrestrictedBaseType \/ RemoveEmptyEnumVariants \/ RemoveEmptyEnums
  \/ ConvertDynamicToChoice \/ FlattenComplexTypes \/ FlattenUnions \/ MergeEnumUnions
  \/ ResolveTypedefs \/ RemoveDuplicateUnionVariants \/ RemoveEmptyUnions
  \/ RemoveDuplicates \/ MergeChoiceCardinalities \/ SimplifyMixedTypes \/ Finish

Terminated == stage # "running" /\ UNCHANGED vars

Spec == Init /\ [][Next \/ Terminated]_vars /\ WF_vars(Next)

(***************************************************************************)
(* What the optimizer promises                                             *)
(***************************************************************************)
\* The map of typedefs, while it is kept, leads where the references in the table
\* lead, and these never come around: resolve follows them without a look at where it
\* has been (misc/typedef_map.rs:26).
TypedefsSound ==
  /\ \A i \in DOMAIN types : ~IsSimpleReference(types[GetResolved(types, i)])
  /\ typedefs # NoTypedefs =>
       \A i \in DOMAIN types : Resolve(typedefs, i) = GetResolved(types, i)

\* Another complex type has the same content.
SharedContent(i) ==
  /\ types[i].kind = "complex" /\ types[i].content # NoIdent
  /\ \E j \in OfKind("complex") \ {i} : types[j].content = types[i].content

\* A pass that unwraps only fails when duplicates are removed and typedefs are not
\* resolved: the content of a complex type is a reference then (known deviation).
FailsOnlyOnReferences ==
  stage = "panic" =>
    /\ "REMOVE_DUPLICATES" \in flags /\ "RESOLVE_TYPEDEFS" \notin flags
    /\ \E i \in OfKind("complex") :
         types[i].content # NoIdent /\ types[types[i].content].kind = "reference"

\* A name comes twice in a group only when two mixed types have come to share their
\* content: the names of the text are made twice then (known deviation).
NamesApart ==
  \A i \in DOMAIN types :
    types[i].kind \in Groups /\ Distinct(types[i].elements) # types[i].elements =>
      /\ {"REMOVE_DUPLICATES", "RESOLVE_TYPEDEFS", "SIMPLIFY_MIXED_TYPES"} \subseteq flags
      /\ \E j \in OfKind("complex") : SharedContent(j) /\ types[j].content = i

\* The known deviations: where a pass does lose values of a type.
NamesBelow(ident) ==
  LET of[i \in Ident] ==
        FlattenSeq([k \in DOMAIN types[i].elements |->
          LET e == types[i].elements[k]
          IN IF e.mode = "group" THEN of[e.to] ELSE <<e.name>>])
  IN of[ident]
RepeatedName(i) ==
  types[i].kind = "complex" /\ ~IsInjective(NamesBelow(types[i].content))
ProductOfBounds(i) ==
  /\ HasContent(types, types[i], {"choice"}) /\ types[i].max > 1
  /\ \E e \in ToSet(types[ContentMeta(types, types[i])].elements) : e.max > 1
ValueNamedAsMember(i) ==
  /\ types[i].kind = "union"
  /\ LET leaves == ToSet(Leaves(types, i))
     IN \E x, y \in leaves : /\ types[x].kind = "enumeration" /\ types[y].kind # "enumeration"
                             /\ \E v \in ToSet(types[x].variants) : v.name = PropertyName[y]
NamedAsType(i) ==
  /\ types[i].kind = "dynamic"
  /\ \E d \in ToSet(types[i].derived) : PropertyName[d] # PropertyName[GetResolved(types, d)]

TextWithoutContent(i) == HasContent(types, types[i], {"sequence"}) /\ types[i].min = 0

KnownToLose(pass, i) ==
  \/ pass = "FLATTEN_COMPLEX_TYPES" /\ RepeatedName(i)
  \/ pass = "MERGE_CHOICE_CARDINALITIES" /\ (ProductOfBounds(i) \/ SharedContent(i))
  \/ pass = "SIMPLIFY_MIXED_TYPES" /\ TextWithoutContent(i)
  \/ pass = "MERGE_ENUM_UNIONS" /\ ValueNamedAsMember(i)
  \/ pass = "RESOLVE_TYPEDEFS" /\ NamedAsType(i)

\* Whatever value a type accepts it still accepts after each pass, but for the empty
\* string that remove_empty_enum_variants is for, and but for the known deviations. The
\* content of a complex type is judged with that type, whose occurrence it shares.
NothingLost ==
  [][types' = types \/ \A i \in DOMAIN types :
       \/ types[i].kind \in Groups \cup {"reference"}
       \/ KnownToLose(Head(plan), i)
       \/ LET lost == Meaning(types, i) \ Meaning(types', i)
          IN \A v \in lost : Head(plan) = "REMOVE_EMPTY_ENUM_VARIANTS" /\ "" \in ToSet(v)]_types

\* The loop of remove_duplicates, and with it the optimizer, comes to an end.
Ends == <>(stage # "running")
=============================================================================
