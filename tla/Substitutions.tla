--------------------------- MODULE Substitutions ---------------------------
(***************************************************************************)
(* The types of elements (VariantProcessor::apply_element in xsd-parser/src*)
(* /pipeline/interpreter/state/generate_types), composed with the node list*)
(* that decides their order, and the names of their members                *)
(* (fix_element_naming_conflicts.rs).                                      *)
(*                                                                         *)
(* The type of an element is a reference, to its declared or inline type or*)
(* through a type of its own that carries one more property of it.  An     *)
(* element that names heads is added to each of them, and to the heads of  *)
(* these; the first member turns the head, whose type was finished long    *)
(* ago, from a reference into a dynamic type.                              *)
(***************************************************************************)
EXTENDS NodeList, FiniteSets, SequencesExt

CONSTANTS
  Elements,     \* the identifiers of elements
  Settings(_),  \* what else the documents with these declarations may say
  Prefix,       \* the prefix of every namespace, or NoPrefix
  NoPrefix

\* No two namespaces have the same name: the prefixes differ (PrefixesDistinct of SchemasBuilder),
\* and an owner who gives modules names of their own is taken to give them different ones.
ASSUME PrefixAssumption ==
  \A m, n \in DOMAIN Prefix : Prefix[m] = Prefix[n] /\ Prefix[m] # NoPrefix => m = n
\* The types of what the settings give for an identifier: a namespace and a name.
ASSUME SettingAssumption ==
  \A s \in Schemas : \A e \in Settings(s) : \A x \in Ident :
    e.ns[x] \in DOMAIN Prefix /\ e.name[x] \in Seq(STRING)

\* abstract and nillable: elements; ns and name: the namespace and the name of
\* every identifier, a name being a sequence of parts.
VARIABLES
  setting,   \* [abstract, nillable, ns, name]
  groups,    \* the heads an element names, in their order
  variants,  \* MetaTypes: the types of elements, and those made for them
  making,    \* VariantProcessor: the variant of the current element
  heads,     \* walk_substitution_groups: the heads that are left
  names      \* display_name of the members of every dynamic type

evars == <<setting, groups, variants, making, heads, names>>
allvars == <<vars, evars>>

Id(x, as) == [of |-> x, as |-> as]
Nothing == [kind |-> "nothing"]
Custom == [kind |-> "custom"]
Reference(t, nil) == [kind |-> "reference", type |-> t, nillable |-> nil]
Dynamic(t, members) == [kind |-> "dynamic", type |-> t, members |-> members]

With(f, x, v) == [y \in DOMAIN f \cup {x} |-> IF y = x THEN v ELSE f[y]]

InitElements ==
  /\ Init
  /\ setting \in Settings(decls)
  /\ groups = [x \in {} |-> <<>>]
  \* the type of an element its owner gives, with with_type, is not a reference
  /\ variants = [t \in {Id(x, "self") : x \in generated \cap Elements} |-> Custom]
  /\ making = Nothing /\ heads = <<>>
  /\ names = [t \in {} |-> <<>>]

\* The heads an element names, in their order.  Its other bases are those of its inline type.
Heads(refs) ==
  LET first[k \in 0 .. Len(refs)] ==
        IF k = 0 THEN <<>>
        ELSE IF refs[k].kind = "strong" /\ refs[k].to \in Elements THEN Append(first[k - 1], refs[k].to)
        ELSE first[k - 1]
  IN  first[Len(refs)]

Declare ==
  /\ NewEntry
  /\ LET d == Head(decls)
     IN  groups' = IF d.ident \in Elements THEN With(groups, d.ident, Heads(d.refs)) ELSE groups
  /\ UNCHANGED <<setting, variants, making, heads, names>>

-----------------------------------------------------------------------------
(* apply_element.                                                          *)

\* The declared type, or the one made for the content of the element.
TypeOf(x) ==
  LET named == {y \in DOMAIN cache[x] : cache[x][y] = "weak"}
  IN  IF named # {} THEN Id(CHOOSE y \in named : TRUE, "self") ELSE Id(x, "type")

InElement == phase = "generate" /\ making # Nothing

\* Up to the walk: a nillable element and a member of a group get a type of their own.
CreateElement ==
  /\ phase = "generate" /\ making = Nothing /\ count < Len(nodes)
  /\ Current \in Elements \ generated /\ Available
  /\ LET x == Current
         nil == IF x \in setting.nillable THEN {Id(x, "nillable")} ELSE {}
         dyn == IF groups[x] # <<>> THEN {Id(x, "dynamic")} ELSE {}
         declared == Reference(TypeOf(x), FALSE)
         first == IF nil = {} THEN declared ELSE Reference(Id(x, "nillable"), TRUE)
     IN  /\ variants' = [t \in DOMAIN variants \cup nil \cup dyn |->
                           CASE t \in nil -> declared
                             [] t \in dyn -> first
                             [] OTHER -> variants[t]]
         /\ making' = IF dyn = {} THEN first ELSE Reference(Id(x, "dynamic"), FALSE)
         /\ heads' = groups[x]
  /\ UNCHANGED <<vars, setting, groups, names>>

HeadType == variants[Id(Head(heads), "self")]

\* What becomes of a head with one more member.
AsHead(v, t) ==
  IF v.kind = "reference" THEN Dynamic(v.type, <<v.type, t>>) ELSE [v EXCEPT !.members = Append(@, t)]

\* Mutant: only the heads an element names itself get it.
SubstituteNear ==
  /\ InElement /\ heads # <<>> /\ HeadType.kind # "custom"
  /\ variants' = [variants EXCEPT ![Id(Head(heads), "self")] = AsHead(@, Id(Current, "self"))]
  /\ heads' = Tail(heads)
  /\ UNCHANGED <<vars, setting, groups, making, names>>

\* A head, then its own heads, then the rest.
Substitute ==
  /\ InElement /\ heads # <<>> /\ HeadType.kind # "custom"
  /\ variants' = [variants EXCEPT ![Id(Head(heads), "self")] = AsHead(@, Id(Current, "self"))]
  /\ heads' = groups[Head(heads)] \o Tail(heads)
  /\ UNCHANGED <<vars, setting, groups, making, names>>

\* ExpectedDynamicElement.
Refuse ==
  /\ InElement /\ heads # <<>> /\ HeadType.kind = "custom"
  /\ phase' = "refused"
  /\ UNCHANGED <<decls, cache, types, keys, visited, stack, nodes, generated, bases, count, evars>>

\* An abstract element has no member of its own type; create_type adds the type.
FinishElement ==
  /\ InElement /\ heads = <<>>
  /\ GenerateNode
  /\ variants' = With(variants, Id(Current, "self"),
                      IF Current \in setting.abstract THEN Dynamic(making.type, <<>>) ELSE making)
  /\ making' = Nothing
  /\ UNCHANGED <<setting, groups, heads, names>>

GenerateOther ==
  /\ count < Len(nodes) /\ Current \notin Elements \ generated
  /\ GenerateNode
  /\ UNCHANGED evars

-----------------------------------------------------------------------------
(* fix_naming_conflicts.                                                   *)

Ns(t) == setting.ns[t.of]
Name(t) == setting.name[t.of]

\* None, that is the name itself, where the namespace has no prefix.
NsName(t) == IF Prefix[Ns(t)] = NoPrefix THEN Name(t) ELSE <<Prefix[Ns(t)]>> \o Name(t)
SecondName(t) == Append(Name(t), "2")

Alike(s, t) == Name(s) = Name(t)

\* Mutant: the first of two members of different namespaces keeps its name.
DisplayNameLater(ms, j) ==
  LET before == {i \in 1 .. j - 1 : Alike(ms[i], ms[j])}
  IN  IF before = {} THEN Name(ms[j])
      ELSE IF Ns(ms[Max(before)]) = Ns(ms[j]) THEN SecondName(ms[j]) ELSE NsName(ms[j])

\* Every member i is compared with every later one, j, and renames it if they are
\* alike, and at last itself if they differ in their namespaces.  The name that j keeps
\* is its own choice, or that of the last i before it.  The index of i counts from 2 in
\* each round, and j is the first it meets, since any other one would come after i.
DisplayName(ms, j) ==
  LET before == {i \in 1 .. j - 1 : Alike(ms[i], ms[j])}
  IN  IF \E k \in j + 1 .. Len(ms) : Alike(ms[j], ms[k]) /\ Ns(ms[j]) # Ns(ms[k])
      THEN NsName(ms[j])
      ELSE IF before = {} THEN Name(ms[j])
      ELSE IF Ns(ms[Max(before)]) = Ns(ms[j]) THEN SecondName(ms[j]) ELSE NsName(ms[j])

DynamicTypes == {t \in DOMAIN variants : variants[t].kind = "dynamic"}

FixNames ==
  /\ Finish
  /\ names' = [t \in DynamicTypes |->
                 LET ms == variants[t].members IN [j \in DOMAIN ms |-> DisplayName(ms, j)]]
  /\ UNCHANGED <<setting, groups, variants, making, heads>>

Over == phase \in {"circular", "panic", "refused", "finished"}
Idle == Over /\ UNCHANGED allvars

\* Panic is get_type and get_type_mut, for a base and for a head.
WorkElements ==
  \/ Declare
  \/ (CacheDone \/ Walk \/ (making = Nothing /\ Panic)) /\ UNCHANGED evars
  \/ CreateElement \/ Substitute \/ Refuse \/ FinishElement \/ GenerateOther
  \/ FixNames
NextElements == WorkElements \/ Idle

\* The interpreter is one call.
SpecElements == InitElements /\ [][NextElements]_allvars /\ WF_allvars(WorkElements)

-----------------------------------------------------------------------------
(* Properties.                                                             *)

\* The elements types are made for: those the owner gives are left as they are.
Made == {x \in Elements \cap types : variants[Id(x, "self")] # Custom}

\* All heads of x: those it names, those these name, and so on.
AllHeads(x) ==
  LET named == [y \in Elements |-> IF y \in DOMAIN groups THEN ToSet(groups[y]) ELSE {}]
      Closed == {S \in SUBSET Elements :
                   named[x] \subseteq S /\ \A y \in S : named[y] \subseteq S}
  IN  CHOOSE S \in Closed : \A R \in Closed : S \subseteq R

\* What stands for the content of x itself.
OwnType(x) ==
  CASE groups[x] # <<>> -> Id(x, "dynamic")
    [] groups[x] = <<>> /\ x \in setting.nillable -> Id(x, "nillable")
    [] OTHER -> TypeOf(x)

HasMembers(h) ==
  LET v == variants[Id(h, "self")]
      below == {x \in Made : h \in AllHeads(x)}
      own == IF h \in setting.abstract THEN <<>> ELSE <<OwnType(h)>>
      ms == SubSeq(v.members, Len(own) + 1, Len(v.members))
  IN  IF below = {} /\ own # <<>>
      THEN v.kind = "reference" /\ v.type = OwnType(h)
      ELSE /\ v.kind = "dynamic" /\ v.type = OwnType(h)
           /\ IsPrefix(own, v.members)
           /\ ToSet(ms) = {Id(x, "self") : x \in below}
           /\ \A i, j \in DOMAIN ms :
                ms[i] = ms[j] /\ i # j =>
                  \E x \in AllHeads(ms[i].of) \cup {ms[i].of} : Len(groups[x]) > 1

KeepsNil(x) ==
  LET at == IF groups[x] # <<>> THEN Id(x, "dynamic") ELSE Id(x, "self")
  IN  \/ variants[at] = Reference(Id(x, "nillable"), TRUE)
      \/ groups[x] = <<>> /\ variants[at].kind = "dynamic"

\* "a dynamic type that can be either the type of `final` or `intermediate`"
\* (tests/feature/dynamic_types): every element can be its own type, unless it is
\* abstract, and every element that names it as a head, directly or through others,
\* and nothing else, in whatever order they are declared and processed.  A member is
\* there twice only if it can reach the head over several heads.  An element nobody
\* names stays a reference.  Only a dynamic type of an element without heads, which
\* replaces the reference with the mark, is no longer nillable.
MembersComplete ==
  phase = "finished" => \A x \in Made : HasMembers(x) /\ (x \in setting.nillable => KeepsNil(x))

\* The names of the members of a type are different, but for three deviations: one of
\* three members with the same name is renamed again, after the others; an element may
\* already have a name like those that are made; and a namespace may have no prefix.
NamesDistinct ==
  \A t \in DOMAIN names : \A i, j \in DOMAIN names[t] :
    LET ms == variants[t].members
        same == {k \in DOMAIN ms : Name(ms[k]) = Name(ms[i])}
    IN  i # j /\ names[t][i] = names[t][j] =>
          \/ Cardinality(same) > 2 /\ \E k, l \in same : k # l /\ Ns(ms[k]) = Ns(ms[l])
          \/ Name(ms[i]) # Name(ms[j])
          \/ Ns(ms[i]) # Ns(ms[j]) /\ Prefix[Ns(ms[i])] = NoPrefix /\ Prefix[Ns(ms[j])] = NoPrefix

\* The interpreter returns, with types or with an error.
ElementsReturn == <>Over
=============================================================================
