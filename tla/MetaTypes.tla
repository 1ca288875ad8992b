----------------------------- MODULE MetaTypes -----------------------------
(* The table of types between interpreter and generator (models/meta): what *)
(* a type is, how references are resolved, when two types are equal, and     *)
(* which values a type accepts. Identifiers are numbers, in the order of the  *)
(* BTreeMap. Left out: attributes, display names, documentation, form and     *)
(* nillable of elements, xs:any, custom types.                                *)
EXTENDS Integers, Sequences, FiniteSets, SequencesExt

CONSTANTS
  Unbounded,     \* MaxOccurs::Unbounded, above every bound that occurs
  Literals,      \* the values of each built-in type
  Facets,        \* the values that the constrains of a type let pass
  PropertyName,  \* to_property_ident: the name of a type as a member of another one
  MaxLength      \* bound: the longest word that meanings are compared by

ASSUME UnboundedAssumption == Unbounded \in Nat /\ MaxLength \in Nat

NoIdent == -1
NoBase == [by |-> "none", of |-> NoIdent]
Base(by, of) == [by |-> by, of |-> of]

\* The variants of a type.
BuildIn(name) == [kind |-> "buildin", name |-> name]
Reference(to) == [kind |-> "reference", to |-> to, single |-> TRUE, nillable |-> FALSE]
Enumeration(base, variants) == [kind |-> "enumeration", base |-> base, variants |-> variants]
Union(base, members, facet) ==
  [kind |-> "union", base |-> base, members |-> members, facet |-> facet]
SimpleType(of, facet, list) ==
  [kind |-> "simple", base |-> of, facet |-> facet, list |-> list]
Dynamic(of, derived) == [kind |-> "dynamic", of |-> of, derived |-> derived]
Group(kind, mixed, elements) == [kind |-> kind, mixed |-> mixed, elements |-> elements]
ComplexType(base, content, min, max, mixed, dynamic) ==
  [kind |-> "complex", base |-> base, content |-> content, min |-> min, max |-> max,
   mixed |-> mixed, dynamic |-> dynamic]

\* A part of a group, and a variant of an enumeration.
Element(name, mode, to, min, max) ==
  [name |-> name, mode |-> mode, to |-> to, min |-> min, max |-> max]
Text(name) == Element(name, "text", NoIdent, 1, 1)
Variant(name, to) == [name |-> name, to |-> to]

Groups == {"all", "choice", "sequence"}
IsSimpleReference(t) == t.kind = "reference" /\ t.single /\ ~t.nillable

\* op(x), and a fold from the left, where x and each result on the way are evaluated once.
Given(x, op(_)) == CHOOSE r \in {op(y) : y \in {x}} : TRUE
Fold(op(_, _), base, seq) ==
  LET after[k \in 0..Len(seq)] ==
        IF k = 0 THEN base ELSE Given(after[k - 1], LAMBDA r : op(r, seq[k]))
  IN after[Len(seq)]

\* The first one of the members of a sequence that have the same key.
Firsts(s, key(_)) ==
  LET isFirst(k) == \A n \in 1..k - 1 : key(s[n]) # key(s[k])
      among[k \in 0..Len(s)] ==
        IF k = 0 THEN <<>> ELSE IF isFirst(k) THEN Append(among[k - 1], s[k]) ELSE among[k - 1]
  IN among[Len(s)]

Plus(a, b) == IF Unbounded \in {a, b} THEN Unbounded ELSE a + b
Times(a, b) == IF Unbounded \in {a, b} THEN Unbounded ELSE a * b
Least(a, b) == IF a < b THEN a ELSE b
Greatest(a, b) == IF a < b THEN b ELSE a

\* get_resolved: follows simple references, and stops before it comes around.
GetResolved(types, ident) ==
  LET walk[at \in (DOMAIN types) \X (SUBSET DOMAIN types)] ==
        LET i == at[1]
            seen == at[2] \cup {i}
        IN IF IsSimpleReference(types[i]) /\ types[i].to \notin seen
           THEN walk[<<types[i].to, seen>>]
           ELSE i
  IN walk[<<ident, {}>>]

\* A type with `to` applied to each of its identifiers.
Mapped(t, to(_)) ==
  LET some(i) == IF i = NoIdent THEN NoIdent ELSE to(i)
      all(s) == [k \in DOMAIN s |-> to(s[k])]
      base(b) == [b EXCEPT !.of = some(@)]
      each(s) == [k \in DOMAIN s |-> [s[k] EXCEPT !.to = some(@)]]
  IN CASE t.kind = "reference" -> [t EXCEPT !.to = to(@)]
       [] t.kind = "enumeration" -> [t EXCEPT !.base = base(@), !.variants = each(@)]
       [] t.kind = "union" -> [t EXCEPT !.base = base(@), !.members = all(@)]
       [] t.kind = "simple" -> [t EXCEPT !.base = to(@)]
       [] t.kind = "dynamic" -> [t EXCEPT !.of = some(@), !.derived = all(@)]
       [] t.kind \in Groups -> [t EXCEPT !.elements = each(@)]
       [] t.kind = "complex" -> [t EXCEPT !.base = base(@), !.content = some(@)]
       [] OTHER -> t

\* A type has the fields of its kind.
IsList(s) == s \in Seq({s[k] : k \in DOMAIN s})
IsBase(b) == b = Base(b.by, b.of)
IsElement(e) == e = Element(e.name, e.mode, e.to, e.min, e.max)
IsType(t) ==
  CASE t.kind = "buildin" -> t = BuildIn(t.name)
    [] t.kind = "reference" ->
         /\ t = [kind |-> t.kind, to |-> t.to, single |-> t.single, nillable |-> t.nillable]
         /\ t.single \in BOOLEAN /\ t.nillable \in BOOLEAN
    [] t.kind = "enumeration" -> t = Enumeration(t.base, t.variants) /\ IsBase(t.base)
    [] t.kind = "union" -> t = Union(t.base, t.members, t.facet) /\ IsBase(t.base) /\ IsList(t.members)
    [] t.kind = "simple" -> t = SimpleType(t.base, t.facet, t.list) /\ t.list \in BOOLEAN
    [] t.kind = "dynamic" -> t = Dynamic(t.of, t.derived) /\ IsList(t.derived)
    [] t.kind \in Groups ->
         /\ t = Group(t.kind, t.mixed, t.elements)
         /\ IsList(t.elements) /\ \A e \in ToSet(t.elements) : IsElement(e)
    [] t.kind = "complex" ->
         t = ComplexType(t.base, t.content, t.min, t.max, t.mixed, t.dynamic) /\ IsBase(t.base)
    [] OTHER -> FALSE

\* The types a type is made of, other than the content of elements and complex types.
Parts(t) ==
  CASE t.kind = "reference" -> IF IsSimpleReference(t) THEN {t.to} ELSE {}
    [] t.kind \in {"enumeration", "complex"} -> {t.base.of} \ {NoIdent}
    [] t.kind = "union" -> ({t.base.of} \ {NoIdent}) \cup ToSet(t.members)
    [] t.kind = "simple" -> {t.base}
    [] t.kind = "dynamic" -> ToSet(t.derived)
    [] t.kind \in Groups -> {e.to : e \in {x \in ToSet(t.elements) : x.mode = "group"}}
    [] OTHER -> {}

\* Every type there is has its parts and its content, and is not a part of itself over any
\* number of others.
IsTable(types) ==
  /\ \A i \in DOMAIN types :
       /\ IsType(types[i]) /\ Parts(types[i]) \subseteq DOMAIN types
       /\ types[i].kind = "complex" => types[i].content \in DOMAIN types \cup {NoIdent}
  /\ \A S \in SUBSET DOMAIN types : S # {} => \E i \in S : Parts(types[i]) \cap S = {}

\* Groups have no names: only groups and the content of complex types are made of them.
GroupsApart(types) ==
  \A i \in DOMAIN types :
    types[i].kind \notin Groups => \A part \in Parts(types[i]) : types[part].kind \notin Groups

\* Types are equal if they are so once all identifiers are resolved. A text element is
\* equal to none, so that a group with one is not even equal to itself.
HasText(t) == t.kind \in Groups /\ \E k \in DOMAIN t.elements : t.elements[k].mode = "text"
TypeEq(types, i, j) ==
  LET to(k) == GetResolved(types, k)
  IN /\ types[i].kind = types[j].kind /\ Mapped(types[i], to) = Mapped(types[j], to)
     /\ ~HasText(types[i]) /\ ~HasText(types[j])

\* The content of a complex type, as content_meta finds it.
ContentMeta(types, t) ==
  IF t.content = NoIdent THEN NoIdent ELSE GetResolved(types, t.content)
HasContent(types, t, kinds) ==
  t.kind = "complex" /\ t.content # NoIdent /\ types[ContentMeta(types, t)].kind \in kinds

\* An element that is only there to be substituted.
IsAbstract(types, i) ==
  LET t == types[GetResolved(types, i)] IN t.kind = "dynamic" /\ t.of = NoIdent

(***************************************************************************)
(* The meaning of a type: the values of a simple type, and the words over    *)
(* the names of the elements in a complex one. Every value is a sequence.    *)
(***************************************************************************)
Concat(S, R) == {v \in {s \o r : s \in S, r \in R} : Len(v) <= MaxLength}

\* The words that repeat S between min and max times.
Repeat(S, min, max) ==
  LET most == Least(max, MaxLength)
      times(T) == [k \in 0..Greatest(min, most) |->
                     Fold(LAMBDA words, n : Concat(words, T), {<<>>}, [n \in 1..k |-> n])]
  IN UNION UNION {{times(T)[k] : k \in min..most} : T \in {S}}

\* The words of S with text before, between and after what they consist of.
WithText(S) ==
  LET gaps(w) == [1..Len(w) + 1 -> BOOLEAN]
      text(b) == IF b THEN <<"text">> ELSE <<>>
      weave(w, g) ==
        Fold(LAMBDA v, k : v \o <<w[k]>> \o text(g[k + 1]), text(g[1]), [k \in 1..Len(w) |-> k])
  IN {v \in UNION {{weave(w, g) : g \in gaps(w)} : w \in S} : Len(v) <= MaxLength}

\* The words of a group, where each part is repeated as it may be.
GroupWords(kind, parts) ==
  LET n == Len(parts)
      inOrder(order) == Fold(Concat, {<<>>}, [k \in 1..n |-> parts[order[k]]])
  IN CASE kind = "choice" -> UNION ToSet(parts)
       [] kind = "sequence" -> Fold(Concat, {<<>>}, parts)
       [] kind = "all" ->
            UNION {inOrder(p) : p \in {q \in [1..n -> 1..n] : ToSet(q) = 1..n}}

\* `in` is set below a mixed type, whose text covers what it consists of.
Meaning(types, ident) ==
  LET of[i \in DOMAIN types, in \in BOOLEAN] ==
        LET t == types[i]
            mixed == t.mixed /\ ~in
            part(e) ==
              CASE e.mode = "element" -> {<<e.name>>}
                [] e.mode = "text" -> {<<"text">>}
                [] e.mode = "group" -> of[e.to, in \/ t.mixed]
            words(g) ==
              GroupWords(g.kind, [k \in DOMAIN g.elements |->
                LET e == g.elements[k] IN Repeat(part(e), e.min, e.max)])
            mixedIf(b, S) == IF b THEN WithText(S) ELSE S
            list(S) == {<<"list">> \o v : v \in S}
        IN CASE t.kind = "buildin" -> Literals[t.name]
             [] t.kind = "reference" ->
                  (IF t.single THEN of[t.to, in] ELSE list(of[t.to, in])) \cup
                  (IF t.nillable THEN {<<"nil">>} ELSE {})
             [] t.kind = "enumeration" ->
                  UNION {IF v.to = NoIdent THEN {<<v.name>>} ELSE of[v.to, in] : v \in ToSet(t.variants)}
             [] t.kind = "union" -> UNION {of[m, in] : m \in ToSet(t.members)} \cap Facets[t.facet]
             [] t.kind = "simple" ->
                  IF t.list THEN list(of[t.base, in]) ELSE of[t.base, in] \cap Facets[t.facet]
             [] t.kind = "dynamic" ->
                  {<<PropertyName[d]>> : d \in {x \in ToSet(t.derived) : ~IsAbstract(types, x)}}
             [] t.kind \in Groups -> mixedIf(mixed, words(t))
             [] t.kind = "complex" ->
                  IF t.content = NoIdent THEN mixedIf(mixed, {<<>>})
                  ELSE LET c == types[ContentMeta(types, t)]
                       IN IF c.kind \in Groups
                          THEN mixedIf(mixed, Repeat(words(c), t.min, t.max))
                          ELSE of[t.content, in]
  IN of[ident, FALSE]
=============================================================================
