---------------------------- MODULE MCOptimizer ----------------------------
(* Small tables of types for the Optimizer, in three families.              *)
EXTENDS Optimizer

SmallIdent == 1..5 \cup 11..17 \cup 21..26 \cup 31..36 \cup 121..126 \cup 131..136
SmallContentOf == [i \in SmallIdent |-> i + 100]
SmallLiterals == [b \in {"String", "i32"} |->
  IF b = "String" THEN {<<"">>, <<"a">>, <<"b">>, <<"1">>} ELSE {<<"1">>}]
SmallFacets ==
  LET atoms == {<<x>> : x \in {"", "a", "b", "1"}}
      lists == {<<"list">> \o x : x \in atoms}
  IN [f \in {"any", "short"} |->
        IF f = "short" THEN {<<"">>, <<"a">>, <<"1">>}
        ELSE atoms \cup lists \cup {<<"list">> \o x : x \in lists} \cup {<<"nil">>}]

\* Element "f" is of type "t": its own name is that of its typedefs, not of its type.
SmallPropertyName ==
  [i \in SmallIdent |->
     CASE i \in {3} -> "a"
       [] i \in {21, 36} -> "head"
       [] i \in {22, 23, 34, 35} -> "middle"
       [] i \in {24, 25, 32, 33} -> "final"
       [] i \in {26, 31} -> "t"
       [] OTHER -> "name" \o ToString(i)]

(***************************************************************************)
(* Simple types: two built-in ones, and three that refer to each other.    *)
(***************************************************************************)
Values(names) == [k \in DOMAIN names |-> Variant(names[k], NoIdent)]
Nillable(i) == [Reference(i) EXCEPT !.nillable = TRUE]
ListOf(i) == [Reference(i) EXCEPT !.single = FALSE]
From(i) == Base("restriction", i)

FirstTypes(string, int) ==
  {Reference(string), ListOf(int), SimpleType(string, "short", FALSE), SimpleType(int, "any", TRUE)}
  \cup {Enumeration(From(string), Values(v)) : v \in {<<"">>, <<"", "a">>}}
\* An enumeration restricts one that has its values, or is one with none of its own.
SecondTypes(string, int, a, first) ==
  {Reference(a), Reference(string), Nillable(a), Enumeration(From(string), Values(<<"a", "b">>))}
  \cup {Union(NoBase, m, "any") : m \in {<<int, a>>, <<a>>, <<a, a>>, <<string, a>>}}
  \cup {Enumeration(From(a), Values(v)) : v \in
           {w \in {<<>>, <<"a">>} : first.kind = "enumeration" /\ ToSet(Values(w)) \subseteq ToSet(first.variants)}}
ThirdTypes(string, int, a, b, second) ==
  {Union(NoBase, m, "any") : m \in {<<a, b>>, <<b, int>>, <<b, b>>}}
  \cup (IF second.kind = "union" THEN {Union(From(b), second.members, "short")} ELSE {})

SimpleTables ==
  LET at(p, string, int, a, b, u) ==
        [i \in 1..5 |-> CASE i = p[1] -> string [] i = p[2] -> int [] i = p[3] -> a
                          [] i = p[4] -> b [] i = p[5] -> u]
  IN UNION {UNION {UNION {
       {at(p, BuildIn("String"), BuildIn("i32"), a, b, u) : u \in ThirdTypes(p[1], p[2], p[3], p[4], b)}
       : b \in SecondTypes(p[1], p[2], p[3], a)} : a \in FirstTypes(p[1], p[2])}
       : p \in {<<1, 2, 3, 4, 5>>, <<5, 4, 3, 2, 1>>}}

SimpleFlags ==
  {"REMOVE_EMPTY_ENUM_VARIANTS", "REMOVE_EMPTY_ENUMS", "FLATTEN_UNIONS", "MERGE_ENUM_UNIONS",
   "RESOLVE_TYPEDEFS", "REMOVE_DUPLICATE_UNION_VARIANTS", "REMOVE_EMPTY_UNIONS",
   "REMOVE_DUPLICATES", "USE_UNRESTRICTED_BASE_TYPE_SIMPLE",
   "USE_UNRESTRICTED_BASE_TYPE_ENUM", "USE_UNRESTRICTED_BASE_TYPE_UNION"}

(***************************************************************************)
(* Complex types: nested groups, or two types that may be equal.           *)
(***************************************************************************)
Bounds(min, max) == <<min, max>>
Child(name, b) == Element(name, "element", 11, b[1], b[2])
Nested(name, to, b) == Element(name, "group", to, b[1], b[2])
Complex(base, content, b, mixed) == ComplexType(base, content, b[1], b[2], mixed, FALSE)

One == Bounds(1, 1)
NestedTables ==
  LET kinds == ({"sequence", "choice"} \X {"sequence", "choice"}) \cup {<<"all", "all">>}
      tails == {<<>>, <<Child("d", One)>>}
      second(k) == {Child("c", One), Nested("h", 15, Bounds(0, 1))} \cup
                   (IF k = <<"sequence", "sequence">> THEN {Child("a", One)} ELSE {})
      often(k) == IF k[1] = "all" THEN {One} ELSE {One, Bounds(0, 1), Bounds(1, Unbounded)}
      table(k, a, g, b, s, rest, c, mixed) ==
        [i \in 11..15 |->
           CASE i = 11 -> BuildIn("String")
             [] i = 12 -> Complex(NoBase, 13, c, mixed)
             [] i = 13 -> Group(k[1], mixed, <<Child("a", a), Nested("g", 14, g)>> \o rest)
             [] i = 14 -> Group(k[2], mixed, <<Child("b", b), s>>)
             [] i = 15 -> Group("choice", mixed, <<Child("e", One), Child("f", One)>>)]
  IN UNION {{table(k, a, g, b, s, rest, c, mixed) :
               a \in {One, Bounds(1, 2)}, g \in often(k),
               b \in {One, Bounds(0, 2)}, s \in second(k), rest \in tails,
               c \in {One, Bounds(1, 2)}, mixed \in BOOLEAN} : k \in kinds}

TwinTables ==
  LET contents == {Group(kind, mixed, <<Child("a", a), Child("b", One)>>) :
                     kind \in {"sequence", "choice"}, mixed \in BOOLEAN,
                     a \in {One, Bounds(1, 2)}}
      bounds == {One, Bounds(0, Unbounded)}
      table(k1, c1, k2, c2, base) ==
        [i \in 11..15 |->
           CASE i = 11 -> BuildIn("String")
             [] i = 12 -> Complex(NoBase, 13, c1, k1.mixed)
             [] i = 13 -> k1
             [] i = 14 -> Complex(base, 15, c2, k2.mixed)
             [] i = 15 -> k2]
      all == {table(k1, c1, k2, c2, base) : k1 \in contents, c1 \in bounds, k2 \in contents,
                c2 \in bounds \cup {Bounds(1, 2)}, base \in {NoBase, From(12)}}
  IN {t \in all : t[14].base = NoBase \/ Meaning(t, 14) \subseteq Meaning(t, 12)}

NestedFlags == {"FLATTEN_COMPLEX_TYPES", "MERGE_CHOICE_CARDINALITIES", "SIMPLIFY_MIXED_TYPES"}
TwinFlags == {"RESOLVE_TYPEDEFS", "MERGE_CHOICE_CARDINALITIES", "SIMPLIFY_MIXED_TYPES",
              "USE_UNRESTRICTED_BASE_TYPE_COMPLEX"}

(***************************************************************************)
(* Substitution groups: a head, an element between, and one at the end.    *)
(***************************************************************************)
DynamicTables ==
  LET middle(x, abstract) == IF abstract THEN Dynamic(NoIdent, <<x[4]>>) ELSE Dynamic(x[3], <<x[3], x[4]>>)
      table(x, abstract, leaf) ==
        [i \in ToSet(x) |->
           CASE i = x[1] -> Dynamic(NoIdent, <<x[2], x[4]>>)
             [] i = x[2] -> middle(x, abstract)
             [] i = x[3] -> Reference(x[6])
             [] i = x[4] -> Reference(x[5])
             [] i = x[5] -> leaf
             [] i = x[6] -> ComplexType(NoBase, NoIdent, 1, 1, FALSE, FALSE)]
  IN {table(x, abstract, IF leaf = "plain" THEN Reference(x[6]) ELSE Nillable(x[6])) :
        x \in {<<21, 22, 23, 24, 25, 26>>, <<36, 35, 34, 33, 32, 31>>}, abstract \in BOOLEAN,
        leaf \in {"plain", "nillable"}}

DynamicFlags == {"CONVERT_DYNAMIC_TO_CHOICE", "RESOLVE_TYPEDEFS", "REMOVE_DUPLICATES",
                 "FLATTEN_COMPLEX_TYPES", "MERGE_CHOICE_CARDINALITIES"}

SmallWorlds == SimpleTables \cup NestedTables \cup TwinTables \cup DynamicTables
SmallFlagSets(table) ==
  CASE 1 \in DOMAIN table -> {f \in SUBSET SimpleFlags : Cardinality(f) \in {1, 2} \/ f = SimpleFlags}
    [] 11 \in DOMAIN table /\ table[14].kind \in Groups -> SUBSET NestedFlags \ {{}}
    [] 11 \in DOMAIN table /\ table[14].kind \notin Groups ->
         {{"REMOVE_DUPLICATES"} \cup f : f \in SUBSET TwinFlags} \cup {TwinFlags}
    [] OTHER -> SUBSET DynamicFlags \ {{}}
=============================================================================
