---------------------------- MODULE MCNodeCache ----------------------------
(***************************************************************************)
(* Small sets of schemas for the NodeCache: schema 1 declares y and may    *)
(* redefine a of schema 2, and x is declared by 2 or by 3, or by both in   *)
(* namespaces of their own. Schema 4 only matters where a circle leads     *)
(* back to the schema whose names are listed.                              *)
(***************************************************************************)
EXTENDS NodeCache

Ref(ns, n) == [ns |-> ns, name |-> n]
Declaration(n, refs) == [name |-> n, refs |-> refs]
Use(s) == [to |-> s, decls |-> {}]
RedefineAs(s, ds) == [to |-> s, decls |-> ds]

\* Dependencies in the order of their locations, the order of the schemas or its reverse.
Dependencies(dirs, up) ==
  SetToSortSeq({dirs[i].to : i \in DOMAIN dirs}, LAMBDA s, t : (s < t) <=> up)

\* Schema 4 is empty unless it is told.
World(n3, decls, dirs, up) ==
  LET All(f) == [s \in Schema |-> IF s \in DOMAIN f THEN f[s] ELSE <<>>]
  IN  [ns |-> <<"m", "m", n3, "m">>, decls |-> All(decls), dirs |-> All(dirs),
       deps |-> [s \in Schema |-> Dependencies(All(dirs)[s], up)]]

\* The namespace of schema 3, and the place and the namespace of the x the others mean.
Places == {<<"m", 2, "m">>, <<"m", 3, "m">>, <<"d", 3, "d">>, <<"d", 2, "m">>}

Contents(n3, place, x) ==
  LET A == Ref("m", "a")
      X == Ref(x, "x")
      Other == IF n3 = "d" /\ place = 2 THEN <<Declaration("x", {A})>> ELSE <<>>
  IN  {<<<<y>>, IF place = 2 THEN <<a, z>> ELSE <<a>>, IF place = 3 THEN <<z>> ELSE Other>> :
         y \in {Declaration("y", {X}), Declaration("y", {X, A})},
         a \in {Declaration("a", {}), Declaration("a", {X})},
         z \in {Declaration("x", {A}), Declaration("x", {A, X})}}

\* What schema 1 declares instead: a, or also an x that is in schema 2, or behind it.
Redefinitions(x) ==
  {{Declaration("a", {})}, {Declaration("a", {Ref("m", "a"), Ref(x, "x")})}} \cup
  IF x = "m" THEN {{Declaration("a", {}), Declaration("x", {Ref("m", "x")})}} ELSE {}

Mentions1(x) ==
  UNION {{<<RedefineAs(2, ds)>>, <<RedefineAs(2, ds), Use(3)>>, <<Use(3), RedefineAs(2, ds)>>} :
           ds \in Redefinitions(x)} \cup {<<Use(2), Use(3)>>}
Mentions2(place, x) ==
  {<<>>, <<Use(1)>>, <<Use(3)>>} \cup
  IF place = 3 /\ x = "m" THEN {<<RedefineAs(3, {Declaration("x", {Ref("m", "x")})})>>} ELSE {}
Mentions3 == {<<>>, <<Use(2)>>, <<Use(1)>>}

\* Schemas 1 and 3 depend on each other: 3 copies what 1 redefines, and 1 redirects it
\* after that.
Rounds ==
  LET a == Declaration("a", {Ref("m", "x"), Ref("m", "y")})
      x == Declaration("x", {Ref("m", "z")})
      Leaf(n) == Declaration(n, {})
  IN  {World("m", <<<<>>, <<a, x, Leaf("y"), Leaf("z")>>, <<>>>>,
             <<<<RedefineAs(2, {a}), Use(3), RedefineAs(2, {Leaf("z")})>>, <<>>,
               <<Use(1), RedefineAs(2, {Leaf("y")})>>>>, up) : up \in BOOLEAN}

\* Schema 2 leads back to 1 before it names 4: a name that 3 and 4 share means that of 4 in
\* schema 1, but schema_set lists 3 first, as the dependencies of 1 come again within those of 2.
Reentered ==
  LET A == Ref("m", "a")
      x == Declaration("x", {A})
      a == Declaration("a", {})
      y == Declaration("y", {Ref("m", "x")})
  IN  {World("m", <<<<y>>, <<>>, <<a, x3>>, <<x>>>>,
             <<<<RedefineAs(3, {a}), Use(2)>>, <<Use(1), Use(4)>>, <<Use(4)>>, <<Use(3)>>>>, up) :
         x3 \in {x, Declaration("x", {})}, up \in BOOLEAN}

SmallWorlds ==
  Rounds \cup Reentered \cup
  UNION {{World(p[1], c, <<d1, d2, d3>>, up) :
            c \in Contents(p[1], p[2], p[3]), d1 \in Mentions1(p[3]),
            d2 \in Mentions2(p[2], p[3]), d3 \in Mentions3, up \in BOOLEAN} : p \in Places}

\* Schema 1 redefines the a that the x of schema 2 refers to.
Redefining ==
  {World("m", c, <<<<RedefineAs(2, {Declaration("a", {})})>>, <<>>, <<>>>>, TRUE) : c \in Contents("m", 2, "m")}
=============================================================================
