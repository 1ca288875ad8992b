-------------------------- MODULE MCNamespaceScopes --------------------------
(* Schemas of two modules that use each other.                             *)
EXTENDS NamespaceScopes

Plain(tag, type) == [tag |-> tag, type |-> type, nillable |-> FALSE]
Nillable(tag, type) == [tag |-> tag, type |-> type, nillable |-> TRUE]
Type(ns, attrs, members) == [ns |-> ns, attrs |-> attrs, members |-> members]
TypeMap(a, b, c) == [t \in {"A", "B", "C"} |-> CASE t = "A" -> a [] t = "B" -> b [] t = "C" -> c]

Leaf(ns) == Type(ns, {}, <<>>)

Families == {
  \* elements of both modules inside each other, text in each
  TypeMap(Type("n", {"n"}, <<Plain("m", "B"), Plain("n", Simple)>>),
          Type("m", {"n"}, <<Plain("n", "A"), Plain("n", "C"), Plain("m", Simple)>>), Leaf("n")),
  \* the same without a circle, with an element that may be nil
  TypeMap(Type("n", {"m"}, <<Nillable("n", Simple), Plain("m", "B"), Plain("n", "C")>>),
          Type("m", {}, <<Plain("n", "C"), Nillable("m", Simple)>>), Type("n", {}, <<Plain("n", Simple)>>)),
  \* an element whose type is of the other module
  TypeMap(Type("n", {}, <<Plain("n", "B"), Plain("m", Simple)>>),
          Type("m", {}, <<Plain("m", Simple), Plain("m", "C")>>), Leaf("m")),
  \* values that bring a type or namespaces of their own
  TypeMap(Type("n", {}, <<Plain("n", AnyElement), Plain("m", "B")>>),
          Type("m", {}, <<Plain("m", AnySimple), Plain("m", Simple)>>), Leaf("n"))}

PrefixMaps == {[k \in {"n", "m", "xs", "xsi"} |->
                  CASE k = "n" -> p [] k = "m" -> q [] OTHER -> k] : p, q \in {NoPrefix, "p", "q"}}

SmallSchemas ==
  [types : Families, prefix : {f \in PrefixMaps : f["n"] = NoPrefix \/ f["n"] # f["m"]},
   default : {"none", "n"}, mode : {"local", "global"}]

\* Elements as they are read from other documents, each with all that was in scope there.
SmallCaptured == {<<Bind("p", "m")>>, <<Bind(NoPrefix, "n"), Bind("p", "n")>>}
SmallModules == <<"n", "m", "xs", "xsi">>
=============================================================================
