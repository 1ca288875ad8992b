----------------------------- MODULE MCGenerator -----------------------------
(* Small schemas for the Generator.                                        *)
EXTENDS Generator, FiniteSets

Ref(t, h, d) == [to |-> t, how |-> h, direct |-> d]
Type(k, n, refs) == [kind |-> k, named |-> n, refs |-> refs]

\* The sequences without repetition over a set of one to two references.
ListsOf(R) == {<<>>} \cup {<<r>> : r \in R} \cup
              {s \in R \X R : s[1].to # s[2].to}

Elements(D) == {Ref(t, "element", TRUE) : t \in D}
ElementLists(D) == {Ref(t, "element", FALSE) : t \in D}
Structs(D) == {Type("struct", TRUE, s) : s \in ListsOf(Elements(D))}

Aliases(D) == {Type("alias", TRUE, <<Ref(t, "value", d)>>) : t \in D, d \in BOOLEAN}
Unions(D) == {Type("union", FALSE, s) : s \in ListsOf({Ref(t, "value", TRUE) : t \in D})}
Opaques(D) == {Type("opaque", FALSE, s) : s \in {<<>>} \cup {<<Ref(t, "plain", FALSE)>> : t \in D}}
Choices(D) == {Type("choice", FALSE, <<r>>) : r \in Elements(D) \cup ElementLists(D)}

\* XSD forbids typedefs and unions that contain themselves.
WellFounded(m) ==
  \E rank \in [DOMAIN m -> 0 .. 2] :
    \A t \in DOMAIN m : \A i \in DOMAIN m[t].refs :
      LET u == m[t].refs[i].to
      IN  {t, u} \subseteq {v \in DOMAIN m : m[v].kind \in {"alias", "union"}}
            => rank[u] < rank[t]

\* Schemas of every kind of type; references may point to undefined types.
Pair == {0, 1}
MixedTypes == Aliases(Pair) \cup Unions(Pair) \cup Opaques(Pair) \cup Structs(Pair) \cup Choices(Pair)
MixedModels == {m \in UNION {[D -> MixedTypes] : D \in SUBSET Pair} : WellFounded(m)}

\* Every schema of structs that hold each other directly.
StructModels == [Ident -> Structs(Ident)]

SmallModels == MixedModels \cup StructModels

\* Three structs are not boxed on request, and one of them at most is user supplied.
Asked(t) == t \in DOMAIN meta \cup Pair
SmallInit == Init /\ (DOMAIN meta = Ident => boxFlags = {})
SmallWithType(t) == Asked(t) /\ (DOMAIN meta = Ident => fixed \subseteq {t}) /\ WithType(t)
SmallGenerateType(t) == Asked(t) /\ GenerateType(t)

SmallNext ==
  \/ IntoFixed
  \/ \E t \in Ident : SmallWithType(t) \/ SmallGenerateType(t)
  \/ GenerateAllTypes \/ GenerateNamedTypes \/ Finish
  \/ Run
  \/ Terminated

SmallSpec == SmallInit /\ [][SmallNext]_vars /\ Fairness

\* Every schema of structs with one field.
RingModels == [Ident -> {Type("struct", TRUE, <<r>>) : r \in Elements(Ident)}]
=============================================================================
