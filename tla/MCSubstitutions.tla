-------------------------- MODULE MCSubstitutions --------------------------
(***************************************************************************)
(* The schemas of MCNodeList, and schemas of four elements 11 .. 14, of    *)
(* type 1 or 9 or of inline types (one is derived from 9), that name each  *)
(* other as heads.                                                         *)
(***************************************************************************)
EXTENDS Substitutions, MCNodeList

ElementIds == 11 .. 14
AllIdents == Idents \cup ElementIds
\* Nothing, or a type and an element, that the owner gives.
AllGivens == {{9}, {1, 9, 12}}

\* The namespaces and their prefixes: two have none.
NsPrefix == <<"p", "q", "none", "none">>

Element(x, hs, more) == Type(x, [i \in DOMAIN hs |-> Ref("strong", hs[i])] \o more)

Orders == {<<1, 2, 3, 4>>, <<4, 3, 2, 1>>, <<2, 4, 1, 3>>}

\* A head, members of it and members of these, and members of several.
Grouping ==
  LET Hs == {<<>>, <<13>>}
      Gs == {<<>>, <<11>>}
      Js == {<<>>, <<11>>, <<12>>, <<11, 12>>, <<12, 11>>}
      Ks == {<<>>, <<11>>, <<12>>, <<13>>, <<12, 13>>, <<13, 11, 12>>}
  IN  {[i \in 1 .. 4 |-> <<Element(11, h, <<Ref("weak", 1)>>), Element(12, g, <<Ref("strong", 9)>>),
                           Element(13, j, <<>>), Element(14, k, <<Ref("weak", 9)>>)>>[o[i]]] :
         h \in Hs, g \in Gs, j \in Js, k \in Ks, o \in Orders}

Schemata == Ordered \cup Grouping

Plain == [x \in AllIdents |-> CASE x = 11 -> <<"h">> [] x = 12 -> <<"i">> [] x = 13 -> <<"j">>
                                [] x = 14 -> <<"k">> [] OTHER -> <<"t">>]
Ns1 == [x \in AllIdents |-> 1]

Setting(a, n, ns, name) == [abstract |-> a, nillable |-> n, ns |-> ns, name |-> name]

Same(xs) == [x \in AllIdents |-> IF x \in xs THEN <<"x">> ELSE Plain[x]]

ElementSettings(ds) ==
  IF \A i \in DOMAIN ds : ds[i].ident \notin ElementIds
  THEN {Setting({}, {}, Ns1, Plain)}
  ELSE {Setting({}, {11, 13}, Ns1, Plain), Setting({11}, {}, Ns1, Plain),
        Setting({12, 14}, {12}, Ns1, Plain),
        \* members of the name of the type of the head, in three namespaces
        Setting({}, {}, [Ns1 EXCEPT ![13] = 2, ![14] = 3], Same({1, 12, 13, 14})),
        Setting({11}, {}, [Ns1 EXCEPT ![13] = 3], Same({12, 13})),
        \* two namespaces without a prefix
        Setting({}, {}, [Ns1 EXCEPT ![12] = 3, ![13] = 4], Same({12, 13})),
        \* a name like those that are made
        Setting({}, {}, Ns1, [Same({1, 12}) EXCEPT ![14] = <<"x", "2">>])}
=============================================================================
