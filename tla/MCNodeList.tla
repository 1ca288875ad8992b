----------------------------- MODULE MCNodeList -----------------------------
(***************************************************************************)
(* Small schemas for NodeList: types 1 .. 3, groups 4 and 5, and type 9 of *)
(* the language.  Identifiers are ordered by their numbers, declarations   *)
(* come in any order.                                                      *)
(***************************************************************************)
EXTENDS NodeList, TLC, Functions

Idents == {1, 2, 3, 4, 5, 9}
GivenTypes == {{9}, {1, 9}}

Ref(kind, x) == [kind |-> kind, to |-> x]

\* References in one order, and all choices of them.
Selected(kind, xs, more) ==
  LET rs == [i \in DOMAIN xs |-> Ref(kind, xs[i])] \o more
  IN  {SelectSeq(rs, LAMBDA r : r \in S) : S \in SUBSET Range(rs)}
Type(x, refs) == [ident |-> x, type |-> TRUE, refs |-> refs]
Group(x, refs) == [ident |-> x, type |-> FALSE, refs |-> refs]

\* The references of a type: its bases come before its content.
Based(bs, cs) == {b \o c : b \in Selected("strong", bs, <<>>), c \in cs}
Other(refs) == \A i, j \in DOMAIN refs : refs[i].kind # refs[j].kind => refs[i].to # refs[j].to

\* Three types that are based on each other and contain each other; a type does not
\* contain its own base.
Derived ==
  LET Contents == {<<>>, <<Ref("weak", 1)>>, <<Ref("weak", 2), Ref("weak", 3)>>}
      Rs == Based(<<1, 2, 3, 9>>, {<<>>})
      Qs == Based(<<1, 3>>, {<<>>})
      Ps == {p \in Based(<<1, 2>>, Contents) : Other(p)}
  IN  {[i \in 1 .. 3 |-> <<Type(1, r), Type(2, q), Type(3, p)>>[o[i]]] :
         r \in Rs, q \in Qs, p \in Ps, o \in Permutations(1 .. 3)}

\* Two types and two groups; a group may contain another one, not itself.
Grouped ==
  LET Rs == Selected("lazy", <<4, 5>>, <<Ref("strong", 2)>>)
      Qs == Selected("lazy", <<4, 5>>, <<Ref("strong", 1)>>)
      Ps == Selected("lazy", <<5>>, <<Ref("weak", 1)>>)
      Gs == {<<>>, <<Ref("weak", 1), Ref("weak", 2)>>}
  IN  {[i \in 1 .. 4 |-> <<Type(1, r), Type(2, q), Group(4, p), Group(5, g)>>[o[i]]] :
         r \in Rs, q \in Qs, p \in Ps, g \in Gs, o \in Permutations(1 .. 4)}

\* Two types, one based on the other, that may contain their own bases.
Mixed ==
  LET Contents == {<<>>, <<Ref("weak", 1)>>, <<Ref("weak", 2)>>, <<Ref("weak", 9)>>}
  IN  {<<Type(1, r), Type(2, q)>> : r \in Based(<<2, 9>>, Contents), q \in Based(<<9>>, Contents)}

Ordered == Derived \cup Grouped \cup Mixed
=============================================================================
