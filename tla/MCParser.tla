------------------------------ MODULE MCParser ------------------------------
(* Small file systems for the Parser.                                      *)
EXTENDS Parser

\* Two files in two directories: "p" and "q" name the other file when they are
\* seen from b, and "u" is a name no resolver knows.
SmallResolver ==
  [x \in Name \X (Loc \cup {NoLoc}) |->
     CASE x[1] = "u" -> NoLoc
       [] x[1] = "p" -> IF x[2] = "b" THEN "b" ELSE "a"
       [] x[1] = "q" -> IF x[2] = "b" THEN "a" ELSE "b"]

RefTo(k, n) == [kind |-> k, name |-> n]
Document(ns, refs) == [ns |-> ns, refs |-> refs, declares |-> <<>>]

Refs == {RefTo(k, n) : k \in {"import", "include"}, n \in Name}
KnownRefs == {RefTo(k, n) : k \in {"import", "redefine"}, n \in {"p", "q"}}

\* Documents with at most one reference, and documents with two.
Simple == {Document(ns, refs) : ns \in Ns \cup {NoNs}, refs \in {<<>>} \cup {<<r>> : r \in Refs}}
Double == {Document(ns, refs) : ns \in {"n", NoNs}, refs \in KnownRefs \X KnownRefs}
=============================================================================
