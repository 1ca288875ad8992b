-------------------------- MODULE MCSchemasBuilder --------------------------
(* Small file systems and prefix declarations for the SchemasBuilder.      *)
EXTENDS SchemasBuilder, MCParser, TLC

\* What determine_prefixes appends to a prefix that is taken.
Underscore(p, id) == p \o "_" \o ToString(id)

\* Two files with up to two references to each other and to themselves.
LinkedCorpora ==
  [{"a"} -> Simple] \cup
  {f \in [{"a", "b"} -> Double \cup Simple] :
     f["a"] \in Double /\ f["a"].ns = "n" /\ Len(f["b"].refs) = 1}

LinkedTexts == {Document("n", <<RefTo("include", "q"), RefTo("redefine", "q")>>)}

Declaring(ns, declares) == [ns |-> ns, refs |-> <<>>, declares |-> declares]
Xmlns(ns, p) == [ns |-> ns, prefix |-> p]

\* Schemas that declare prefixes for their own namespace or for another one.
PrefixTexts ==
  {Declaring(ns, d) : ns \in {"n", "m"},
     d \in {<<>>} \cup {<<Xmlns(k, p)>> : k \in Ns, p \in {"x", "y"}}} \cup
  {Declaring(NoNs, <<Xmlns("n", "y"), Xmlns("n", "x"), Xmlns("m", "x")>>),
   Declaring("n", <<Xmlns("n", "y"), Xmlns("m", "y"), Xmlns("n", "x")>>)}

NoFiles == {[l \in {} |-> Document(NoNs, <<>>)]}

\* Two parts: documents that refer to each other, and texts that compete for prefixes.
BothCorpora == LinkedCorpora \cup NoFiles
BothTexts == LinkedTexts \cup PrefixTexts
Linked == DOMAIN files # {}
OfPart == IF Linked THEN LinkedTexts ELSE PrefixTexts
FlagsOfPart == IF Linked THEN {"RESOLVE_INCLUDES"} ELSE Settable \ {"RESOLVE_INCLUDES"}
Room == Linked => nextId < 2 /\ Len(entries) < 2

SmallConfigure ==
  \/ Room /\ WithAnonymousNamespace
  \/ Room /\ \E p \in Prefix, ns \in Ns : p = "x" /\ WithNamespace(p, ns)
  \/ Linked /\ WithResolver
  \/ \E f \in FlagsOfPart, on \in BOOLEAN : SetFlag(f, on)
SmallAdd ==
  \/ Room /\ \E d \in OfPart : AddFromStr(d)
  \/ AddFromStrError
  \/ Room /\ \E n \in Name : AddFromUrl(n)
SmallLoad == SmallConfigure \/ SmallAdd \/ Resolve \/ Finish

SmallSpec ==
  BuilderInit /\ [][(SmallLoad /\ UNCHANGED builder) \/ Build \/ BuilderTerminated]_builderVars
  /\ WF_builderVars(Resolve /\ UNCHANGED builder)
=============================================================================
