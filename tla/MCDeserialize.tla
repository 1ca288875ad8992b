--------------------------- MODULE MCDeserialize ---------------------------
(***************************************************************************)
(* Documents of every type of XML Schema and of the feature tests.         *)
(***************************************************************************)
EXTENDS TLC

VARIABLES
  call, event, output, deserializer, skip_depth, result, value, root, dom, tree, elements, notes, over, verdict

Xs == INSTANCE XsSchema
Features == INSTANCE FeatureTypes

MCTypes == Xs!XsTypes @@ Features!FeatureShapes

\* The types that an element of a document may have.
XsRoots == {t \in DOMAIN Xs!XsTypes : MCTypes[t].element /\ MCTypes[t].kind # "any"}
FeatureRoots == {"AllFoo", "AnyFoo", "TwoRows", "GroupFoo", "RepeatedFoo", "Person", "Record", "Threshold",
                 "Exactly", "Item", "Container"}
MCRoots == XsRoots \cup FeatureRoots

\* Sequences need more elements than choices, and groups with bounds need most.
LongRoots == {t \in XsRoots : MCTypes[t].kind = "sequence"} \cup {"KeybaseType", "Keyref", "Annotation"}
MCMaxElements ==
  [t \in MCRoots |-> IF t \in FeatureRoots THEN 6 ELSE IF t \in LongRoots THEN 3 ELSE 2]

INSTANCE Deserialize WITH Types <- MCTypes, Roots <- MCRoots, MaxElements <- MCMaxElements, MaxNotes <- 1

\* The loop of deserialize turns until it has an answer, and the reader always has an
\* event for it: that of the end again and again.
ReadingSpec == Spec /\ WF_vars(Advance)
=============================================================================
