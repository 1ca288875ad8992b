------------------------------- MODULE Shapes -------------------------------
(***************************************************************************)
(* What the renderer knows of a data type when it writes its deserializer  *)
(* (ComplexData, ComplexDataElement and ComplexDataAttribute in            *)
(* xsd-parser/src/models/data/complex.rs).                                 *)
(***************************************************************************)
EXTENDS Integers

Many == 1000    \* MaxOccurs::Unbounded

\* Shape of a member: its tag, its type, whether it is an element with that tag or a group,
\* how often it occurs, and if its type allows any element (target_type_allows_any).
Member(tag, type, min, max, any) ==
  [tag |-> tag, type |-> type, element |-> TRUE, min |-> min, max |-> max, any |-> any]
Group(type, min, max) ==
  [tag |-> type, type |-> type, element |-> FALSE, min |-> min, max |-> max, any |-> FALSE]

\* Shape of a type: attributes, members, and if unknown content is to be skipped.
\* "old" tells the types of the checked-in code from those of the current templates.
Attributes(required, optional) == [required |-> required, known |-> required \cup optional]
Shape(kind, element, attributes, members, any, old) ==
  [kind |-> kind, element |-> element, attributes |-> attributes, members |-> members,
   any |-> any, old |-> old]
=============================================================================
