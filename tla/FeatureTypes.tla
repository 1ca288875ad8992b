---------------------------- MODULE FeatureTypes ----------------------------
(***************************************************************************)
(* Types of the feature tests (xsd-parser/tests/feature), whose expected   *)
(* output is what the current templates write: what the types of XML       *)
(* Schema itself do not have.  The members are texts where the tests use   *)
(* numbers or strings.                                                     *)
(***************************************************************************)
EXTENDS Shapes, Sequences

Required(tag) == Member(tag, "Text", 1, 1, FALSE)
Optional(tag) == Member(tag, "Text", 0, 1, FALSE)

NoAttributes == Attributes({}, {})
Sequence(element, members) == Shape("sequence", element, NoAttributes, members, FALSE, FALSE)
Choice(element, members) == Shape("choice", element, NoAttributes, members, FALSE, FALSE)
Content(content, min, max) == Shape("content", TRUE, NoAttributes, <<Group(content, min, max)>>, FALSE, FALSE)

-----------------------------------------------------------------------------
\* xs:all
AllFoo ==
  Shape("all", TRUE, NoAttributes,
        <<Required("Once"), Optional("Optional"), Required("OnceSpecify"), Member("TwiceOrMore", "Text", 2, Many, FALSE)>>,
        FALSE, FALSE)

\* xs:any before, between and after the named elements
AnyFoo ==
  Sequence(TRUE, <<Required("Name"), Group("AnyElement", 0, Many),
                   Member("Choice", "AnyChoice", 0, Many, TRUE), Group("AnyElement", 0, Many)>>)
AnyChoice == Content("AnyChoiceContent", 1, 1)
AnyChoiceContent == Choice(FALSE, <<Required("Name"), Group("AnyElement", 1, 1)>>)

\* A choice of sequences
TwoRows == Choice(TRUE, <<Group("FirstRow", 1, 1), Group("SecondRow", 1, 1)>>)
FirstRow == Sequence(FALSE, <<Required("Element1"), Required("Element2")>>)
SecondRow == Sequence(FALSE, <<Required("Element3"), Required("Element4")>>)

\* The same group twice
GroupFoo == Sequence(TRUE, <<Group("Outer", 1, 1), Group("Outer", 1, 1)>>)
Outer == Choice(FALSE, <<Required("Bar"), Required("Baz"), Group("Inner", 1, 1)>>)
Inner == Sequence(FALSE, <<Required("Fizz"), Required("Buzz")>>)

\* A sequence that repeats
RepeatedFoo == Content("RepeatedContent", 0, Many)
RepeatedContent == Sequence(FALSE, <<Required("a"), Optional("b"), Optional("c")>>)

\* Groups that occur at most three times
Person == Sequence(TRUE, <<Group("Address", 1, 3), Required("Name")>>)
Address == Sequence(FALSE, <<Required("Street"), Required("City")>>)

\* Two lists of groups, one after the other
Record == Sequence(TRUE, <<Group("Contact", 1, Many), Group("RecordAddress", 1, Many), Required("Name")>>)
Contact == Sequence(FALSE, <<Required("Email")>>)
RecordAddress == Sequence(FALSE, <<Required("Street"), Required("City")>>)

\* A list of two groups at least, and an array of two
Threshold == Sequence(TRUE, <<Group("Entry", 2, Many), Required("Name")>>)
Exactly == Sequence(TRUE, <<Group("Entry", 2, 2), Required("Name")>>)
Entry == Sequence(FALSE, <<Required("Code")>>)

\* An optional group without a required element
Item == Sequence(TRUE, <<Group("Metadata", 0, 1), Required("Name")>>)
Metadata == Sequence(FALSE, <<Optional("Label"), Optional("Description")>>)

\* Repeated choices within one another
Container == Sequence(TRUE, <<Group("Nested", 1, Many)>>)
Nested == Choice(FALSE, <<Required("Foo"), Group("Bars", 1, 1)>>)
Bars == Sequence(FALSE, <<Group("BarChoice", 1, Many)>>)
BarChoice == Choice(FALSE, <<Required("Bar")>>)

-----------------------------------------------------------------------------
\* Simple types are read by the ContentDeserializer.
Text == Shape("text", TRUE, NoAttributes, <<>>, FALSE, FALSE)

\* xml::AnyElement: any element with any content
AnyElement == Shape("any", TRUE, Attributes({}, {"any"}), <<Group("AnyElement", 0, Many)>>, TRUE, FALSE)

FeatureShapes ==
  [ AllFoo |-> AllFoo, AnyFoo |-> AnyFoo, AnyChoice |-> AnyChoice
  , AnyChoiceContent |-> AnyChoiceContent, TwoRows |-> TwoRows, FirstRow |-> FirstRow
  , SecondRow |-> SecondRow, GroupFoo |-> GroupFoo, Outer |-> Outer
  , Inner |-> Inner, RepeatedFoo |-> RepeatedFoo, RepeatedContent |-> RepeatedContent
  , Person |-> Person, Address |-> Address, Record |-> Record
  , Contact |-> Contact, RecordAddress |-> RecordAddress, Threshold |-> Threshold
  , Exactly |-> Exactly, Entry |-> Entry, Item |-> Item
  , Metadata |-> Metadata, Container |-> Container, Nested |-> Nested
  , Bars |-> Bars, BarChoice |-> BarChoice
  , Text |-> Text, AnyElement |-> AnyElement ]

=============================================================================
