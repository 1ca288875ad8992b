------------------------------ MODULE XsSchema ------------------------------
(***************************************************************************)
(* The types that the schemas themselves are read with                     *)
(* (xsd-parser/src/models/schema/xs_generated.rs): for every deserializer  *)
(* of that file the shape that Deserializer.tla runs.                      *)
(*                                                                         *)
(* A struct is given by the attributes it reads (...Attributes), what it   *)
(* stores of each member (...Members) and the order its states are tried   *)
(* in, with the members that allow any element.  A choice is given by the  *)
(* tags it looks for (...Find), the types that read them (...Values), the  *)
(* places that need a value (...Required), those that hold only one        *)
(* (...Single), the members that allow any element (...Lenient) and if it  *)
(* does so itself.  FacetType and AttributeType are NamespaceScopes, which *)
(* pass the events through to FacetInnerType and AttributeInnerType.       *)
(***************************************************************************)
EXTENDS Shapes, Sequences

Optional(tag, type) == Member(tag, type, 0, 1, FALSE)
Required(tag, type) == Member(tag, type, 1, 1, FALSE)
Repeated(tag, type) == Member(tag, type, 0, Many, FALSE)
RequiredMany(tag, type) == Member(tag, type, 1, Many, FALSE)

AllowsAny(member) == [member EXCEPT !.any = TRUE]

Sequence(element, attributes, members) == Shape("sequence", element, attributes, members, FALSE, TRUE)

Content(attributes, content, max) ==
  Shape("content", TRUE, attributes, <<Group(content, 0, max)>>, FALSE, TRUE)

\* A group is found by its type, which then stands for its tag.
Choice(find, values, required, single, lenient, any) ==
  Shape("choice", FALSE, Attributes({}, {}),
        [i \in DOMAIN find |->
          [tag |-> find[i], type |-> values[i], element |-> find[i] # values[i],
           min |-> IF i \in required THEN 1 ELSE 0, max |-> IF i \in single THEN 1 ELSE Many,
           any |-> find[i] \in lenient]],
        any, TRUE)

-----------------------------------------------------------------------------
SchemaAttributes ==
  Attributes({}, {"targetNamespace", "version", "finalDefault", "blockDefault", "attributeFormDefault",
   "elementFormDefault", "defaultAttributes", "xpathDefaultNamespace", "id", "lang"})
Schema == Content(SchemaAttributes, "SchemaContent", Many)

SchemaContentFind ==
  <<"include", "import", "redefine", "override", "annotation", "defaultOpenContent", "simpleType",
   "complexType", "group", "attributeGroup", "element", "attribute", "notation">>
SchemaContentValues1 == <<"Include", "Import", "Redefine", "Override">>
SchemaContentValues2 == <<"Annotation", "DefaultOpenContent", "SimpleBaseType", "ComplexBaseType">>
SchemaContentValues3 == <<"GroupType", "AttributeGroupType", "ElementType", "AttributeInnerType">>
SchemaContentValues4 == <<"Notation">>
SchemaContentRequired == 1 .. 13
SchemaContentSingle == 1 .. 13
SchemaContentLenient == {"redefine", "override", "simpleType", "complexType", "group", "element"}
SchemaContent ==
  Choice(SchemaContentFind, SchemaContentValues1 \o SchemaContentValues2 \o SchemaContentValues3 \o
   SchemaContentValues4, SchemaContentRequired, SchemaContentSingle, SchemaContentLenient, FALSE)

IncludeAttributes == Attributes({"schemaLocation"}, {"id"})
IncludeMembers == <<Optional("annotation", "Annotation")>>
Include == Sequence(TRUE, IncludeAttributes, IncludeMembers)

ImportAttributes == Attributes({}, {"id", "namespace", "schemaLocation"})
ImportMembers == <<Optional("annotation", "Annotation")>>
Import == Sequence(TRUE, ImportAttributes, ImportMembers)

RedefineAttributes == Attributes({"schemaLocation"}, {"id"})
Redefine == Content(RedefineAttributes, "RedefineContent", Many)

RedefineContentFind == <<"annotation", "simpleType", "complexType", "group", "attributeGroup">>
RedefineContentValues1 == <<"Annotation", "SimpleBaseType", "ComplexBaseType", "GroupType">>
RedefineContentValues2 == <<"AttributeGroupType">>
RedefineContentRequired == 1 .. 5
RedefineContentSingle == 1 .. 5
RedefineContentLenient == {"simpleType", "complexType", "group"}
RedefineContent ==
  Choice(RedefineContentFind, RedefineContentValues1 \o RedefineContentValues2, RedefineContentRequired,
   RedefineContentSingle, RedefineContentLenient, FALSE)

OverrideAttributes == Attributes({"schemaLocation"}, {"id"})
Override == Content(OverrideAttributes, "OverrideContent", Many)

OverrideContentFind ==
  <<"annotation", "simpleType", "complexType", "group", "attributeGroup", "element", "attribute",
   "notation">>
OverrideContentValues1 == <<"Annotation", "SimpleBaseType", "ComplexBaseType", "GroupType">>
OverrideContentValues2 == <<"AttributeGroupType", "ElementType", "AttributeInnerType", "Notation">>
OverrideContentRequired == 1 .. 8
OverrideContentSingle == 1 .. 8
OverrideContentLenient == {"simpleType", "complexType", "group", "element"}
OverrideContent ==
  Choice(OverrideContentFind, OverrideContentValues1 \o OverrideContentValues2, OverrideContentRequired,
   OverrideContentSingle, OverrideContentLenient, FALSE)

AnnotationAttributes == Attributes({}, {"id"})
Annotation == Content(AnnotationAttributes, "AnnotationContent", Many)

AnnotationContentFind == <<"appinfo", "documentation">>
AnnotationContentValues == <<"AnyElement", "AnyElement">>
AnnotationContentRequired == 1 .. 2
AnnotationContentSingle == 1 .. 2
AnnotationContentLenient == {}
AnnotationContent ==
  Choice(AnnotationContentFind, AnnotationContentValues, AnnotationContentRequired,
   AnnotationContentSingle, AnnotationContentLenient, FALSE)

DefaultOpenContentAttributes == Attributes({}, {"id", "appliesToEmpty", "mode"})
DefaultOpenContentMembers == <<Optional("annotation", "Annotation"), Required("any", "WildcardType")>>
DefaultOpenContent == Sequence(TRUE, DefaultOpenContentAttributes, DefaultOpenContentMembers)

SimpleBaseTypeAttributes == Attributes({}, {"id", "final", "name"})
SimpleBaseType == Content(SimpleBaseTypeAttributes, "SimpleBaseTypeContent", Many)

SimpleBaseTypeContentFind == <<"annotation", "restriction", "list", "union">>
SimpleBaseTypeContentValues == <<"Annotation", "Restriction", "List", "Union">>
SimpleBaseTypeContentRequired == 1 .. 4
SimpleBaseTypeContentSingle == 1 .. 4
SimpleBaseTypeContentLenient == {"restriction"}
SimpleBaseTypeContent ==
  Choice(SimpleBaseTypeContentFind, SimpleBaseTypeContentValues, SimpleBaseTypeContentRequired,
   SimpleBaseTypeContentSingle, SimpleBaseTypeContentLenient, FALSE)

ComplexBaseTypeAttributes ==
  Attributes({}, {"id", "name", "mixed", "abstract", "final", "block", "defaultAttributesApply"})
ComplexBaseType == Content(ComplexBaseTypeAttributes, "ComplexBaseTypeContent", Many)

ComplexBaseTypeContentFind ==
  <<"annotation", "simpleContent", "complexContent", "openContent", "group", "all", "choice",
   "sequence", "attribute", "attributeGroup", "anyAttribute", "assert">>
ComplexBaseTypeContentValues1 == <<"Annotation", "SimpleContent", "ComplexContent", "OpenContent">>
ComplexBaseTypeContentValues2 == <<"GroupType", "GroupType", "GroupType", "GroupType">>
ComplexBaseTypeContentValues3 ==
  <<"AttributeInnerType", "AttributeGroupType", "AnyAttribute", "AssertionType">>
ComplexBaseTypeContentRequired == 1 .. 12
ComplexBaseTypeContentSingle == 1 .. 12
ComplexBaseTypeContentLenient == {"simpleContent", "complexContent", "group", "all", "choice", "sequence"}
ComplexBaseTypeContent ==
  Choice(ComplexBaseTypeContentFind, ComplexBaseTypeContentValues1 \o ComplexBaseTypeContentValues2 \o
   ComplexBaseTypeContentValues3, ComplexBaseTypeContentRequired, ComplexBaseTypeContentSingle,
   ComplexBaseTypeContentLenient, FALSE)

GroupTypeAttributes == Attributes({}, {"id", "name", "ref", "minOccurs", "maxOccurs"})
GroupType == Content(GroupTypeAttributes, "GroupTypeContent", Many)

GroupTypeContentFind == <<"annotation", "element", "group", "all", "choice", "sequence", "any">>
GroupTypeContentValues1 == <<"Annotation", "ElementType", "GroupType", "GroupType">>
GroupTypeContentValues2 == <<"GroupType", "GroupType", "Any">>
GroupTypeContentRequired == 1 .. 7
GroupTypeContentSingle == 1 .. 7
GroupTypeContentLenient == {"element", "group", "all", "choice", "sequence"}
GroupTypeContent ==
  Choice(GroupTypeContentFind, GroupTypeContentValues1 \o GroupTypeContentValues2,
   GroupTypeContentRequired, GroupTypeContentSingle, GroupTypeContentLenient, FALSE)

AttributeGroupTypeAttributes == Attributes({}, {"id", "name", "ref"})
AttributeGroupType == Content(AttributeGroupTypeAttributes, "AttributeGroupTypeContent", Many)

AttributeGroupTypeContentFind == <<"annotation", "attribute", "attributeGroup", "anyAttribute">>
AttributeGroupTypeContentValues ==
  <<"Annotation", "AttributeInnerType", "AttributeGroupType", "AnyAttribute">>
AttributeGroupTypeContentRequired == 1 .. 4
AttributeGroupTypeContentSingle == 1 .. 4
AttributeGroupTypeContentLenient == {}
AttributeGroupTypeContent ==
  Choice(AttributeGroupTypeContentFind, AttributeGroupTypeContentValues,
   AttributeGroupTypeContentRequired, AttributeGroupTypeContentSingle, AttributeGroupTypeContentLenient,
   FALSE)

ElementTypeAttributes ==
  Attributes({}, {"id", "name", "ref", "type", "substitutionGroup", "minOccurs", "maxOccurs", "default",
   "fixed", "nillable", "abstract", "final", "block", "form", "targetNamespace"})
ElementType == Content(ElementTypeAttributes, "ElementTypeContent", Many)

ElementTypeContentFind ==
  <<"annotation", "simpleType", "complexType", "alternative", "unique", "key", "keyref">>
ElementTypeContentValues1 == <<"Annotation", "SimpleBaseType", "ComplexBaseType", "AltType">>
ElementTypeContentValues2 == <<"KeybaseType", "KeybaseType", "Keyref">>
ElementTypeContentRequired == 1 .. 7
ElementTypeContentSingle == 1 .. 7
ElementTypeContentLenient == {"simpleType", "complexType", "alternative"}
ElementTypeContent ==
  Choice(ElementTypeContentFind, ElementTypeContentValues1 \o ElementTypeContentValues2,
   ElementTypeContentRequired, ElementTypeContentSingle, ElementTypeContentLenient, FALSE)

AttributeInnerTypeAttributes ==
  Attributes({}, {"id", "name", "ref", "type", "use", "default", "fixed", "form", "targetNamespace",
   "inheritable"})
AttributeInnerTypeMembers ==
  <<Optional("annotation", "Annotation"), AllowsAny(Optional("simpleType", "SimpleBaseType"))>>
AttributeInnerType == Sequence(TRUE, AttributeInnerTypeAttributes, AttributeInnerTypeMembers)

NotationAttributes == Attributes({"name"}, {"id", "public", "system"})
NotationMembers == <<Optional("annotation", "Annotation")>>
Notation == Sequence(TRUE, NotationAttributes, NotationMembers)

WildcardTypeAttributes == Attributes({}, {"id", "namespace", "notNamespace", "processContents"})
WildcardTypeMembers == <<Optional("annotation", "Annotation")>>
WildcardType == Sequence(TRUE, WildcardTypeAttributes, WildcardTypeMembers)

RestrictionAttributes == Attributes({}, {"id", "base"})
Restriction == Content(RestrictionAttributes, "RestrictionContent", Many)

RestrictionContentFind == <<"annotation", "simpleType", "Facet">>
RestrictionContentValues == <<"Annotation", "SimpleBaseType", "Facet">>
RestrictionContentRequired == 1 .. 3
RestrictionContentSingle == 1 .. 3
RestrictionContentLenient == {"simpleType"}
RestrictionContent ==
  Choice(RestrictionContentFind, RestrictionContentValues, RestrictionContentRequired,
   RestrictionContentSingle, RestrictionContentLenient, TRUE)

ListAttributes == Attributes({}, {"id", "itemType"})
ListMembers == <<Optional("annotation", "Annotation"), AllowsAny(Optional("simpleType", "SimpleBaseType"))>>
List == Sequence(TRUE, ListAttributes, ListMembers)

UnionAttributes == Attributes({}, {"id", "memberTypes"})
UnionMembers == <<Optional("annotation", "Annotation"), AllowsAny(Repeated("simpleType", "SimpleBaseType"))>>
Union == Sequence(TRUE, UnionAttributes, UnionMembers)

SimpleContentAttributes == Attributes({}, {"id"})
SimpleContent == Content(SimpleContentAttributes, "SimpleContentContent", Many)

SimpleContentContentFind == <<"annotation", "restriction", "extension">>
SimpleContentContentValues == <<"Annotation", "RestrictionType", "ExtensionType">>
SimpleContentContentRequired == 1 .. 3
SimpleContentContentSingle == 1 .. 3
SimpleContentContentLenient == {"restriction", "extension"}
SimpleContentContent ==
  Choice(SimpleContentContentFind, SimpleContentContentValues, SimpleContentContentRequired,
   SimpleContentContentSingle, SimpleContentContentLenient, FALSE)

ComplexContentAttributes == Attributes({}, {"id", "mixed"})
ComplexContent == Content(ComplexContentAttributes, "ComplexContentContent", Many)

ComplexContentContentFind == <<"annotation", "restriction", "extension">>
ComplexContentContentValues == <<"Annotation", "RestrictionType", "ExtensionType">>
ComplexContentContentRequired == 1 .. 3
ComplexContentContentSingle == 1 .. 3
ComplexContentContentLenient == {"restriction", "extension"}
ComplexContentContent ==
  Choice(ComplexContentContentFind, ComplexContentContentValues, ComplexContentContentRequired,
   ComplexContentContentSingle, ComplexContentContentLenient, FALSE)

OpenContentAttributes == Attributes({}, {"id", "mode"})
OpenContentMembers == <<Optional("annotation", "Annotation"), Optional("any", "WildcardType")>>
OpenContent == Sequence(TRUE, OpenContentAttributes, OpenContentMembers)

AnyAttributeAttributes == Attributes({}, {"id", "namespace", "notNamespace", "processContents", "notQName"})
AnyAttributeMembers == <<Optional("annotation", "Annotation")>>
AnyAttribute == Sequence(TRUE, AnyAttributeAttributes, AnyAttributeMembers)

AssertionTypeAttributes == Attributes({}, {"id", "test", "xpathDefaultNamespace"})
AssertionTypeMembers == <<Optional("annotation", "Annotation")>>
AssertionType == Sequence(TRUE, AssertionTypeAttributes, AssertionTypeMembers)

AnyAttributes ==
  Attributes({}, {"id", "namespace", "notNamespace", "processContents", "notQName", "minOccurs",
   "maxOccurs"})
AnyMembers == <<Optional("annotation", "Annotation")>>
Any_ == Sequence(TRUE, AnyAttributes, AnyMembers)

AltTypeAttributes == Attributes({}, {"id", "test", "type", "xpathDefaultNamespace"})
AltType == Content(AltTypeAttributes, "AltTypeContent", Many)

AltTypeContentFind == <<"annotation", "simpleType", "complexType">>
AltTypeContentValues == <<"Annotation", "SimpleBaseType", "ComplexBaseType">>
AltTypeContentRequired == 1 .. 3
AltTypeContentSingle == 1 .. 3
AltTypeContentLenient == {"simpleType", "complexType"}
AltTypeContent ==
  Choice(AltTypeContentFind, AltTypeContentValues, AltTypeContentRequired, AltTypeContentSingle,
   AltTypeContentLenient, FALSE)

KeybaseTypeAttributes == Attributes({}, {"id", "name", "ref"})
KeybaseType == Content(KeybaseTypeAttributes, "KeybaseTypeContent", 1)

KeybaseTypeContentMembers ==
  <<Optional("annotation", "Annotation"), Required("selector", "Field"), RequiredMany("field",
   "Field")>>
KeybaseTypeContent == Sequence(FALSE, Attributes({}, {}), KeybaseTypeContentMembers)

KeyrefAttributes == Attributes({}, {"id", "name", "ref", "refer"})
Keyref == Content(KeyrefAttributes, "KeyrefContent", 1)

KeyrefContentMembers ==
  <<Optional("annotation", "Annotation"), Required("selector", "Field"), RequiredMany("field",
   "Field")>>
KeyrefContent == Sequence(FALSE, Attributes({}, {}), KeyrefContentMembers)

FacetFind ==
  <<"minExclusive", "minInclusive", "maxExclusive", "maxInclusive", "totalDigits", "fractionDigits",
   "length", "minLength", "maxLength", "enumeration", "whiteSpace", "pattern", "assertion",
   "explicitTimezone">>
FacetValues1 == <<"FacetInnerType", "FacetInnerType", "FacetInnerType", "FacetInnerType">>
FacetValues2 == <<"FacetInnerType", "FacetInnerType", "FacetInnerType", "FacetInnerType">>
FacetValues3 == <<"FacetInnerType", "FacetInnerType", "FacetInnerType", "FacetInnerType">>
FacetValues4 == <<"AssertionType", "FacetInnerType">>
FacetRequired == 1 .. 14
FacetSingle == 1 .. 14
FacetLenient == {}
Facet ==
  Choice(FacetFind, FacetValues1 \o FacetValues2 \o FacetValues3 \o FacetValues4, FacetRequired,
   FacetSingle, FacetLenient, FALSE)

RestrictionTypeAttributes == Attributes({"base"}, {"id"})
RestrictionType == Content(RestrictionTypeAttributes, "RestrictionTypeContent", Many)

RestrictionTypeContentFind ==
  <<"annotation", "openContent", "group", "all", "choice", "sequence", "simpleType", "Facet",
   "attribute", "attributeGroup", "anyAttribute", "assert">>
RestrictionTypeContentValues1 == <<"Annotation", "OpenContent", "GroupType", "GroupType">>
RestrictionTypeContentValues2 == <<"GroupType", "GroupType", "SimpleBaseType", "Facet">>
RestrictionTypeContentValues3 ==
  <<"AttributeInnerType", "AttributeGroupType", "AnyAttribute", "AssertionType">>
RestrictionTypeContentRequired == 1 .. 12
RestrictionTypeContentSingle == 1 .. 12
RestrictionTypeContentLenient == {"group", "all", "choice", "sequence", "simpleType"}
RestrictionTypeContent ==
  Choice(RestrictionTypeContentFind, RestrictionTypeContentValues1 \o RestrictionTypeContentValues2 \o
   RestrictionTypeContentValues3, RestrictionTypeContentRequired, RestrictionTypeContentSingle,
   RestrictionTypeContentLenient, TRUE)

ExtensionTypeAttributes == Attributes({"base"}, {"id"})
ExtensionType == Content(ExtensionTypeAttributes, "ExtensionTypeContent", Many)

ExtensionTypeContentFind ==
  <<"annotation", "openContent", "group", "all", "choice", "sequence", "attribute", "attributeGroup",
   "anyAttribute", "assert">>
ExtensionTypeContentValues1 == <<"Annotation", "OpenContent", "GroupType", "GroupType">>
ExtensionTypeContentValues2 == <<"GroupType", "GroupType", "AttributeInnerType", "AttributeGroupType">>
ExtensionTypeContentValues3 == <<"AnyAttribute", "AssertionType">>
ExtensionTypeContentRequired == 1 .. 10
ExtensionTypeContentSingle == 1 .. 10
ExtensionTypeContentLenient == {"group", "all", "choice", "sequence"}
ExtensionTypeContent ==
  Choice(ExtensionTypeContentFind, ExtensionTypeContentValues1 \o ExtensionTypeContentValues2 \o
   ExtensionTypeContentValues3, ExtensionTypeContentRequired, ExtensionTypeContentSingle,
   ExtensionTypeContentLenient, FALSE)

FieldAttributes == Attributes({"xpath"}, {"id", "xpathDefaultNamespace"})
FieldMembers == <<Optional("annotation", "Annotation")>>
Field == Sequence(TRUE, FieldAttributes, FieldMembers)

FacetInnerTypeAttributes == Attributes({"value"}, {"id", "fixed"})
FacetInnerTypeMembers == <<Optional("annotation", "Annotation")>>
FacetInnerType == Sequence(TRUE, FacetInnerTypeAttributes, FacetInnerTypeMembers)

-----------------------------------------------------------------------------
\* xml::AnyElement: any element with any content
AnyElement == Shape("any", TRUE, Attributes({}, {"any"}), <<Group("AnyElement", 0, Many)>>, TRUE, TRUE)

XsTypes ==
  [ Schema |-> Schema, SchemaContent |-> SchemaContent
  , Include |-> Include, Import |-> Import
  , Redefine |-> Redefine, RedefineContent |-> RedefineContent
  , Override |-> Override, OverrideContent |-> OverrideContent
  , Annotation |-> Annotation, AnnotationContent |-> AnnotationContent
  , DefaultOpenContent |-> DefaultOpenContent, SimpleBaseType |-> SimpleBaseType
  , SimpleBaseTypeContent |-> SimpleBaseTypeContent, ComplexBaseType |-> ComplexBaseType
  , ComplexBaseTypeContent |-> ComplexBaseTypeContent, GroupType |-> GroupType
  , GroupTypeContent |-> GroupTypeContent, AttributeGroupType |-> AttributeGroupType
  , AttributeGroupTypeContent |-> AttributeGroupTypeContent, ElementType |-> ElementType
  , ElementTypeContent |-> ElementTypeContent, AttributeInnerType |-> AttributeInnerType
  , Notation |-> Notation, WildcardType |-> WildcardType
  , Restriction |-> Restriction, RestrictionContent |-> RestrictionContent
  , List |-> List, Union |-> Union
  , SimpleContent |-> SimpleContent, SimpleContentContent |-> SimpleContentContent
  , ComplexContent |-> ComplexContent, ComplexContentContent |-> ComplexContentContent
  , OpenContent |-> OpenContent, AnyAttribute |-> AnyAttribute
  , AssertionType |-> AssertionType, Any |-> Any_
  , AltType |-> AltType, AltTypeContent |-> AltTypeContent
  , KeybaseType |-> KeybaseType, KeybaseTypeContent |-> KeybaseTypeContent
  , Keyref |-> Keyref, KeyrefContent |-> KeyrefContent
  , Facet |-> Facet, RestrictionType |-> RestrictionType
  , RestrictionTypeContent |-> RestrictionTypeContent, ExtensionType |-> ExtensionType
  , ExtensionTypeContent |-> ExtensionTypeContent, Field |-> Field
  , FacetInnerType |-> FacetInnerType
  , AnyElement |-> AnyElement ]

=============================================================================
