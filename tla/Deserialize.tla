---------------------------- MODULE Deserialize ----------------------------
(***************************************************************************)
(* Reading a document (DeserializeImpl in xsd-parser-types/src/quick_xml/  *)
(* deserialize.rs): every XML event is given to the deserializer of the    *)
(* root, and what comes back decides if the event is dropped, if the       *)
(* element it starts is skipped, or if the document is rejected.           *)
(*                                                                         *)
(* The documents are all the well-formed ones with a few elements, read    *)
(* event by event.  Next to the program a plain reading of the document    *)
(* is kept (dom): the elements that are open, the type each should have,   *)
(* and what they contain.  The properties compare the two.                 *)
(***************************************************************************)
EXTENDS Deserializer

CONSTANTS
  Roots,        \* the types a document may be read as
  MaxElements,  \* bound: elements of a document, by the type of its root
  MaxNotes      \* bound: texts and comments of a document

VARIABLES
  deserializer,  \* the deserializer of the root, if there is one
  skip_depth,    \* open elements since the one that is skipped
  result,        \* "reading", "accepted" or "rejected"
  value,         \* what was read, once it is accepted
  root,          \* the type the document is read as
  dom,           \* the open elements, outermost first
  tree,          \* the content of the root element, once it is closed
  elements,      \* number of elements so far
  notes,         \* number of texts and comments so far
  over,          \* if its end was read
  verdict        \* "fine", "wrong", "misplaced" (wrong, sooner or later) or "open" (not judged)

program == <<deserializer, skip_depth, result, value>>
document == <<root, dom, tree, elements, notes, over, verdict>>
vars == <<calls, program, document>>

NoEvent == [kind |-> "none"]

-----------------------------------------------------------------------------
(* The program *)

\* Mutant: the element is skipped to the end of the one around it.
SkipLong(e, depth) ==
  CASE e.kind = "start" -> Some(depth + 1)
    [] e.kind = "end" /\ depth = 0 -> None
    [] e.kind = "end" /\ depth > 0 -> Some(depth - 1)
    [] OTHER -> Some(depth)

\* The depth after an event of an element that is skipped
Skip(e, depth) ==
  CASE e.kind = "start" -> Some(depth + 1)
    [] e.kind = "end" /\ depth = 1 -> None
    [] e.kind = "end" /\ depth > 1 -> Some(depth - 1)
    [] OTHER -> Some(depth)

\* Mutant: whatever nobody has consumed is dropped.
DroppedAlways(o, e) == TRUE

\* An event that nobody has consumed may be dropped.
Dropped(o, e) == o.event = "none" \/ e.kind = "comment" \/ o.any \/ e.kind = "blank"

-----------------------------------------------------------------------------
(* The plain reading *)

\* The places for elements in a type, those of its groups included.
RECURSIVE Declared(_)
Declared(t) ==
  UNION {IF el.element \/ IsAny(el) THEN {el} ELSE Declared(el.type) : el \in ToSet(Types[t].members)}

Names(t) == {el.tag : el \in {x \in Declared(t) : x.element}}
HasAny(t) == \E el \in Declared(t) : IsAny(el)

\* The name of an element that only a place for any element takes
Wild == "*"

\* The type of an element, by the name it is read under
TypeOf(t, name) ==
  (CHOOSE el \in Declared(t) : IF name = Wild THEN IsAny(el) ELSE el.element /\ el.tag = name).type

\* The content model of a type: the places up to which s can be read from i on, with 0
\* for a reading that comes to the end of s and needs more.  Lists at the end of s, and
\* those of an xs:all, may be short if the reading is loose (BoundsEnforced is about them).
RECURSIVE Ends(_, _, _, _), Times(_, _, _, _, _), InTurn(_, _, _, _)

Once(el, s, i, loose) ==
  IF ~el.element /\ ~IsAny(el) THEN Ends(el.type, s, i, loose)
  ELSE IF i > Len(s) THEN {0}
  ELSE IF s[i] = IF IsAny(el) THEN Wild ELSE el.tag THEN {i + 1} ELSE {}

IsList(el) == el.max > 1 /\ el.min # el.max

Times(el, s, from, n, loose) ==
  LET enough == IF n >= el.min THEN from ELSE {i \in from : loose /\ IsList(el) /\ i > Len(s)}
  IN  enough \cup
      UNION {(after \cap {0}) \cup IF after \ {0} # {} THEN Times(el, s, after \ {0}, n + 1, loose) ELSE {} :
               after \in {UNION {Once(el, s, i, loose) : i \in {i \in from : n < el.max /\ n <= Len(s)}}}}

InTurn(els, s, from, loose) ==
  IF els = <<>> THEN from
  ELSE UNION {(after \cap {0}) \cup
                IF after \ {0} = {} THEN {} ELSE InTurn(Tail(els), s, after \ {0}, loose) :
                after \in {Times(els[1], s, from, 0, loose)}}

InAnyOrder(els, s, i, loose) ==
  LET count(el, j) == Cardinality({k \in i .. j - 1 : s[k] = el.tag})
      part(j) == /\ \A k \in i .. j - 1 : s[k] \in {el.tag : el \in els}
                 /\ \A el \in els : count(el, j) <= el.max
      whole(j) == \A el \in els : count(el, j) >= el.min \/ (loose /\ IsList(el))
  IN  {j \in i .. Len(s) + 1 : part(j) /\ whole(j)} \cup {j \in {0} : part(Len(s) + 1)}

Ends(t, s, i, loose) ==
  CASE Types[t].kind \in {"sequence", "content"} -> InTurn(Types[t].members, s, {i}, loose)
    [] Types[t].kind = "choice" -> UNION {Times(el, s, {i}, 0, loose) : el \in ToSet(Types[t].members)}
    [] Types[t].kind = "all" -> InAnyOrder(ToSet(Types[t].members), s, i, loose)
    [] OTHER -> {Len(s) + 1}

\* A type whose content may begin with these elements, and one whose content they are.
MayBegin(t, s) == Ends(t, s, 1, FALSE) \cap {0, Len(s) + 1} # {}
MayBe(t, s, loose) == Len(s) + 1 \in Ends(t, s, 1, loose)

Element(t, tag, id) == [type |-> t, tag |-> tag, id |-> id, names |-> <<>>, kids |-> <<>>]
Read(x) == [type |-> x.type, id |-> x.id, kids |-> x.kids]
Known == {i \in DOMAIN dom : dom[i].type \in DOMAIN Types}
Top == dom[Len(dom)]

\* Types that skip unknown elements wherever they are, and those that never do.
Members(t) == ToSet(Types[t].members)
Lenient(t) ==
  \/ Types[t].kind \in {"any", "choice", "all"} /\ Types[t].any
  \/ Types[t].kind = "content" /\ \A el \in Members(t) : Types[el.type].any
Strict(t) ==
  ~Types[t].any /\ \A el \in Members(t) : ~el.any /\ (Types[t].kind = "content" => ~Types[el.type].any)

FitsAs(tag) == MayBegin(Top.type, Append(Top.names, tag))
FitsName(e) == e.tag \in Names(Top.type) /\ FitsAs(e.tag)
FitsWild == HasAny(Top.type) /\ FitsAs(Wild)

Takes(t, e) == e.tag \in Names(t) \/ HasAny(t)
TakenHere(e) == Takes(Top.type, e)
TakenAround(e) == \E i \in Known \ {Len(dom)} : Takes(dom[i].type, e)

AttributesFine(t, e) ==
  CASE e.attributes = "whole" -> TRUE
    [] e.attributes = "missing" -> Types[t].attributes.required = {}
    [] e.attributes = "twice" -> Types[t].attributes.known = {}

\* Text is part of the content, or dropped where unknown elements are.
TakesText(t) == Types[t].kind = "text" \/ Lenient(t)

\* The element an event starts, as a part of what is open.
Started(e) ==
  IF dom = <<>> THEN Element(root, e.tag, e.id)
  ELSE IF Top.type = "skipped" THEN Element("skipped", e.tag, e.id)
  ELSE IF FitsName(e) THEN Element(TypeOf(Top.type, e.tag), e.tag, e.id)
  ELSE IF FitsWild THEN Element(TypeOf(Top.type, Wild), Wild, e.id)
  ELSE Element("skipped", e.tag, e.id)

\* An element that does not fit.  Where a type skips unknown elements in some places only,
\* it is what the program takes it for.  One that belongs elsewhere is left open, except that
\* types which skip nothing know it to be out of its place.
JudgeUnknown(e) ==
  LET strict == \A i \in Known : Strict(dom[i].type)
      lenient == \A i \in Known : Lenient(dom[i].type)
  IN  CASE TakenAround(e) -> "open"
        [] ~TakenAround(e) /\ TakenHere(e) -> IF strict THEN "misplaced" ELSE "open"
        [] OTHER -> IF lenient \/ (~strict /\ result' # "rejected") THEN "fine" ELSE "wrong"

\* If x may have the attributes, the text or the end that the event gives it.
Correct(e, x) ==
  /\ IsTag(e) => AttributesFine(x.type, e)
  /\ e.kind \in {"empty", "end"} => MayBe(x.type, x.names, TRUE)
  /\ e.kind = "text" => TakesText(x.type)

\* The end of a document that is not complete.
JudgeEof == IF (\A i \in Known : Strict(dom[i].type)) \/ result' = "rejected" THEN "wrong" ELSE "open"

Judge(e, x) ==
  IF verdict # "fine" THEN verdict
  ELSE IF e.kind = "eof" THEN JudgeEof
  ELSE IF e.kind \in {"comment", "blank"} \/ (dom # <<>> /\ Top.type = "skipped") THEN "fine"
  ELSE IF x.type = "skipped" THEN JudgeUnknown(e)
  ELSE IF Correct(e, x) THEN "fine" ELSE "wrong"

\* x becomes a part of the element around it.
Closed(x, open) ==
  IF x.type \notin DOMAIN Types THEN open
  ELSE [open EXCEPT ![Len(open)] = [@ EXCEPT !.names = Append(@, x.tag), !.kids = Append(@, Read(x))]]

Note == [type |-> "text", id |-> 0, kids |-> <<>>]
IsNote(e) == e.kind \in {"text", "blank", "comment"}

\* x is the element the event belongs to.
LookAt(e, x) ==
  /\ verdict' = Judge(e, x)
  /\ dom' = CASE e.kind = "start" -> Append(dom, x)
              [] e.kind = "empty" /\ dom # <<>> -> Closed(x, dom)
              [] e.kind = "end" /\ Len(dom) > 1 -> Closed(x, Front(dom))
              [] e.kind = "end" /\ Len(dom) = 1 -> <<>>
              [] IsNote(e) /\ x.type \in DOMAIN Types /\ Types[x.type].kind = "any" ->
                   [dom EXCEPT ![Len(dom)].kids = Append(@, Note)]
              [] OTHER -> dom
  /\ tree' = IF (e.kind = "empty" /\ dom = <<>>) \/ (e.kind = "end" /\ Len(dom) = 1) THEN Some(Read(x)) ELSE tree
  /\ elements' = IF IsTag(e) THEN elements + 1 ELSE elements
  /\ notes' = IF IsNote(e) THEN notes + 1 ELSE notes
  /\ over' = (over \/ e.kind = "eof")
  /\ UNCHANGED root

Look(e) == \E x \in {IF IsTag(e) THEN Started(e) ELSE IF dom = <<>> THEN Element("none", "none", 0) ELSE Top} : LookAt(e, x)

-----------------------------------------------------------------------------
(* The reader: the next event of a well-formed document, or its end, which may come early *)
(* and which the reader returns again and again.                                         *)

Tags == UNION {Names(dom[i].type) : i \in Known} \cup {"other"}

StartTags ==
  IF elements = MaxElements[root] \/ (dom = <<>> /\ elements > 0) THEN {}
  ELSE {[kind |-> k, tag |-> t, id |-> elements + 1, attributes |-> x] :
          k \in {"start", "empty"}, t \in IF dom = <<>> THEN {"other"} ELSE Tags, x \in {"whole", "missing", "twice"}}
Notes == IF dom = <<>> \/ notes = MaxNotes THEN {} ELSE {[kind |-> k] : k \in {"text", "blank", "comment"}}
EndTags == IF dom = <<>> THEN {} ELSE {[kind |-> "end"]}

Events == IF over THEN {[kind |-> "eof"]} ELSE StartTags \cup Notes \cup EndTags \cup {[kind |-> "eof"]}

\* The next event is read ...
NextEvent ==
  /\ event = NoEvent /\ result = "reading"
  /\ event' \in Events
  /\ UNCHANGED <<call, output, program, document>>

\* handle_event: ... and given to the deserializer, ...
HandleEvent ==
  /\ event # NoEvent /\ call = <<>> /\ output = None
  /\ skip_depth = None \/ event.kind = "eof"
  /\ call' = IF deserializer = None THEN <<>> ELSE <<Frame(deserializer, FALSE)>>
  /\ output' = IF deserializer = None THEN Some(InitElement(root, event)) ELSE None
  /\ UNCHANGED <<event, program, document>>

\* ... and what it returns decides about the event.
HandleOutput ==
  /\ call = <<>> /\ output # None
  /\ LET o == output[1]
         ok == o.artifact # "error" /\ Dropped(o, event)
     IN  /\ deserializer' = IF o.artifact = "deserializer" THEN o.of ELSE None
         /\ skip_depth' = IF ok /\ o.event # "none" /\ o.any /\ event.kind = "start" THEN Some(1) ELSE skip_depth
         /\ value' = IF ok /\ o.artifact = "data" THEN Some(o.of) ELSE None
         /\ result' = IF ~ok THEN "rejected" ELSE IF o.artifact = "data" THEN "accepted" ELSE "reading"
  /\ output' = None /\ event' = NoEvent
  /\ UNCHANGED call

\* handle_skip
HandleSkip ==
  /\ event # NoEvent /\ skip_depth # None /\ event.kind # "eof"
  /\ skip_depth' = Skip(event, skip_depth[1])
  /\ event' = NoEvent
  /\ UNCHANGED <<call, output, deserializer, result, value>>

Begin ==
  /\ call = <<>> /\ event = NoEvent /\ output = None
  /\ deserializer = None /\ skip_depth = None /\ result = "reading" /\ value = None
  /\ root \in Roots
  /\ dom = <<>> /\ tree = None /\ elements = 0 /\ notes = 0 /\ over = FALSE /\ verdict = "fine"

\* deserialize_sync, deserialize_async
Advance ==
  \/ NextEvent
  \/ HandleEvent
  \/ Turn /\ UNCHANGED <<program, document>>
  \/ (HandleOutput \/ HandleSkip) /\ Look(event)

Spec == Begin /\ [][Advance]_vars

-----------------------------------------------------------------------------
(* Properties *)

Waiting == event = NoEvent

RECURSIVE Flat(_), FlatKids(_), Ids(_)

\* A value without the groups of its type
FlatKids(v) ==
  FlattenSeq([i \in DOMAIN v.kids |->
    LET x == v.kids[i].value
    IN  IF x.type \in DOMAIN Types /\ ~Types[x.type].element /\ Types[x.type].kind # "any"
        THEN FlatKids(x) ELSE <<Flat(x)>>])
Flat(v) == [type |-> v.type, id |-> v.id, kids |-> FlatKids(v)]

Ids(v) == {v.id} \cup UNION {Ids(v.kids[i].value) : i \in DOMAIN v.kids}

OpenIds == SelectSeq([i \in DOMAIN dom |-> IF dom[i].type = "skipped" THEN 0 ELSE dom[i].id], LAMBDA n : n # 0)
WorkIds ==
  SelectSeq([i \in DOMAIN deserializer |-> deserializer[i].id], LAMBDA n : n # 0)

\* While elements are where they belong, the deserializers in work are those of the open
\* elements: each was started by the start tag and finished by the end tag of one
\* (fallback, init and End in every next).
InStep == Waiting /\ result = "reading" /\ verdict = "fine" => WorkIds = OpenIds

\* A document is rejected with the first event that is wrong, and with no other one
\* (return_to_root, from_event, the order of the states and what handle_event drops).
\* An element that is out of its place in a type that skips nothing is not always rejected
\* at once, as another value may be begun with it, but the document is never accepted.
RejectsExactlyWrong ==
  /\ Waiting /\ verdict \in {"fine", "wrong"} => (result = "rejected") = (verdict = "wrong")
  /\ result = "accepted" => verdict # "misplaced"

\* A document that is accepted was read to its end, and its value holds every element that
\* was not skipped, once, in the place and in the order of the document.
ValueIsDocument ==
  result = "accepted" /\ verdict = "fine" => dom = <<>> /\ tree # None /\ Flat(value[1]) = tree[1]

\* Every document that does not end early gets an answer, also one that is skipped to its end.
Answered == <>(result # "reading" \/ over)

\* One that ends early gets one, too.
AnsweredAnyway == <>(result # "reading")

\* The values of a list are as many as the schema asks for.
RECURSIVE InBounds(_)
InBounds(v) ==
  LET members == IF v.type \in DOMAIN Types THEN Types[v.type].members ELSE <<>>
      places == IF members # <<>> /\ Types[v.type].kind = "choice" THEN {kid.at : kid \in ToSet(v.kids)}
                ELSE DOMAIN members
  IN  /\ \A i \in places : Count(v, i) >= members[i].min /\ Count(v, i) <= members[i].max
      /\ \A kid \in ToSet(v.kids) : InBounds(kid.value)
BoundsEnforced == result = "accepted" => InBounds(value[1])
=============================================================================
