--------------------------- MODULE NamespaceScopes ---------------------------
(***************************************************************************)
(* Namespaces in the XML the generated serializers write, and as the       *)
(* generated deserializers read it: the table of active namespaces of      *)
(* SerializeHelper (xsd-parser-types/src/quick_xml/serialize.rs), what the *)
(* serializers of the different kinds of values do with it, and the scopes *)
(* of DeserializeHelper (quick_xml/deserialize.rs in the same crate).      *)
(*                                                                         *)
(* A document is written event by event and each event is read before the  *)
(* next one is written.  An event is abstracted to the names in it and the *)
(* xmlns attributes; a name is a prefix and the namespace it is meant to   *)
(* have.  The namespaces are written on each element that needs them       *)
(* ("local") or on the root ("global").                                    *)
(***************************************************************************)
EXTENDS NamespaceCollector, FiniteSets

CONSTANTS
  Captured,     \* the xmlns attributes in scope of an element of any type
  MaxElements,  \* bound: elements of a document
  MaxDepth      \* bound: how deep they are nested

ASSUME CapturedAssumption == Captured \subseteq Seq([prefix : STRING, ns : STRING])

\* A literal is a string: true of TLA+, but not known to the provers.
ASSUME LiteralAssumption == {"xsi", "xs"} \subseteq STRING

VARIABLES
  level,   \* SerializeHelper: the number of scopes that were begun
  table,   \* SerializeHelper: the active namespaces, innermost last
  root,    \* the type of the root element
  open,    \* the elements whose end is still to come
  wire,    \* the event that was written last
  unread,  \* whether it is still to be read
  count,   \* the elements written so far
  reader   \* DeserializeHelper, and what namespaces() answered

writer == <<level, table, root, open, wire, count>>
scopeVars == <<collector, writer, unread, reader>>

Bind(p, n) == [prefix |-> p, ns |-> n]
NoEvent == [kind |-> "none", names |-> {}, home |-> TRUE, declares |-> <<>>, scope |-> <<>>]

\* level and resolver: quick_xml's own scopes; cached: namespaces of the helper.
FreshReader ==
  [level |-> 0, resolver |-> <<>>, cached |-> <<[level |-> 0, value |-> {}, known |-> FALSE]>>,
   pending |-> FALSE, asked |-> FALSE, answer |-> {}]

ScopeInit ==
  /\ CollectorInit
  /\ level = 0 /\ table = <<>> /\ root = Simple /\ open = <<>>
  /\ wire = NoEvent /\ unread = FALSE /\ count = 0
  /\ reader = FreshReader

-----------------------------------------------------------------------------
(* SerializeHelper.  h is its state and the xmlns attributes of the        *)
(* element that is being written.                                          *)

Helper == [level |-> level, table |-> table, xmlns |-> <<>>]
BeginScope(h) == [h EXCEPT !.level = @ + 1]

\* Entries are popped as long as the last one is outdated, of a deeper level.
PopOutdated(entries, to) ==
  LET left == CHOOSE k \in 0 .. Len(entries) :
                /\ k = 0 \/ entries[k].level <= to
                /\ \A i \in k + 1 .. Len(entries) : entries[i].level > to
  IN  SubSeq(entries, 1, left)

EndScope(h) ==
  LET left == IF h.level > 0 THEN h.level - 1 ELSE 0
  IN  [h EXCEPT !.level = left, !.table = PopOutdated(@, left)]

AddEntry(h, b) ==
  [h EXCEPT !.table = Append(@, [level |-> h.level, prefix |-> b.prefix, ns |-> b.ns]),
            !.xmlns = Append(@, b)]

Active(h, n) == \E i \in DOMAIN h.table : h.table[i].ns = n
Innermost(h, n) ==
  h.table[CHOOSE i \in DOMAIN h.table :
            h.table[i].ns = n /\ \A j \in DOMAIN h.table : h.table[j].ns = n => j <= i]

\* Mutant: a namespace that is active is not declared, whatever its prefix is.
WriteXmlnsAnyPrefix(h, b) == IF Active(h, b.ns) THEN h ELSE AddEntry(h, b)

WriteXmlns(h, b) ==
  IF Active(h, b.ns) /\ Innermost(h, b.ns).prefix = b.prefix THEN h ELSE AddEntry(h, b)

WriteAll(h, bindings) ==
  LET after[k \in 0 .. Len(bindings)] == IF k = 0 THEN h ELSE WriteXmlns(after[k - 1], bindings[k])
  IN  after[Len(bindings)]

\* For the value of xsi:type, which takes the prefix of the entry.
AddQNameNamespace(h, b) == IF Active(h, b.ns) THEN h ELSE AddEntry(h, b)

-----------------------------------------------------------------------------
(* Names.                                                                  *)

\* TagName::get_for_default_namespace and, for attributes, TagName::get. An attribute of a
\* module that has no prefix is written by its name alone, which needs no declaration and is
\* read as of no namespace; such names are not followed here.
TagPrefix(n) == IF n = schema.default THEN NoPrefix ELSE schema.prefix[n]
AttributeNames(t) ==
  {Bind(schema.prefix[n], n) : n \in {n \in schema.types[t].attrs : schema.prefix[n] # NoPrefix}}

\* What a sequence has of a set, in the order of the sequence.
Only(s, S) ==
  LET only[k \in 0 .. Len(s)] ==
        IF k = 0 THEN <<>> ELSE IF s[k] \in S THEN Append(only[k - 1], s[k]) ELSE only[k - 1]
  IN  only[Len(s)]

Ordered(keys) ==
  LET normal == Only(Modules, {k.ns : k \in {k \in keys : ~ k.default}})
      default == Only(Modules, {k.ns : k \in {k \in keys : k.default}})
  IN  [i \in DOMAIN normal |-> Bind(schema.prefix[normal[i]], normal[i])] \o
      [i \in DOMAIN default |-> Bind(NoPrefix, default[i])]

\* The prefix is that of the tag, the namespace that of the type.
LocalBindings(tag, t) ==
  LET others == Only(Modules, schema.types[t].attrs \ {schema.types[t].ns})
  IN  <<Bind(TagPrefix(tag), schema.types[t].ns)>> \o
      [i \in DOMAIN others |-> Bind(schema.prefix[others[i]], others[i])]

\* A module without a prefix is declared by each element, the others by the root.
GlobalBindings(tag, t, isRoot) ==
  LET n == schema.types[t].ns
  IN  (IF schema.prefix[n] = NoPrefix THEN <<Bind(TagPrefix(tag), n)>> ELSE <<>>) \o
      (IF isRoot THEN Ordered(cache[t].keys) ELSE <<>>)

Bindings(tag, t, isRoot) ==
  IF schema.mode = "local" THEN LocalBindings(tag, t) ELSE GlobalBindings(tag, t, isRoot)

\* Decided when the serializer is rendered: whether it has code for namespaces at all.
NeedsScope(t) ==
  schema.mode = "local" \/ schema.prefix[schema.types[t].ns] = NoPrefix \/ cache[t].keys # {}

-----------------------------------------------------------------------------
(* The document an element at a time.                                      *)

\* The xmlns attributes of the elements that are open, outermost first.
Scope == [i \in DOMAIN open |-> open[i].xmlns]

Inner == Last(open)

\* An element of the module of its type, or text in an element of the module of both.
HomeTyped(tag, t) == tag = schema.types[t].ns
HomeText(tag) == Inner.home /\ tag = Inner.ns

\* The event is on the wire; h is the helper with the element, after without its scope.
Write(kind, names, home, h, after) ==
  /\ wire' = [kind |-> kind, names |-> names, home |-> home, declares |-> h.xmlns,
              scope |-> Append(Scope, h.xmlns)]
  /\ level' = after.level /\ table' = after.table
  /\ unread' = TRUE
  /\ UNCHANGED <<collector, reader>>

CanWrite == ~ unread /\ (schema.mode = "global" => Rendered)
CanStart == CanWrite /\ count < MaxElements /\ Len(open) < MaxDepth /\ count' = count + 1
Members == IF open = <<>> THEN {} ELSE ToSet(Inner.members)

\* ns is the module of the names inside.
Push(ns, members, scoped, h, names, home) ==
  open' = Append(open, [ns |-> ns, members |-> members, scoped |-> scoped,
                        level |-> h.level, xmlns |-> h.xmlns, names |-> names, home |-> home])

\* The start tag of a value of complex type t; without content the scope ends at once.
StartTyped(tag, t, isRoot) ==
  LET scoped == NeedsScope(t)
      h == WriteAll(IF scoped THEN BeginScope(Helper) ELSE Helper, Bindings(tag, t, isRoot))
      names == {Bind(TagPrefix(tag), tag)} \cup AttributeNames(t)
  IN  IF schema.types[t].members = <<>>
        THEN /\ Write("empty", names, HomeTyped(tag, t), h, IF scoped THEN EndScope(h) ELSE h)
             /\ UNCHANGED open
        ELSE /\ Write("start", names, HomeTyped(tag, t), h, h)
             /\ Push(schema.types[t].ns, schema.types[t].members, scoped, h, names, HomeTyped(tag, t))

WriteRoot(t) ==
  /\ CanStart /\ open = <<>> /\ count = 0
  /\ root' = t
  /\ StartTyped(schema.types[t].ns, t, TRUE)

WriteTyped(m) ==
  /\ CanStart /\ m \in Members /\ m.type \in Types
  /\ StartTyped(m.tag, m.type, FALSE)
  /\ UNCHANGED root

\* ContentSerializer: the name was made by the type around it.
WriteSimple(m) ==
  /\ CanStart /\ m \in Members /\ m.type = Simple
  /\ LET names == {Bind(TagPrefix(m.tag), m.tag)}
     IN  /\ Write("start", names, HomeText(m.tag), Helper, Helper)
         /\ Push(m.tag, <<>>, FALSE, Helper, names, HomeText(m.tag))
  /\ UNCHANGED root

\* NillableSerializer: the entry belongs to the scope of the element around it.
WriteNil(m) ==
  /\ CanStart /\ m \in Members /\ m.nillable
  /\ LET h == WriteXmlns(Helper, Bind("xsi", Xsi))
     IN  Write("empty", {Bind(TagPrefix(m.tag), m.tag), Bind("xsi", Xsi)}, HomeText(m.tag), h, h)
  /\ UNCHANGED <<root, open>>

\* AnySimpleTypeSerializer: a scope begins, and nothing ends it.
WriteAnySimple(m) ==
  /\ CanStart /\ m \in Members /\ m.type = AnySimple
  /\ LET typed == AddQNameNamespace(BeginScope(Helper), Bind("xs", Xs))
         h == WriteXmlns(typed, Bind("xsi", Xsi))
         names == {Bind(TagPrefix(m.tag), m.tag), Bind("xsi", Xsi), Bind(Innermost(typed, Xs).prefix, Xs)}
     IN  /\ Write("start", names, HomeText(m.tag), h, h)
         /\ Push(m.tag, <<>>, FALSE, h, names, HomeText(m.tag))
  /\ UNCHANGED root

\* ElementSerializer: the name is as it was read, with all that was in scope there.
WriteAny(m, bindings, b, empty) ==
  /\ CanStart /\ m \in Members /\ m.type = AnyElement /\ b \in ToSet(bindings)
  /\ LET h == WriteAll(BeginScope(Helper), bindings)
     IN  IF empty
           THEN Write("empty", {b}, TRUE, h, EndScope(h)) /\ UNCHANGED open
           ELSE Write("start", {b}, TRUE, h, h) /\ Push(b.ns, <<m>>, TRUE, h, {b}, TRUE)
  /\ UNCHANGED root

\* Mutant: the scope of an element does not end with it.
WriteEndWithin ==
  /\ CanWrite /\ open # <<>>
  /\ wire' = [kind |-> "end", names |-> Inner.names, home |-> Inner.home, declares |-> <<>>, scope |-> Scope]
  /\ open' = Front(open)
  /\ unread' = TRUE
  /\ UNCHANGED <<collector, reader, count, root, level, table>>

WriteEnd ==
  /\ CanWrite /\ open # <<>>
  /\ LET h == IF Inner.scoped THEN EndScope(Helper) ELSE Helper
     IN  level' = h.level /\ table' = h.table
  /\ wire' = [kind |-> "end", names |-> Inner.names, home |-> Inner.home, declares |-> <<>>, scope |-> Scope]
  /\ open' = Front(open)
  /\ unread' = TRUE
  /\ UNCHANGED <<collector, reader, count, root>>

WriteMember ==
  \E m \in Members :
    \/ WriteTyped(m) \/ WriteSimple(m) \/ WriteNil(m) \/ WriteAnySimple(m)
    \/ \E bs \in Captured, empty \in BOOLEAN : \E b \in ToSet(bs) : WriteAny(m, bs, b, empty)

-----------------------------------------------------------------------------
(* DeserializeHelper.                                                      *)

\* The places of the xmlns attributes of elements inside each other, outermost first.
Places(scope) == UNION {{<<i, j>> : j \in DOMAIN scope[i]} : i \in DOMAIN scope}
At(scope, p) == scope[p[1]][p[2]]
Before(p, q) == p[1] < q[1] \/ (p[1] = q[1] /\ p[2] < q[2])

\* The bindings in scope: the innermost one of every prefix.
InScope(scope) ==
  {At(scope, p) : p \in {p \in Places(scope) :
     \A q \in Places(scope) : At(scope, q).prefix = At(scope, p).prefix => ~ Before(p, q)}}

\* Mutant: the cached namespaces outlive their element.
LeaveStale(r) ==
  IF ~ r.pending THEN r
  ELSE [r EXCEPT !.pending = FALSE, !.resolver = Front(@), !.level = @ - 1]

\* The scope of an element that ended is left with the event after its end.
Leave(r) ==
  IF ~ r.pending THEN r
  ELSE [r EXCEPT !.pending = FALSE, !.resolver = Front(@), !.level = @ - 1,
                 !.cached = PopOutdated(@, r.level - 1)]

Enter(r) ==
  [r EXCEPT !.level = @ + 1, !.resolver = Append(@, wire.declares),
            !.cached = IF wire.declares = <<>> THEN @
                       ELSE Append(@, [level |-> r.level + 1, value |-> {}, known |-> FALSE]),
            !.pending = (wire.kind = "empty")]

HandleEvent(r) ==
  IF wire.kind = "end" THEN [Leave(r) EXCEPT !.pending = TRUE] ELSE Enter(Leave(r))

Bound(r) == InScope(r.resolver)

\* namespaces(): what is in scope is collected once for each entry.
Namespaces(r) ==
  LET entry == Last(r.cached)
      value == IF entry.known THEN entry.value ELSE Bound(r)
  IN  [r EXCEPT !.cached = Append(Front(@), [entry EXCEPT !.known = TRUE, !.value = value]),
                !.asked = TRUE, !.answer = value]

Read(ask) ==
  /\ unread
  /\ LET r == [HandleEvent(reader) EXCEPT !.asked = FALSE, !.answer = {}]
     IN  reader' = IF ask THEN Namespaces(r) ELSE r
  /\ unread' = FALSE
  /\ UNCHANGED <<collector, writer>>

Written == count > 0 /\ open = <<>> /\ ~ unread /\ UNCHANGED scopeVars

ScopeNext ==
  \/ schema.mode = "global" /\ Collecting /\ UNCHANGED <<writer, unread, reader>>
  \/ \E t \in Types : WriteRoot(t)
  \/ WriteMember
  \/ WriteEnd
  \/ \E ask \in BOOLEAN : Read(ask)
  \/ Written

ScopeSpec == ScopeInit /\ [][ScopeNext]_scopeVars

-----------------------------------------------------------------------------
(* Properties.                                                             *)

\* AnySimpleTypeSerializer has begun a scope that nothing ends.
Drifted ==
  /\ level # Cardinality({i \in DOMAIN open : open[i].scoped})
  /\ \E t \in Types : \E m \in ToSet(schema.types[t].members) : m.type = AnySimple

Entries(e) == [i \in DOMAIN e.xmlns |-> [level |-> e.level, prefix |-> e.xmlns[i].prefix,
                                          ns |-> e.xmlns[i].ns]]
NotXsi == [level : Nat, prefix : STRING, ns : STRING \ {Xsi}]

\* The table says what is active at the place in the document: it holds the xmlns
\* attributes of the elements that are open, outermost first, and none of those that
\* were closed.  Only the namespace of xsi:nil stays with the element around, and a value
\* of xs:anySimpleType leaves its scope open.
TableIsInScope ==
  ~ Drifted =>
    Only(table, NotXsi) = Only(FlattenSeq([i \in DOMAIN open |-> Entries(open[i])]), NotXsi)

\* b is declared around the element, but its prefix was given to another namespace since,
\* which write_xmlns does not look for.
Rebound(b) ==
  \E p, q \in Places(wire.scope) :
    /\ Before(p, q) /\ At(wire.scope, p) = b
    /\ At(wire.scope, q).prefix = b.prefix /\ At(wire.scope, q).ns # b.ns

\* The entry of an xsi:nil that was written before in the element around is still there.
StrayXsi(b) == b.ns = Xsi /\ \A p \in Places(wire.scope) : At(wire.scope, p) # b

\* A qualified attribute in the namespace of its element, which is the default one: it has the
\* prefix of the module, and the module is declared without it.
OwnAttribute(b) ==
  /\ schema.mode = "local" /\ b.ns = schema.default /\ b = Bind(schema.prefix[b.ns], b.ns)
  /\ \A p \in Places(wire.scope) : At(wire.scope, p) # b

\* The namespaces of the root were cut off where types contain each other.
CutOff == schema.mode = "global" /\ \E u \in Contained(root) : Circular(u)

\* What was written is read again: every name in the document is bound to the namespace it
\* was written for, at whatever depth and after whatever elements before it.  The known
\* exceptions are names whose prefix was rebound further inside, elements whose type is of
\* another module, attributes of the default namespace, and what xsi:nil and
\* xs:anySimpleType leave in the table.
ReadAsWritten ==
  ~ unread =>
    \A b \in wire.names :
      \/ b \in InScope(wire.scope) \/ Rebound(b) \/ StrayXsi(b) \/ OwnAttribute(b)
      \/ ~ wire.home \/ Drifted \/ CutOff

\* namespaces() answers with what is in scope of the event that was read: at a start and
\* an end tag that of the element itself, and nothing of an element that was closed, although
\* the scope is left one event late and the answer is kept for the elements inside.
NamespacesInScope ==
  reader.asked /\ ~ unread => reader.answer = InScope(wire.scope)
=============================================================================
