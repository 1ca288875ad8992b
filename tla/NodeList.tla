------------------------------ MODULE NodeList ------------------------------
(***************************************************************************)
(* The order in which the interpreter generates types                      *)
(* (xsd-parser/src/pipeline/interpreter/state): the node cache collects the*)
(* dependencies of every declaration of a schema (crate_node_cache.rs), the*)
(* node list is a depth first walk over them (create_node_list.rs), and    *)
(* every type is built from bases that must be there before it             *)
(* (generate_types).                                                       *)
(*                                                                         *)
(* A declaration is abstracted to whether a type is generated for it (an   *)
(* element, an attribute, a simple or a complex type) or not (a group or   *)
(* an attribute group), and to the declarations it refers to, in document  *)
(* order: "strong" as its base or the head of its substitution group,      *)
(* "lazy" as a group it contains, "weak" in any other way, for example as  *)
(* the type of an element in its content.  Every reference is resolved, to *)
(* a declaration or to a type the owner or the language has given.         *)
(***************************************************************************)
EXTENDS Integers, Sequences

CONSTANTS
  Ident,    \* the type identifiers, numbered in their order
  Schemas,  \* the sequences of declarations the interpreter may be given
  Givens    \* the sets of types that may exist before

Kind == {"strong", "lazy", "weak"}
Decl == [ident : Ident, type : BOOLEAN, refs : Seq([kind : Kind, to : Ident])]

ASSUME IdentAssumption == Ident \subseteq Nat
ASSUME SchemaAssumption ==
  \A s \in Schemas :
    /\ s \in Seq(Decl)
    /\ \A i, j \in DOMAIN s : s[i].ident = s[j].ident => i = j
ASSUME GivenAssumption == \A g \in Givens : g \subseteq Ident

VARIABLES
  decls,      \* the declarations that are left
  cache,      \* node_cache: the dependencies of every declaration
  types,      \* the declarations a type is generated for
  keys,       \* the keys of the node cache that are left
  visited,    \* "visited" and "done" nodes
  stack,      \* the calls of visit_node: a node and the dependencies it is done with
  nodes,      \* the node list
  generated,  \* MetaTypes: the types that exist
  bases,      \* what the type of each declaration is built from
  count,      \* how many nodes of the list were processed
  phase

vars == <<decls, cache, types, keys, visited, stack, nodes, generated, bases, count, phase>>

Init ==
  /\ decls \in Schemas
  /\ generated \in Givens
  /\ cache = [x \in {} |-> 0] /\ bases = [x \in {} |-> {}]
  /\ types = {}
  /\ keys = <<>>
  /\ visited = [x \in {} |-> "done"]
  /\ stack = <<>> /\ nodes = <<>>
  /\ count = 0
  /\ phase = "cache"

-----------------------------------------------------------------------------
(* The node cache.                                                         *)

Targets(refs) == {refs[i].to : i \in DOMAIN refs}

\* add_dependency: the key is the name of the target, the last reference wins.
Dependencies(refs) ==
  [x \in Targets(refs) |->
     LET last == CHOOSE i \in DOMAIN refs :
                   refs[i].to = x /\ \A j \in DOMAIN refs : refs[j].to = x => j <= i
     IN  refs[last].kind]

Bases(refs) == {refs[i].to : i \in {i \in DOMAIN refs : refs[i].kind = "strong"}}

NewEntry ==
  /\ phase = "cache" /\ decls # <<>>
  /\ LET d == Head(decls)
     IN  /\ cache' = [x \in DOMAIN cache \cup {d.ident} |->
                        IF x = d.ident THEN Dependencies(d.refs) ELSE cache[x]]
         /\ bases' = [x \in DOMAIN bases \cup {d.ident} |->
                        IF x = d.ident THEN Bases(d.refs) ELSE bases[x]]
         /\ types' = IF d.type THEN types \cup {d.ident} ELSE types
         /\ keys' = Append(keys, d.ident)
  /\ decls' = Tail(decls)
  /\ UNCHANGED <<visited, stack, nodes, generated, count, phase>>

CacheDone ==
  /\ phase = "cache" /\ decls = <<>>
  /\ phase' = "list"
  /\ UNCHANGED <<decls, cache, types, keys, visited, stack, nodes, generated, bases, count>>

-----------------------------------------------------------------------------
(* The node list.                                                          *)

Is(x, s) == x \in DOMAIN visited /\ visited[x] = s
Marked(x, s) == [y \in DOMAIN visited \cup {x} |-> IF y = x THEN s ELSE visited[y]]

\* Mutant: groups are marked too.
EnterMarked(s, x, lazy) ==
  /\ stack' = Append(s, [ident |-> x, lazy |-> lazy, done |-> {}])
  /\ visited' = Marked(x, "visited")

\* A call of visit_node, above the calls in s, for a node that was not visited.
Enter(s, x, lazy) ==
  /\ stack' = Append(s, [ident |-> x, lazy |-> lazy, done |-> {}])
  /\ visited' = IF lazy THEN visited ELSE Marked(x, "visited")

\* Mutant: a key that was visited before stays.
NextKeyPeek ==
  /\ phase = "list" /\ stack = <<>> /\ keys # <<>>
  /\ IF Is(Head(keys), "done")
     THEN UNCHANGED <<keys, stack, visited>>
     ELSE keys' = Tail(keys) /\ Enter(stack, Head(keys), FALSE)
  /\ UNCHANGED <<decls, cache, types, nodes, generated, bases, count, phase>>

NextKey ==
  /\ phase = "list" /\ stack = <<>> /\ keys # <<>>
  /\ keys' = Tail(keys)
  /\ IF Is(Head(keys), "done") THEN UNCHANGED <<stack, visited>> ELSE Enter(stack, Head(keys), FALSE)
  /\ UNCHANGED <<decls, cache, types, nodes, generated, bases, count, phase>>

Top == stack[Len(stack)]
Walking == phase = "list" /\ stack # <<>>
DependenciesOf(x) == IF x \in DOMAIN cache THEN DOMAIN cache[x] ELSE {}
Left == DependenciesOf(Top.ident) \ Top.done

\* The dependencies of the top are visited in their order.
Turn(y) == y \in Left /\ \A z \in Left : y <= z
DoneWith(y) == [stack EXCEPT ![Len(stack)].done = @ \cup {y}]

Skip(y) ==
  /\ Walking /\ Turn(y)
  /\ cache[Top.ident][y] = "weak" \/ Is(y, "done")
  /\ stack' = DoneWith(y)
  /\ UNCHANGED <<decls, cache, types, keys, visited, nodes, generated, bases, count, phase>>

Descend(y) ==
  /\ Walking /\ Turn(y)
  /\ cache[Top.ident][y] # "weak" /\ y \notin DOMAIN visited
  /\ Enter(DoneWith(y), y, cache[Top.ident][y] = "lazy")
  /\ UNCHANGED <<decls, cache, types, keys, nodes, generated, bases, count, phase>>

\* Mutant: a node that is on the stack is passed over.
CircularIgnored(y) ==
  /\ Walking /\ Turn(y)
  /\ cache[Top.ident][y] # "weak" /\ Is(y, "visited")
  /\ stack' = DoneWith(y)
  /\ UNCHANGED <<decls, cache, types, keys, visited, nodes, generated, bases, count, phase>>

Circular(y) ==
  /\ Walking /\ Turn(y)
  /\ cache[Top.ident][y] # "weak" /\ Is(y, "visited")
  /\ phase' = "circular"
  /\ UNCHANGED <<decls, cache, types, keys, visited, stack, nodes, generated, bases, count>>

\* Mutant: only nodes on the stack are marked.
LeaveUnmarked ==
  /\ Walking /\ Left = {}
  /\ stack' = SubSeq(stack, 1, Len(stack) - 1)
  /\ visited' = [y \in DOMAIN visited \ {Top.ident} |-> visited[y]]
  /\ nodes' = IF ~ Top.lazy /\ Top.ident \in types THEN Append(nodes, Top.ident) ELSE nodes
  /\ UNCHANGED <<decls, cache, types, keys, generated, bases, count, phase>>

\* Mutant: the list is built from its end.
LeaveFirst ==
  /\ Walking /\ Left = {}
  /\ stack' = SubSeq(stack, 1, Len(stack) - 1)
  /\ visited' = IF Top.lazy THEN visited ELSE Marked(Top.ident, "done")
  /\ nodes' = IF ~ Top.lazy /\ Top.ident \in types THEN <<Top.ident>> \o nodes ELSE nodes
  /\ UNCHANGED <<decls, cache, types, keys, generated, bases, count, phase>>

Leave ==
  /\ Walking /\ Left = {}
  /\ stack' = SubSeq(stack, 1, Len(stack) - 1)
  /\ visited' = IF Top.lazy THEN visited ELSE Marked(Top.ident, "done")
  /\ nodes' = IF ~ Top.lazy /\ Top.ident \in types THEN Append(nodes, Top.ident) ELSE nodes
  /\ UNCHANGED <<decls, cache, types, keys, generated, bases, count, phase>>

ListDone ==
  /\ phase = "list" /\ stack = <<>> /\ keys = <<>>
  /\ phase' = "generate"
  /\ UNCHANGED <<decls, cache, types, keys, visited, stack, nodes, generated, bases, count>>

-----------------------------------------------------------------------------
(* The types.                                                              *)

Current == nodes[count + 1]

\* create_type: a type that exists, because its owner has given it, is left as it is.
Available == Current \in generated \/ bases[Current] \subseteq generated

GenerateNode ==
  /\ phase = "generate" /\ count < Len(nodes)
  /\ Available
  /\ generated' = generated \cup {Current}
  /\ count' = count + 1
  /\ UNCHANGED <<decls, cache, types, keys, visited, stack, nodes, bases, phase>>

\* get_type: "Unable to get type".
Panic ==
  /\ phase = "generate" /\ count < Len(nodes)
  /\ ~ Available
  /\ phase' = "panic"
  /\ UNCHANGED <<decls, cache, types, keys, visited, stack, nodes, generated, bases, count>>

Finish ==
  /\ phase = "generate" /\ count = Len(nodes)
  /\ phase' = "finished"
  /\ UNCHANGED <<decls, cache, types, keys, visited, stack, nodes, generated, bases, count>>

Terminated == phase \in {"circular", "panic", "finished"} /\ UNCHANGED vars

Walk == NextKey \/ (\E y \in Ident : Skip(y) \/ Descend(y) \/ Circular(y)) \/ Leave \/ ListDone
Work == NewEntry \/ CacheDone \/ Walk \/ GenerateNode \/ Panic \/ Finish
Next == Work \/ Terminated

\* The interpreter is one call.
Spec == Init /\ [][Next]_vars /\ WF_vars(Work)

-----------------------------------------------------------------------------
(* Properties.                                                             *)

Dependence(x, y, kinds) == x \in DOMAIN cache /\ y \in DOMAIN cache[x] /\ cache[x][y] \in kinds

Frame == [ident : Ident, lazy : BOOLEAN, done : SUBSET Ident]

TypeOK ==
  /\ decls \in Seq(Decl)
  /\ DOMAIN cache \subseteq Ident
  /\ \A x \in DOMAIN cache :
       /\ DOMAIN cache[x] \subseteq Ident
       /\ \A y \in DOMAIN cache[x] : cache[x][y] \in Kind
  /\ DOMAIN bases = DOMAIN cache /\ \A x \in DOMAIN bases : bases[x] \subseteq DOMAIN cache[x]
  /\ types \subseteq DOMAIN cache
  /\ keys \in Seq(Ident) /\ nodes \in Seq(Ident) /\ stack \in Seq(Frame)
  /\ DOMAIN visited \subseteq Ident
  /\ \A x \in DOMAIN visited : visited[x] \in {"visited", "done"}
  /\ generated \subseteq Ident
  /\ count \in 0 .. Len(nodes)
  /\ phase \in {"cache", "list", "generate", "circular", "panic", "finished"}

\* "ensuring that any type is listed after all of its strong dependencies have
\* been listed", whatever the order of the declarations and of their names.
StrongFirst ==
  \A i \in DOMAIN nodes : \A y \in types :
    Dependence(nodes[i], y, {"strong"}) => \E j \in 1 .. i - 1 : nodes[j] = y

\* Every type is listed, and none twice, although groups are visited again and again.
ListedOnce ==
  /\ \A i, j \in DOMAIN nodes : nodes[i] = nodes[j] => i = j
  /\ phase \in {"generate", "panic", "finished"} => {nodes[i] : i \in DOMAIN nodes} = types

\* A circular dependency is reported only if there is one.
CircularIsReal ==
  phase = "circular" =>
    \E S \in SUBSET DOMAIN cache :
      S # {} /\ \A x \in S : \E y \in S : Dependence(x, y, {"strong", "lazy"})

\* When a base is missing, the reference that makes it a base is not the last one
\* to its name: no other schema fails here.
OnlyLostBasesMissing ==
  phase = "panic" => \E y \in bases[Current] \ generated : ~ Dependence(Current, y, {"strong"})

\* "Hard dependencies should be available here": when a type is built, its bases
\* and the heads of its substitution group exist.
HardDependenciesAvailable == phase # "panic"

\* The walk ends, with a list or with an error, if groups do not contain each other.
Returns == <>(phase \in {"circular", "panic", "finished"})
=============================================================================
