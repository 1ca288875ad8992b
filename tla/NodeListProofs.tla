--------------------------- MODULE NodeListProofs ---------------------------
(***************************************************************************)
(* Proofs about the NodeList for every sequence of declarations, with      *)
(* groups that may contain each other and types that may be based on each  *)
(* other in any way.  The order of the list is proved for every schema;    *)
(* that no base is missing when its type is built, for schemas in which no *)
(* type mentions its base again after it has named it.                     *)
(***************************************************************************)
EXTENDS NodeList, TLAPS, WellFoundedInduction

-----------------------------------------------------------------------------
(* References.                                                             *)

Ref == [kind : Kind, to : Ident]

\* A set of numbers that is not empty has a least one.
LEMMA LeastNumber ==
  ASSUME NEW T \in SUBSET Nat, T # {}
  PROVE  \E x \in T : \A y \in T : x <= y
<1>1. IsWellFoundedOn({p \in Nat \X Nat : p[1] < p[2]}, Nat)
  BY NatLessThanWellFounded DEF OpToRel
<1>2. \E x \in T : \A y \in T : ~ (<<y, x>> \in {p \in Nat \X Nat : p[1] < p[2]})
  BY <1>1, WFMin
<1>3. \E x \in T : \A y \in T : ~ (y < x)
  BY <1>2
<1> QED
  BY <1>3

\* Of the references to one declaration one is the last.
LEMMA LastReference ==
  ASSUME NEW refs \in Seq(Ref), NEW x \in Targets(refs)
  PROVE  \E i \in DOMAIN refs :
           refs[i].to = x /\ \A j \in DOMAIN refs : refs[j].to = x => j <= i
<1> DEFINE T == {Len(refs) - i : i \in {i \in DOMAIN refs : refs[i].to = x}}
<1>1. Len(refs) \in Nat /\ DOMAIN refs = 1 .. Len(refs)
  OBVIOUS
<1>2. T \in SUBSET Nat /\ T # {}
  BY <1>1 DEF Targets
<1>3. PICK n \in T : \A m \in T : n <= m
  BY <1>2, LeastNumber
<1>4. PICK i \in DOMAIN refs : refs[i].to = x /\ n = Len(refs) - i
  OBVIOUS
<1>5. \A j \in DOMAIN refs : refs[j].to = x => n <= Len(refs) - j
  BY <1>3
<1>6. \A j \in DOMAIN refs : refs[j].to = x => j <= i
  BY <1>1, <1>4, <1>5
<1> QED
  BY <1>4, <1>6

\* The dependency on a declaration is one of the references to it, the last one.
LEMMA DependencyKinds ==
  ASSUME NEW refs \in Seq(Ref)
  PROVE  /\ DOMAIN Dependencies(refs) = Targets(refs)
         /\ Targets(refs) \subseteq Ident
         /\ Bases(refs) \subseteq Targets(refs)
         /\ \A x \in Targets(refs) :
              /\ Dependencies(refs)[x] \in Kind
              /\ \E i \in DOMAIN refs :
                   /\ refs[i].to = x /\ refs[i].kind = Dependencies(refs)[x]
                   /\ \A j \in DOMAIN refs : refs[j].to = x => j <= i
<1>1. \A i \in DOMAIN refs : refs[i].kind \in Kind /\ refs[i].to \in Ident
  <2>1. \A i \in DOMAIN refs : refs[i] \in Ref
    OBVIOUS
  <2> QED
    BY <2>1 DEF Ref
<1>2. Targets(refs) \subseteq Ident /\ Bases(refs) \subseteq Targets(refs)
  BY <1>1 DEF Targets, Bases
<1> DEFINE last(x) == CHOOSE i \in DOMAIN refs :
                        refs[i].to = x /\ \A j \in DOMAIN refs : refs[j].to = x => j <= i
<1>3. Dependencies(refs) = [x \in Targets(refs) |-> refs[last(x)].kind]
  BY DEF Dependencies
<1>4. ASSUME NEW x \in Targets(refs)
      PROVE  /\ last(x) \in DOMAIN refs /\ refs[last(x)].to = x
             /\ \A j \in DOMAIN refs : refs[j].to = x => j <= last(x)
  BY LastReference
<1> HIDE DEF last
<1>5. ASSUME NEW x \in Targets(refs)
      PROVE  /\ Dependencies(refs)[x] \in Kind
             /\ \E i \in DOMAIN refs :
                  /\ refs[i].to = x /\ refs[i].kind = Dependencies(refs)[x]
                  /\ \A j \in DOMAIN refs : refs[j].to = x => j <= i
  <2>1. Dependencies(refs)[x] = refs[last(x)].kind
    BY <1>3
  <2>2. last(x) \in DOMAIN refs
    BY <1>4
  <2>3. refs[last(x)].kind \in Kind
    BY <1>1, <2>2
  <2> QED
    BY <1>4, <2>1, <2>2, <2>3
<1> QED
  BY <1>2, <1>3, <1>5

-----------------------------------------------------------------------------
(* The stack of calls.                                                     *)

\* The top of a stack is one of its frames.
LEMMA TopTyped ==
  ASSUME TypeOK, stack # <<>>
  PROVE  /\ Len(stack) \in Nat \ {0} /\ DOMAIN stack = 1 .. Len(stack) /\ Len(stack) \in DOMAIN stack
         /\ \A k \in DOMAIN stack : stack[k] \in Frame
         /\ Top \in Frame /\ Top.ident \in Ident /\ Top.lazy \in BOOLEAN /\ Top.done \subseteq Ident
         /\ DependenciesOf(Top.ident) \subseteq Ident
<1>1. stack \in Seq(Frame) /\ Len(stack) \in Nat /\ DOMAIN stack = 1 .. Len(stack)
  BY DEF TypeOK
<1>2. Len(stack) # 0
  BY <1>1
<1>3. \A k \in DOMAIN stack : stack[k] \in Frame
  BY <1>1
<1>4. Len(stack) \in DOMAIN stack
  BY <1>1, <1>2
<1>5. Top \in Frame
  BY <1>3, <1>4 DEF Top
<1>6. Top.ident \in Ident /\ Top.lazy \in BOOLEAN /\ Top.done \subseteq Ident
  BY <1>5 DEF Frame
<1>7. DependenciesOf(Top.ident) \subseteq Ident
  BY DEF DependenciesOf, TypeOK
<1> QED
  BY <1>1, <1>2, <1>3, <1>4, <1>5, <1>6, <1>7

\* When a dependency is done with, only the top of the stack changes, and only
\* what it is done with.
LEMMA DoneWithTop ==
  ASSUME TypeOK, stack # <<>>, NEW y \in Ident
  PROVE  /\ DoneWith(y) \in Seq(Frame) /\ Len(DoneWith(y)) = Len(stack)
         /\ DOMAIN DoneWith(y) = DOMAIN stack
         /\ \A k \in DOMAIN stack :
              /\ DoneWith(y)[k].ident = stack[k].ident
              /\ DoneWith(y)[k].lazy = stack[k].lazy
              /\ DoneWith(y)[k].done = IF k = Len(stack) THEN stack[k].done \cup {y} ELSE stack[k].done
<1>1. /\ stack \in Seq(Frame)
      /\ Len(stack) \in Nat \ {0} /\ DOMAIN stack = 1 .. Len(stack) /\ Len(stack) \in DOMAIN stack
      /\ \A k \in DOMAIN stack : stack[k] \in Frame
  BY TopTyped DEF TypeOK
<1>2. PICK f : f = [stack[Len(stack)] EXCEPT !.done = @ \cup {y}]
  OBVIOUS
<1>3. DoneWith(y) = [stack EXCEPT ![Len(stack)] = f]
  BY <1>2 DEF DoneWith
<1>4. /\ f \in Frame /\ f.ident = stack[Len(stack)].ident /\ f.lazy = stack[Len(stack)].lazy
      /\ f.done = stack[Len(stack)].done \cup {y}
  <2>1. stack[Len(stack)] \in Frame
    BY <1>1
  <2> QED
    BY <1>2, <2>1 DEF Frame
<1>5. DoneWith(y) \in Seq(Frame) /\ Len(DoneWith(y)) = Len(stack) /\ DOMAIN DoneWith(y) = DOMAIN stack
  BY <1>1, <1>3, <1>4
<1>6. \A k \in DOMAIN stack : DoneWith(y)[k] = IF k = Len(stack) THEN f ELSE stack[k]
  BY <1>1, <1>3
<1> QED
  BY <1>4, <1>5, <1>6

\* A new call is above the others.
LEMMA EnterTyped ==
  ASSUME TypeOK, NEW s \in Seq(Frame), NEW x \in Ident, NEW lazy \in BOOLEAN, Enter(s, x, lazy)
  PROVE  /\ stack' \in Seq(Frame) /\ Len(stack') = Len(s) + 1 /\ DOMAIN stack' = 1 .. Len(s) + 1
         /\ DOMAIN s = 1 .. Len(s) /\ Len(s) \in Nat
         /\ \A k \in DOMAIN s : stack'[k] = s[k]
         /\ stack'[Len(s) + 1].ident = x /\ stack'[Len(s) + 1].lazy = lazy
         /\ stack'[Len(s) + 1].done = {}
         /\ DOMAIN visited' \subseteq Ident
         /\ \A z \in DOMAIN visited' : visited'[z] \in {"visited", "done"}
<1> DEFINE f == [ident |-> x, lazy |-> lazy, done |-> {}]
<1>1. f \in Frame /\ f.ident = x /\ f.lazy = lazy /\ f.done = {}
  BY DEF Frame
<1>2. stack' = Append(s, f)
  BY DEF Enter
<1> HIDE DEF f
<1>3. /\ stack' \in Seq(Frame) /\ Len(stack') = Len(s) + 1 /\ DOMAIN stack' = 1 .. Len(s) + 1
      /\ DOMAIN s = 1 .. Len(s) /\ Len(s) \in Nat
      /\ \A k \in DOMAIN s : stack'[k] = s[k]
      /\ stack'[Len(s) + 1] = f
  BY <1>1, <1>2
<1>4. DOMAIN visited' \subseteq Ident /\ \A z \in DOMAIN visited' : visited'[z] \in {"visited", "done"}
  BY DEF Enter, Marked, TypeOK
<1> QED
  BY <1>1, <1>3, <1>4

\* Without its top a stack has the other frames.
LEMMA LeaveTyped ==
  ASSUME TypeOK, stack # <<>>, stack' = SubSeq(stack, 1, Len(stack) - 1)
  PROVE  /\ stack' \in Seq(Frame) /\ Len(stack') = Len(stack) - 1 /\ DOMAIN stack' = 1 .. Len(stack) - 1
         /\ \A k \in DOMAIN stack' : k \in DOMAIN stack /\ stack'[k] = stack[k]
<1>1. stack \in Seq(Frame) /\ Len(stack) \in Nat \ {0} /\ DOMAIN stack = 1 .. Len(stack)
  BY TopTyped DEF TypeOK
<1> QED
  BY <1>1

\* The first declaration, and those after it.
LEMMA FirstDecl ==
  ASSUME NEW s \in Seq(Decl), s # <<>>
  PROVE  /\ Head(s) \in Decl /\ Tail(s) \in Seq(Decl) /\ Head(s) = s[1] /\ 1 \in DOMAIN s
         /\ Head(s).ident \in Ident /\ Head(s).type \in BOOLEAN /\ Head(s).refs \in Seq(Ref)
         /\ \A i \in DOMAIN s : i = 1 \/ (i - 1 \in DOMAIN Tail(s) /\ Tail(s)[i - 1] = s[i])
         /\ \A i \in DOMAIN Tail(s) : i + 1 \in DOMAIN s /\ Tail(s)[i] = s[i + 1]
<1>1. /\ Head(s) \in Decl /\ Tail(s) \in Seq(Decl) /\ Head(s) = s[1] /\ 1 \in DOMAIN s
      /\ DOMAIN s = 1 .. Len(s) /\ Len(s) \in Nat /\ DOMAIN Tail(s) = 1 .. Len(s) - 1
      /\ \A i \in 1 .. Len(s) - 1 : Tail(s)[i] = s[i + 1]
  OBVIOUS
<1>3. \A i \in DOMAIN s : i # 1 => i - 1 \in DOMAIN Tail(s) /\ Tail(s)[i - 1] = s[i]
  <2>1. TAKE i \in DOMAIN s
  <2>2. HAVE i # 1
  <2>3. i - 1 \in 1 .. Len(s) - 1 /\ (i - 1) + 1 = i
    BY <1>1, <2>2
  <2> QED
    BY <1>1, <2>3
<1>4. \A i \in DOMAIN Tail(s) : i + 1 \in DOMAIN s /\ Tail(s)[i] = s[i + 1]
  BY <1>1
<1>2. Head(s).ident \in Ident /\ Head(s).type \in BOOLEAN /\ Head(s).refs \in Seq(Ref)
  BY <1>1 DEF Decl, Ref
<1>5. \A i \in DOMAIN s : i = 1 \/ (i - 1 \in DOMAIN Tail(s) /\ Tail(s)[i - 1] = s[i])
  BY <1>3, Zenon
<1> QED
  BY <1>1, <1>2, <1>4, <1>5, Zenon

-----------------------------------------------------------------------------
(* Types.                                                                  *)

LEMMA TypeInit == Init => TypeOK
<1> SUFFICES ASSUME Init PROVE TypeOK
  OBVIOUS
<1>1. decls \in Seq(Decl) /\ generated \subseteq Ident
  BY SchemaAssumption, GivenAssumption DEF Init
<1>2. keys \in Seq(Ident) /\ nodes \in Seq(Ident) /\ stack \in Seq(Frame) /\ Len(nodes) = 0
  BY DEF Init
<1> QED
  BY <1>1, <1>2 DEF Init, TypeOK

LEMMA TypeStep == TypeOK /\ [Next]_vars => TypeOK'
<1> SUFFICES ASSUME TypeOK, [Next]_vars PROVE TypeOK'
  OBVIOUS
<1>0. Len(nodes) \in Nat
  BY DEF TypeOK
<1>1. CASE NewEntry
  <2>1. decls \in Seq(Decl) /\ decls # <<>>
    BY <1>1 DEF NewEntry, TypeOK
  <2>2. PICK d : d = Head(decls)
    OBVIOUS
  <2>3. decls' \in Seq(Decl) /\ d.ident \in Ident /\ d.refs \in Seq(Ref)
    BY <1>1, <2>1, <2>2, FirstDecl DEF NewEntry
  <2>4. /\ cache' = [x \in DOMAIN cache \cup {d.ident} |->
                       IF x = d.ident THEN Dependencies(d.refs) ELSE cache[x]]
        /\ bases' = [x \in DOMAIN bases \cup {d.ident} |->
                       IF x = d.ident THEN Bases(d.refs) ELSE bases[x]]
        /\ types' = (IF d.type THEN types \cup {d.ident} ELSE types)
        /\ keys' = Append(keys, d.ident)
    BY <1>1, <2>2 DEF NewEntry
  <2>5. keys' \in Seq(Ident)
    BY <2>3, <2>4 DEF TypeOK
  <2>6. PICK deps : deps = Dependencies(d.refs)
    OBVIOUS
  <2>7. PICK base : base = Bases(d.refs)
    OBVIOUS
  <2>8. DOMAIN deps \subseteq Ident /\ base \subseteq DOMAIN deps /\ \A y \in DOMAIN deps : deps[y] \in Kind
    BY <2>3, <2>6, <2>7, DependencyKinds
  <2>9. /\ DOMAIN cache' \subseteq Ident
        /\ \A x \in DOMAIN cache' :
             /\ DOMAIN cache'[x] \subseteq Ident
             /\ \A y \in DOMAIN cache'[x] : cache'[x][y] \in Kind
        /\ DOMAIN bases' = DOMAIN cache' /\ \A x \in DOMAIN bases' : bases'[x] \subseteq DOMAIN cache'[x]
        /\ types' \subseteq DOMAIN cache'
    BY <2>3, <2>4, <2>6, <2>7, <2>8 DEF TypeOK
  <2> QED
    BY <1>1, <2>3, <2>5, <2>9 DEF NewEntry, TypeOK
<1>2. CASE CacheDone
  BY <1>2 DEF CacheDone, TypeOK
<1>3. CASE NextKey
  <2>1. Head(keys) \in Ident /\ Tail(keys) \in Seq(Ident) /\ stack \in Seq(Frame)
    BY <1>3 DEF NextKey, TypeOK
  <2>2. CASE Is(Head(keys), "done")
    BY <1>3, <2>1, <2>2 DEF NextKey, TypeOK
  <2>3. CASE ~ Is(Head(keys), "done")
    <3>1. Enter(stack, Head(keys), FALSE)
      BY <1>3, <2>3 DEF NextKey
    <3>2. PICK x : x = Head(keys)
      OBVIOUS
    <3>3. /\ stack' \in Seq(Frame) /\ DOMAIN visited' \subseteq Ident
          /\ \A z \in DOMAIN visited' : visited'[z] \in {"visited", "done"}
      BY <2>1, <3>1, <3>2, EnterTyped
    <3> QED
      BY <1>3, <2>1, <3>3 DEF NextKey, TypeOK
  <2> QED
    BY <2>2, <2>3
<1>4. ASSUME NEW y \in Ident, Skip(y) PROVE TypeOK'
  BY <1>4, DoneWithTop DEF Skip, Walking, TypeOK
<1>5. ASSUME NEW y \in Ident, Descend(y) PROVE TypeOK'
  <2>1. PICK s : s = DoneWith(y)
    OBVIOUS
  <2>2. PICK lazy \in BOOLEAN : lazy = (cache[Top.ident][y] = "lazy")
    OBVIOUS
  <2>3. s \in Seq(Frame)
    BY <1>5, <2>1, DoneWithTop DEF Descend, Walking
  <2>4. Enter(s, y, lazy)
    BY <1>5, <2>1, <2>2 DEF Descend
  <2>5. /\ stack' \in Seq(Frame) /\ DOMAIN visited' \subseteq Ident
        /\ \A z \in DOMAIN visited' : visited'[z] \in {"visited", "done"}
    BY <2>3, <2>4, EnterTyped
  <2> QED
    BY <1>5, <2>5 DEF Descend, TypeOK
<1>6. ASSUME NEW y \in Ident, Circular(y) PROVE TypeOK'
  BY <1>6 DEF Circular, TypeOK
<1>7. CASE Leave
  <2>1. stack' \in Seq(Frame) /\ Top.ident \in Ident
    BY <1>7, TopTyped, LeaveTyped DEF Leave, Walking
  <2>2. DOMAIN visited' \subseteq Ident /\ \A z \in DOMAIN visited' : visited'[z] \in {"visited", "done"}
    BY <1>7, <2>1 DEF Leave, Marked, TypeOK
  <2>3. nodes' \in Seq(Ident) /\ Len(nodes') \in Nat /\ Len(nodes') >= Len(nodes)
    <3>1. nodes \in Seq(Ident) /\ (nodes' = nodes \/ nodes' = Append(nodes, Top.ident))
      BY <1>7 DEF Leave, TypeOK
    <3> QED
      BY <2>1, <3>1
  <2>4. count' \in 0 .. Len(nodes')
    BY <1>0, <1>7, <2>3 DEF Leave, TypeOK
  <2> QED
    BY <1>7, <2>1, <2>2, <2>3, <2>4 DEF Leave, TypeOK
<1>8. CASE ListDone
  BY <1>8 DEF ListDone, TypeOK
<1>9. CASE GenerateNode
  <2>1. count + 1 \in 1 .. Len(nodes)
    BY <1>0, <1>9 DEF GenerateNode, TypeOK
  <2>2. Current \in Ident
    BY <2>1 DEF Current, TypeOK
  <2> QED
    BY <1>0, <1>9, <2>1, <2>2 DEF GenerateNode, TypeOK
<1>10. CASE Panic
  BY <1>10 DEF Panic, TypeOK
<1>11. CASE Finish
  BY <1>11 DEF Finish, TypeOK
<1>12. CASE UNCHANGED vars
  BY <1>12 DEF vars, TypeOK
<1> QED
  BY <1>1, <1>2, <1>3, <1>4, <1>5, <1>6, <1>7, <1>8, <1>9, <1>10, <1>11, <1>12
  DEF Next, Work, Walk, Terminated

-----------------------------------------------------------------------------
(* The walk.  A node that is "visited" is a call on the stack that is not  *)
(* lazy, each call is for a dependency of the one below it, and what a     *)
(* call is done with is "done", or is the call above it.                   *)

Called(k, x) == ~ stack[k].lazy /\ stack[k].ident = x
CallsVisited == \A k \in DOMAIN stack : ~ stack[k].lazy => Is(stack[k].ident, "visited")
CallsDiffer == \A k, l \in DOMAIN stack : ~ stack[l].lazy /\ Called(k, stack[l].ident) => k = l
VisitedCalled == \A x \in DOMAIN visited : visited[x] = "visited" => \E k \in DOMAIN stack : Called(k, x)
CallsDepend ==
  \A k \in DOMAIN stack :
    k + 1 \in DOMAIN stack => Dependence(stack[k].ident, stack[k + 1].ident, {"strong", "lazy"})
CallsDone ==
  \A k \in DOMAIN stack : \A z \in stack[k].done :
    Dependence(stack[k].ident, z, {"strong"}) =>
      \/ Is(z, "done")
      \/ k + 1 \in DOMAIN stack /\ Called(k + 1, z)

\* Nothing is visited before all entries are there.
Unvisited == phase = "cache" => stack = <<>> /\ nodes = <<>> /\ DOMAIN visited = {}

\* The list holds the types that are done, each of them once.
ListedDone == \A x \in Ident : (\E i \in DOMAIN nodes : nodes[i] = x) <=> (x \in types /\ Is(x, "done"))
NoRepeats == \A i, j \in DOMAIN nodes : nodes[i] = nodes[j] => i = j

\* A type that is not done is a key that is left, or is on the stack.
Awaited ==
  /\ \A x \in types : \/ \E i \in DOMAIN keys : keys[i] = x
                      \/ Is(x, "done")
                      \/ \E k \in DOMAIN stack : Called(k, x)
  /\ phase \in {"generate", "panic", "finished"} => keys = <<>> /\ stack = <<>>

WalkInv ==
  /\ CallsVisited /\ CallsDiffer /\ VisitedCalled /\ CallsDepend /\ CallsDone
  /\ Unvisited /\ ListedDone /\ NoRepeats /\ Awaited
  /\ StrongFirst /\ CircularIsReal

LEMMA WalkInit == Init => WalkInv
<1> SUFFICES ASSUME Init PROVE WalkInv
  OBVIOUS
<1>1. stack = <<>> /\ nodes = <<>> /\ DOMAIN stack = {} /\ DOMAIN nodes = {} /\ DOMAIN visited = {}
      /\ types = {} /\ phase = "cache"
  BY DEF Init
<1> QED
  BY <1>1 DEF WalkInv, CallsVisited, CallsDiffer, VisitedCalled, CallsDepend, CallsDone, Unvisited,
              ListedDone, NoRepeats, Awaited, StrongFirst, CircularIsReal, Is

\* A step that leaves cache, list and stack alone leaves the walk alone.
LEMMA QuietStep ==
  ASSUME TypeOK, WalkInv, UNCHANGED <<cache, types, keys, visited, stack, nodes>>,
         phase' = "cache" => phase = "cache",
         phase' \in {"generate", "panic", "finished"} => keys = <<>> /\ stack = <<>>,
         CircularIsReal'
  PROVE  WalkInv'
<1>1. \A x, s : Is(x, s)' <=> Is(x, s)
  BY DEF Is
<1>2. \A k, x : Called(k, x)' <=> Called(k, x)
  BY DEF Called
<1>3. \A x, y, kinds : Dependence(x, y, kinds)' <=> Dependence(x, y, kinds)
  BY DEF Dependence
<1>4. CallsVisited' /\ CallsDiffer' /\ VisitedCalled'
  BY <1>1, <1>2 DEF WalkInv, CallsVisited, CallsDiffer, VisitedCalled
<1>5. CallsDepend' /\ CallsDone'
  BY <1>1, <1>2, <1>3 DEF WalkInv, CallsDepend, CallsDone
<1>6. Unvisited' /\ ListedDone' /\ NoRepeats' /\ Awaited'
  BY <1>1, <1>2 DEF WalkInv, Unvisited, ListedDone, NoRepeats, Awaited
<1>7. StrongFirst'
  BY <1>3 DEF WalkInv, StrongFirst
<1> QED
  BY <1>4, <1>5, <1>6, <1>7 DEF WalkInv

LEMMA NewEntryStep == TypeOK /\ WalkInv /\ NewEntry => WalkInv'
<1> SUFFICES ASSUME TypeOK, WalkInv, NewEntry PROVE WalkInv'
  OBVIOUS
<1>1. stack' = <<>> /\ nodes' = <<>> /\ DOMAIN visited' = {} /\ phase' = "cache"
  BY DEF NewEntry, WalkInv, Unvisited
<1>2. DOMAIN stack' = {} /\ DOMAIN nodes' = {}
  BY <1>1
<1>3. Awaited'
  <2>1. PICK d : d = Head(decls)
    OBVIOUS
  <2>2. types' \subseteq types \cup {d.ident} /\ keys' = Append(keys, d.ident)
    BY <2>1 DEF NewEntry
  <2>3. /\ DOMAIN keys = 1 .. Len(keys) /\ Len(keys) \in Nat /\ DOMAIN keys' = 1 .. Len(keys) + 1
        /\ \A i \in DOMAIN keys : keys'[i] = keys[i]
        /\ keys'[Len(keys) + 1] = d.ident
    <3>1. keys \in Seq(Ident) /\ d.ident \in Ident
      BY <2>1, FirstDecl DEF TypeOK, NewEntry
    <3> QED
      BY <2>2, <3>1
  <2>4. ASSUME NEW x \in types' PROVE \E i \in DOMAIN keys' : keys'[i] = x
    <3>1. CASE x = d.ident
      BY <2>3, <3>1
    <3>2. CASE x \in types
      <4>1. \A k : k \notin DOMAIN stack
        BY <1>1 DEF NewEntry
      <4>2. ~ Is(x, "done")
        BY <1>1 DEF NewEntry, Is
      <4>3. PICK i \in DOMAIN keys : keys[i] = x
        BY <3>2, <4>1, <4>2 DEF WalkInv, Awaited
      <4> QED
        BY <2>3, <4>3
    <3> QED
      BY <2>2, <3>1, <3>2
  <2> QED
    BY <1>1, <2>4 DEF Awaited
<1> QED
  BY <1>1, <1>2, <1>3 DEF WalkInv, CallsVisited, CallsDiffer, VisitedCalled, CallsDepend, CallsDone,
              Unvisited, ListedDone, NoRepeats, StrongFirst, CircularIsReal, Is

\* The first of the keys, and those after it.
LEMMA FirstKey ==
  ASSUME NEW q \in Seq(Ident), q # <<>>, NEW i \in DOMAIN q
  PROVE  q[i] = Head(q) \/ \E j \in DOMAIN Tail(q) : Tail(q)[j] = q[i]
<1>1. /\ Head(q) = q[1] /\ DOMAIN q = 1 .. Len(q) /\ Len(q) \in Nat /\ DOMAIN Tail(q) = 1 .. Len(q) - 1
      /\ \A j \in 1 .. Len(q) - 1 : Tail(q)[j] = q[j + 1]
  OBVIOUS
<1>2. CASE i = 1
  BY <1>1, <1>2
<1>3. CASE i # 1
  <2>1. i - 1 \in 1 .. Len(q) - 1 /\ (i - 1) + 1 = i
    BY <1>1, <1>3
  <2> QED
    BY <1>1, <2>1
<1> QED
  BY <1>2, <1>3

\* Marking a node as "visited" that is not "done" leaves what is done alone.
LEMMA MarkVisited ==
  ASSUME NEW x, ~ Is(x, "done"), visited' = Marked(x, "visited")
  PROVE  /\ \A z : Is(z, "done")' <=> Is(z, "done")
         /\ \A z : Is(z, "visited") => Is(z, "visited")'
         /\ \A z : Is(z, "visited")' => z = x \/ Is(z, "visited")
         /\ Is(x, "visited")'
  BY DEF Is, Marked

LEMMA NextKeyStep == TypeOK /\ WalkInv /\ NextKey => WalkInv'
<1> SUFFICES ASSUME TypeOK, WalkInv, NextKey PROVE WalkInv'
  OBVIOUS
<1>1. PICK x : x = Head(keys)
  OBVIOUS
<1>2. keys \in Seq(Ident) /\ keys # <<>> /\ keys' = Tail(keys) /\ x \in Ident
  BY <1>1 DEF NextKey, TypeOK
<1>3. \A i \in DOMAIN keys : keys[i] = x \/ \E j \in DOMAIN keys' : keys'[j] = keys[i]
  BY <1>1, <1>2, FirstKey
<1>4. stack = <<>> /\ DOMAIN stack = {} /\ phase = "list" /\ phase' = "list"
      /\ nodes' = nodes /\ cache' = cache /\ types' = types
  BY DEF NextKey
<1>5. \A a, b, kinds : Dependence(a, b, kinds)' <=> Dependence(a, b, kinds)
  BY <1>4 DEF Dependence
<1>6. StrongFirst' /\ NoRepeats' /\ Unvisited' /\ CircularIsReal'
  BY <1>4, <1>5 DEF WalkInv, StrongFirst, NoRepeats, Unvisited, CircularIsReal
<1>7. CASE Is(x, "done")
  <2>1. stack' = stack /\ visited' = visited
    BY <1>1, <1>7 DEF NextKey
  <2>2. \A z, s : Is(z, s)' <=> Is(z, s)
    BY <2>1 DEF Is
  <2>3. CallsVisited' /\ CallsDiffer' /\ VisitedCalled' /\ CallsDepend' /\ CallsDone'
    BY <1>4, <2>1 DEF WalkInv, CallsVisited, CallsDiffer, VisitedCalled, CallsDepend, CallsDone
  <2>4. ListedDone'
    BY <1>4, <2>2 DEF WalkInv, ListedDone
  <2>5. Awaited'
    BY <1>3, <1>4, <1>7, <2>1, <2>2 DEF WalkInv, Awaited
  <2> QED
    BY <1>6, <2>3, <2>4, <2>5 DEF WalkInv
<1>8. CASE ~ Is(x, "done")
  <2>1. Enter(stack, x, FALSE)
    BY <1>1, <1>8 DEF NextKey
  <2>2. visited' = Marked(x, "visited")
    BY <2>1 DEF Enter
  <2>3. /\ \A z : Is(z, "done")' <=> Is(z, "done")
        /\ \A z : Is(z, "visited")' => z = x \/ Is(z, "visited")
        /\ Is(x, "visited")'
    BY <1>8, <2>2, MarkVisited
  <2>4. DOMAIN stack' = {1} /\ stack'[1].ident = x /\ ~ stack'[1].lazy /\ stack'[1].done = {}
    <3>1. stack \in Seq(Frame) /\ Len(stack) = 0
      BY <1>4
    <3>2. DOMAIN stack' = 1 .. Len(stack) + 1 /\ stack'[Len(stack) + 1].ident = x
          /\ stack'[Len(stack) + 1].lazy = FALSE /\ stack'[Len(stack) + 1].done = {}
      BY <1>2, <2>1, <3>1, EnterTyped
    <3> QED
      BY <3>1, <3>2
  <2>5. \A z : ~ Is(z, "visited")
    BY <1>4 DEF WalkInv, VisitedCalled, Is
  <2>6. CallsVisited' /\ CallsDiffer' /\ CallsDepend' /\ CallsDone'
    BY <2>3, <2>4 DEF CallsVisited, CallsDiffer, CallsDepend, CallsDone
  <2>7. VisitedCalled'
    BY <2>3, <2>4, <2>5 DEF VisitedCalled, Called, Is
  <2>8. ListedDone'
    BY <1>4, <2>3 DEF WalkInv, ListedDone
  <2>9. Awaited'
    <3>1. ASSUME NEW z \in types
          PROVE  \/ \E i \in DOMAIN keys' : keys'[i] = z
                 \/ Is(z, "done")'
                 \/ \E k \in DOMAIN stack' : Called(k, z)'
      <4>1. z = x \/ (\E i \in DOMAIN keys' : keys'[i] = z) \/ Is(z, "done")
        BY <1>3, <1>4 DEF WalkInv, Awaited
      <4>2. CASE z = x
        BY <2>4, <4>2 DEF Called
      <4> QED
        BY <2>3, <4>1, <4>2
    <3> QED
      BY <1>4, <3>1 DEF Awaited
  <2> QED
    BY <1>6, <2>6, <2>7, <2>8, <2>9 DEF WalkInv
<1> QED
  BY <1>7, <1>8

LEMMA SkipStep == ASSUME NEW y \in Ident PROVE TypeOK /\ WalkInv /\ Skip(y) => WalkInv'
<1> SUFFICES ASSUME TypeOK, WalkInv, Skip(y) PROVE WalkInv'
  OBVIOUS
<1>1. /\ stack # <<>> /\ phase = "list" /\ phase' = "list" /\ stack' = DoneWith(y)
      /\ nodes' = nodes /\ cache' = cache /\ types' = types /\ keys' = keys /\ visited' = visited
  BY DEF Skip, Walking
<1>2. cache[Top.ident][y] = "weak" \/ Is(y, "done")
  BY DEF Skip
<1>3. /\ DOMAIN stack' = DOMAIN stack
      /\ \A k \in DOMAIN stack :
           /\ stack'[k].ident = stack[k].ident
           /\ stack'[k].lazy = stack[k].lazy
           /\ stack'[k].done = IF k = Len(stack) THEN stack[k].done \cup {y} ELSE stack[k].done
  BY <1>1, DoneWithTop
<1>4. \A a, b, kinds : Dependence(a, b, kinds)' <=> Dependence(a, b, kinds)
  BY <1>1 DEF Dependence
<1>5. \A z, s : Is(z, s)' <=> Is(z, s)
  BY <1>1 DEF Is
<1>6. \A z : \A k \in DOMAIN stack : Called(k, z)' <=> Called(k, z)
  BY <1>3 DEF Called
<1>7. CallsVisited' /\ CallsDiffer' /\ CallsDepend'
  <2>1. CallsVisited'
    BY <1>3, <1>5 DEF WalkInv, CallsVisited
  <2>2. CallsDiffer'
    BY <1>3, <1>6 DEF WalkInv, CallsDiffer
  <2>3. CallsDepend'
    BY <1>3, <1>4 DEF WalkInv, CallsDepend
  <2> QED
    BY <2>1, <2>2, <2>3
<1>8. VisitedCalled'
  BY <1>1, <1>3, <1>6 DEF WalkInv, VisitedCalled
<1>9. CallsDone'
  <2>1. SUFFICES ASSUME NEW k \in DOMAIN stack, NEW z \in stack'[k].done,
                        Dependence(stack[k].ident, z, {"strong"})
                 PROVE  Is(z, "done") \/ (k + 1 \in DOMAIN stack /\ Called(k + 1, z))
    BY <1>3, <1>4, <1>5, <1>6 DEF CallsDone
  <2>2. CASE z \in stack[k].done
    BY <2>1, <2>2 DEF WalkInv, CallsDone
  <2>3. CASE z = y /\ k = Len(stack)
    <3>1. cache[Top.ident][y] = "strong"
      BY <2>1, <2>3 DEF Dependence, Top
    <3> QED
      BY <1>2, <2>3, <3>1
  <2> QED
    BY <1>3, <2>1, <2>2, <2>3
<1>10. StrongFirst' /\ NoRepeats' /\ Unvisited' /\ CircularIsReal' /\ ListedDone'
  BY <1>1, <1>4, <1>5 DEF WalkInv, StrongFirst, NoRepeats, Unvisited, CircularIsReal, ListedDone
<1>11. Awaited'
  BY <1>1, <1>3, <1>5, <1>6 DEF WalkInv, Awaited
<1> QED
  BY <1>7, <1>8, <1>9, <1>10, <1>11 DEF WalkInv

\* A dependency that is left is one of the entry.
LEMMA TurnDepends ==
  ASSUME NEW y \in Ident, Turn(y), TypeOK
  PROVE  /\ Top.ident \in DOMAIN cache /\ y \in DOMAIN cache[Top.ident]
         /\ cache[Top.ident][y] \in Kind
BY DEF Turn, Left, DependenciesOf, TypeOK

LEMMA DescendStep == ASSUME NEW y \in Ident PROVE TypeOK /\ WalkInv /\ Descend(y) => WalkInv'
<1> SUFFICES ASSUME TypeOK, WalkInv, Descend(y) PROVE WalkInv'
  OBVIOUS
<1>1. PICK s : s = DoneWith(y)
  OBVIOUS
<1>2. PICK lazy \in BOOLEAN : lazy = (cache[Top.ident][y] = "lazy")
  OBVIOUS
<1>3. /\ stack # <<>> /\ phase = "list" /\ phase' = "list" /\ Enter(s, y, lazy)
      /\ nodes' = nodes /\ cache' = cache /\ types' = types /\ keys' = keys
      /\ y \notin DOMAIN visited /\ cache[Top.ident][y] # "weak"
  BY <1>1, <1>2 DEF Descend, Walking
<1>4. Top.ident \in DOMAIN cache /\ y \in DOMAIN cache[Top.ident] /\ cache[Top.ident][y] \in {"strong", "lazy"}
  BY <1>3, TurnDepends DEF Descend, Kind
<1>5. /\ Len(stack) \in Nat \ {0} /\ DOMAIN stack = 1 .. Len(stack)
      /\ s \in Seq(Frame) /\ Len(s) = Len(stack) /\ DOMAIN s = DOMAIN stack
      /\ \A k \in DOMAIN stack :
           /\ s[k].ident = stack[k].ident /\ s[k].lazy = stack[k].lazy
           /\ s[k].done = IF k = Len(stack) THEN stack[k].done \cup {y} ELSE stack[k].done
  BY <1>1, <1>3, DoneWithTop, TopTyped
<1>6. PICK n \in Nat : n = Len(stack)
  BY <1>5
<1>7. /\ DOMAIN stack = 1 .. n /\ DOMAIN stack' = 1 .. n + 1 /\ n \in DOMAIN stack
      /\ \A k \in 1 .. n :
           /\ stack'[k].ident = stack[k].ident /\ stack'[k].lazy = stack[k].lazy
           /\ stack'[k].done = IF k = n THEN stack[k].done \cup {y} ELSE stack[k].done
      /\ stack'[n + 1].ident = y /\ stack'[n + 1].lazy = lazy /\ stack'[n + 1].done = {}
  <2>1. /\ DOMAIN stack' = 1 .. Len(s) + 1
        /\ \A k \in DOMAIN s : stack'[k] = s[k]
        /\ stack'[Len(s) + 1].ident = y /\ stack'[Len(s) + 1].lazy = lazy /\ stack'[Len(s) + 1].done = {}
    BY <1>3, <1>5, EnterTyped
  <2>2. Len(s) = n /\ DOMAIN s = 1 .. n /\ DOMAIN stack = 1 .. n /\ n \in 1 .. n
    BY <1>5, <1>6
  <2>3. /\ DOMAIN stack' = 1 .. n + 1
        /\ \A k \in 1 .. n : stack'[k] = s[k]
        /\ stack'[n + 1].ident = y /\ stack'[n + 1].lazy = lazy /\ stack'[n + 1].done = {}
    BY <2>1, <2>2
  <2>4. \A k \in 1 .. n :
           /\ s[k].ident = stack[k].ident /\ s[k].lazy = stack[k].lazy
           /\ s[k].done = IF k = n THEN stack[k].done \cup {y} ELSE stack[k].done
    BY <1>5, <1>6, <2>2
  <2> QED
    BY <2>2, <2>3, <2>4
<1>8. /\ \A z : Is(z, "done")' <=> Is(z, "done")
      /\ \A z : Is(z, "visited") => Is(z, "visited")'
      /\ \A z : Is(z, "visited")' => Is(z, "visited") \/ (z = y /\ ~ lazy)
      /\ ~ lazy => Is(y, "visited")'
  <2>1. CASE lazy
    BY <1>3, <2>1 DEF Enter, Is
  <2>2. CASE ~ lazy
    <3>1. visited' = Marked(y, "visited") /\ ~ Is(y, "done")
      BY <1>3, <2>2 DEF Enter, Is
    <3> QED
      BY <2>2, <3>1, MarkVisited
  <2> QED
    BY <2>1, <2>2
<1>9. \A a, b, kinds : Dependence(a, b, kinds)' <=> Dependence(a, b, kinds)
  BY <1>3 DEF Dependence
<1>10. \A z : \A k \in 1 .. n : Called(k, z)' <=> Called(k, z)
  BY <1>7 DEF Called
<1>11. ~ lazy => Called(n + 1, y)'
  BY <1>7 DEF Called
<1>12. \A k \in DOMAIN stack' : k \in 1 .. n \/ k = n + 1
  BY <1>7
<1>13. CallsVisited'
  BY <1>7, <1>8, <1>12 DEF WalkInv, CallsVisited
<1>14. CallsDiffer'
  <2>1. ASSUME NEW k \in 1 .. n, ~ stack[k].lazy PROVE stack[k].ident # y
    BY <1>3, <1>7, <2>1 DEF WalkInv, CallsVisited, Is
  <2>2. SUFFICES ASSUME NEW k \in 1 .. n + 1, NEW l \in 1 .. n + 1,
                        ~ stack'[k].lazy, ~ stack'[l].lazy, stack'[k].ident = stack'[l].ident
                 PROVE  k = l
    BY <1>7 DEF CallsDiffer, Called
  <2>3. CASE k \in 1 .. n /\ l \in 1 .. n
    BY <1>7, <2>2, <2>3 DEF WalkInv, CallsDiffer, Called
  <2>4. CASE k = n + 1 /\ l \in 1 .. n
    BY <1>7, <2>1, <2>2, <2>4
  <2>5. CASE k \in 1 .. n /\ l = n + 1
    BY <1>7, <2>1, <2>2, <2>5
  <2> QED
    BY <1>7, <1>12, <2>2, <2>3, <2>4, <2>5
<1>15. VisitedCalled'
  <2>1. SUFFICES ASSUME NEW z, Is(z, "visited")' PROVE \E k \in DOMAIN stack' : Called(k, z)'
    BY DEF VisitedCalled, Is
  <2>2. CASE Is(z, "visited")
    <3>1. PICK k \in 1 .. n : Called(k, z)
      BY <1>7, <2>2 DEF WalkInv, VisitedCalled, Is
    <3> QED
      BY <1>7, <1>10, <3>1
  <2>3. CASE z = y /\ ~ lazy
    BY <1>7, <1>11, <2>3
  <2> QED
    BY <1>8, <2>1, <2>2, <2>3
<1>16. CallsDepend'
  <2>1. SUFFICES ASSUME NEW k \in 1 .. n
                 PROVE  Dependence(stack'[k].ident, stack'[k + 1].ident, {"strong", "lazy"})
    BY <1>7, <1>9 DEF CallsDepend
  <2>2. CASE k = n
    <3>1. stack'[k].ident = Top.ident /\ stack'[k + 1].ident = y
      BY <1>6, <1>7, <2>2 DEF Top
    <3> QED
      BY <1>4, <3>1 DEF Dependence
  <2>3. CASE k # n
    <3>1. k + 1 \in 1 .. n
      BY <2>3
    <3> QED
      BY <1>7, <3>1 DEF WalkInv, CallsDepend
  <2> QED
    BY <2>2, <2>3
<1>17. CallsDone'
  <2>1. SUFFICES ASSUME NEW k \in 1 .. n, NEW z \in stack'[k].done,
                        Dependence(stack[k].ident, z, {"strong"})
                 PROVE  Is(z, "done") \/ Called(k + 1, z)'
    <3>1. \A k \in 1 .. n : k + 1 \in DOMAIN stack'
      BY <1>7
    <3>2. stack'[n + 1].done = {} /\ \A k \in 1 .. n : stack'[k].ident = stack[k].ident
      BY <1>7
    <3> QED
      BY <1>8, <1>9, <1>12, <3>1, <3>2 DEF CallsDone
  <2>2. CASE z \in stack[k].done
    <3>1. Is(z, "done") \/ (k + 1 \in 1 .. n /\ Called(k + 1, z))
      BY <1>7, <2>1, <2>2 DEF WalkInv, CallsDone
    <3> QED
      BY <1>10, <3>1
  <2>3. CASE z = y /\ k = n
    <3>1. ~ lazy
      BY <1>2, <1>6, <2>1, <2>3 DEF Dependence, Top
    <3> QED
      BY <1>11, <2>3, <3>1
  <2> QED
    BY <1>7, <2>1, <2>2, <2>3
<1>18. StrongFirst' /\ NoRepeats' /\ Unvisited' /\ CircularIsReal' /\ ListedDone'
  BY <1>3, <1>8, <1>9 DEF WalkInv, StrongFirst, NoRepeats, Unvisited, CircularIsReal, ListedDone
<1>19. Awaited'
  <2>1. ASSUME NEW x, NEW k \in DOMAIN stack, Called(k, x) PROVE \E l \in DOMAIN stack' : Called(l, x)'
    BY <1>7, <1>10, <2>1
  <2> QED
    BY <1>3, <1>8, <2>1 DEF WalkInv, Awaited
<1> QED
  BY <1>13, <1>14, <1>15, <1>16, <1>17, <1>18, <1>19 DEF WalkInv

LEMMA LeaveStep == TypeOK /\ WalkInv /\ Leave => WalkInv'
<1> SUFFICES ASSUME TypeOK, WalkInv, Leave PROVE WalkInv'
  OBVIOUS
<1>1. /\ stack # <<>> /\ phase = "list" /\ phase' = "list" /\ Left = {}
      /\ cache' = cache /\ types' = types /\ keys' = keys
      /\ stack' = SubSeq(stack, 1, Len(stack) - 1)
  BY DEF Leave, Walking
<1>2. PICK n \in Nat \ {0} : n = Len(stack)
  BY <1>1, TopTyped
<1>3. PICK t \in Ident : t = stack[n].ident
  BY <1>1, <1>2, TopTyped DEF Top
<1>4. PICK lazy \in BOOLEAN : lazy = stack[n].lazy
  BY <1>1, <1>2, TopTyped DEF Top
<1>5. DOMAIN stack = 1 .. n /\ n \in DOMAIN stack /\ DOMAIN stack' = 1 .. n - 1
      /\ \A k \in 1 .. n - 1 : k \in 1 .. n /\ stack'[k] = stack[k]
  BY <1>1, <1>2, TopTyped, LeaveTyped
<1>6. Top = stack[n]
  BY <1>2 DEF Top
<1>7. /\ visited' = IF lazy THEN visited ELSE Marked(t, "done")
      /\ nodes' = IF ~ lazy /\ t \in types THEN Append(nodes, t) ELSE nodes
  BY <1>3, <1>4, <1>6 DEF Leave
<1>8. /\ \A z : Is(z, "done")' <=> Is(z, "done") \/ (z = t /\ ~ lazy)
      /\ \A z : Is(z, "visited")' <=> Is(z, "visited") /\ (z # t \/ lazy)
  BY <1>7 DEF Is, Marked
<1>9. \A a, b, kinds : Dependence(a, b, kinds)' <=> Dependence(a, b, kinds)
  BY <1>1 DEF Dependence
<1>10. \A z : \A k \in 1 .. n - 1 : Called(k, z)' <=> Called(k, z)
  BY <1>5 DEF Called
<1>11. \A z : Called(n, z) <=> ~ lazy /\ z = t
  BY <1>3, <1>4 DEF Called
<1>12. ~ lazy => Is(t, "visited") /\ ~ Is(t, "done")
  BY <1>3, <1>4, <1>5 DEF WalkInv, CallsVisited, Is
<1>13. CallsVisited'
  <2>1. ASSUME NEW k \in 1 .. n - 1, ~ stack[k].lazy, ~ lazy PROVE stack[k].ident # t
    <3>1. k \in 1 .. n /\ k # n
      BY <1>2
    <3> QED
      BY <1>3, <1>4, <1>5, <2>1, <3>1 DEF WalkInv, CallsDiffer, Called
  <2> QED
    BY <1>5, <1>8, <2>1 DEF WalkInv, CallsVisited
<1>14. CallsDiffer'
  BY <1>5 DEF WalkInv, CallsDiffer, Called
<1>15. VisitedCalled'
  <2>1. SUFFICES ASSUME NEW z, Is(z, "visited")' PROVE \E k \in DOMAIN stack' : Called(k, z)'
    BY DEF VisitedCalled, Is
  <2>2. PICK k \in 1 .. n : Called(k, z)
    BY <1>5, <1>8, <2>1 DEF WalkInv, VisitedCalled, Is
  <2>3. k # n
    BY <1>8, <1>11, <2>1, <2>2
  <2>4. k \in 1 .. n - 1
    BY <2>3
  <2> QED
    BY <1>5, <1>10, <2>2, <2>4
<1>16. CallsDepend'
  <2>1. \A k \in 1 .. n - 1 : k + 1 \in 1 .. n - 1 => k \in 1 .. n /\ k + 1 \in 1 .. n
    OBVIOUS
  <2> QED
    BY <1>5, <1>9, <2>1 DEF WalkInv, CallsDepend
<1>17. CallsDone'
  <2>1. SUFFICES ASSUME NEW k \in 1 .. n - 1, NEW z \in stack[k].done,
                        Dependence(stack[k].ident, z, {"strong"})
                 PROVE  Is(z, "done")' \/ (k + 1 \in 1 .. n - 1 /\ Called(k + 1, z)')
    BY <1>5, <1>9 DEF CallsDone
  <2>2. Is(z, "done") \/ Called(k + 1, z)
    BY <1>5, <2>1 DEF WalkInv, CallsDone
  <2>3. CASE k + 1 = n
    BY <1>8, <1>11, <2>2, <2>3
  <2>4. CASE k + 1 # n
    <3>1. k + 1 \in 1 .. n - 1
      BY <2>4
    <3> QED
      BY <1>8, <1>10, <2>2, <3>1
  <2> QED
    BY <2>3, <2>4
<1>18. Unvisited' /\ CircularIsReal'
  BY <1>1 DEF Unvisited, CircularIsReal
<1>19. Awaited'
  <2>1. ASSUME NEW x, NEW k \in 1 .. n, Called(k, x)
        PROVE  Is(x, "done")' \/ \E l \in DOMAIN stack' : Called(l, x)'
    <3>1. CASE k = n
      BY <1>8, <1>11, <2>1, <3>1
    <3>2. CASE k # n
      <4>1. k \in 1 .. n - 1
        BY <3>2
      <4> QED
        BY <1>5, <1>10, <2>1, <4>1
    <3> QED
      BY <3>1, <3>2
  <2> QED
    BY <1>1, <1>5, <1>8, <2>1 DEF WalkInv, Awaited
<1>20. CASE lazy \/ t \notin types
  <2>1. nodes' = nodes
    BY <1>7, <1>20
  <2>2. \A x \in types : Is(x, "done")' <=> Is(x, "done")
    BY <1>8, <1>20
  <2>3. ListedDone' /\ NoRepeats' /\ StrongFirst'
    BY <1>1, <1>9, <2>1, <2>2 DEF WalkInv, ListedDone, NoRepeats, StrongFirst
  <2> QED
    BY <1>13, <1>14, <1>15, <1>16, <1>17, <1>18, <1>19, <2>3 DEF WalkInv
<1>21. CASE ~ lazy /\ t \in types
  <2>1. PICK m \in Nat : m = Len(nodes)
    BY DEF TypeOK
  <2>2. /\ DOMAIN nodes = 1 .. m /\ DOMAIN nodes' = 1 .. m + 1 /\ nodes'[m + 1] = t
        /\ \A i \in 1 .. m : nodes'[i] = nodes[i]
    <3>1. nodes \in Seq(Ident) /\ nodes' = Append(nodes, t)
      BY <1>7, <1>21 DEF TypeOK
    <3> QED
      BY <2>1, <3>1
  <2>3. \A i \in 1 .. m + 1 : i \in 1 .. m \/ i = m + 1
    OBVIOUS
  <2>4. \A i \in 1 .. m : nodes[i] # t
    BY <1>3, <1>12, <1>21, <2>2 DEF WalkInv, ListedDone
  <2>5. ListedDone'
    <3>1. ASSUME NEW x \in Ident, NEW i \in DOMAIN nodes', nodes'[i] = x
          PROVE  x \in types /\ Is(x, "done")'
      <4>1. CASE i = m + 1
        BY <1>8, <1>21, <2>2, <3>1, <4>1
      <4>2. CASE i \in 1 .. m
        BY <1>8, <2>2, <3>1, <4>2 DEF WalkInv, ListedDone
      <4> QED
        BY <2>2, <2>3, <4>1, <4>2
    <3>2. ASSUME NEW x \in Ident, x \in types, Is(x, "done")' PROVE \E i \in DOMAIN nodes' : nodes'[i] = x
      <4>1. CASE x = t
        BY <2>2, <4>1
      <4>2. CASE Is(x, "done")
        <5>1. PICK i \in 1 .. m : nodes[i] = x
          BY <2>2, <3>2, <4>2 DEF WalkInv, ListedDone
        <5> QED
          BY <2>2, <5>1
      <4> QED
        BY <1>8, <3>2, <4>1, <4>2
    <3> QED
      BY <1>1, <3>1, <3>2 DEF ListedDone
  <2>6. NoRepeats'
    <3>1. SUFFICES ASSUME NEW i \in 1 .. m + 1, NEW j \in 1 .. m + 1, nodes'[i] = nodes'[j]
                   PROVE  i = j
      BY <2>2 DEF NoRepeats
    <3>2. CASE i \in 1 .. m /\ j \in 1 .. m
      BY <2>2, <3>1, <3>2 DEF WalkInv, NoRepeats
    <3>3. CASE i = m + 1 /\ j \in 1 .. m
      BY <2>2, <2>4, <3>1, <3>3
    <3>4. CASE i \in 1 .. m /\ j = m + 1
      BY <2>2, <2>4, <3>1, <3>4
    <3> QED
      BY <2>3, <3>2, <3>3, <3>4
  <2>7. StrongFirst'
    <3>1. SUFFICES ASSUME NEW i \in 1 .. m + 1, NEW y \in types, Dependence(nodes'[i], y, {"strong"})
                   PROVE  \E j \in 1 .. i - 1 : nodes'[j] = y
      BY <1>1, <1>9, <2>2 DEF StrongFirst
    <3>2. CASE i \in 1 .. m
      <4>1. PICK j \in 1 .. i - 1 : nodes[j] = y
        BY <2>2, <3>1, <3>2 DEF WalkInv, StrongFirst
      <4>2. j \in 1 .. m
        BY <3>2
      <4> QED
        BY <2>2, <4>1, <4>2
    <3>3. CASE i = m + 1
      <4>1. y \in DependenciesOf(t) /\ Dependence(t, y, {"strong"})
        BY <2>2, <3>1, <3>3 DEF Dependence, DependenciesOf
      <4>2. y \in stack[n].done
        BY <1>1, <1>3, <1>6, <4>1 DEF Left
      <4>3. n + 1 \notin DOMAIN stack
        BY <1>5
      <4>4. Is(y, "done")
        BY <1>3, <1>5, <4>1, <4>2, <4>3 DEF WalkInv, CallsDone
      <4>5. y \in Ident
        BY <3>1 DEF TypeOK
      <4>6. PICK j \in 1 .. m : nodes[j] = y
        BY <2>2, <4>4, <4>5 DEF WalkInv, ListedDone
      <4> QED
        BY <2>2, <3>3, <4>6
    <3> QED
      BY <2>3, <3>2, <3>3
  <2> QED
    BY <1>13, <1>14, <1>15, <1>16, <1>17, <1>18, <1>19, <2>5, <2>6, <2>7 DEF WalkInv
<1> QED
  BY <1>20, <1>21

\* A node that is visited again is on the stack, and the calls from there on go
\* round in a circle.
LEMMA CircularStep == ASSUME NEW y \in Ident PROVE TypeOK /\ WalkInv /\ Circular(y) => WalkInv'
<1> SUFFICES ASSUME TypeOK, WalkInv, Circular(y) PROVE WalkInv'
  OBVIOUS
<1>1. /\ stack # <<>> /\ phase = "list" /\ phase' = "circular" /\ Turn(y) /\ Is(y, "visited")
      /\ cache[Top.ident][y] # "weak"
      /\ UNCHANGED <<cache, types, keys, visited, stack, nodes>>
  BY DEF Circular, Walking
<1>2. PICK n \in Nat \ {0} : n = Len(stack) /\ DOMAIN stack = 1 .. n
  BY <1>1, TopTyped
<1>3. PICK k \in 1 .. n : stack[k].ident = y
  BY <1>1, <1>2 DEF WalkInv, VisitedCalled, Is, Called
<1>4. Dependence(stack[n].ident, y, {"strong", "lazy"})
  BY <1>1, <1>2, TurnDepends DEF Dependence, Top, Kind
<1>5. ASSUME NEW i \in k .. n
      PROVE  \E j \in k .. n : Dependence(stack[i].ident, stack[j].ident, {"strong", "lazy"})
  <2>1. CASE i = n
    BY <1>3, <1>4, <2>1
  <2>2. CASE i # n
    <3>1. i + 1 \in k .. n /\ i \in 1 .. n /\ i + 1 \in 1 .. n
      BY <2>2
    <3> QED
      BY <1>2, <3>1 DEF WalkInv, CallsDepend
  <2> QED
    BY <2>1, <2>2
<1>6. PICK S : S = {stack[i].ident : i \in k .. n}
  OBVIOUS
<1>7. S # {} /\ S \subseteq DOMAIN cache
  BY <1>3, <1>5, <1>6 DEF Dependence
<1>8. \A a \in S : \E b \in S : Dependence(a, b, {"strong", "lazy"})
  BY <1>5, <1>6
<1>9. \E R \in SUBSET DOMAIN cache :
         R # {} /\ \A a \in R : \E b \in R : Dependence(a, b, {"strong", "lazy"})
  BY <1>7, <1>8
<1>10. CircularIsReal'
  BY <1>1, <1>9 DEF CircularIsReal, Dependence
<1> QED
  BY <1>1, <1>10, QuietStep

LEMMA WalkStep == TypeOK /\ WalkInv /\ [Next]_vars => WalkInv'
<1> SUFFICES ASSUME TypeOK, WalkInv, [Next]_vars PROVE WalkInv'
  OBVIOUS
<1>1. CASE NewEntry
  BY <1>1, NewEntryStep
<1>2. CASE NextKey
  BY <1>2, NextKeyStep
<1>3. ASSUME NEW y \in Ident, Skip(y) \/ Descend(y) \/ Circular(y) PROVE WalkInv'
  BY <1>3, SkipStep, DescendStep, CircularStep
<1>4. CASE Leave
  BY <1>4, LeaveStep
<1>5. CASE CacheDone \/ ListDone \/ GenerateNode \/ Panic \/ Finish \/ UNCHANGED vars
  <2>1. /\ UNCHANGED <<cache, types, keys, visited, stack, nodes>>
        /\ phase' = "cache" => phase = "cache"
        /\ phase' = "circular" => phase = "circular"
        /\ phase' \in {"generate", "panic", "finished"} => keys = <<>> /\ stack = <<>>
    BY <1>5 DEF CacheDone, ListDone, GenerateNode, Panic, Finish, vars, WalkInv, Awaited
  <2>2. CircularIsReal'
    BY <2>1 DEF WalkInv, CircularIsReal, Dependence
  <2> QED
    BY <2>1, <2>2, QuietStep
<1> QED
  BY <1>1, <1>2, <1>3, <1>4, <1>5 DEF Next, Work, Walk, Terminated

-----------------------------------------------------------------------------
(* The bases.                                                              *)

\* A declaration that names a base does not refer to it in another way afterwards.
Clean(d) ==
  \A j, k \in DOMAIN d.refs :
    j <= k /\ d.refs[j].kind = "strong" /\ d.refs[k].to = d.refs[j].to => d.refs[k].kind = "strong"
LastStrong == \A s \in Schemas : \A i \in DOMAIN s : Clean(s[i])

\* A base is a type that is declared, or one that is given.
BasesDeclared ==
  \A s \in Schemas, g \in Givens : \A i \in DOMAIN s : \A y \in Bases(s[i].refs) :
    y \in g \/ \E k \in DOMAIN s : s[k].type /\ s[k].ident = y

Known(y) == y \in generated \/ y \in types \/ \E k \in DOMAIN decls : decls[k].type /\ decls[k].ident = y

BuildInv ==
  /\ \A i \in DOMAIN decls : \A y \in Bases(decls[i].refs) : Known(y)
  /\ \A x \in DOMAIN bases : \A y \in bases[x] : Known(y)
  /\ phase # "cache" => decls = <<>>
  /\ phase \in {"cache", "list", "circular"} => count = 0
  /\ \A j \in 1 .. count : nodes[j] \in generated
  /\ OnlyLostBasesMissing

PanicTyped == phase = "panic" => Current \in DOMAIN bases

CleanInv ==
  /\ \A i \in DOMAIN decls : Clean(decls[i])
  /\ \A x \in DOMAIN bases : \A y \in bases[x] : Dependence(x, y, {"strong"})

LEMMA BuildInit == ASSUME BasesDeclared PROVE Init => BuildInv
<1> SUFFICES ASSUME Init PROVE BuildInv
  OBVIOUS
<1>1. decls \in Schemas /\ generated \in Givens /\ phase = "cache" /\ count = 0 /\ DOMAIN bases = {}
  BY DEF Init
<1>2. \A i \in DOMAIN decls : \A y \in Bases(decls[i].refs) : Known(y)
  BY <1>1 DEF BasesDeclared, Known
<1> QED
  BY <1>1, <1>2 DEF BuildInv, OnlyLostBasesMissing

\* In a clean declaration the dependency on a base is a strong one.
LEMMA CleanStrong ==
  ASSUME NEW d \in Decl, Clean(d), NEW y \in Bases(d.refs)
  PROVE  Dependencies(d.refs)[y] = "strong" /\ y \in DOMAIN Dependencies(d.refs)
<1>1. d.refs \in Seq(Ref)
  BY DEF Decl, Ref
<1>2. PICK refs \in Seq(Ref) : refs = d.refs
  BY <1>1
<1>3. PICK i \in DOMAIN refs : refs[i].kind = "strong" /\ refs[i].to = y
  BY <1>2 DEF Bases
<1>4. y \in Targets(refs)
  BY <1>3 DEF Targets
<1>5. PICK j \in DOMAIN refs :
         /\ refs[j].to = y /\ refs[j].kind = Dependencies(refs)[y]
         /\ \A k \in DOMAIN refs : refs[k].to = y => k <= j
  BY <1>4, DependencyKinds
<1>6. i <= j
  BY <1>3, <1>5
<1>7. refs[j].kind = "strong"
  BY <1>2, <1>3, <1>5, <1>6 DEF Clean
<1> QED
  BY <1>2, <1>4, <1>5, <1>7, DependencyKinds

LEMMA BuildStep == TypeOK /\ WalkInv /\ BuildInv /\ [Next]_vars => BuildInv'
<1> SUFFICES ASSUME TypeOK, WalkInv, BuildInv, [Next]_vars PROVE BuildInv'
  OBVIOUS
<1>1. CASE NewEntry
  <2>1. PICK d \in Decl : d = Head(decls)
    BY <1>1, FirstDecl DEF NewEntry, TypeOK
  <2>2. /\ decls' = Tail(decls) /\ generated' = generated /\ phase' = phase /\ phase = "cache"
        /\ count' = count /\ count = 0 /\ decls \in Seq(Decl) /\ decls # <<>>
        /\ types' = IF d.type THEN types \cup {d.ident} ELSE types
    BY <1>1, <2>1 DEF NewEntry, BuildInv, TypeOK
  <2>3. /\ decls[1] = d /\ 1 \in DOMAIN decls
        /\ \A i \in DOMAIN decls : i = 1 \/ (i - 1 \in DOMAIN decls' /\ decls'[i - 1] = decls[i])
        /\ \A i \in DOMAIN decls' : i + 1 \in DOMAIN decls /\ decls'[i] = decls[i + 1]
    BY <2>1, <2>2, FirstDecl
  <2>4. ASSUME NEW y, Known(y) PROVE Known(y)'
    <3>1. ASSUME NEW k \in DOMAIN decls, decls[k].type, decls[k].ident = y PROVE Known(y)'
      <4>1. CASE k = 1
        BY <2>2, <2>3, <3>1, <4>1 DEF Known
      <4>2. CASE k # 1
        <5>1. k - 1 \in DOMAIN decls' /\ decls'[k - 1] = decls[k]
          BY <2>3, <4>2
        <5> QED
          BY <3>1, <5>1 DEF Known
      <4> QED
        BY <4>1, <4>2
    <3>2. CASE y \in generated \/ y \in types
      BY <2>2, <3>2 DEF Known
    <3> QED
      BY <2>4, <3>1, <3>2 DEF Known
  <2>5. \A i \in DOMAIN decls' : \A y \in Bases(decls'[i].refs) : Known(y)'
    BY <2>3, <2>4 DEF BuildInv
  <2>6. \A y \in Bases(d.refs) : Known(y)
    BY <2>3 DEF BuildInv
  <2>7. bases' = [x \in DOMAIN bases \cup {d.ident} |->
                    IF x = d.ident THEN Bases(d.refs) ELSE bases[x]]
    BY <1>1, <2>1 DEF NewEntry
  <2>8. ASSUME NEW x \in DOMAIN bases', NEW y \in bases'[x] PROVE Known(y)'
    <3>1. y \in Bases(d.refs) \/ (x \in DOMAIN bases /\ y \in bases[x])
      BY <2>7, <2>8
    <3> QED
      BY <2>4, <2>6, <3>1 DEF BuildInv
  <2> QED
    BY <2>2, <2>5, <2>8 DEF BuildInv, OnlyLostBasesMissing
<1>2. ASSUME UNCHANGED <<decls, cache, types, generated, bases>>, decls = <<>>
      PROVE  /\ \A i \in DOMAIN decls' : \A y \in Bases(decls'[i].refs) : Known(y)'
             /\ \A x \in DOMAIN bases' : \A y \in bases'[x] : Known(y)'
  BY <1>2 DEF BuildInv, Known, Dependence
<1>3. CASE CacheDone \/ Walk
  <2>1. /\ UNCHANGED <<decls, cache, types, generated, bases, count>> /\ decls = <<>>
        /\ count = 0 /\ phase' \in {"list", "circular", "generate"}
    BY <1>3 DEF CacheDone, Walk, NextKey, Skip, Descend, Circular, Leave, ListDone, Walking, BuildInv
  <2> QED
    BY <1>2, <2>1 DEF BuildInv, OnlyLostBasesMissing
<1>4. CASE GenerateNode
  <2>1. /\ UNCHANGED <<decls, cache, types, bases, nodes>> /\ decls = <<>> /\ phase' = "generate"
        /\ count' = count + 1 /\ generated' = generated \cup {Current} /\ count \in Nat
    BY <1>4 DEF GenerateNode, BuildInv, TypeOK
  <2>2. \A j \in 1 .. count + 1 : j \in 1 .. count \/ j = count + 1
    BY <2>1
  <2>3. \A j \in 1 .. count' : nodes'[j] \in generated'
    BY <2>1, <2>2 DEF BuildInv, Current
  <2>4. \A x \in DOMAIN bases' : \A y \in bases'[x] : Known(y)'
    BY <2>1 DEF BuildInv, Known, Dependence
  <2>5. DOMAIN decls' = {}
    BY <2>1
  <2> QED
    BY <2>1, <2>3, <2>4, <2>5 DEF BuildInv, OnlyLostBasesMissing
<1>5. CASE Panic
  <2>1. /\ phase = "generate" /\ decls = <<>> /\ count < Len(nodes) /\ ~ Available
        /\ UNCHANGED <<decls, cache, types, generated, bases, count, nodes>> /\ phase' = "panic"
    BY <1>5 DEF Panic, BuildInv
  <2>2. count \in Nat /\ Len(nodes) \in Nat /\ count + 1 \in DOMAIN nodes
    BY <2>1 DEF TypeOK
  <2>3. Current \in types /\ Current \in DOMAIN bases
    BY <2>2 DEF Current, TypeOK, WalkInv, ListedDone
  <2>4. PICK y \in bases[Current] : y \notin generated
    BY <2>1 DEF Available
  <2>5. y \in types
    <3>1. DOMAIN decls = {}
      BY <2>1
    <3> QED
      BY <2>3, <2>4, <3>1 DEF BuildInv, Known
  <2>6. ~ Dependence(Current, y, {"strong"})
    <3>1. SUFFICES ASSUME Dependence(Current, y, {"strong"}) PROVE FALSE
      OBVIOUS
    <3>2. PICK j \in 1 .. (count + 1) - 1 : nodes[j] = y
      BY <2>2, <2>5, <3>1 DEF WalkInv, StrongFirst, Current
    <3>3. j \in 1 .. count
      BY <2>2
    <3> QED
      BY <2>4, <3>2, <3>3 DEF BuildInv
  <2>7. Current' = Current /\ (Dependence(Current, y, {"strong"})' <=> Dependence(Current, y, {"strong"}))
    BY <2>1 DEF Current, Dependence
  <2>8. OnlyLostBasesMissing'
    BY <2>1, <2>4, <2>6, <2>7 DEF OnlyLostBasesMissing, Dependence
  <2> QED
    BY <1>2, <2>1, <2>8 DEF BuildInv
<1>6. CASE Finish \/ UNCHANGED vars
  <2>1. /\ UNCHANGED <<decls, cache, types, generated, bases, count, nodes>>
        /\ phase' = phase \/ (phase = "generate" /\ phase' = "finished")
    BY <1>6 DEF Finish, vars
  <2> QED
    BY <2>1 DEF BuildInv, OnlyLostBasesMissing, Known, Dependence, Current
<1> QED
  BY <1>1, <1>3, <1>4, <1>5, <1>6 DEF Next, Work, Terminated

LEMMA CleanInit == ASSUME LastStrong PROVE Init => CleanInv
BY DEF LastStrong, Init, CleanInv

LEMMA CleanStep == TypeOK /\ CleanInv /\ [Next]_vars => CleanInv'
<1> SUFFICES ASSUME TypeOK, CleanInv, [Next]_vars PROVE CleanInv'
  OBVIOUS
<1>1. CASE NewEntry
  <2>1. decls \in Seq(Decl) /\ decls # <<>> /\ decls' = Tail(decls)
    BY <1>1 DEF NewEntry, TypeOK
  <2>2. PICK d \in Decl : d = Head(decls)
    BY <2>1, FirstDecl
  <2>3. Clean(d) /\ \A i \in DOMAIN decls' : Clean(decls'[i])
    BY <2>1, <2>2, FirstDecl DEF CleanInv
  <2>4. /\ cache' = [x \in DOMAIN cache \cup {d.ident} |->
                       IF x = d.ident THEN Dependencies(d.refs) ELSE cache[x]]
        /\ bases' = [x \in DOMAIN bases \cup {d.ident} |->
                       IF x = d.ident THEN Bases(d.refs) ELSE bases[x]]
    BY <1>1, <2>2 DEF NewEntry
  <2>5. ASSUME NEW x \in DOMAIN bases', NEW y \in bases'[x] PROVE Dependence(x, y, {"strong"})'
    <3>1. CASE x = d.ident
      <4>1. y \in Bases(d.refs) /\ cache'[x] = Dependencies(d.refs) /\ x \in DOMAIN cache'
        BY <2>4, <2>5, <3>1
      <4>2. Dependencies(d.refs)[y] = "strong" /\ y \in DOMAIN Dependencies(d.refs)
        BY <2>3, <4>1, CleanStrong
      <4> QED
        BY <4>1, <4>2 DEF Dependence
    <3>2. CASE x # d.ident
      <4>1. x \in DOMAIN bases /\ y \in bases[x] /\ cache'[x] = cache[x] /\ x \in DOMAIN cache'
        BY <2>4, <2>5, <3>2 DEF TypeOK
      <4> QED
        BY <4>1 DEF CleanInv, Dependence
    <3> QED
      BY <3>1, <3>2
  <2> QED
    BY <2>3, <2>5 DEF CleanInv
<1>2. CASE UNCHANGED <<decls, cache, bases>>
  BY <1>2 DEF CleanInv, Dependence
<1>3. NewEntry \/ UNCHANGED <<decls, cache, bases>>
  BY DEF Next, Work, Walk, CacheDone, NextKey, Skip, Descend, Circular, Leave, ListDone, GenerateNode,
         Panic, Finish, Terminated, vars
<1> QED
  BY <1>1, <1>2, <1>3

-----------------------------------------------------------------------------
(* The theorems.                                                           *)

\* The state keeps its shape for every schema.
THEOREM TypesCorrect == Spec => []TypeOK
<1>1. Init => TypeOK
  BY TypeInit
<1>2. TypeOK /\ [Next]_vars => TypeOK'
  BY TypeStep
<1> QED
  BY <1>1, <1>2, PTL DEF Spec

\* The walk keeps its invariant for every schema.
THEOREM WalkInvariant == Spec => []WalkInv
<1>1. Init => WalkInv
  BY WalkInit
<1>2. TypeOK /\ WalkInv /\ [Next]_vars => WalkInv'
  BY WalkStep
<1> QED
  BY <1>1, <1>2, TypesCorrect, PTL DEF Spec

\* Every type is listed after its strong dependencies, for every schema and every
\* order of its declarations and names.
THEOREM AlwaysStrongFirst == Spec => []StrongFirst
<1>1. WalkInv => StrongFirst
  BY DEF WalkInv
<1> QED
  BY <1>1, WalkInvariant, PTL

\* The list has every type, and none twice.
THEOREM AlwaysListedOnce == Spec => []ListedOnce
<1>1. TypeOK /\ WalkInv => ListedOnce
  <2> SUFFICES ASSUME TypeOK, WalkInv PROVE ListedOnce
    OBVIOUS
  <2>1. \A i \in DOMAIN nodes : nodes[i] \in types
    BY DEF TypeOK, WalkInv, ListedDone
  <2>2. ASSUME phase \in {"generate", "panic", "finished"}, NEW x \in types
        PROVE  \E i \in DOMAIN nodes : nodes[i] = x
    <3>1. DOMAIN keys = {} /\ DOMAIN stack = {}
      BY <2>2 DEF WalkInv, Awaited
    <3>2. Is(x, "done") /\ x \in Ident
      BY <2>2, <3>1 DEF WalkInv, Awaited, TypeOK
    <3> QED
      BY <2>2, <3>2 DEF WalkInv, ListedDone
  <2> QED
    BY <2>1, <2>2 DEF ListedOnce, WalkInv, NoRepeats
<1> QED
  BY <1>1, TypesCorrect, WalkInvariant, PTL

\* A circular dependency is reported only if there is one, for every schema.
THEOREM CircularAlwaysReal == Spec => []CircularIsReal
<1>1. WalkInv => CircularIsReal
  BY DEF WalkInv
<1> QED
  BY <1>1, WalkInvariant, PTL

\* What cannot be built has an entry.
LEMMA PanicAlwaysTyped == Spec => []PanicTyped
<1>1. Init => PanicTyped
  BY DEF Init, PanicTyped
<1>2. TypeOK /\ WalkInv /\ PanicTyped /\ [Next]_vars => PanicTyped'
  <2> SUFFICES ASSUME TypeOK, WalkInv, PanicTyped, [Next]_vars PROVE PanicTyped'
    OBVIOUS
  <2>1. CASE Panic
    <3>1. phase = "generate" /\ count \in Nat /\ count + 1 \in DOMAIN nodes /\ UNCHANGED <<nodes, count, bases>>
      BY <2>1 DEF Panic, TypeOK
    <3>2. Current \in DOMAIN bases
      BY <3>1 DEF Current, TypeOK, WalkInv, ListedDone
    <3> QED
      BY <3>1, <3>2 DEF PanicTyped, Current
  <2>2. phase' # "panic" \/ UNCHANGED <<phase, nodes, count, bases>> \/ Panic
    BY DEF Next, Work, Walk, NewEntry, CacheDone, NextKey, Skip, Descend, Circular, Leave, ListDone,
           GenerateNode, Finish, Terminated, Walking, vars
  <2>3. CASE phase' # "panic"
    BY <2>3 DEF PanicTyped
  <2>4. CASE UNCHANGED <<phase, nodes, count, bases>>
    BY <2>4 DEF PanicTyped, Current
  <2> QED
    BY <2>1, <2>2, <2>3, <2>4
<1> QED
  BY <1>1, <1>2, TypesCorrect, WalkInvariant, PTL DEF Spec

\* A base is missing only if the reference to it as a base is not the last one to
\* its name, for every schema whose bases are declared or given.
THEOREM OnlyLostBasesEverMissing ==
  ASSUME BasesDeclared
  PROVE  Spec => []OnlyLostBasesMissing
<1>1. Init => BuildInv
  BY BuildInit
<1>2. TypeOK /\ WalkInv /\ BuildInv /\ [Next]_vars => BuildInv'
  BY BuildStep
<1>3. BuildInv => OnlyLostBasesMissing
  BY DEF BuildInv
<1> QED
  BY <1>1, <1>2, <1>3, TypesCorrect, WalkInvariant, PTL DEF Spec

\* No base is missing when a type is built, in every schema in which no type
\* mentions its base again after it has named it.
THEOREM HardDependenciesAlwaysAvailable ==
  ASSUME LastStrong, BasesDeclared
  PROVE  Spec => []HardDependenciesAvailable
<1>1. Init => CleanInv
  BY CleanInit
<1>2. TypeOK /\ CleanInv /\ [Next]_vars => CleanInv'
  BY CleanStep
<1>3. CleanInv /\ PanicTyped /\ OnlyLostBasesMissing => HardDependenciesAvailable
  <2>1. SUFFICES ASSUME CleanInv, PanicTyped, phase = "panic", OnlyLostBasesMissing PROVE FALSE
    BY DEF HardDependenciesAvailable
  <2>2. PICK y \in bases[Current] : ~ Dependence(Current, y, {"strong"})
    BY <2>1 DEF OnlyLostBasesMissing
  <2> QED
    BY <2>1, <2>2 DEF CleanInv, PanicTyped
<1>4. Spec => []PanicTyped
  BY PanicAlwaysTyped
<1> QED
  BY <1>1, <1>2, <1>3, <1>4, TypesCorrect, OnlyLostBasesEverMissing, PTL DEF Spec
=============================================================================
