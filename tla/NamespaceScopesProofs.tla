------------------------ MODULE NamespaceScopesProofs ------------------------
(***************************************************************************)
(* Proofs about the NamespaceCollector, about the writer and the reader of *)
(* NamespaceScopes, for every schema, whatever types contain each other,   *)
(* and for documents of every size and depth.                              *)
(*                                                                         *)
(* 1. The collector, and what namespaces() answers (ReaderInv).            *)
(* 2. The writer: the table of active namespaces is that of the elements   *)
(*    that are open, and every name in a document is bound to the namespace *)
(*    it was written for, but for the exceptions the properties name.      *)
(*    The inductive invariant is WriterInv. Every action is mapped to one  *)
(*    of five steps (an element opens, opens with a scope that it does not *)
(*    end, is written whole, ends, or nothing is written), and each step   *)
(*    is shown to keep the invariant.                                      *)
(***************************************************************************)
EXTENDS NamespaceScopes, TLAPS, WellFoundedInduction, FiniteSetTheorems

-----------------------------------------------------------------------------
(* Sequences.                                                              *)

\* A set of numbers that is not empty has a least one.
LEMMA LeastNumber ==
  ASSUME NEW T \in SUBSET Nat, T # {}
  PROVE  \E x \in T : \A y \in T : x <= y
<1>1. IsWellFoundedOn({p \in Nat \X Nat : p[1] < p[2]}, Nat)
  BY NatLessThanWellFounded DEF OpToRel
<1>2. \E x \in T : \A y \in T : ~ (<<y, x>> \in {p \in Nat \X Nat : p[1] < p[2]})
  BY <1>1, WFMin
<1>3. \E x \in T : \A y \in T : ~ (y < x)
  BY <1>2
<1> QED
  BY <1>3

\* What s becomes when e is put on top.
LEMMA Pushed ==
  ASSUME NEW S, NEW s \in Seq(S), NEW e \in S
  PROVE  /\ Append(s, e) \in Seq(S)
         /\ Len(Append(s, e)) = Len(s) + 1
         /\ DOMAIN Append(s, e) = DOMAIN s \cup {Len(s) + 1}
         /\ Len(s) + 1 \notin DOMAIN s
         /\ \A i \in DOMAIN s : Append(s, e)[i] = s[i]
         /\ Append(s, e)[Len(s) + 1] = e
  OBVIOUS

\* What is left of s without its top.
LEMMA Popped ==
  ASSUME NEW S, NEW s \in Seq(S), s # <<>>
  PROVE  /\ Len(s) \in DOMAIN s /\ Len(s) \in Nat /\ Last(s) = s[Len(s)] /\ Last(s) \in S
         /\ Front(s) \in Seq(S)
         /\ Len(Front(s)) = Len(s) - 1
         /\ DOMAIN Front(s) = DOMAIN s \ {Len(s)}
         /\ \A i \in DOMAIN Front(s) : Front(s)[i] = s[i]
<1>1. /\ Len(s) \in Nat /\ Len(s) # 0 /\ DOMAIN s = 1 .. Len(s) /\ \A i \in DOMAIN s : s[i] \in S
  OBVIOUS
<1>2. /\ Len(s) - 1 \in Nat
      /\ Front(s) \in Seq(S) /\ Len(Front(s)) = Len(s) - 1
      /\ \A i \in 1 .. Len(s) - 1 : Front(s)[i] = s[i]
  BY <1>1 DEF Front
<1>3. DOMAIN Front(s) = 1 .. Len(s) - 1
  BY <1>2
<1> QED
  BY <1>1, <1>2, <1>3 DEF Last

\* What s becomes when e takes the place of its top.
LEMMA Replaced ==
  ASSUME NEW S, NEW s \in Seq(S), s # <<>>, NEW e \in S
  PROVE  /\ Append(Front(s), e) \in Seq(S)
         /\ DOMAIN Append(Front(s), e) = DOMAIN s
         /\ \A i \in DOMAIN s : i # Len(s) => Append(Front(s), e)[i] = s[i]
         /\ Append(Front(s), e)[Len(s)] = e
<1>1. /\ Len(s) \in DOMAIN s /\ Len(s) \in Nat /\ Front(s) \in Seq(S) /\ Len(Front(s)) = Len(s) - 1
      /\ DOMAIN Front(s) = DOMAIN s \ {Len(s)}
      /\ \A i \in DOMAIN Front(s) : Front(s)[i] = s[i]
  BY Popped
<1>2. /\ Append(Front(s), e) \in Seq(S)
      /\ DOMAIN Append(Front(s), e) = DOMAIN Front(s) \cup {Len(Front(s)) + 1}
      /\ \A i \in DOMAIN Front(s) : Append(Front(s), e)[i] = Front(s)[i]
      /\ Append(Front(s), e)[Len(Front(s)) + 1] = e
  BY <1>1, Pushed
<1>3. Len(Front(s)) + 1 = Len(s)
  BY <1>1
<1> QED
  BY <1>1, <1>2, <1>3

-----------------------------------------------------------------------------
(* What a type contains.                                                   *)

\* What is contained in a type is closed.
LEMMA ContainedClosed ==
  ASSUME NEW t \in Types
  PROVE  /\ Contained(t) \subseteq Types
         /\ t \in Contained(t)
         /\ \A u \in Contained(t) : TypesOf(u) \subseteq Contained(t)
<1>1. \A u : TypesOf(u) \subseteq Types
  BY DEF TypesOf, Merged
<1>2. \A u, v : u \in Contained(t) /\ v \in TypesOf(u) => v \in Contained(t)
  BY <1>1 DEF Contained
<1> QED
  BY <1>2 DEF Contained

\* It is the smallest such set.
LEMMA ContainedLeast ==
  ASSUME NEW t \in Types, NEW s \in SUBSET Types, t \in s, \A v \in s : TypesOf(v) \subseteq s
  PROVE  Contained(t) \subseteq s
  BY DEF Contained

\* What is contained in a part is contained in the whole.
LEMMA ContainedWithin ==
  ASSUME NEW t \in Types, NEW u \in Contained(t)
  PROVE  u \in Types /\ Contained(u) \subseteq Contained(t)
<1>1. Contained(t) \in SUBSET Types /\ \A v \in Contained(t) : TypesOf(v) \subseteq Contained(t)
  BY ContainedClosed
<1> QED
  BY <1>1, ContainedLeast

\* A type contains itself and what its members contain.
LEMMA ContainedParts ==
  ASSUME NEW t \in Types, NEW v \in Contained(t)
  PROVE  v = t \/ \E u \in TypesOf(t) : v \in Contained(u)
<1> DEFINE s == {t} \cup UNION {Contained(u) : u \in TypesOf(t)}
<1>1. TypesOf(t) \subseteq Types
  BY DEF TypesOf, Merged
<1>2. s \in SUBSET Types /\ t \in s
  BY <1>1, ContainedClosed
<1>3. ASSUME NEW w \in s PROVE TypesOf(w) \subseteq s
  <2>1. CASE w = t
    BY <1>1, <2>1, ContainedClosed
  <2>2. ASSUME NEW u \in TypesOf(t), w \in Contained(u) PROVE TypesOf(w) \subseteq s
    BY <1>1, <2>2, ContainedClosed
  <2> QED
    BY <2>1, <2>2
<1>4. Contained(t) \subseteq s
  <2> HIDE DEF s
  <2> QED
    BY <1>2, <1>3, ContainedLeast
<1> QED
  BY <1>4

\* What a part needs the whole needs.
LEMMA KeysOfParts ==
  ASSUME NEW t \in Types, NEW u \in Contained(t)
  PROVE  KeysWithin(u) \subseteq KeysWithin(t)
  BY ContainedWithin DEF KeysWithin

\* The types of the members are contained.
LEMMA MemberContained ==
  ASSUME NEW t \in Types, NEW i \in Merged(t)
  PROVE  LET u == schema.types[t].members[i].type
         IN  u \in TypesOf(t) /\ u \in Types /\ u \in Contained(t)
<1>1. schema.types[t].members[i].type \in TypesOf(t) /\ schema.types[t].members[i].type \in Types
  BY DEF TypesOf, Merged
<1> QED
  BY <1>1, ContainedClosed

-----------------------------------------------------------------------------
(* The collector walks depth first.  The calls in progress are of types    *)
(* that contain each other, so that a type in work that a call meets is one *)
(* that contains it: only then is anything left out.                       *)

AllKeys == UNION {OwnKeys(t) : t \in Types}
CallFrame == [type : Types, todo : SUBSET Nat, keys : SUBSET AllKeys]
State == {"absent", "in work", "done"}

Shape ==
  /\ schema \in Schemas
  /\ frames \in Seq(CallFrame)
  /\ cache \in [Types -> [state : State, keys : SUBSET AllKeys]]

\* Nothing is collected that the type does not need.
Sound ==
  /\ \A i \in DOMAIN frames :
       /\ frames[i].todo \subseteq Merged(frames[i].type)
       /\ frames[i].keys \subseteq KeysWithin(frames[i].type)
  /\ \A t \in Types : cache[t].keys \subseteq KeysWithin(t)

\* A call is made for a type that the types of the calls below contain.
CallsNested ==
  \A i, j \in DOMAIN frames : i <= j => frames[j].type \in Contained(frames[i].type)

\* The types in work are those of the calls, one call each.
WorkCalled ==
  \A t \in Types : cache[t].state = "in work" => \E i \in DOMAIN frames : frames[i].type = t
CallsInWork == \A i \in DOMAIN frames : cache[frames[i].type].state = "in work"
CallsDiffer == \A i, j \in DOMAIN frames : frames[i].type = frames[j].type => i = j

Merges(f, k) ==
  LET u == schema.types[f.type].members[k].type
  IN  cache[u].state = "done" /\ cache[u].keys \subseteq f.keys

\* A call has what its type needs itself, and of each member either its namespaces, or
\* the member is to be merged yet, or the type is part of a circle.
CallsComplete ==
  \A i \in DOMAIN frames :
    /\ OwnKeys(frames[i].type) \subseteq frames[i].keys
    /\ \A k \in Merged(frames[i].type) :
         k \in frames[i].todo \/ Merges(frames[i], k) \/ Circular(frames[i].type)

WithoutCircles(t) == \A u \in Contained(t) : ~ Circular(u)
DoneComplete ==
  \A t \in Types : cache[t].state = "done" /\ WithoutCircles(t) => KeysWithin(t) \subseteq cache[t].keys

CollectorInv ==
  /\ Shape /\ Sound /\ CallsNested /\ WorkCalled /\ CallsInWork /\ CallsDiffer
  /\ CallsComplete /\ DoneComplete

\* The schema is never changed, so neither is what depends on it alone.
Frozen ==
  /\ schema' = schema
  /\ Types' = Types /\ AllKeys' = AllKeys /\ CallFrame' = CallFrame
  /\ \A t : /\ Merged(t)' = Merged(t) /\ OwnKeys(t)' = OwnKeys(t) /\ KeysWithin(t)' = KeysWithin(t)
            /\ Contained(t)' = Contained(t) /\ Circular(t)' = Circular(t)
            /\ WithoutCircles(t)' = WithoutCircles(t)

LEMMA SchemaFrozen == ASSUME schema' = schema PROVE Frozen
<1>1. Types' = Types /\ \A t : Merged(t)' = Merged(t)
  BY DEF Types, Merged
<1>2. \A t : OwnKeys(t)' = OwnKeys(t)
  BY DEF OwnKeys, OwnKey, Emittable
<1>3. \A t : TypesOf(t)' = TypesOf(t)
  BY <1>1 DEF TypesOf
<1>4. \A t : Contained(t)' = Contained(t)
  BY <1>1, <1>3 DEF Contained
<1>5. \A t : Circular(t)' = Circular(t)
  BY <1>3, <1>4 DEF Circular
<1>6. \A t : WithoutCircles(t)' = WithoutCircles(t)
  BY <1>4, <1>5 DEF WithoutCircles
<1>7. \A t : KeysWithin(t)' = KeysWithin(t)
  BY <1>2, <1>4 DEF KeysWithin
<1>8. AllKeys' = AllKeys
  BY <1>1, <1>2 DEF AllKeys
<1>9. CallFrame' = CallFrame
  BY <1>1, <1>8 DEF CallFrame
<1> QED
  BY <1>1, <1>2, <1>4, <1>5, <1>6, <1>7, <1>8, <1>9 DEF Frozen

LEMMA CollectorInvInit == CollectorInit => CollectorInv
<1> SUFFICES ASSUME CollectorInit PROVE CollectorInv
  OBVIOUS
<1>1. frames = <<>> /\ schema \in Schemas /\ cache = [t \in Types |-> [state |-> "absent", keys |-> {}]]
  BY DEF CollectorInit, Absent
<1>2. frames \in Seq(CallFrame) /\ DOMAIN frames = {}
  BY <1>1
<1>3. Shape
  BY <1>1, <1>2 DEF Shape, State
<1> QED
  BY <1>1, <1>2, <1>3 DEF CollectorInv, Sound, CallsNested, WorkCalled, CallsInWork, CallsDiffer,
       CallsComplete, DoneComplete

\* A call that begins.
LEMMA FrameTyped ==
  ASSUME schema \in Schemas, NEW t \in Types
  PROVE  /\ Frame(t) \in CallFrame
         /\ Frame(t).type = t /\ Frame(t).todo = Merged(t) /\ Frame(t).keys = OwnKeys(t)
         /\ OwnKeys(t) \subseteq KeysWithin(t)
<1>1. schema.types[t].members \in Seq(Content(schema.types))
  BY SchemaAssumption DEF Types
<1>2. Merged(t) \subseteq Nat
  BY <1>1 DEF Merged
<1>3. OwnKeys(t) \subseteq AllKeys
  BY DEF AllKeys
<1>4. OwnKeys(t) \subseteq KeysWithin(t)
  BY ContainedClosed DEF KeysWithin
<1> QED
  BY <1>2, <1>3, <1>4 DEF Frame, CallFrame

\* What the call on top does next.
LEMMA MemberTaken ==
  ASSUME Shape, Sound, Merging
  PROVE  /\ Len(frames) \in DOMAIN frames /\ Top = frames[Len(frames)] /\ Top \in CallFrame
         /\ NextMember \in Top.todo /\ NextMember \in Merged(Top.type)
         /\ NextType = schema.types[Top.type].members[NextMember].type
         /\ NextType \in Types /\ NextType \in TypesOf(Top.type) /\ NextType \in Contained(Top.type)
<1>1. /\ Len(frames) \in DOMAIN frames /\ Top = frames[Len(frames)] /\ Top \in CallFrame
  BY Popped DEF Shape, Merging, Top
<1>2. Top.type \in Types /\ Top.todo \in SUBSET Nat /\ Top.todo # {} /\ Top.todo \subseteq Merged(Top.type)
  BY <1>1 DEF CallFrame, Sound, Merging
<1>3. NextMember \in Top.todo
  BY <1>2, LeastNumber DEF NextMember
<1>4. NextMember \in Merged(Top.type)
  BY <1>2, <1>3
<1> QED
  BY <1>1, <1>2, <1>3, <1>4, MemberContained DEF NextType

\* The calls are of types of the schema.
LEMMA CallTyped ==
  ASSUME Shape, NEW i \in DOMAIN frames
  PROVE  frames[i] \in CallFrame /\ frames[i].type \in Types /\ i <= Len(frames)
<1>1. frames[i] \in CallFrame /\ i <= Len(frames)
  BY DEF Shape
<1> QED
  BY <1>1 DEF CallFrame

\* A call that begins for a type that all the calls below contain.
LEMMA CallBegins ==
  ASSUME CollectorInv, NEW t \in Types, cache[t].state = "absent",
         \A i \in DOMAIN frames : t \in Contained(frames[i].type),
         frames' = Append(frames, Frame(t)), cache' = [cache EXCEPT ![t] = InWork], schema' = schema
  PROVE  CollectorInv'
<1> DEFINE n == Len(frames) + 1
<1>1. Frozen
  BY SchemaFrozen
<1>2. /\ frames \in Seq(CallFrame) /\ schema \in Schemas
      /\ cache \in [Types -> [state : State, keys : SUBSET AllKeys]]
  BY DEF CollectorInv, Shape
<1>3. /\ Frame(t) \in CallFrame
      /\ Frame(t).type = t /\ Frame(t).todo = Merged(t) /\ Frame(t).keys = OwnKeys(t)
      /\ OwnKeys(t) \subseteq KeysWithin(t)
  BY <1>2, FrameTyped
<1>4. /\ frames' \in Seq(CallFrame) /\ DOMAIN frames' = DOMAIN frames \cup {n} /\ n \notin DOMAIN frames
      /\ \A i \in DOMAIN frames : frames'[i] = frames[i]
      /\ frames'[n] = Frame(t)
  BY <1>2, <1>3, Pushed
<1>5. /\ cache' \in [Types -> [state : State, keys : SUBSET AllKeys]]
      /\ cache'[t].state = "in work" /\ cache'[t].keys = {}
      /\ \A u \in Types : u # t => cache'[u] = cache[u]
  BY <1>2 DEF InWork, State
<1>6. Shape'
  BY <1>1, <1>2, <1>4, <1>5 DEF Shape, Frozen
<1>7. Sound'
  <2>1. \A i \in DOMAIN frames' : /\ frames'[i].todo \subseteq Merged(frames'[i].type)
                                  /\ frames'[i].keys \subseteq KeysWithin(frames'[i].type)
    BY <1>3, <1>4 DEF CollectorInv, Sound
  <2>2. \A u \in Types : cache'[u].keys \subseteq KeysWithin(u)
    BY <1>5 DEF CollectorInv, Sound
  <2> QED
    BY <1>1, <2>1, <2>2 DEF Sound, Frozen
<1>8. CallsNested'
  <2>1. \A i \in DOMAIN frames : i <= n /\ ~ (n <= i)
    BY <1>2
  <2>2. t \in Contained(t)
    BY ContainedClosed
  <2>3. \A i, j \in DOMAIN frames' : i <= j => frames'[j].type \in Contained(frames'[i].type)
    BY <1>3, <1>4, <2>1, <2>2 DEF CollectorInv, CallsNested
  <2> QED
    BY <1>1, <2>3 DEF CallsNested, Frozen
<1>9. \A i \in DOMAIN frames : frames[i].type \in Types /\ frames[i].type # t
  BY CallTyped DEF CollectorInv, CallsInWork
<1>10. WorkCalled'
  <2>1. ASSUME NEW u \in Types, cache'[u].state = "in work"
        PROVE  \E i \in DOMAIN frames' : frames'[i].type = u
    <3>1. CASE u = t
      BY <1>3, <1>4, <3>1
    <3>2. CASE u # t
      <4>1. PICK i \in DOMAIN frames : frames[i].type = u
        BY <1>5, <2>1, <3>2 DEF CollectorInv, WorkCalled
      <4> QED
        BY <1>4, <4>1
    <3> QED
      BY <3>1, <3>2
  <2> QED
    BY <1>1, <2>1 DEF WorkCalled, Frozen
<1>11. CallsInWork'
  <2>1. ASSUME NEW i \in DOMAIN frames PROVE cache'[frames'[i].type].state = "in work"
    BY <1>4, <1>5, <1>9 DEF CollectorInv, CallsInWork
  <2>2. cache'[frames'[n].type].state = "in work"
    BY <1>3, <1>4, <1>5
  <2> QED
    BY <1>4, <2>1, <2>2 DEF CallsInWork
<1>12. CallsDiffer'
  <2>1. \A i, j \in DOMAIN frames : frames'[i].type = frames'[j].type => i = j
    BY <1>4 DEF CollectorInv, CallsDiffer
  <2>2. \A i \in DOMAIN frames : frames'[i].type # frames'[n].type
    BY <1>3, <1>4, <1>9
  <2> QED
    BY <1>4, <2>1, <2>2 DEF CallsDiffer
<1>13. CallsComplete'
  <2>1. ASSUME NEW i \in DOMAIN frames, NEW k \in Merged(frames[i].type), Merges(frames[i], k)
        PROVE  Merges(frames[i], k)'
    <3> DEFINE u == schema.types[frames[i].type].members[k].type
    <3>1. u \in Types /\ u # t
      BY <2>1 DEF Merges, Merged
    <3>2. cache'[u] = cache[u] /\ frames'[i] = frames[i]
      BY <1>4, <1>5, <3>1
    <3> QED
      BY <1>1, <2>1, <3>2 DEF Merges, Frozen
  <2>2. ASSUME NEW i \in DOMAIN frames
        PROVE  /\ OwnKeys(frames'[i].type) \subseteq frames'[i].keys
               /\ \A k \in Merged(frames'[i].type) :
                    k \in frames'[i].todo \/ Merges(frames[i], k)' \/ Circular(frames'[i].type)
    BY <1>4, <2>1 DEF CollectorInv, CallsComplete
  <2>3. /\ OwnKeys(frames'[n].type) \subseteq frames'[n].keys
        /\ \A k \in Merged(frames'[n].type) : k \in frames'[n].todo
    BY <1>3, <1>4
  <2> QED
    BY <1>1, <1>4, <2>2, <2>3 DEF CallsComplete, Frozen, Merges
<1>14. DoneComplete'
  <2>1. \A u \in Types : cache'[u].state = "done" /\ WithoutCircles(u) => KeysWithin(u) \subseteq cache'[u].keys
    BY <1>5 DEF CollectorInv, DoneComplete
  <2> QED
    BY <1>1, <2>1 DEF DoneComplete, Frozen
<1> QED
  BY <1>6, <1>7, <1>8, <1>10, <1>11, <1>12, <1>13, <1>14 DEF CollectorInv

LEMMA CollectStep == ASSUME CollectorInv, NEW t \in Types, Collect(t) PROVE CollectorInv'
<1>1. /\ cache[t].state = "absent" /\ schema' = schema /\ cache' = [cache EXCEPT ![t] = InWork]
      /\ frames = <<>> /\ frames' = <<Frame(t)>>
  BY DEF Collect
<1>2. frames' = Append(frames, Frame(t)) /\ DOMAIN frames = {}
  BY <1>1
<1> QED
  BY <1>1, <1>2, CallBegins

LEMMA MergeNewStep == ASSUME CollectorInv, MergeNew PROVE CollectorInv'
<1>1. /\ Merging /\ cache[NextType].state = "absent" /\ schema' = schema
      /\ frames' = Append(frames, Frame(NextType)) /\ cache' = [cache EXCEPT ![NextType] = InWork]
  BY DEF MergeNew
<1>2. /\ Len(frames) \in DOMAIN frames /\ Top = frames[Len(frames)]
      /\ NextType \in Types /\ NextType \in Contained(Top.type)
  BY <1>1, MemberTaken DEF CollectorInv
<1>3. \A i \in DOMAIN frames : frames[i].type \in Types /\ i <= Len(frames)
  BY CallTyped DEF CollectorInv
<1>4. \A i \in DOMAIN frames : Top.type \in Contained(frames[i].type)
  BY <1>2, <1>3 DEF CollectorInv, CallsNested
<1>5. \A i \in DOMAIN frames : NextType \in Contained(frames[i].type)
  BY <1>2, <1>3, <1>4, ContainedWithin
<1> QED
  BY <1>1, <1>2, <1>5, CallBegins

LEMMA MergeKnownStep == ASSUME CollectorInv, MergeKnown PROVE CollectorInv'
<1> PICK n, k0, u : n = Len(frames) /\ k0 = NextMember /\ u = NextType
  OBVIOUS
<1> PICK f : f = [Top EXCEPT !.todo = @ \ {k0}, !.keys = @ \cup cache[u].keys]
  OBVIOUS
<1>1. /\ Merging /\ cache[u].state # "absent" /\ schema' = schema /\ cache' = cache
      /\ frames' = Append(Front(frames), f)
  BY DEF MergeKnown
<1>2. Frozen
  BY <1>1, SchemaFrozen
<1>3. /\ n \in DOMAIN frames /\ Top = frames[n] /\ Top \in CallFrame
      /\ k0 \in Top.todo /\ k0 \in Merged(Top.type)
      /\ u = schema.types[Top.type].members[k0].type
      /\ u \in Types /\ u \in TypesOf(Top.type) /\ u \in Contained(Top.type)
  BY <1>1, MemberTaken DEF CollectorInv
<1>4. /\ frames \in Seq(CallFrame) /\ frames # <<>>
      /\ cache \in [Types -> [state : State, keys : SUBSET AllKeys]]
      /\ cache[u].state \in State /\ cache[u].keys \subseteq AllKeys
  BY <1>1, <1>3 DEF CollectorInv, Shape, Merging
<1>5. /\ f \in CallFrame /\ f.type = Top.type /\ f.todo = Top.todo \ {k0}
      /\ f.keys = Top.keys \cup cache[u].keys
  BY <1>3, <1>4 DEF CallFrame
<1>6. /\ frames' \in Seq(CallFrame) /\ DOMAIN frames' = DOMAIN frames
      /\ \A i \in DOMAIN frames : i # n => frames'[i] = frames[i]
      /\ frames'[n] = f
  BY <1>1, <1>4, <1>5, Replaced
<1>7. \A i \in DOMAIN frames : frames'[i].type = frames[i].type
  BY <1>3, <1>5, <1>6
<1>8. Shape'
  BY <1>1, <1>2, <1>6 DEF CollectorInv, Shape, Frozen
<1>9. Sound'
  <2>1. Top.type \in Types /\ cache[u].keys \subseteq KeysWithin(Top.type)
    BY <1>3, KeysOfParts DEF CollectorInv, Sound, CallFrame
  <2>2. \A i \in DOMAIN frames' : /\ frames'[i].todo \subseteq Merged(frames'[i].type)
                                  /\ frames'[i].keys \subseteq KeysWithin(frames'[i].type)
    BY <1>3, <1>5, <1>6, <1>7, <2>1 DEF CollectorInv, Sound
  <2>3. \A t \in Types : cache'[t].keys \subseteq KeysWithin(t)
    BY <1>1 DEF CollectorInv, Sound
  <2> QED
    BY <1>2, <2>2, <2>3 DEF Sound, Frozen
<1>10. CallsNested'
  BY <1>2, <1>6, <1>7 DEF CollectorInv, CallsNested, Frozen
<1>11. WorkCalled' /\ CallsInWork' /\ CallsDiffer'
  <2>1. \A t \in Types : cache[t].state = "in work" => \E i \in DOMAIN frames' : frames'[i].type = t
    BY <1>6, <1>7 DEF CollectorInv, WorkCalled
  <2>2. WorkCalled'
    BY <1>1, <1>2, <2>1 DEF WorkCalled, Frozen
  <2>3. CallsInWork'
    <3>1. \A i \in DOMAIN frames : cache[frames'[i].type].state = "in work"
      BY <1>7 DEF CollectorInv, CallsInWork
    <3> QED
      BY <1>1, <1>6, <3>1 DEF CallsInWork
  <2>4. CallsDiffer'
    BY <1>6, <1>7 DEF CollectorInv, CallsDiffer
  <2> QED
    BY <2>2, <2>3, <2>4
<1>12. CallsComplete'
  <2>1. ASSUME NEW i \in DOMAIN frames, NEW k \in Merged(frames[i].type), Merges(frames[i], k)
        PROVE  Merges(frames[i], k)'
    <3>1. frames[i].keys \subseteq frames'[i].keys
      BY <1>3, <1>5, <1>6
    <3> QED
      BY <1>1, <1>2, <1>7, <2>1, <3>1 DEF Merges, Frozen
  <2>2. ASSUME NEW j \in DOMAIN frames, j # n
        PROVE  /\ OwnKeys(frames'[j].type) \subseteq frames'[j].keys
               /\ \A k \in Merged(frames'[j].type) :
                    k \in frames'[j].todo \/ Merges(frames[j], k)' \/ Circular(frames'[j].type)
    BY <1>6, <2>1, <2>2 DEF CollectorInv, CallsComplete
  <2>3. OwnKeys(Top.type) \subseteq f.keys
    BY <1>3, <1>5 DEF CollectorInv, CallsComplete
  <2>4. CASE cache[u].state = "done"
    <3>1. Merges(f, k0)
      BY <1>3, <1>5, <2>4 DEF Merges
    <3>2. Merges(frames[n], k0)'
      BY <1>1, <1>2, <1>5, <1>6, <3>1 DEF Merges, Frozen
    <3>3. ASSUME NEW k \in Merged(Top.type)
          PROVE  k \in f.todo \/ Merges(frames[n], k)' \/ Circular(Top.type)
      <4>1. k \in Top.todo \/ Merges(Top, k) \/ Circular(Top.type)
        BY <1>3 DEF CollectorInv, CallsComplete
      <4>2. CASE k = k0
        BY <3>2, <4>2
      <4>3. CASE k # k0
        BY <1>3, <1>5, <2>1, <4>1, <4>3
      <4> QED
        BY <4>2, <4>3
    <3> QED
      BY <1>2, <1>3, <1>5, <1>6, <2>2, <2>3, <3>3 DEF CallsComplete, Frozen, Merges
  <2>5. CASE cache[u].state = "in work"
    <3>1. PICK i \in DOMAIN frames : frames[i].type = u
      BY <1>3, <2>5 DEF CollectorInv, WorkCalled
    <3>2. i <= n
      BY <1>4
    <3>3. Top.type \in Contained(u)
      BY <1>3, <3>1, <3>2 DEF CollectorInv, CallsNested
    <3>4. Circular(Top.type)
      BY <1>3, <3>3 DEF Circular
    <3> QED
      BY <1>2, <1>3, <1>5, <1>6, <2>2, <2>3, <3>4 DEF CallsComplete, Frozen, Merges
  <2> QED
    BY <1>1, <1>4, <2>4, <2>5 DEF State
<1>13. DoneComplete'
  BY <1>1, <1>2 DEF CollectorInv, DoneComplete, Frozen
<1> QED
  BY <1>8, <1>9, <1>10, <1>11, <1>12, <1>13 DEF CollectorInv

LEMMA CollectedStep == ASSUME CollectorInv, Collected PROVE CollectorInv'
<1> PICK n, t : n = Len(frames) /\ t = Top.type
  OBVIOUS
<1>1. /\ frames # <<>> /\ Top.todo = {} /\ schema' = schema /\ frames' = Front(frames)
      /\ cache' = [cache EXCEPT ![t] = [state |-> "done", keys |-> Top.keys]]
  BY DEF Collected, Done
<1>2. Frozen
  BY <1>1, SchemaFrozen
<1>3. frames \in Seq(CallFrame) /\ cache \in [Types -> [state : State, keys : SUBSET AllKeys]]
  BY DEF CollectorInv, Shape
<1>4. /\ n \in DOMAIN frames /\ Top = frames[n] /\ Top \in CallFrame
      /\ frames' \in Seq(CallFrame) /\ DOMAIN frames' = DOMAIN frames \ {n}
      /\ \A i \in DOMAIN frames' : frames'[i] = frames[i]
  BY <1>1, <1>3, Popped DEF Top
<1>5. t \in Types /\ Top.keys \subseteq AllKeys
  BY <1>4 DEF CallFrame
<1>6. /\ cache' \in [Types -> [state : State, keys : SUBSET AllKeys]]
      /\ cache'[t].state = "done" /\ cache'[t].keys = Top.keys
      /\ \A u \in Types : u # t => cache'[u] = cache[u]
  BY <1>1, <1>3, <1>5 DEF State
<1>7. \A i \in DOMAIN frames' : frames[i].type \in Types /\ frames[i].type # t
  BY <1>4, CallTyped DEF CollectorInv, CallsDiffer
<1>8. Shape'
  BY <1>1, <1>2, <1>4, <1>6 DEF CollectorInv, Shape, Frozen
<1>9. Sound'
  <2>1. \A i \in DOMAIN frames' : /\ frames'[i].todo \subseteq Merged(frames'[i].type)
                                  /\ frames'[i].keys \subseteq KeysWithin(frames'[i].type)
    BY <1>4 DEF CollectorInv, Sound
  <2>2. Top.keys \subseteq KeysWithin(t)
    BY <1>4 DEF CollectorInv, Sound
  <2>3. \A u \in Types : cache'[u].keys \subseteq KeysWithin(u)
    BY <1>6, <2>2 DEF CollectorInv, Sound
  <2> QED
    BY <1>2, <2>1, <2>3 DEF Sound, Frozen
<1>10. CallsNested' /\ CallsDiffer'
  BY <1>2, <1>4 DEF CollectorInv, CallsNested, CallsDiffer, Frozen
<1>11. WorkCalled'
  <2>1. ASSUME NEW u \in Types, cache'[u].state = "in work"
        PROVE  \E i \in DOMAIN frames' : frames'[i].type = u
    <3>1. u # t
      BY <1>6, <2>1
    <3>2. PICK i \in DOMAIN frames : frames[i].type = u
      BY <1>6, <2>1, <3>1 DEF CollectorInv, WorkCalled
    <3>3. i # n
      BY <1>4, <3>1, <3>2
    <3> QED
      BY <1>4, <3>2, <3>3
  <2> QED
    BY <1>2, <2>1 DEF WorkCalled, Frozen
<1>12. CallsInWork'
  <2>1. \A i \in DOMAIN frames' : cache'[frames[i].type].state = "in work"
    BY <1>4, <1>6, <1>7 DEF CollectorInv, CallsInWork
  <2> QED
    BY <1>4, <2>1 DEF CallsInWork
<1>13. CallsComplete'
  <2>1. ASSUME NEW i \in DOMAIN frames', NEW k \in Merged(frames[i].type), Merges(frames[i], k)
        PROVE  Merges(frames[i], k)'
    <3> DEFINE u == schema.types[frames[i].type].members[k].type
    <3>1. u \in Types /\ cache[u].state = "done"
      BY <2>1 DEF Merges, Merged
    <3>2. u # t
      BY <1>4, <3>1 DEF CollectorInv, CallsInWork
    <3>3. cache'[u] = cache[u] /\ frames'[i] = frames[i]
      BY <1>4, <1>6, <3>1, <3>2
    <3> QED
      BY <1>1, <2>1, <3>3 DEF Merges
  <2>2. ASSUME NEW i \in DOMAIN frames'
        PROVE  /\ OwnKeys(frames'[i].type) \subseteq frames'[i].keys
               /\ \A k \in Merged(frames'[i].type) :
                    k \in frames'[i].todo \/ Merges(frames[i], k)' \/ Circular(frames'[i].type)
    BY <1>4, <2>1 DEF CollectorInv, CallsComplete
  <2> QED
    BY <1>2, <2>2 DEF CallsComplete, Frozen, Merges
<1>14. DoneComplete'
  <2>1. ASSUME WithoutCircles(t) PROVE KeysWithin(t) \subseteq Top.keys
    <3>1. t \in Contained(t) /\ ~ Circular(t)
      BY <1>5, <2>1, ContainedClosed DEF WithoutCircles
    <3>2. OwnKeys(t) \subseteq Top.keys /\ \A k \in Merged(t) : Merges(Top, k)
      BY <1>1, <1>4, <3>1 DEF CollectorInv, CallsComplete
    <3>3. ASSUME NEW u \in TypesOf(t) PROVE KeysWithin(u) \subseteq Top.keys
      <4>1. PICK k \in Merged(t) : u = schema.types[t].members[k].type
        BY DEF TypesOf
      <4>2. cache[u].state = "done" /\ cache[u].keys \subseteq Top.keys
        BY <3>2, <4>1 DEF Merges
      <4>3. u \in Types /\ u \in Contained(t)
        BY <1>5, <4>1, MemberContained
      <4>4. WithoutCircles(u)
        BY <1>5, <2>1, <4>3, ContainedWithin DEF WithoutCircles
      <4>5. KeysWithin(u) \subseteq cache[u].keys
        BY <4>2, <4>3, <4>4 DEF CollectorInv, DoneComplete
      <4> QED
        BY <4>2, <4>5
    <3>4. ASSUME NEW v \in Contained(t) PROVE OwnKeys(v) \subseteq Top.keys
      <4>1. CASE v = t
        BY <3>2, <4>1
      <4>2. ASSUME NEW u \in TypesOf(t), v \in Contained(u) PROVE OwnKeys(v) \subseteq Top.keys
        BY <3>3, <4>2 DEF KeysWithin
      <4> QED
        BY <1>5, <4>1, <4>2, ContainedParts
    <3> QED
      BY <3>4 DEF KeysWithin
  <2>2. \A u \in Types : cache'[u].state = "done" /\ WithoutCircles(u) => KeysWithin(u) \subseteq cache'[u].keys
    BY <1>6, <2>1 DEF CollectorInv, DoneComplete
  <2> QED
    BY <1>2, <2>2 DEF DoneComplete, Frozen
<1> QED
  BY <1>8, <1>9, <1>10, <1>11, <1>12, <1>13, <1>14 DEF CollectorInv

\* What is collected says nothing of documents, so it does not change with them.
LEMMA SameCollector == ASSUME CollectorInv, UNCHANGED collector PROVE CollectorInv'
<1>1. Frozen /\ schema' = schema /\ cache' = cache /\ frames' = frames
  BY SchemaFrozen DEF collector
<1>2. Shape' /\ Sound'
  BY <1>1 DEF CollectorInv, Shape, Sound, Frozen
<1>3. CallsNested' /\ WorkCalled' /\ CallsInWork' /\ CallsDiffer'
  BY <1>1 DEF CollectorInv, CallsNested, WorkCalled, CallsInWork, CallsDiffer, Frozen
<1>4. CallsComplete' /\ DoneComplete'
  BY <1>1 DEF CollectorInv, CallsComplete, DoneComplete, Merges, Frozen
<1> QED
  BY <1>2, <1>3, <1>4 DEF CollectorInv

LEMMA CollectorSteps == ASSUME [ScopeNext]_scopeVars PROVE Collecting \/ UNCHANGED collector
<1>1. ASSUME NEW tag, NEW t, NEW isRoot, StartTyped(tag, t, isRoot) PROVE UNCHANGED collector
  BY <1>1 DEF StartTyped, Write
<1>2. ASSUME NEW t, WriteRoot(t) PROVE UNCHANGED collector
  BY <1>1, <1>2 DEF WriteRoot
<1>3. ASSUME NEW m, WriteTyped(m) \/ WriteSimple(m) \/ WriteNil(m) \/ WriteAnySimple(m)
      PROVE  UNCHANGED collector
  BY <1>1, <1>3 DEF WriteTyped, WriteSimple, WriteNil, WriteAnySimple, Write
<1>4. ASSUME NEW m, NEW bs, NEW b, NEW empty, WriteAny(m, bs, b, empty) PROVE UNCHANGED collector
  BY <1>4 DEF WriteAny, Write
<1>5. WriteMember => UNCHANGED collector
  BY <1>3, <1>4 DEF WriteMember
<1>6. WriteEnd => UNCHANGED collector
  BY DEF WriteEnd
<1>7. ASSUME NEW ask, Read(ask) PROVE UNCHANGED collector
  BY <1>7 DEF Read
<1>8. Written \/ UNCHANGED scopeVars => UNCHANGED collector
  BY DEF Written, scopeVars
<1> QED
  BY <1>2, <1>5, <1>6, <1>7, <1>8 DEF ScopeNext

LEMMA CollectorInvStep == ASSUME CollectorInv, [ScopeNext]_scopeVars PROVE CollectorInv'
  BY CollectorSteps, CollectStep, MergeKnownStep, MergeNewStep, CollectedStep, SameCollector DEF Collecting

LEMMA CollectorComplete == ASSUME CollectorInv PROVE CollectedComplete
<1>1. ASSUME NEW t \in Types, cache[t].state = "done", \A u \in Contained(t) : ~ Circular(u)
      PROVE  KeysWithin(t) \subseteq cache[t].keys
  BY <1>1 DEF CollectorInv, DoneComplete, WithoutCircles
<1> QED
  BY <1>1 DEF CollectorInv, Sound, CollectedComplete

-----------------------------------------------------------------------------
(* What is in scope.                                                       *)

IsList(s) == s \in Seq({s[i] : i \in DOMAIN s})

LEMMA ListAppended ==
  ASSUME NEW s, IsList(s), NEW e
  PROVE  /\ IsList(Append(s, e)) /\ Append(s, e) # <<>>
         /\ Len(s) \in Nat /\ DOMAIN s = 1 .. Len(s)
         /\ Len(Append(s, e)) = Len(s) + 1
         /\ DOMAIN Append(s, e) = DOMAIN s \cup {Len(s) + 1}
         /\ Len(s) + 1 \notin DOMAIN s
         /\ \A i \in DOMAIN s : Append(s, e)[i] = s[i]
         /\ Append(s, e)[Len(s) + 1] = e
<1> DEFINE S == {s[i] : i \in DOMAIN s} \cup {e}
           t == Append(s, e)
<1>1. s \in Seq(S) /\ e \in S
  BY DEF IsList
<1>2. /\ t \in Seq(S) /\ Len(t) = Len(s) + 1
      /\ DOMAIN t = DOMAIN s \cup {Len(s) + 1} /\ Len(s) + 1 \notin DOMAIN s
      /\ \A i \in DOMAIN s : t[i] = s[i]
      /\ t[Len(s) + 1] = e
  <2> HIDE DEF S
  <2> QED
    BY <1>1, Pushed
<1>3. Len(t) \in Nat /\ DOMAIN t = 1 .. Len(t) /\ Len(s) \in Nat /\ DOMAIN s = 1 .. Len(s) /\ t # <<>>
  BY <1>1, <1>2
<1>4. t \in Seq({t[i] : i \in DOMAIN t})
  BY <1>2, <1>3
<1> QED
  BY <1>2, <1>3, <1>4 DEF IsList

LEMMA ListShortened ==
  ASSUME NEW s, IsList(s), s # <<>>
  PROVE  /\ IsList(Front(s)) /\ Len(s) \in Nat \ {0} /\ DOMAIN s = 1 .. Len(s)
         /\ Len(Front(s)) = Len(s) - 1 /\ DOMAIN Front(s) = 1 .. Len(s) - 1
         /\ \A i \in 1 .. Len(s) - 1 : Front(s)[i] = s[i]
<1> DEFINE S == {s[i] : i \in DOMAIN s}
           t == Front(s)
<1>1. s \in Seq(S)
  BY DEF IsList
<1>2. /\ t \in Seq(S) /\ Len(t) = Len(s) - 1 /\ DOMAIN t = DOMAIN s \ {Len(s)}
      /\ \A i \in DOMAIN t : t[i] = s[i]
  <2> HIDE DEF S
  <2> QED
    BY <1>1, Popped
<1>3. Len(s) \in Nat \ {0} /\ DOMAIN s = 1 .. Len(s)
  BY <1>1
<1>4. DOMAIN t = 1 .. Len(s) - 1
  BY <1>2, <1>3
<1>5. t \in Seq({t[i] : i \in DOMAIN t})
  <2>1. t \in [1 .. Len(s) - 1 -> {t[i] : i \in DOMAIN t}]
    BY <1>2, <1>4
  <2> QED
    BY <1>3, <2>1
<1> QED
  BY <1>2, <1>3, <1>4, <1>5 DEF IsList

LEMMA FrontOfAppended ==
  ASSUME NEW s, IsList(s), NEW e
  PROVE  Front(Append(s, e)) = s
<1> DEFINE S == {s[i] : i \in DOMAIN s} \cup {e}
<1>1. s \in Seq(S) /\ e \in S
  BY DEF IsList
<1> HIDE DEF S
<1>2. Append(s, e) \in Seq(S) /\ Len(Append(s, e)) = Len(s) + 1 /\ Len(s) \in Nat
  BY <1>1
<1>3. SubSeq(Append(s, e), 1, Len(s)) = s
  BY <1>1, <1>2
<1> QED
  BY <1>2, <1>3 DEF Front

\* What is in scope of the first n elements.
PlacesTo(scope, n) == {p \in Places(scope) : p[1] <= n}
InScopeTo(scope, n) ==
  {At(scope, p) : p \in {p \in PlacesTo(scope, n) :
     \A q \in PlacesTo(scope, n) : At(scope, q).prefix = At(scope, p).prefix => ~ Before(p, q)}}

LEMMA SamePlaces ==
  ASSUME NEW s, NEW m, NEW t, NEW n, PlacesTo(s, m) = PlacesTo(t, n),
         \A p \in PlacesTo(t, n) : At(s, p) = At(t, p)
  PROVE  InScopeTo(s, m) = InScopeTo(t, n)
  BY DEF InScopeTo

LEMMA PlacesOf ==
  ASSUME NEW s, NEW n
  PROVE  PlacesTo(s, n) = UNION {{<<i, j>> : j \in DOMAIN s[i]} : i \in {i \in DOMAIN s : i <= n}}
  BY DEF PlacesTo, Places

\* Only the elements up to n count.
LEMMA SameScope ==
  ASSUME NEW s, NEW t, NEW n,
         {i \in DOMAIN s : i <= n} = {i \in DOMAIN t : i <= n},
         \A i \in {i \in DOMAIN s : i <= n} : s[i] = t[i]
  PROVE  InScopeTo(s, n) = InScopeTo(t, n)
<1> DEFINE D == {i \in DOMAIN s : i <= n}
<1>1. \A i \in D : s[i] = t[i]
  OBVIOUS
<1>2. UNION {{<<i, j>> : j \in DOMAIN s[i]} : i \in D} = UNION {{<<i, j>> : j \in DOMAIN t[i]} : i \in D}
  BY <1>1
<1>3. PlacesTo(s, n) = PlacesTo(t, n)
  BY <1>2, PlacesOf
<1>4. \A p \in PlacesTo(t, n) : p[1] \in D
  BY PlacesOf
<1>5. \A p \in PlacesTo(t, n) : At(s, p) = At(t, p)
  BY <1>1, <1>4 DEF At
<1> QED
  BY <1>3, <1>5, SamePlaces

\* Elements without xmlns attributes do not count.
LEMMA QuietScope ==
  ASSUME NEW s, IsList(s), NEW n \in Nat, \A i \in DOMAIN s : i > n => s[i] = <<>>
  PROVE  InScopeTo(s, n) = InScope(s)
<1>1. DOMAIN s \subseteq Nat
  BY DEF IsList
<1>2. Places(s) \subseteq PlacesTo(s, n)
  BY <1>1 DEF Places, PlacesTo
<1>3. PlacesTo(s, n) = Places(s)
  BY <1>2 DEF PlacesTo
<1> QED
  BY <1>3 DEF InScopeTo, InScope

\* What is popped is what is outdated.
LEMMA OutdatedPopped ==
  ASSUME NEW s, IsList(s), s # <<>>, NEW to \in Nat,
         \A i \in DOMAIN s : s[i].level \in Nat, s[1].level <= to
  PROVE  \E k \in DOMAIN s :
           /\ PopOutdated(s, to) = SubSeq(s, 1, k)
           /\ s[k].level <= to /\ \A i \in k + 1 .. Len(s) : s[i].level > to
<1> DEFINE T == {Len(s) - i : i \in {i \in DOMAIN s : s[i].level <= to}}
           Left(k) == /\ k = 0 \/ s[k].level <= to
                      /\ \A i \in k + 1 .. Len(s) : s[i].level > to
<1>1. Len(s) \in Nat \ {0} /\ DOMAIN s = 1 .. Len(s)
  BY DEF IsList
<1>2. T \in SUBSET Nat /\ T # {}
  BY <1>1
<1>3. PICK n \in T : \A m \in T : n <= m
  BY <1>2, LeastNumber
<1>4. PICK i \in DOMAIN s : s[i].level <= to /\ n = Len(s) - i
  OBVIOUS
<1>5. \A j \in DOMAIN s : s[j].level <= to => n <= Len(s) - j
  BY <1>3
<1>6. \A j \in i + 1 .. Len(s) : s[j].level > to
  BY <1>1, <1>4, <1>5
<1>7. \E k \in 0 .. Len(s) : Left(k)
  BY <1>1, <1>4, <1>6
<1>8. PICK k : k = CHOOSE m \in 0 .. Len(s) : Left(m)
  OBVIOUS
<1>9. k \in 0 .. Len(s) /\ Left(k)
  <2> HIDE DEF Left
  <2> QED
    BY <1>7, <1>8
<1>10. k # 0
  BY <1>1, <1>9
<1>11. PopOutdated(s, to) = SubSeq(s, 1, k)
  BY <1>8 DEF PopOutdated
<1> QED
  BY <1>1, <1>9, <1>10, <1>11

-----------------------------------------------------------------------------
(* The reader.                                                             *)

IsReader(r) ==
  /\ r = [level |-> r.level, resolver |-> r.resolver, cached |-> r.cached,
          pending |-> r.pending, asked |-> r.asked, answer |-> r.answer]
  /\ IsList(r.resolver) /\ IsList(r.cached)
  /\ r.level = Len(r.resolver)
  /\ r.pending \in BOOLEAN /\ (r.pending => r.resolver # <<>>)

\* What is kept of an element is what was in scope of it.
IsKept(e, resolver) ==
  /\ e = [level |-> e.level, value |-> e.value, known |-> e.known]
  /\ e.level \in 0 .. Len(resolver)
  /\ e.known => e.value = InScopeTo(resolver, e.level)

\* There is an entry for each element that has xmlns attributes, innermost last, and one
\* for the document.
IsCache(c, resolver) ==
  /\ c # <<>> /\ c[1].level = 0
  /\ \A k \in DOMAIN c : IsKept(c[k], resolver)
  /\ \A j, k \in DOMAIN c : j < k => c[j].level < c[k].level
  /\ \A i \in DOMAIN resolver : resolver[i] # <<>> => \E k \in DOMAIN c : c[k].level = i

Reads(r) == IsReader(r) /\ IsCache(r.cached, r.resolver)

\* The scopes that stay when the next event is handled.
Staying(r) == IF r.pending THEN Front(r.resolver) ELSE r.resolver

LEMMA CacheShortened ==
  ASSUME NEW c, NEW s, IsList(c), IsList(s), s # <<>>, IsCache(c, s)
  PROVE  /\ IsList(PopOutdated(c, Len(s) - 1))
         /\ IsCache(PopOutdated(c, Len(s) - 1), Front(s))
<1> DEFINE to == Len(s) - 1
           d == PopOutdated(c, to)
           t == Front(s)
<1>1. /\ IsList(t) /\ Len(s) \in Nat \ {0} /\ DOMAIN s = 1 .. Len(s)
      /\ Len(t) = to /\ DOMAIN t = 1 .. to /\ \A i \in 1 .. to : t[i] = s[i]
  BY ListShortened
<1>2. Len(c) \in Nat \ {0} /\ DOMAIN c = 1 .. Len(c)
  BY DEF IsList, IsCache
<1>3. \A k \in DOMAIN c : c[k].level \in 0 .. Len(s)
  BY DEF IsCache, IsKept
<1>4. to \in Nat /\ c[1].level <= to
  BY <1>1 DEF IsCache
<1>5. PICK k \in DOMAIN c : /\ d = SubSeq(c, 1, k)
                            /\ c[k].level <= to /\ \A i \in k + 1 .. Len(c) : c[i].level > to
  <2> HIDE DEF to
  <2>1. \A i \in DOMAIN c : c[i].level \in Nat
    BY <1>1, <1>3
  <2> QED
    BY <1>4, <2>1, OutdatedPopped DEF IsCache
<1> HIDE DEF to, d, t
<1>6. IsList(d) /\ Len(d) = k /\ DOMAIN d = 1 .. k /\ \A i \in 1 .. k : d[i] = c[i]
  <2>1. c \in Seq({c[i] : i \in DOMAIN c}) /\ k \in 1 .. Len(c)
    BY <1>2, <1>5 DEF IsList
  <2>2. Len(d) = k /\ DOMAIN d = 1 .. k /\ \A i \in 1 .. k : d[i] = c[i]
    BY <1>2, <1>5, <2>1
  <2>3. d \in Seq({c[i] : i \in DOMAIN c})
    BY <1>2, <1>5, <2>1
  <2>4. d \in [1 .. k -> {d[i] : i \in DOMAIN d}]
    BY <2>2, <2>3
  <2>5. k \in Nat /\ DOMAIN d = 1 .. k
    BY <1>2, <2>2
  <2>6. d \in Seq({d[i] : i \in DOMAIN d})
    BY <2>4, <2>5
  <2> QED
    BY <2>2, <2>6 DEF IsList
<1>7. d # <<>> /\ d[1].level = 0
  BY <1>2, <1>5, <1>6 DEF IsCache
<1>8. \A i, j \in DOMAIN d : i < j => d[i].level < d[j].level
  BY <1>2, <1>5, <1>6 DEF IsCache
<1>9. ASSUME NEW i \in DOMAIN d PROVE IsKept(d[i], t)
  <2>1. i \in DOMAIN c /\ k \in DOMAIN c /\ d[i] = c[i] /\ IsKept(c[i], s)
    BY <1>2, <1>5, <1>6 DEF IsCache
  <2>2. i = k \/ c[i].level < c[k].level
    BY <1>2, <1>5, <1>6, <2>1 DEF IsCache
  <2>3. c[i].level \in 0 .. to
    BY <1>1, <1>3, <1>4, <1>5, <2>1, <2>2
  <2>4. InScopeTo(s, c[i].level) = InScopeTo(t, c[i].level)
    <3> DEFINE m == c[i].level
    <3>1. \A j \in DOMAIN s : j <= m => j \in 1 .. to
      BY <1>1, <1>4, <2>3
    <3>2. DOMAIN t \subseteq DOMAIN s
      BY <1>1 DEF to
    <3>3. {j \in DOMAIN s : j <= m} = {j \in DOMAIN t : j <= m}
      BY <1>1, <3>1, <3>2
    <3>4. \A j \in {j \in DOMAIN s : j <= m} : s[j] = t[j]
      BY <1>1, <3>1
    <3> HIDE DEF m
    <3> QED
      BY <3>3, <3>4, SameScope DEF m
  <2> QED
    BY <1>1, <2>1, <2>3, <2>4 DEF IsKept
<1>10. ASSUME NEW i \in DOMAIN t, t[i] # <<>> PROVE \E j \in DOMAIN d : d[j].level = i
  <2>1. i \in DOMAIN s /\ s[i] # <<>> /\ i <= to
    BY <1>1, <1>10 DEF to
  <2>2. PICK j \in DOMAIN c : c[j].level = i
    BY <2>1 DEF IsCache
  <2>3. j \in 1 .. k
    BY <1>2, <1>4, <1>5, <2>1, <2>2
  <2> QED
    BY <1>6, <2>2, <2>3
<1>11. IsCache(d, t)
  BY <1>7, <1>8, <1>9, <1>10 DEF IsCache
<1> QED
  BY <1>6, <1>11 DEF d, t, to

LEMMA CacheGrown ==
  ASSUME NEW c, NEW s, IsList(c), IsList(s), IsCache(c, s), NEW x
  PROVE  LET e == [level |-> Len(s) + 1, value |-> {}, known |-> FALSE]
         IN  /\ x = <<>> => IsCache(c, Append(s, x))
             /\ IsList(Append(c, e)) /\ IsCache(Append(c, e), Append(s, x))
<1> DEFINE t == Append(s, x)
           e == [level |-> Len(s) + 1, value |-> {}, known |-> FALSE]
           d == Append(c, e)
<1>1. /\ IsList(t) /\ Len(s) \in Nat /\ DOMAIN s = 1 .. Len(s) /\ Len(t) = Len(s) + 1
      /\ DOMAIN t = DOMAIN s \cup {Len(s) + 1} /\ Len(s) + 1 \notin DOMAIN s
      /\ \A i \in DOMAIN s : t[i] = s[i]
      /\ t[Len(s) + 1] = x
  BY ListAppended
<1>2. /\ IsList(d) /\ d # <<>> /\ Len(c) \in Nat /\ DOMAIN c = 1 .. Len(c)
      /\ DOMAIN d = DOMAIN c \cup {Len(c) + 1} /\ Len(c) + 1 \notin DOMAIN c
      /\ \A i \in DOMAIN c : d[i] = c[i]
      /\ d[Len(c) + 1] = e
  BY ListAppended
<1>3. Len(c) # 0
  BY <1>2 DEF IsCache, IsList
<1> HIDE DEF t, d
<1>4. ASSUME NEW k \in DOMAIN c PROVE IsKept(c[k], t)
  <2>1. IsKept(c[k], s)
    BY DEF IsCache
  <2>2. InScopeTo(s, c[k].level) = InScopeTo(t, c[k].level)
    <3>1. c[k].level \in 0 .. Len(s)
      BY <2>1 DEF IsKept
    <3> DEFINE m == c[k].level
    <3>2. {j \in DOMAIN s : j <= m} = {j \in DOMAIN t : j <= m}
      BY <1>1, <3>1
    <3>3. \A j \in {j \in DOMAIN s : j <= m} : s[j] = t[j]
      BY <1>1
    <3> HIDE DEF m
    <3> QED
      BY <3>2, <3>3, SameScope DEF m
  <2> QED
    BY <1>1, <2>1, <2>2 DEF IsKept
<1>5. IsKept(e, t)
  BY <1>1 DEF IsKept
<1>6. ASSUME NEW i \in DOMAIN t, t[i] # <<>>, i # Len(s) + 1 PROVE \E k \in DOMAIN c : c[k].level = i
  BY <1>1, <1>6 DEF IsCache
<1>7. x = <<>> => IsCache(c, t)
  BY <1>1, <1>4, <1>6 DEF IsCache
<1>8. \A k \in DOMAIN d : IsKept(d[k], t)
  BY <1>2, <1>4, <1>5
<1>9. \A j, k \in DOMAIN d : j < k => d[j].level < d[k].level
  <2>1. \A j \in DOMAIN c : c[j].level < e.level /\ j < Len(c) + 1
    BY <1>1, <1>2 DEF IsCache, IsKept
  <2>2. \A j, k \in DOMAIN c : j < k => c[j].level < c[k].level
    BY DEF IsCache
  <2> QED
    BY <1>2, <2>1, <2>2
<1>10. \A i \in DOMAIN t : t[i] # <<>> => \E k \in DOMAIN d : d[k].level = i
  BY <1>2, <1>6
<1>11. d[1].level = 0
  BY <1>2, <1>3 DEF IsCache
<1>12. IsCache(d, t)
  BY <1>2, <1>8, <1>9, <1>10, <1>11 DEF IsCache
<1> QED
  BY <1>2, <1>7, <1>12 DEF t, d

LEMMA LeaveReads ==
  ASSUME NEW r, Reads(r)
  PROVE  Reads(Leave(r)) /\ Leave(r).resolver = Staying(r) /\ Leave(r).pending = FALSE
<1>1. CASE ~ r.pending
  BY <1>1 DEF Leave, Staying, Reads, IsReader
<1>2. CASE r.pending
  <2> PICK c : c = PopOutdated(r.cached, r.level - 1)
    OBVIOUS
  <2> PICK x : x = Leave(r)
    OBVIOUS
  <2>1. x = [level |-> r.level - 1, resolver |-> Front(r.resolver), cached |-> c,
             pending |-> FALSE, asked |-> r.asked, answer |-> r.answer]
    BY <1>2 DEF Leave, Reads, IsReader
  <2>2. /\ r.resolver # <<>> /\ r.level = Len(r.resolver)
        /\ IsList(r.resolver) /\ IsList(r.cached) /\ IsCache(r.cached, r.resolver)
    BY <1>2 DEF Reads, IsReader
  <2>3. IsList(c) /\ IsCache(c, Front(r.resolver))
    BY <2>2, CacheShortened
  <2>4. IsList(Front(r.resolver)) /\ Len(Front(r.resolver)) = r.level - 1
    BY <2>2, ListShortened
  <2>5. Reads(x)
    BY <2>1, <2>3, <2>4 DEF Reads, IsReader
  <2> QED
    BY <1>2, <2>1, <2>5 DEF Staying
<1> QED
  BY <1>1, <1>2

LEMMA EnterReads ==
  ASSUME NEW r, Reads(r)
  PROVE  /\ Reads(Enter(r)) /\ Enter(r).resolver = Append(r.resolver, wire.declares)
         /\ (Enter(r).pending <=> wire.kind = "empty")
<1> PICK e, s : /\ e = [level |-> r.level + 1, value |-> {}, known |-> FALSE]
                /\ s = Append(r.resolver, wire.declares)
  OBVIOUS
<1> PICK c : c = IF wire.declares = <<>> THEN r.cached ELSE Append(r.cached, e)
  OBVIOUS
<1> PICK x : x = Enter(r)
  OBVIOUS
<1>1. x = [level |-> r.level + 1, resolver |-> s, cached |-> c,
           pending |-> (wire.kind = "empty"), asked |-> r.asked, answer |-> r.answer]
  BY DEF Enter, Reads, IsReader
<1>2. /\ r.level = Len(r.resolver)
      /\ IsList(r.resolver) /\ IsList(r.cached) /\ IsCache(r.cached, r.resolver)
  BY DEF Reads, IsReader
<1>3. /\ wire.declares = <<>> => IsCache(r.cached, s)
      /\ IsList(Append(r.cached, e)) /\ IsCache(Append(r.cached, e), s)
  BY <1>2, CacheGrown
<1>4. IsList(c) /\ IsCache(c, s)
  BY <1>2, <1>3
<1>5. IsList(s) /\ s # <<>> /\ Len(s) = r.level + 1
  BY <1>2, ListAppended
<1>6. Reads(x)
  BY <1>1, <1>4, <1>5 DEF Reads, IsReader
<1>7. x.resolver = s /\ x.pending = (wire.kind = "empty")
  BY <1>1
<1> QED
  BY <1>6, <1>7

LEMMA HandleReads ==
  ASSUME NEW r, Reads(r), wire.kind = "end" => Staying(r) # <<>>
  PROVE  LET h == HandleEvent(r)
         IN  /\ Reads(h)
             /\ h.resolver = IF wire.kind = "end" THEN Staying(r) ELSE Append(Staying(r), wire.declares)
             /\ (h.pending <=> wire.kind \in {"empty", "end"})
<1> PICK l : l = Leave(r)
  OBVIOUS
<1>1. Reads(l) /\ l.resolver = Staying(r) /\ l.pending = FALSE
  BY LeaveReads
<1>2. CASE wire.kind = "end"
  <2> PICK x : x = HandleEvent(r)
    OBVIOUS
  <2>1. x = [level |-> l.level, resolver |-> l.resolver, cached |-> l.cached,
             pending |-> TRUE, asked |-> l.asked, answer |-> l.answer]
    BY <1>1, <1>2 DEF HandleEvent, Reads, IsReader
  <2>2. Reads(x)
    BY <1>1, <1>2, <2>1 DEF Reads, IsReader
  <2>3. x.resolver = Staying(r) /\ x.pending
    BY <1>1, <2>1
  <2> QED
    BY <1>2, <2>2, <2>3
<1>3. CASE wire.kind # "end"
  <2>1. HandleEvent(r) = Enter(l)
    BY <1>3 DEF HandleEvent
  <2> QED
    BY <1>1, <1>3, <2>1, EnterReads
<1> QED
  BY <1>2, <1>3

\* The answer is right, and it is kept for the element whose namespaces it is.
LEMMA NamespacesReads ==
  ASSUME NEW r, Reads(r)
  PROVE  LET a == Namespaces(r)
         IN  /\ Reads(a) /\ a.resolver = r.resolver /\ a.pending = r.pending
             /\ a.answer = InScope(r.resolver)
<1> PICK c, s, n : c = r.cached /\ s = r.resolver /\ n = Len(c)
  OBVIOUS
<1>1. IsList(c) /\ IsList(s) /\ IsCache(c, s) /\ c # <<>>
  BY DEF Reads, IsReader, IsCache
<1> PICK e : e = Last(c)
  OBVIOUS
<1> PICK v : v = IF e.known THEN e.value ELSE InScope(s)
  OBVIOUS
<1> PICK f : f = [e EXCEPT !.known = TRUE, !.value = v]
  OBVIOUS
<1> PICK d : d = Append(Front(c), f)
  OBVIOUS
<1>2. /\ IsList(Front(c)) /\ n \in Nat \ {0} /\ DOMAIN c = 1 .. n /\ Len(Front(c)) = n - 1
      /\ DOMAIN Front(c) = 1 .. n - 1 /\ \A i \in 1 .. n - 1 : Front(c)[i] = c[i]
  BY <1>1, ListShortened
<1>3. /\ IsList(d) /\ d # <<>> /\ DOMAIN d = 1 .. n
      /\ \A i \in 1 .. n - 1 : d[i] = c[i]
      /\ d[n] = f
  <2>1. /\ IsList(d) /\ d # <<>> /\ DOMAIN d = DOMAIN Front(c) \cup {Len(Front(c)) + 1}
        /\ \A i \in DOMAIN Front(c) : d[i] = Front(c)[i]
        /\ d[Len(Front(c)) + 1] = f
    BY <1>2, ListAppended
  <2> QED
    BY <1>2, <2>1
<1>4. e = c[n] /\ IsKept(e, s)
  BY <1>1, <1>2 DEF Last, IsCache
<1>5. Len(s) \in Nat /\ DOMAIN s = 1 .. Len(s)
  BY <1>1 DEF IsList
<1>6. \A i \in DOMAIN s : i > e.level => s[i] = <<>>
  <2>1. ASSUME NEW k \in DOMAIN c PROVE c[k].level <= e.level
    <3>1. k = n \/ c[k].level < c[n].level
      BY <1>1, <1>2 DEF IsCache
    <3>2. IsKept(c[k], s) /\ IsKept(e, s)
      BY <1>1, <1>4 DEF IsCache
    <3>3. c[k].level \in Nat /\ e.level \in Nat
      BY <1>5, <3>2 DEF IsKept
    <3> QED
      BY <1>4, <3>1, <3>3
  <2>2. \A i \in DOMAIN s : s[i] # <<>> => \E k \in DOMAIN c : c[k].level = i
    BY <1>1 DEF IsCache
  <2> QED
    BY <1>4, <1>5, <2>1, <2>2 DEF IsKept
<1>7. InScopeTo(s, e.level) = InScope(s)
  BY <1>1, <1>4, <1>5, <1>6, QuietScope DEF IsKept
<1>8. v = InScope(s) /\ f = [level |-> e.level, value |-> v, known |-> TRUE] /\ IsKept(f, s)
  <2>1. v = InScope(s)
    BY <1>4, <1>7 DEF IsKept
  <2>2. f = [level |-> e.level, value |-> v, known |-> TRUE]
    BY <1>4 DEF IsKept
  <2> QED
    BY <1>4, <1>7, <2>1, <2>2 DEF IsKept
<1>9. IsCache(d, s)
  <2>1. \A k \in DOMAIN d : d[k].level = c[k].level
    BY <1>2, <1>3, <1>4, <1>8
  <2>2. \A k \in DOMAIN d : IsKept(d[k], s)
    BY <1>1, <1>2, <1>3, <1>8 DEF IsCache
  <2>3. \A j, k \in DOMAIN d : j < k => d[j].level < d[k].level
    BY <1>1, <1>2, <1>3, <2>1 DEF IsCache
  <2>4. d[1].level = 0 /\ \A i \in DOMAIN s : s[i] # <<>> => \E k \in DOMAIN d : d[k].level = i
    BY <1>1, <1>2, <1>3, <2>1 DEF IsCache
  <2> QED
    BY <1>3, <2>2, <2>3, <2>4 DEF IsCache
<1> PICK x : x = Namespaces(r)
  OBVIOUS
<1>10. x = [level |-> r.level, resolver |-> s, cached |-> d, pending |-> r.pending,
            asked |-> TRUE, answer |-> v]
  <2>1. x = [r EXCEPT !.cached = d, !.asked = TRUE, !.answer = v]
    BY DEF Namespaces, Bound
  <2> QED
    BY <2>1 DEF Reads, IsReader
<1>11. Reads(x)
  BY <1>3, <1>9, <1>10 DEF Reads, IsReader
<1> QED
  BY <1>8, <1>10, <1>11

-----------------------------------------------------------------------------
(* The reader follows the writer.                                          *)

Begun(d) ==
  ~ unread /\ unread' = TRUE /\ reader' = reader /\ wire'.declares = d /\ wire'.scope = Append(Scope, d)
StartWritten == \E d, e : Begun(d) /\ wire'.kind = "start" /\ open' = Append(open, e) /\ e.xmlns = d
EmptyWritten == \E d : Begun(d) /\ wire'.kind = "empty" /\ open' = open
EndWritten ==
  /\ ~ unread /\ unread' = TRUE /\ reader' = reader
  /\ wire'.kind = "end" /\ wire'.scope = Scope
  /\ open # <<>> /\ open' = Front(open)

\* A step writes the start or the end of an element, or reads what was written.
LEMMA DocumentSteps ==
  ASSUME [ScopeNext]_scopeVars
  PROVE  \/ StartWritten \/ EmptyWritten \/ EndWritten
         \/ \E ask \in BOOLEAN : Read(ask)
         \/ UNCHANGED <<open, wire, unread, reader>>
<1>1. ASSUME NEW names, NEW home, NEW h, NEW after, CanWrite, Write("empty", names, home, h, after), open' = open
      PROVE  EmptyWritten
  BY <1>1 DEF Write, CanWrite, EmptyWritten, Begun
<1>2. ASSUME NEW names, NEW home, NEW h, NEW after, CanWrite, Write("start", names, home, h, after),
             NEW ns, NEW members, NEW scoped, Push(ns, members, scoped, h, names, home)
      PROVE  StartWritten
  BY <1>2 DEF Write, CanWrite, StartWritten, Begun, Push
<1>3. ASSUME NEW tag, NEW t, NEW isRoot, CanWrite, StartTyped(tag, t, isRoot)
      PROVE  StartWritten \/ EmptyWritten
  BY <1>1, <1>2, <1>3 DEF StartTyped
<1>4. CanStart => CanWrite
  BY DEF CanStart
<1>5. ASSUME NEW t, WriteRoot(t) PROVE StartWritten \/ EmptyWritten
  BY <1>3, <1>4, <1>5 DEF WriteRoot
<1>6. ASSUME NEW m, WriteTyped(m) PROVE StartWritten \/ EmptyWritten
  BY <1>3, <1>4, <1>6 DEF WriteTyped
<1>7. ASSUME NEW m, WriteSimple(m) PROVE StartWritten
  BY <1>2, <1>4, <1>7 DEF WriteSimple
<1>8. ASSUME NEW m, WriteNil(m) PROVE EmptyWritten
  BY <1>1, <1>4, <1>8 DEF WriteNil
<1>9. ASSUME NEW m, WriteAnySimple(m) PROVE StartWritten
  BY <1>2, <1>4, <1>9 DEF WriteAnySimple
<1>10. ASSUME NEW m, NEW bs, NEW b, NEW empty, WriteAny(m, bs, b, empty) PROVE StartWritten \/ EmptyWritten
  BY <1>1, <1>2, <1>4, <1>10 DEF WriteAny
<1>11. WriteMember => StartWritten \/ EmptyWritten
  BY <1>6, <1>7, <1>8, <1>9, <1>10 DEF WriteMember
<1>12. WriteEnd => EndWritten
  BY DEF WriteEnd, CanWrite, EndWritten
<1>13. CASE schema.mode = "global" /\ Collecting /\ UNCHANGED <<writer, unread, reader>>
  BY <1>13 DEF writer
<1>14. CASE Written \/ UNCHANGED scopeVars
  BY <1>14 DEF Written, scopeVars, writer
<1> QED
  BY <1>5, <1>11, <1>12, <1>13, <1>14 DEF ScopeNext

\* The resolver has the elements that are open, and the one whose end was read last.
Following ==
  /\ ~ unread => /\ reader.resolver = wire.scope /\ Staying(reader) = Scope
                 /\ reader.asked => reader.answer = InScope(reader.resolver)
  /\ unread =>
       \/ /\ wire.kind = "start" /\ wire.scope = Append(Staying(reader), wire.declares)
          /\ Scope = wire.scope
       \/ /\ wire.kind = "empty" /\ wire.scope = Append(Staying(reader), wire.declares)
          /\ Scope = Staying(reader)
       \/ /\ wire.kind = "end" /\ wire.scope = Staying(reader) /\ Staying(reader) # <<>>
          /\ Scope = Front(Staying(reader))

ReaderInv == Reads(reader) /\ IsList(open) /\ unread \in BOOLEAN /\ Following

LEMMA ReaderInit == ScopeInit => ReaderInv
<1> SUFFICES ASSUME ScopeInit PROVE ReaderInv
  OBVIOUS
<1> PICK c : c = <<[level |-> 0, value |-> {}, known |-> FALSE]>>
  OBVIOUS
<1>1. /\ open = <<>> /\ wire.scope = <<>> /\ unread = FALSE
      /\ reader = [level |-> 0, resolver |-> <<>>, cached |-> c, pending |-> FALSE,
                   asked |-> FALSE, answer |-> {}]
  BY DEF ScopeInit, NoEvent, FreshReader
<1>2. IsList(<<>>) /\ DOMAIN <<>> = {} /\ Len(<<>>) = 0
  BY DEF IsList
<1>3. IsList(c) /\ DOMAIN c = {1} /\ c # <<>> /\ c[1] = [level |-> 0, value |-> {}, known |-> FALSE]
  <2>1. Len(c) = 1 /\ DOMAIN c = {1} /\ c # <<>> /\ c[1] = [level |-> 0, value |-> {}, known |-> FALSE]
    OBVIOUS
  <2>2. c \in Seq({c[1]})
    BY <2>1
  <2>3. {c[i] : i \in DOMAIN c} = {c[1]}
    BY <2>1
  <2> QED
    BY <2>1, <2>2, <2>3 DEF IsList
<1>4. IsCache(c, <<>>)
  BY <1>2, <1>3 DEF IsCache, IsKept
<1>5. Reads(reader)
  BY <1>1, <1>2, <1>3, <1>4 DEF Reads, IsReader
<1>6. Scope = <<>>
  BY <1>1 DEF Scope
<1> QED
  BY <1>1, <1>2, <1>5, <1>6 DEF ReaderInv, Following, Staying

LEMMA StartStep == ASSUME ReaderInv, StartWritten PROVE ReaderInv'
<1>1. PICK d, e : Begun(d) /\ wire'.kind = "start" /\ open' = Append(open, e) /\ e.xmlns = d
  BY DEF StartWritten
<1>2. /\ IsList(open') /\ DOMAIN open' = DOMAIN open \cup {Len(open) + 1}
      /\ DOMAIN open = 1 .. Len(open) /\ Len(open) \in Nat
      /\ \A i \in DOMAIN open : open'[i] = open[i]
      /\ open'[Len(open) + 1] = e
  BY <1>1, ListAppended DEF ReaderInv
<1>3. Scope' = Append(Scope, d)
  <2>1. Scope = [i \in 1 .. Len(open) |-> open[i].xmlns]
    BY <1>2 DEF Scope
  <2>2. Append(Scope, d) = [i \in 1 .. Len(open) + 1 |-> IF i = Len(open) + 1 THEN d ELSE open[i].xmlns]
    BY <1>2, <2>1
  <2>3. Scope' = [i \in 1 .. Len(open) + 1 |-> open'[i].xmlns]
    BY <1>2 DEF Scope
  <2> QED
    BY <1>1, <1>2, <2>2, <2>3
<1>4. Staying(reader) = Scope
  BY <1>1 DEF ReaderInv, Following, Begun
<1>5. Following'
  BY <1>1, <1>3, <1>4 DEF Following, Begun, Staying
<1> QED
  BY <1>1, <1>2, <1>5 DEF ReaderInv, Begun

LEMMA EmptyStep == ASSUME ReaderInv, EmptyWritten PROVE ReaderInv'
<1>1. PICK d : Begun(d) /\ wire'.kind = "empty" /\ open' = open
  BY DEF EmptyWritten
<1>2. Scope' = Scope
  BY <1>1 DEF Scope
<1>3. Staying(reader) = Scope
  BY <1>1 DEF ReaderInv, Following, Begun
<1>4. Following'
  BY <1>1, <1>2, <1>3 DEF Following, Begun, Staying
<1> QED
  BY <1>1, <1>4 DEF ReaderInv, Begun

LEMMA EndStep == ASSUME ReaderInv, EndWritten PROVE ReaderInv'
<1>1. /\ ~ unread /\ unread' = TRUE /\ reader' = reader /\ wire'.kind = "end" /\ wire'.scope = Scope
      /\ open # <<>> /\ open' = Front(open)
  BY DEF EndWritten
<1>2. /\ IsList(open') /\ Len(open) \in Nat \ {0} /\ DOMAIN open = 1 .. Len(open)
      /\ DOMAIN open' = 1 .. Len(open) - 1
      /\ \A i \in 1 .. Len(open) - 1 : open'[i] = open[i]
  BY <1>1, ListShortened DEF ReaderInv
<1>3. Scope # <<>> /\ Scope' = Front(Scope)
  <2>1. Scope = [i \in 1 .. Len(open) |-> open[i].xmlns]
    BY <1>2 DEF Scope
  <2>2. IsList(Scope) /\ Scope # <<>> /\ Len(Scope) = Len(open)
    BY <1>2, <2>1 DEF IsList
  <2>3. Front(Scope) = [i \in 1 .. Len(open) - 1 |-> open[i].xmlns]
    BY <1>2, <2>1, <2>2 DEF Front
  <2>4. Scope' = [i \in 1 .. Len(open) - 1 |-> open'[i].xmlns]
    BY <1>2 DEF Scope
  <2> QED
    BY <1>2, <2>2, <2>3, <2>4
<1>4. Staying(reader) = Scope
  BY <1>1 DEF ReaderInv, Following
<1>5. Following'
  BY <1>1, <1>3, <1>4 DEF Following, Staying
<1> QED
  BY <1>1, <1>2, <1>5 DEF ReaderInv

LEMMA ReadStep == ASSUME ReaderInv, NEW ask \in BOOLEAN, Read(ask) PROVE ReaderInv'
<1> PICK h : h = HandleEvent(reader)
  OBVIOUS
<1> PICK r : r = [h EXCEPT !.asked = FALSE, !.answer = {}]
  OBVIOUS
<1>1. /\ unread = TRUE /\ unread' = FALSE /\ open' = open /\ wire' = wire
      /\ reader' = IF ask THEN Namespaces(r) ELSE r
  BY DEF Read, writer, ReaderInv
<1>2. /\ Reads(h) /\ (h.pending <=> wire.kind \in {"empty", "end"})
      /\ h.resolver = IF wire.kind = "end" THEN Staying(reader) ELSE Append(Staying(reader), wire.declares)
  BY <1>1, HandleReads DEF ReaderInv, Following
<1>3. r = [level |-> h.level, resolver |-> h.resolver, cached |-> h.cached,
           pending |-> h.pending, asked |-> FALSE, answer |-> {}]
  BY <1>2 DEF Reads, IsReader
<1>4. Reads(r)
  BY <1>2, <1>3 DEF Reads, IsReader
<1>5. /\ Reads(reader') /\ reader'.resolver = h.resolver /\ reader'.pending = h.pending
      /\ reader'.asked => reader'.answer = InScope(h.resolver)
  <2>1. CASE ask
    BY <1>1, <1>3, <1>4, <2>1, NamespacesReads
  <2>2. CASE ~ ask
    BY <1>1, <1>3, <1>4, <2>2
  <2> QED
    BY <2>1, <2>2
<1>6. h.resolver = wire.scope
  BY <1>1, <1>2 DEF ReaderInv, Following
<1>7. Staying(reader') = Scope
  <2>1. IsList(Staying(reader))
    BY ListShortened DEF ReaderInv, Reads, IsReader, Staying
  <2>2. CASE wire.kind = "start"
    BY <1>1, <1>2, <1>5, <1>6, <2>2 DEF ReaderInv, Following, Staying
  <2>3. CASE wire.kind = "empty"
    <3>1. Scope = Staying(reader) /\ h.resolver = Append(Staying(reader), wire.declares)
      BY <1>1, <1>2, <2>3 DEF ReaderInv, Following
    <3>2. Front(h.resolver) = Scope
      BY <2>1, <3>1, FrontOfAppended
    <3> QED
      BY <1>2, <1>5, <2>3, <3>2 DEF Staying
  <2>4. CASE wire.kind = "end"
    BY <1>1, <1>2, <1>5, <1>6, <2>4 DEF ReaderInv, Following, Staying
  <2> QED
    BY <1>1, <2>2, <2>3, <2>4 DEF ReaderInv, Following
<1>8. Scope' = Scope
  BY <1>1 DEF Scope
<1>9. Following'
  BY <1>1, <1>5, <1>6, <1>7, <1>8 DEF Following, Staying
<1> QED
  BY <1>1, <1>5, <1>9 DEF ReaderInv

LEMMA SameReader == ASSUME ReaderInv, UNCHANGED <<open, wire, unread, reader>> PROVE ReaderInv'
<1>1. Scope' = Scope
  BY DEF Scope
<1> QED
  BY <1>1 DEF ReaderInv, Following

LEMMA ReaderStep == ASSUME ReaderInv, [ScopeNext]_scopeVars PROVE ReaderInv'
  BY DocumentSteps, StartStep, EmptyStep, EndStep, ReadStep, SameReader

-----------------------------------------------------------------------------
(* Theorems.                                                               *)

\* Whatever types contain each other and in whatever order the serializers are rendered:
\* no namespace is collected for a type that its content does not need, and for a type
\* that contains no circle all of them are (NamespaceCollector::get_namespaces).
THEOREM AlwaysCollectedComplete == ScopeSpec => []CollectedComplete
<1>1. ScopeInit => CollectorInv
  BY CollectorInvInit DEF ScopeInit
<1>2. CollectorInv /\ [ScopeNext]_scopeVars => CollectorInv'
  BY CollectorInvStep
<1>3. CollectorInv => CollectedComplete
  BY CollectorComplete
<1> QED
  BY <1>1, <1>2, <1>3, PTL DEF ScopeSpec

\* namespaces() always answers with what is in scope of the event that was read last,
\* although scopes are left an event late and answers are kept (DeserializeHelper).
THEOREM NamespacesAlwaysInScope == ScopeSpec => []NamespacesInScope
<1>1. ScopeInit => ReaderInv
  BY ReaderInit
<1>2. ReaderInv /\ [ScopeNext]_scopeVars => ReaderInv'
  BY ReaderStep
<1>3. ReaderInv => NamespacesInScope
  BY DEF ReaderInv, Following, NamespacesInScope
<1> QED
  BY <1>1, <1>2, <1>3, PTL DEF ScopeSpec

-----------------------------------------------------------------------------
(* What a sequence has of a set.                                           *)

\* What is chosen of the first k, for each k, is defined.
LEMMA OnlySteps ==
  ASSUME NEW s, Len(s) \in Nat, NEW S
  PROVE  \E only :
           /\ Only(s, S) = only[Len(s)]
           /\ only[0] = <<>>
           /\ \A k \in 1 .. Len(s) :
                only[k] = IF s[k] \in S THEN Append(only[k - 1], s[k]) ELSE only[k - 1]
<1> DEFINE More(k, r) == IF s[k] \in S THEN Append(r, s[k]) ELSE r
           Fits(f, m) == f = [k \in 0 .. m |->
                           IF k = 0 THEN <<>> ELSE IF s[k] \in S THEN Append(f[k - 1], s[k]) ELSE f[k - 1]]
<1>0. \A f, m : Fits(f, m) <=> f = [k \in 0 .. m |-> IF k = 0 THEN <<>> ELSE More(k, f[k - 1])]
  OBVIOUS
<1> HIDE DEF More, Fits
<1>1. \E f : Fits(f, 0)
  <2> DEFINE g == [k \in 0 .. 0 |-> <<>>]
  <2>1. g = [k \in 0 .. 0 |-> IF k = 0 THEN <<>> ELSE More(k, g[k - 1])]
    OBVIOUS
  <2> HIDE DEF g
  <2> QED
    BY <1>0, <2>1
<1>2. ASSUME NEW m \in Nat, \E f : Fits(f, m)
      PROVE  \E f : Fits(f, m + 1)
  <2>1. PICK f : Fits(f, m)
    BY <1>2
  <2> DEFINE g == [k \in 0 .. m + 1 |-> IF k <= m THEN f[k] ELSE More(k, f[m])]
  <2>2. \A k \in 0 .. m : f[k] = IF k = 0 THEN <<>> ELSE More(k, f[k - 1])
    <3>1. f = [k \in 0 .. m |-> IF k = 0 THEN <<>> ELSE More(k, f[k - 1])]
      BY <1>0, <2>1
    <3> QED
      BY <3>1
  <2>3. ASSUME NEW k \in 0 .. m + 1 PROVE g[k] = IF k = 0 THEN <<>> ELSE More(k, g[k - 1])
    <3>1. CASE k = 0
      BY <3>1, <2>2
    <3>2. CASE k # 0 /\ k <= m
      <4>1. k \in 0 .. m /\ k - 1 \in 0 .. m + 1 /\ k - 1 <= m
        BY <3>2
      <4>2. g[k] = f[k] /\ g[k - 1] = f[k - 1]
        BY <3>2, <4>1
      <4> QED
        BY <4>1, <4>2, <2>2, <3>2
    <3>3. CASE k = m + 1
      BY <3>3
    <3> QED
      BY <3>1, <3>2, <3>3
  <2>4. g = [k \in 0 .. m + 1 |-> IF k = 0 THEN <<>> ELSE More(k, g[k - 1])]
    BY <2>3
  <2> HIDE DEF g
  <2> QED
    BY <1>0, <2>4
<1>3. \A m \in Nat : \E f : Fits(f, m)
  <2> SUFFICES ASSUME {p \in Nat : ~ \E f : Fits(f, p)} # {}
               PROVE  FALSE
    OBVIOUS
  <2>1. PICK m \in {p \in Nat : ~ \E f : Fits(f, p)} :
               \A k \in {p \in Nat : ~ \E f : Fits(f, p)} : m <= k
    BY LeastNumber
  <2>2. m # 0 /\ m - 1 \in Nat /\ \E f : Fits(f, m - 1)
    BY <2>1, <1>1
  <2>3. m = (m - 1) + 1
    BY <2>1
  <2> QED
    BY <2>1, <2>2, <2>3, <1>2
<1> DEFINE only == CHOOSE f : Fits(f, Len(s))
<1>4. Only(s, S) = only[Len(s)]
  BY DEF Only, Fits
<1>5. Fits(only, Len(s))
  BY <1>3
<1> HIDE DEF only
<1>6. \A k \in 0 .. Len(s) : only[k] = IF k = 0 THEN <<>> ELSE More(k, only[k - 1])
  <2>1. only = [k \in 0 .. Len(s) |-> IF k = 0 THEN <<>> ELSE More(k, only[k - 1])]
    BY <1>0, <1>5
  <2> QED
    BY <2>1
<1>7. only[0] = <<>> /\ \A k \in 1 .. Len(s) : only[k] = More(k, only[k - 1])
  BY <1>6
<1> QED
  BY <1>4, <1>7 DEF More

\* What holds of 0, and of m + 1 if of m, holds up to n.
LEMMA UpTo ==
  ASSUME NEW n \in Nat, NEW T, 0 \in T, \A m \in 0 .. n - 1 : m \in T => m + 1 \in T
  PROVE  \A m \in 0 .. n : m \in T
<1> SUFFICES ASSUME (0 .. n) \ T # {} PROVE FALSE
  OBVIOUS
<1>1. PICK m \in (0 .. n) \ T : \A k \in (0 .. n) \ T : m <= k
  <2>1. (0 .. n) \ T \in SUBSET Nat
    OBVIOUS
  <2> QED
    BY <2>1, LeastNumber
<1>2. m # 0 /\ m - 1 \in 0 .. n - 1 /\ m - 1 \in T
  BY <1>1
<1> QED
  BY <1>1, <1>2

\* The first k of s.
LEMMA FirstOnes ==
  ASSUME NEW S, NEW s \in Seq(S), NEW k \in 0 .. Len(s)
  PROVE  /\ SubSeq(s, 1, k) \in Seq(S) /\ Len(SubSeq(s, 1, k)) = k /\ DOMAIN SubSeq(s, 1, k) = 1 .. k
         /\ \A i \in 1 .. k : SubSeq(s, 1, k)[i] = s[i]
         /\ k = 0 => SubSeq(s, 1, k) = <<>>
         /\ k = Len(s) => SubSeq(s, 1, k) = s
         /\ k < Len(s) => SubSeq(s, 1, k + 1) = Append(SubSeq(s, 1, k), s[k + 1])
<1>1. Len(s) \in Nat /\ DOMAIN s = 1 .. Len(s) /\ k \in Nat
  OBVIOUS
<1>2. /\ SubSeq(s, 1, k) \in Seq(S) /\ Len(SubSeq(s, 1, k)) = k
      /\ \A i \in 1 .. k : SubSeq(s, 1, k)[i] = s[i]
  BY <1>1
<1>3. DOMAIN SubSeq(s, 1, k) = 1 .. k
  BY <1>2
<1>4. k = Len(s) => SubSeq(s, 1, k) = s
  BY <1>1
<1>5. k = 0 => SubSeq(s, 1, k) = <<>>
  BY <1>1, <1>2
<1>6. k < Len(s) => SubSeq(s, 1, k + 1) = Append(SubSeq(s, 1, k), s[k + 1])
  BY <1>1
<1> QED
  BY <1>2, <1>3, <1>4, <1>5, <1>6

\* What is in a sequence with one more member.
LEMMA AppendedSet ==
  ASSUME NEW S, NEW s \in Seq(S), NEW x \in S
  PROVE  Append(s, x) \in Seq(S) /\ ToSet(Append(s, x)) = ToSet(s) \cup {x}
<1> PICK a : a = Append(s, x)
  OBVIOUS
<1>1. /\ Len(s) \in Nat /\ DOMAIN s = 1 .. Len(s) /\ a \in Seq(S) /\ DOMAIN a = 1 .. Len(s) + 1
      /\ (\A i \in 1 .. Len(s) : a[i] = s[i]) /\ a[Len(s) + 1] = x
  OBVIOUS
<1>2. 1 .. Len(s) + 1 = 1 .. Len(s) \cup {Len(s) + 1}
  BY <1>1
<1>3. {a[i] : i \in 1 .. Len(s) + 1} = {s[i] : i \in 1 .. Len(s)} \cup {x}
  BY <1>1, <1>2
<1> QED
  BY <1>1, <1>3 DEF ToSet

\* What is chosen is in both.
LEMMA OnlyTyped ==
  ASSUME NEW U, NEW s \in Seq(U), NEW S
  PROVE  /\ Only(s, S) \in Seq(U \cap S)
         /\ ToSet(Only(s, S)) = ToSet(s) \cap S
<1>1. Len(s) \in Nat /\ DOMAIN s = 1 .. Len(s) /\ \A i \in 1 .. Len(s) : s[i] \in U
  OBVIOUS
<1>2. PICK only : /\ Only(s, S) = only[Len(s)] /\ only[0] = <<>>
                  /\ \A k \in 1 .. Len(s) :
                       only[k] = IF s[k] \in S THEN Append(only[k - 1], s[k]) ELSE only[k - 1]
  BY <1>1, OnlySteps
<1> DEFINE T == {k \in 0 .. Len(s) : /\ only[k] \in Seq(U \cap S)
                                     /\ ToSet(only[k]) = {s[i] : i \in 1 .. k} \cap S}
<1>3. 0 \in T
  <2>1. <<>> \in Seq(U \cap S) /\ ToSet(<<>>) = {} /\ {s[i] : i \in 1 .. 0} = {}
    BY DEF ToSet
  <2>2. only[0] \in Seq(U \cap S) /\ ToSet(only[0]) = {s[i] : i \in 1 .. 0} \cap S
    BY <1>2, <2>1
  <2> QED
    BY <1>1, <2>2
<1>4. ASSUME NEW m \in 0 .. Len(s) - 1, m \in T PROVE m + 1 \in T
  <2>1. m + 1 \in 1 .. Len(s) /\ m + 1 \in 0 .. Len(s) /\ (m + 1) - 1 = m
    BY <1>1
  <2>2. only[m + 1] = IF s[m + 1] \in S THEN Append(only[m], s[m + 1]) ELSE only[m]
    BY <1>2, <2>1
  <2>3. {s[i] : i \in 1 .. m + 1} = {s[i] : i \in 1 .. m} \cup {s[m + 1]}
    <3>1. 1 .. m + 1 = 1 .. m \cup {m + 1}
      OBVIOUS
    <3> QED
      BY <3>1
  <2>4. CASE s[m + 1] \in S
    <3>1. s[m + 1] \in U \cap S
      BY <1>1, <2>1, <2>4
    <3>2. /\ Append(only[m], s[m + 1]) \in Seq(U \cap S)
          /\ ToSet(Append(only[m], s[m + 1])) = ToSet(only[m]) \cup {s[m + 1]}
      BY <1>4, <3>1, AppendedSet
    <3> QED
      BY <1>4, <2>1, <2>2, <2>3, <2>4, <3>2
  <2>5. CASE s[m + 1] \notin S
    BY <1>4, <2>1, <2>2, <2>3, <2>5
  <2> QED
    BY <2>4, <2>5
<1>5. Len(s) \in T
  <2> HIDE DEF T
  <2>1. \A m \in 0 .. Len(s) : m \in T
    BY <1>1, <1>3, <1>4, UpTo
  <2> QED
    BY <1>1, <2>1
<1>6. {s[i] : i \in 1 .. Len(s)} = ToSet(s)
  BY <1>1 DEF ToSet
<1> QED
  BY <1>2, <1>5, <1>6

\* If S has the first c, and none after them, then these are what is chosen.
LEMMA OnlyFront ==
  ASSUME NEW U, NEW s \in Seq(U), NEW S, NEW c \in 0 .. Len(s),
         \A i \in 1 .. c : s[i] \in S, \A i \in c + 1 .. Len(s) : s[i] \notin S
  PROVE  Only(s, S) = SubSeq(s, 1, c)
<1>1. Len(s) \in Nat
  OBVIOUS
<1>2. PICK only : /\ Only(s, S) = only[Len(s)] /\ only[0] = <<>>
                  /\ \A k \in 1 .. Len(s) :
                       only[k] = IF s[k] \in S THEN Append(only[k - 1], s[k]) ELSE only[k - 1]
  BY <1>1, OnlySteps
<1> DEFINE least(k) == IF k <= c THEN k ELSE c
           T == {k \in 0 .. Len(s) : only[k] = SubSeq(s, 1, least(k))}
<1>3. 0 \in T
  <2>1. SubSeq(s, 1, 0) = <<>>
    BY <1>1, FirstOnes
  <2>2. only[0] = SubSeq(s, 1, least(0)) /\ 0 \in 0 .. Len(s)
    BY <1>1, <1>2, <2>1
  <2> QED
    BY <2>2
<1>4. ASSUME NEW m \in 0 .. Len(s) - 1, m \in T PROVE m + 1 \in T
  <2>1. m + 1 \in 1 .. Len(s) /\ m + 1 \in 0 .. Len(s) /\ (m + 1) - 1 = m
    BY <1>1
  <2>2. only[m + 1] = IF s[m + 1] \in S THEN Append(only[m], s[m + 1]) ELSE only[m]
    BY <1>2, <2>1
  <2>3. CASE m < c
    <3>1. s[m + 1] \in S /\ least(m) = m /\ least(m + 1) = m + 1
      BY <1>1, <2>1, <2>3
    <3>2. SubSeq(s, 1, m + 1) = Append(SubSeq(s, 1, m), s[m + 1])
      BY <1>1, <2>1, FirstOnes
    <3> QED
      BY <1>4, <2>1, <2>2, <3>1, <3>2
  <2>4. CASE ~ (m < c)
    <3>1. s[m + 1] \notin S /\ least(m) = c /\ least(m + 1) = c
      BY <1>1, <2>1, <2>4
    <3> QED
      BY <1>4, <2>1, <2>2, <3>1
  <2> QED
    BY <2>3, <2>4
<1>5. Len(s) \in T
  <2> HIDE DEF T
  <2>1. \A m \in 0 .. Len(s) : m \in T
    BY <1>1, <1>3, <1>4, UpTo
  <2> QED
    BY <1>1, <2>1
<1>6. least(Len(s)) = c
  BY <1>1
<1> QED
  BY <1>2, <1>5, <1>6

\* One more member.
LEMMA OnlyLonger ==
  ASSUME NEW s, NEW t, Len(s) \in Nat, Len(t) = Len(s) + 1, \A i \in 1 .. Len(s) : t[i] = s[i], NEW S
  PROVE  Only(t, S) = IF t[Len(t)] \in S THEN Append(Only(s, S), t[Len(t)]) ELSE Only(s, S)
<1>1. PICK f : /\ Only(s, S) = f[Len(s)] /\ f[0] = <<>>
               /\ \A k \in 1 .. Len(s) : f[k] = IF s[k] \in S THEN Append(f[k - 1], s[k]) ELSE f[k - 1]
  BY OnlySteps
<1>2. PICK g : /\ Only(t, S) = g[Len(t)] /\ g[0] = <<>>
               /\ \A k \in 1 .. Len(t) : g[k] = IF t[k] \in S THEN Append(g[k - 1], t[k]) ELSE g[k - 1]
  BY OnlySteps
<1> DEFINE T == {k \in 0 .. Len(s) : f[k] = g[k]}
<1>3. 0 \in T
  BY <1>1, <1>2
<1>4. ASSUME NEW m \in 0 .. Len(s) - 1, m \in T PROVE m + 1 \in T
  <2>1. /\ m + 1 \in 1 .. Len(s) /\ m + 1 \in 1 .. Len(t) /\ m + 1 \in 0 .. Len(s)
        /\ (m + 1) - 1 = m /\ t[m + 1] = s[m + 1]
    OBVIOUS
  <2> QED
    BY <1>1, <1>2, <1>4, <2>1
<1>5. Len(s) \in T
  <2> HIDE DEF T
  <2>1. \A m \in 0 .. Len(s) : m \in T
    BY <1>3, <1>4, UpTo
  <2> QED
    BY <2>1
<1>6. g[Len(t)] = IF t[Len(t)] \in S THEN Append(g[Len(s)], t[Len(t)]) ELSE g[Len(s)]
  <2>1. Len(t) \in 1 .. Len(t) /\ Len(t) - 1 = Len(s)
    OBVIOUS
  <2> QED
    BY <1>2, <2>1
<1> QED
  BY <1>1, <1>2, <1>5, <1>6

\* What is chosen of a sequence with one more element.
LEMMA OnlyAppend ==
  ASSUME NEW U, NEW s \in Seq(U), NEW e \in U, NEW S
  PROVE  Only(Append(s, e), S) = IF e \in S THEN Append(Only(s, S), e) ELSE Only(s, S)
<1> DEFINE t == Append(s, e)
<1>1. Len(s) \in Nat /\ Len(t) = Len(s) + 1 /\ t[Len(t)] = e /\ \A i \in 1 .. Len(s) : t[i] = s[i]
  OBVIOUS
<1> HIDE DEF t
<1>2. Only(t, S) = IF e \in S THEN Append(Only(s, S), e) ELSE Only(s, S)
  BY <1>1, OnlyLonger
<1> QED
  BY <1>2 DEF t

\* What is chosen of what was chosen.
LEMMA OnlyOnly ==
  ASSUME NEW U, NEW s \in Seq(U), NEW A, NEW B
  PROVE  Only(Only(s, A), B) = Only(s, A \cap B)
<1>1. Len(s) \in Nat /\ \A i \in 1 .. Len(s) : s[i] \in U
  OBVIOUS
<1>2. PICK f : /\ Only(s, A) = f[Len(s)] /\ f[0] = <<>>
               /\ \A k \in 1 .. Len(s) : f[k] = IF s[k] \in A THEN Append(f[k - 1], s[k]) ELSE f[k - 1]
  BY <1>1, OnlySteps
<1>3. PICK g : /\ Only(s, A \cap B) = g[Len(s)] /\ g[0] = <<>>
               /\ \A k \in 1 .. Len(s) :
                    g[k] = IF s[k] \in A \cap B THEN Append(g[k - 1], s[k]) ELSE g[k - 1]
  BY <1>1, OnlySteps
<1> DEFINE T == {k \in 0 .. Len(s) : f[k] \in Seq(U) /\ Only(f[k], B) = g[k]}
<1>4. 0 \in T
  <2>1. <<>> \in Seq(U) /\ Len(<<>>) = 0
    OBVIOUS
  <2>2. Only(<<>>, B) = <<>>
    BY <2>1, OnlySteps
  <2>3. f[0] \in Seq(U) /\ Only(f[0], B) = g[0]
    BY <1>2, <1>3, <2>1, <2>2
  <2> QED
    BY <1>1, <2>3
<1>5. ASSUME NEW m \in 0 .. Len(s) - 1, m \in T PROVE m + 1 \in T
  <2>1. m + 1 \in 1 .. Len(s) /\ m + 1 \in 0 .. Len(s) /\ (m + 1) - 1 = m /\ s[m + 1] \in U
    BY <1>1
  <2>2. /\ f[m + 1] = IF s[m + 1] \in A THEN Append(f[m], s[m + 1]) ELSE f[m]
        /\ g[m + 1] = IF s[m + 1] \in A \cap B THEN Append(g[m], s[m + 1]) ELSE g[m]
    BY <1>2, <1>3, <2>1
  <2>3. f[m] \in Seq(U) /\ Only(f[m], B) = g[m]
    BY <1>5
  <2>4. /\ Append(f[m], s[m + 1]) \in Seq(U)
        /\ Only(Append(f[m], s[m + 1]), B) = IF s[m + 1] \in B THEN Append(Only(f[m], B), s[m + 1])
                                             ELSE Only(f[m], B)
    <3>1. \A r \in Seq(U), e \in U :
            /\ Append(r, e) \in Seq(U)
            /\ Only(Append(r, e), B) = IF e \in B THEN Append(Only(r, B), e) ELSE Only(r, B)
      BY OnlyAppend
    <3> HIDE DEF T
    <3> QED
      BY <2>1, <2>3, <3>1
  <2>5. f[m + 1] \in Seq(U) /\ Only(f[m + 1], B) = g[m + 1]
    <3>1. CASE s[m + 1] \in A
      BY <2>2, <2>3, <2>4, <3>1
    <3>2. CASE s[m + 1] \notin A
      BY <2>2, <2>3, <3>2
    <3> QED
      BY <3>1, <3>2
  <2> QED
    BY <2>1, <2>5
<1>6. Len(s) \in T
  <2> HIDE DEF T
  <2>1. \A m \in 0 .. Len(s) : m \in T
    BY <1>1, <1>4, <1>5, UpTo
  <2> QED
    BY <1>1, <2>1
<1> QED
  BY <1>2, <1>3, <1>6

\* Appending to the second of two sequences appends to both.
LEMMA ConcatAppend ==
  \A U : \A q, r \in Seq(U), e \in U :
    q \o Append(r, e) = Append(q \o r, e) /\ q \o r \in Seq(U) /\ Append(r, e) \in Seq(U)
<1> TAKE U
<1> SUFFICES ASSUME NEW q \in Seq(U), NEW r \in Seq(U), NEW e \in U
             PROVE  q \o Append(r, e) = Append(q \o r, e) /\ q \o r \in Seq(U) /\ Append(r, e) \in Seq(U)
  OBVIOUS
<1> QED
  OBVIOUS

\* What is chosen of one sequence after another.
LEMMA OnlyConcat ==
  ASSUME NEW U, NEW s \in Seq(U), NEW t \in Seq(U), NEW S
  PROVE  Only(s \o t, S) = Only(s, S) \o Only(t, S)
<1>0. \A q, r \in Seq(U \cap S), e \in U \cap S : q \o Append(r, e) = Append(q \o r, e)
  BY ConcatAppend
<1>1. Len(s) \in Nat /\ Len(t) \in Nat /\ \A i \in 1 .. Len(t) : t[i] \in U
  OBVIOUS
<1>2. PICK f : /\ Only(t, S) = f[Len(t)] /\ f[0] = <<>>
               /\ \A k \in 1 .. Len(t) : f[k] = IF t[k] \in S THEN Append(f[k - 1], t[k]) ELSE f[k - 1]
  BY <1>1, OnlySteps
<1>3. Only(s, S) \in Seq(U \cap S)
  BY OnlyTyped
<1> DEFINE T == {k \in 0 .. Len(t) :
                   /\ f[k] \in Seq(U \cap S)
                   /\ Only(s \o SubSeq(t, 1, k), S) = Only(s, S) \o f[k]}
<1>4. 0 \in T
  <2>1. SubSeq(t, 1, 0) = <<>>
    BY <1>1, FirstOnes
  <2>2. s \o <<>> = s /\ Only(s, S) \o <<>> = Only(s, S) /\ <<>> \in Seq(U \cap S)
    BY <1>3
  <2>3. f[0] \in Seq(U \cap S) /\ Only(s \o SubSeq(t, 1, 0), S) = Only(s, S) \o f[0]
    BY <1>2, <2>1, <2>2
  <2> QED
    BY <1>1, <2>3
<1>5. ASSUME NEW m \in 0 .. Len(t) - 1, m \in T PROVE m + 1 \in T
  <2>1. m + 1 \in 1 .. Len(t) /\ m + 1 \in 0 .. Len(t) /\ m \in 0 .. Len(t) /\ (m + 1) - 1 = m /\ t[m + 1] \in U
    BY <1>1
  <2>2. f[m + 1] = IF t[m + 1] \in S THEN Append(f[m], t[m + 1]) ELSE f[m]
    BY <1>2, <2>1
  <2>3. f[m] \in Seq(U \cap S) /\ Only(s \o SubSeq(t, 1, m), S) = Only(s, S) \o f[m]
    BY <1>5
  <2>4. SubSeq(t, 1, m) \in Seq(U) /\ SubSeq(t, 1, m + 1) = Append(SubSeq(t, 1, m), t[m + 1])
    BY <1>1, <2>1, FirstOnes
  <2>5. s \o SubSeq(t, 1, m + 1) = Append(s \o SubSeq(t, 1, m), t[m + 1]) /\ s \o SubSeq(t, 1, m) \in Seq(U)
    <3> PICK r : r = SubSeq(t, 1, m)
      OBVIOUS
    <3>1. r \in Seq(U)
      BY <2>4
    <3>2. s \o Append(r, t[m + 1]) = Append(s \o r, t[m + 1]) /\ s \o r \in Seq(U)
      BY <2>1, <3>1
    <3> QED
      BY <2>4, <3>2
  <2>6. Only(s \o SubSeq(t, 1, m + 1), S) =
          IF t[m + 1] \in S THEN Append(Only(s, S) \o f[m], t[m + 1]) ELSE Only(s, S) \o f[m]
    <3>1. \A r \in Seq(U), e \in U :
            Only(Append(r, e), S) = IF e \in S THEN Append(Only(r, S), e) ELSE Only(r, S)
      BY OnlyAppend
    <3> HIDE DEF T
    <3> QED
      BY <2>1, <2>3, <2>5, <3>1
  <2>7. f[m + 1] \in Seq(U \cap S) /\ Only(s \o SubSeq(t, 1, m + 1), S) = Only(s, S) \o f[m + 1]
    <3>1. CASE t[m + 1] \in S
      <4>1. Append(Only(s, S) \o f[m], t[m + 1]) = Only(s, S) \o Append(f[m], t[m + 1])
        <5> HIDE DEF T
        <5>1. /\ Only(s, S) \in Seq(U \cap S) /\ f[m] \in Seq(U \cap S) /\ t[m + 1] \in U \cap S
          BY <1>3, <2>1, <2>3, <3>1
        <5> QED
          BY ONLY <5>1, <1>0
      <4>2. Append(f[m], t[m + 1]) \in Seq(U \cap S)
        BY <2>1, <2>3, <3>1
      <4> QED
        BY <2>2, <2>6, <3>1, <4>1, <4>2
    <3>2. CASE t[m + 1] \notin S
      BY <2>2, <2>3, <2>6, <3>2
    <3> QED
      BY <3>1, <3>2
  <2> QED
    BY <2>1, <2>7
<1>6. Len(t) \in T
  <2> HIDE DEF T
  <2>1. \A m \in 0 .. Len(t) : m \in T
    BY <1>1, <1>4, <1>5, UpTo
  <2> QED
    BY <1>1, <2>1
<1>7. SubSeq(t, 1, Len(t)) = t
  BY <1>1, FirstOnes
<1> QED
  BY <1>2, <1>6, <1>7

\* The helper after the first k bindings, for each k, is defined.
LEMMA WriteSteps ==
  ASSUME NEW h, NEW s, Len(s) \in Nat
  PROVE  \E after :
           /\ WriteAll(h, s) = after[Len(s)]
           /\ after[0] = h
           /\ \A k \in 1 .. Len(s) : after[k] = WriteXmlns(after[k - 1], s[k])
<1> DEFINE More(k, r) == WriteXmlns(r, s[k])
           Fits(f, m) == f = [k \in 0 .. m |-> IF k = 0 THEN h ELSE WriteXmlns(f[k - 1], s[k])]
<1>0. \A f, m : Fits(f, m) <=> f = [k \in 0 .. m |-> IF k = 0 THEN h ELSE More(k, f[k - 1])]
  OBVIOUS
<1> HIDE DEF More, Fits
<1>1. \E f : Fits(f, 0)
  <2> DEFINE g == [k \in 0 .. 0 |-> h]
  <2>1. g = [k \in 0 .. 0 |-> IF k = 0 THEN h ELSE More(k, g[k - 1])]
    OBVIOUS
  <2> HIDE DEF g
  <2> QED
    BY <1>0, <2>1
<1>2. ASSUME NEW m \in Nat, \E f : Fits(f, m)
      PROVE  \E f : Fits(f, m + 1)
  <2>1. PICK f : Fits(f, m)
    BY <1>2
  <2> DEFINE g == [k \in 0 .. m + 1 |-> IF k <= m THEN f[k] ELSE More(k, f[m])]
  <2>2. \A k \in 0 .. m : f[k] = IF k = 0 THEN h ELSE More(k, f[k - 1])
    <3>1. f = [k \in 0 .. m |-> IF k = 0 THEN h ELSE More(k, f[k - 1])]
      BY <1>0, <2>1
    <3> QED
      BY <3>1
  <2>3. ASSUME NEW k \in 0 .. m + 1 PROVE g[k] = IF k = 0 THEN h ELSE More(k, g[k - 1])
    <3>1. CASE k = 0
      BY <3>1, <2>2
    <3>2. CASE k # 0 /\ k <= m
      <4>1. k \in 0 .. m /\ k - 1 \in 0 .. m + 1 /\ k - 1 <= m
        BY <3>2
      <4>2. g[k] = f[k] /\ g[k - 1] = f[k - 1]
        BY <3>2, <4>1
      <4> QED
        BY <4>1, <4>2, <2>2, <3>2
    <3>3. CASE k = m + 1
      BY <3>3
    <3> QED
      BY <3>1, <3>2, <3>3
  <2>4. g = [k \in 0 .. m + 1 |-> IF k = 0 THEN h ELSE More(k, g[k - 1])]
    BY <2>3
  <2> HIDE DEF g
  <2> QED
    BY <1>0, <2>4
<1>3. \A m \in Nat : \E f : Fits(f, m)
  <2> SUFFICES ASSUME {p \in Nat : ~ \E f : Fits(f, p)} # {}
               PROVE  FALSE
    OBVIOUS
  <2>1. PICK m \in {p \in Nat : ~ \E f : Fits(f, p)} :
               \A k \in {p \in Nat : ~ \E f : Fits(f, p)} : m <= k
    BY LeastNumber
  <2>2. m # 0 /\ m - 1 \in Nat /\ \E f : Fits(f, m - 1)
    BY <2>1, <1>1
  <2>3. m = (m - 1) + 1
    BY <2>1
  <2> QED
    BY <2>1, <2>2, <2>3, <1>2
<1> DEFINE after == CHOOSE f : Fits(f, Len(s))
<1>4. WriteAll(h, s) = after[Len(s)]
  BY DEF WriteAll, Fits
<1>5. Fits(after, Len(s))
  BY <1>3
<1> HIDE DEF after
<1>6. \A k \in 0 .. Len(s) : after[k] = IF k = 0 THEN h ELSE More(k, after[k - 1])
  <2>1. after = [k \in 0 .. Len(s) |-> IF k = 0 THEN h ELSE More(k, after[k - 1])]
    BY <1>0, <1>5
  <2> QED
    BY <2>1
<1>7. after[0] = h /\ \A k \in 1 .. Len(s) : after[k] = More(k, after[k - 1])
  BY <1>6
<1> QED
  BY <1>4, <1>7 DEF More

\* The first k sequences after each other, for each k, are defined.
LEMMA FlatSteps ==
  ASSUME NEW s, Len(s) \in Nat \ {0}
  PROVE  \E flat :
           /\ FlattenSeq(s) = flat[Len(s)]
           /\ flat[1] = s[1]
           /\ \A k \in 2 .. Len(s) : flat[k] = flat[k - 1] \o s[k]
<1> DEFINE Fits(f, m) == f = [i \in 1 .. m |-> IF i = 1 THEN s[i] ELSE f[i - 1] \o s[i]]
<1>0. \A f, m : Fits(f, m) <=> f = [k \in 1 .. m |-> IF k = 1 THEN s[k] ELSE f[k - 1] \o s[k]]
  OBVIOUS
<1> HIDE DEF Fits
<1>1. \E f : Fits(f, 1)
  <2> DEFINE g == [k \in 1 .. 1 |-> s[k]]
  <2>1. g = [k \in 1 .. 1 |-> IF k = 1 THEN s[k] ELSE g[k - 1] \o s[k]]
    OBVIOUS
  <2> HIDE DEF g
  <2> QED
    BY <1>0, <2>1
<1>2. ASSUME NEW m \in Nat \ {0}, \E f : Fits(f, m)
      PROVE  \E f : Fits(f, m + 1)
  <2>1. PICK f : Fits(f, m)
    BY <1>2
  <2> DEFINE g == [k \in 1 .. m + 1 |-> IF k <= m THEN f[k] ELSE f[m] \o s[k]]
  <2>2. \A k \in 1 .. m : f[k] = IF k = 1 THEN s[k] ELSE f[k - 1] \o s[k]
    <3>1. f = [k \in 1 .. m |-> IF k = 1 THEN s[k] ELSE f[k - 1] \o s[k]]
      BY <1>0, <2>1
    <3> QED
      BY <3>1
  <2>3. ASSUME NEW k \in 1 .. m + 1 PROVE g[k] = IF k = 1 THEN s[k] ELSE g[k - 1] \o s[k]
    <3>1. CASE k = 1
      BY <3>1, <2>2
    <3>2. CASE k # 1 /\ k <= m
      <4>1. k \in 1 .. m /\ k - 1 \in 1 .. m + 1 /\ k - 1 <= m
        BY <3>2
      <4>2. g[k] = f[k] /\ g[k - 1] = f[k - 1]
        BY <3>2, <4>1
      <4> QED
        BY <4>1, <4>2, <2>2, <3>2
    <3>3. CASE k = m + 1
      BY <3>3
    <3> QED
      BY <3>1, <3>2, <3>3
  <2>4. g = [k \in 1 .. m + 1 |-> IF k = 1 THEN s[k] ELSE g[k - 1] \o s[k]]
    BY <2>3
  <2> HIDE DEF g
  <2> QED
    BY <1>0, <2>4
<1>3. \A m \in Nat \ {0} : \E f : Fits(f, m)
  <2> SUFFICES ASSUME {p \in Nat \ {0} : ~ \E f : Fits(f, p)} # {}
               PROVE  FALSE
    OBVIOUS
  <2>1. PICK m \in {p \in Nat \ {0} : ~ \E f : Fits(f, p)} :
               \A k \in {p \in Nat \ {0} : ~ \E f : Fits(f, p)} : m <= k
    BY LeastNumber
  <2>2. m # 1 /\ m - 1 \in Nat \ {0} /\ \E f : Fits(f, m - 1)
    BY <2>1, <1>1
  <2>3. m = (m - 1) + 1
    BY <2>1
  <2> QED
    BY <2>1, <2>2, <2>3, <1>2
<1> DEFINE flat == CHOOSE f : Fits(f, Len(s))
<1>4. FlattenSeq(s) = flat[Len(s)]
  BY DEF FlattenSeq, Fits
<1>5. Fits(flat, Len(s))
  BY <1>3
<1> HIDE DEF flat
<1>6. \A k \in 1 .. Len(s) : flat[k] = IF k = 1 THEN s[k] ELSE flat[k - 1] \o s[k]
  <2>1. flat = [k \in 1 .. Len(s) |-> IF k = 1 THEN s[k] ELSE flat[k - 1] \o s[k]]
    BY <1>0, <1>5
  <2> QED
    BY <2>1
<1>7. flat[1] = s[1]
  BY <1>6
<1>8. ASSUME NEW k \in 2 .. Len(s) PROVE flat[k] = flat[k - 1] \o s[k]
  <2>1. k \in 1 .. Len(s) /\ k # 1
    OBVIOUS
  <2> QED
    BY <1>6, <2>1
<1> QED
  BY <1>4, <1>7, <1>8

\* What is in one sequence after another.
LEMMA ConcatSet ==
  ASSUME NEW U, NEW s \in Seq(U), NEW t \in Seq(U)
  PROVE  s \o t \in Seq(U) /\ ToSet(s \o t) = ToSet(s) \cup ToSet(t)
<1> PICK c : c = s \o t
  OBVIOUS
<1> PICK n : n = Len(s)
  OBVIOUS
<1> PICK m : m = Len(t)
  OBVIOUS
<1>1. /\ c \in Seq(U) /\ Len(c) = n + m /\ n \in Nat /\ m \in Nat
      /\ DOMAIN c = 1 .. n + m /\ DOMAIN s = 1 .. n /\ DOMAIN t = 1 .. m
      /\ \A i \in 1 .. n + m : c[i] = IF i <= n THEN s[i] ELSE t[i - n]
  OBVIOUS
<1>2. ToSet(c) \subseteq ToSet(s) \cup ToSet(t)
  BY <1>1 DEF ToSet
<1>3. ASSUME NEW i \in 1 .. n PROVE i \in 1 .. n + m /\ c[i] = s[i]
  BY <1>1
<1>4. ASSUME NEW i \in 1 .. m PROVE n + i \in 1 .. n + m /\ c[n + i] = t[i]
  BY <1>1
<1>5. ToSet(s) \cup ToSet(t) \subseteq ToSet(c)
  <2>1. ASSUME NEW e \in ToSet(s) PROVE e \in ToSet(c)
    <3>1. PICK i \in 1 .. n : e = s[i]
      BY <1>1 DEF ToSet
    <3> QED
      BY <1>1, <1>3, <3>1 DEF ToSet
  <2>2. ASSUME NEW e \in ToSet(t) PROVE e \in ToSet(c)
    <3>1. PICK i \in 1 .. m : e = t[i]
      BY <1>1 DEF ToSet
    <3> QED
      BY <1>1, <1>4, <3>1 DEF ToSet
  <2> QED
    BY <2>1, <2>2
<1> QED
  BY <1>1, <1>2, <1>5

\* What sequences after each other consist of.
LEMMA FlatTyped ==
  ASSUME NEW U, NEW s \in Seq(Seq(U))
  PROVE  /\ FlattenSeq(s) \in Seq(U)
         /\ \A e \in ToSet(FlattenSeq(s)) : \E i \in DOMAIN s : e \in ToSet(s[i])
<1>1. Len(s) \in Nat /\ DOMAIN s = 1 .. Len(s) /\ \A i \in 1 .. Len(s) : s[i] \in Seq(U)
  OBVIOUS
<1>2. CASE Len(s) = 0
  <2>1. s = <<>>
    BY <1>2
  <2>2. FlattenSeq(s) = <<>> /\ <<>> \in Seq(U) /\ ToSet(<<>>) = {}
    BY <1>2, <2>1 DEF FlattenSeq, ToSet
  <2> QED
    BY <2>2
<1>3. CASE Len(s) # 0
  <2>1. PICK f : /\ FlattenSeq(s) = f[Len(s)] /\ f[1] = s[1]
                 /\ \A k \in 2 .. Len(s) : f[k] = f[k - 1] \o s[k]
    BY <1>1, <1>3, FlatSteps
  <2> DEFINE Fine(r) == r \in Seq(U) /\ \A e \in ToSet(r) : \E i \in DOMAIN s : e \in ToSet(s[i])
             T == {k \in 0 .. Len(s) : k = 0 \/ Fine(f[k])}
  <2>2. 0 \in T
    BY <1>1
  <2>3. ASSUME NEW m \in 0 .. Len(s) - 1, m \in T PROVE m + 1 \in T
    <3>1. CASE m = 0
      <4>1. f[1] = s[1] /\ 1 \in DOMAIN s /\ s[1] \in Seq(U)
        BY <1>1, <1>3, <2>1
      <4>2. Fine(f[1]) /\ m + 1 = 1 /\ 1 \in 0 .. Len(s)
        BY <1>1, <1>3, <3>1, <4>1
      <4> QED
        BY <4>2
    <3>2. CASE m # 0
      <4>1. m + 1 \in 2 .. Len(s) /\ (m + 1) - 1 = m /\ m + 1 \in DOMAIN s /\ s[m + 1] \in Seq(U)
        BY <1>1, <3>2
      <4>2. f[m + 1] = f[m] \o s[m + 1] /\ f[m] \in Seq(U)
        BY <2>1, <2>3, <3>2, <4>1
      <4>3. f[m + 1] \in Seq(U) /\ ToSet(f[m + 1]) = ToSet(f[m]) \cup ToSet(s[m + 1])
        BY <4>1, <4>2, ConcatSet
      <4>4. Fine(f[m + 1])
        BY <2>3, <3>2, <4>1, <4>3
      <4> QED
        BY <1>1, <4>1, <4>4
    <3> QED
      BY <3>1, <3>2
  <2>4. Len(s) \in T
    <3> HIDE DEF T
    <3>1. \A m \in 0 .. Len(s) : m \in T
      BY <1>1, <2>2, <2>3, UpTo
    <3> QED
      BY <1>1, <3>1
  <2> QED
    BY <1>3, <2>1, <2>4
<1> QED
  BY <1>2, <1>3

\* One more sequence.
LEMMA FlatAppend ==
  ASSUME NEW U, NEW s \in Seq(Seq(U)), NEW x \in Seq(U)
  PROVE  FlattenSeq(Append(s, x)) = FlattenSeq(s) \o x
<1> PICK t : t = Append(s, x)
  OBVIOUS
<1> PICK n : n = Len(s)
  OBVIOUS
<1>1. /\ n \in Nat /\ Len(t) = n + 1 /\ t[n + 1] = x /\ \A i \in 1 .. n : t[i] = s[i]
  OBVIOUS
<1>2. PICK g : /\ FlattenSeq(t) = g[n + 1] /\ g[1] = t[1]
               /\ \A k \in 2 .. n + 1 : g[k] = g[k - 1] \o t[k]
  <2>1. Len(t) \in Nat \ {0}
    BY <1>1
  <2>2. \E g : /\ FlattenSeq(t) = g[Len(t)] /\ g[1] = t[1]
               /\ \A k \in 2 .. Len(t) : g[k] = g[k - 1] \o t[k]
    BY ONLY <2>1, FlatSteps
  <2> QED
    BY <1>1, <2>2
<1>3. CASE n = 0
  <2>1. s = <<>>
    <3>1. Len(s) = 0
      BY <1>3
    <3> QED
      BY <3>1
  <2>2. FlattenSeq(s) = <<>> /\ <<>> \o x = x
    BY <2>1 DEF FlattenSeq
  <2> QED
    BY <1>1, <1>2, <1>3, <2>2
<1>4. CASE n # 0
  <2>1. PICK f : /\ FlattenSeq(s) = f[n] /\ f[1] = s[1]
                 /\ \A k \in 2 .. n : f[k] = f[k - 1] \o s[k]
    <3>1. Len(s) \in Nat \ {0}
      BY <1>1, <1>4
    <3>2. \E f : /\ FlattenSeq(s) = f[Len(s)] /\ f[1] = s[1]
                 /\ \A k \in 2 .. Len(s) : f[k] = f[k - 1] \o s[k]
      BY ONLY <3>1, FlatSteps
    <3> QED
      BY <3>2
  <2> DEFINE T == {k \in 0 .. n : k = 0 \/ f[k] = g[k]}
  <2>2. 0 \in T
    BY <1>1
  <2>3. ASSUME NEW m \in 0 .. n - 1, m \in T PROVE m + 1 \in T
    <3>1. CASE m = 0
      BY <1>1, <1>2, <1>4, <2>1, <3>1
    <3>2. CASE m # 0
      <4>1. m + 1 \in 2 .. n /\ m + 1 \in 2 .. n + 1 /\ (m + 1) - 1 = m /\ m + 1 \in 1 .. n
        BY <1>1, <3>2
      <4>2. f[m + 1] = f[m] \o s[m + 1] /\ g[m + 1] = g[m] \o t[m + 1] /\ t[m + 1] = s[m + 1]
        BY <1>1, <1>2, <2>1, <4>1
      <4>3. f[m] = g[m]
        BY <2>3, <3>2
      <4>4. f[m + 1] = g[m + 1] /\ m + 1 \in 0 .. n
        BY <1>1, <4>1, <4>2, <4>3
      <4> QED
        BY <4>4
    <3> QED
      BY <3>1, <3>2
  <2>4. f[n] = g[n]
    <3>1. n \in T
      <4> HIDE DEF T
      <4>1. \A m \in 0 .. n : m \in T
        BY <1>1, <2>2, <2>3, UpTo
      <4> QED
        BY <1>1, <4>1
    <3> QED
      BY <1>4, <3>1
  <2>5. g[n + 1] = g[n] \o x
    <3>1. n + 1 \in 2 .. n + 1 /\ (n + 1) - 1 = n
      BY <1>1, <1>4
    <3> QED
      BY <1>1, <1>2, <3>1
  <2> QED
    BY <1>2, <2>1, <2>4, <2>5
<1> QED
  BY <1>3, <1>4

\* A set of numbers up to n that is not empty has a greatest one.
LEMMA GreatestNumber ==
  ASSUME NEW n \in Nat, NEW T \in SUBSET (1 .. n), T # {}
  PROVE  \E x \in T : \A y \in T : y <= x
<1> DEFINE R == {n - x : x \in T}
<1>1. R \in SUBSET Nat /\ R # {}
  <2>1. \A x \in T : n - x \in Nat
    OBVIOUS
  <2> QED
    BY <2>1
<1>2. PICK r \in R : \A y \in R : r <= y
  <2> HIDE DEF R
  <2> QED
    BY <1>1, LeastNumber
<1>3. PICK x \in T : r = n - x
  OBVIOUS
<1>4. \A y \in T : n - x <= n - y
  BY <1>2, <1>3
<1>5. \A y \in T : y <= x
  BY <1>4
<1> QED
  BY <1>5

\* What the innermost entry of an active namespace is.
LEMMA InnermostActive ==
  ASSUME NEW h, NEW U, h.table \in Seq(U), NEW n, Active(h, n)
  PROVE  \E i \in DOMAIN h.table : h.table[i].ns = n /\ Innermost(h, n) = h.table[i]
<1> DEFINE T == {i \in DOMAIN h.table : h.table[i].ns = n}
           Deepest(i) == h.table[i].ns = n /\ \A j \in DOMAIN h.table : h.table[j].ns = n => j <= i
<1>1. Len(h.table) \in Nat /\ DOMAIN h.table = 1 .. Len(h.table)
  OBVIOUS
<1>2. T \in SUBSET (1 .. Len(h.table)) /\ T # {}
  BY <1>1 DEF Active
<1>3. PICK x \in T : \A y \in T : y <= x
  <2> HIDE DEF T
  <2> QED
    BY <1>1, <1>2, GreatestNumber
<1>4. x \in DOMAIN h.table /\ Deepest(x)
  BY <1>3
<1>5. PICK i : i = CHOOSE j \in DOMAIN h.table : Deepest(j)
  OBVIOUS
<1>6. i \in DOMAIN h.table /\ Deepest(i)
  <2> HIDE DEF Deepest
  <2> QED
    BY <1>4, <1>5
<1>7. Innermost(h, n) = h.table[i]
  BY <1>5 DEF Innermost
<1> QED
  BY <1>6, <1>7

Binding == [prefix : STRING, ns : STRING]
Entry == [level : Nat, prefix : STRING, ns : STRING]
EntryOf(l, b) == [level |-> l, prefix |-> b.prefix, ns |-> b.ns]

\* The entries of xmlns attributes that were written at a level.
EntriesAt(l, x) == [i \in DOMAIN x |-> EntryOf(l, x[i])]

\* The entries are as many as the attributes, each at the level.
LEMMA EntriesTyped ==
  ASSUME NEW l \in Nat, NEW x \in Seq(Binding)
  PROVE  /\ EntriesAt(l, x) \in Seq(Entry) /\ Len(EntriesAt(l, x)) = Len(x)
         /\ DOMAIN EntriesAt(l, x) = DOMAIN x
         /\ \A i \in DOMAIN x : EntriesAt(l, x)[i] = EntryOf(l, x[i])
<1>1. Len(x) \in Nat /\ DOMAIN x = 1 .. Len(x) /\ \A i \in 1 .. Len(x) : x[i] \in Binding
  OBVIOUS
<1>2. \A i \in 1 .. Len(x) : EntryOf(l, x[i]) \in Entry
  BY <1>1 DEF Binding, Entry, EntryOf
<1>3. EntriesAt(l, x) = [i \in 1 .. Len(x) |-> EntryOf(l, x[i])]
  BY <1>1 DEF EntriesAt
<1>4. EntriesAt(l, x) \in Seq(Entry)
  BY <1>1, <1>2, <1>3
<1> QED
  BY <1>1, <1>3, <1>4

\* One attribute more is one entry more.
LEMMA EntriesAppend ==
  ASSUME NEW l \in Nat, NEW x \in Seq(Binding), NEW b \in Binding
  PROVE  /\ EntriesAt(l, Append(x, b)) =
              Append(EntriesAt(l, x), EntryOf(l, b))
         /\ EntryOf(l, b) \in Entry
<1> PICK e : e = EntryOf(l, b)
  OBVIOUS
<1> PICK y : y = Append(x, b)
  OBVIOUS
<1>1. e \in Entry
  BY DEF Entry, Binding, EntryOf
<1>2. /\ y \in Seq(Binding) /\ Len(y) = Len(x) + 1 /\ Len(x) \in Nat
      /\ DOMAIN x = 1 .. Len(x) /\ DOMAIN y = 1 .. Len(x) + 1
      /\ y[Len(x) + 1] = b /\ \A i \in 1 .. Len(x) : y[i] = x[i]
  OBVIOUS
<1> PICK p : p = EntriesAt(l, x)
  OBVIOUS
<1> PICK q : q = EntriesAt(l, y)
  OBVIOUS
<1>3. /\ p \in Seq(Entry) /\ Len(p) = Len(x)
      /\ \A i \in 1 .. Len(x) : p[i] = EntryOf(l, x[i])
  BY <1>2, EntriesTyped
<1>4. /\ q \in Seq(Entry) /\ Len(q) = Len(x) + 1
      /\ \A i \in 1 .. Len(x) + 1 : q[i] = EntryOf(l, y[i])
  BY <1>2, EntriesTyped
<1>5. q[Len(x) + 1] = e /\ \A i \in 1 .. Len(x) : q[i] = p[i]
  BY <1>2, <1>3, <1>4
<1>6. q = Append(p, e)
  BY <1>1, <1>2, <1>3, <1>4, <1>5
<1> QED
  BY <1>1, <1>6

IsHelper(h) ==
  /\ h = [level |-> h.level, table |-> h.table, xmlns |-> h.xmlns]
  /\ h.level \in Nat /\ h.table \in Seq(Entry) /\ h.xmlns \in Seq(Binding)

\* One binding more: it is written, or what is active says the same.
LEMMA XmlnsWritten ==
  ASSUME NEW h, IsHelper(h), NEW b \in Binding
  PROVE  LET g == WriteXmlns(h, b)
         IN  \/ /\ g = [level |-> g.level, table |-> g.table, xmlns |-> g.xmlns] /\ g.level = h.level
                /\ g.xmlns = Append(h.xmlns, b) /\ g.table = Append(h.table, EntryOf(h.level, b))
             \/ g = h /\ \E i \in DOMAIN h.table : h.table[i].ns = b.ns /\ h.table[i].prefix = b.prefix
<1> PICK g : g = WriteXmlns(h, b)
  OBVIOUS
<1>2. CASE Active(h, b.ns) /\ Innermost(h, b.ns).prefix = b.prefix
  <2>1. g = h
    BY <1>2 DEF WriteXmlns
  <2>2. PICK i \in DOMAIN h.table : h.table[i].ns = b.ns /\ Innermost(h, b.ns) = h.table[i]
    BY <1>2, InnermostActive DEF IsHelper
  <2> QED
    BY <1>2, <2>1, <2>2
<1>3. CASE ~ (Active(h, b.ns) /\ Innermost(h, b.ns).prefix = b.prefix)
  <2>1. g = [h EXCEPT !.table = Append(@, EntryOf(h.level, b)), !.xmlns = Append(@, b)]
    BY <1>3 DEF WriteXmlns, AddEntry, EntryOf
  <2> PICK u : u = Append(h.table, EntryOf(h.level, b))
    OBVIOUS
  <2> PICK y : y = Append(h.xmlns, b)
    OBVIOUS
  <2>2. g = [level |-> h.level, table |-> u, xmlns |-> y]
    BY <2>1 DEF IsHelper
  <2> QED
    BY <2>2
<1> QED
  BY <1>2, <1>3

\* The helper after bindings were written: each is an xmlns attribute of the element, or one
\* that says the same is active.
Wrote(g, l, t, bs) ==
  /\ g = [level |-> l, table |-> t \o EntriesAt(l, g.xmlns), xmlns |-> g.xmlns]
  /\ g.xmlns \in Seq(Binding)
  /\ \A b \in bs : \/ b \in ToSet(g.xmlns)
                   \/ \E i \in DOMAIN t : t[i].ns = b.ns /\ t[i].prefix = b.prefix

\* Writing one binding more keeps what Wrote says.
LEMMA WroteMore ==
  ASSUME NEW l \in Nat, NEW t \in Seq(Entry), NEW bs, NEW g, Wrote(g, l, t, bs), NEW b \in Binding
  PROVE  Wrote(WriteXmlns(g, b), l, t, bs \cup {b})
<1> PICK x : x = g.xmlns
  OBVIOUS
<1> PICK e : e = EntryOf(l, b)
  OBVIOUS
<1> PICK p : p = EntriesAt(l, x)
  OBVIOUS
<1>1. x \in Seq(Binding) /\ g = [level |-> l, table |-> t \o p, xmlns |-> x]
  BY DEF Wrote
<1>2. p \in Seq(Entry) /\ t \o p \in Seq(Entry) /\ DOMAIN p = DOMAIN x /\ e \in Entry
      /\ \A i \in DOMAIN x : p[i] = EntryOf(l, x[i])
  <2>1. p \in Seq(Entry) /\ DOMAIN p = DOMAIN x /\ e \in Entry
        /\ \A i \in DOMAIN x : p[i] = EntryOf(l, x[i])
    BY <1>1, EntriesTyped, EntriesAppend
  <2> QED
    BY <2>1
<1>3. CASE WriteXmlns(g, b) = [level |-> l, xmlns |-> Append(x, b), table |-> Append(t \o p, e)]
  <2> PICK y : y = Append(x, b)
    OBVIOUS
  <2>1. y \in Seq(Binding) /\ ToSet(y) = ToSet(x) \cup {b}
    BY <1>1, AppendedSet
  <2>2. EntriesAt(l, y) = Append(p, e)
    BY <1>1, EntriesAppend
  <2>3. t \o Append(p, e) = Append(t \o p, e)
    BY <1>2, ConcatAppend
  <2>4. WriteXmlns(g, b) = [level |-> l, table |-> t \o EntriesAt(l, y), xmlns |-> y]
    BY <1>3, <2>2, <2>3
  <2> QED
    BY <2>1, <2>4 DEF Wrote
<1>4. CASE /\ WriteXmlns(g, b) = g
           /\ \E i \in DOMAIN (t \o p) : (t \o p)[i].ns = b.ns /\ (t \o p)[i].prefix = b.prefix
  <2>1. PICK i \in DOMAIN (t \o p) : (t \o p)[i].ns = b.ns /\ (t \o p)[i].prefix = b.prefix
    BY <1>4
  <2>2. b \in ToSet(x) \/ \E j \in DOMAIN t : t[j].ns = b.ns /\ t[j].prefix = b.prefix
    <3>1. \/ i \in DOMAIN t /\ (t \o p)[i] = t[i]
          \/ i - Len(t) \in DOMAIN p /\ (t \o p)[i] = p[i - Len(t)]
      BY <1>2
    <3>2. CASE i \in DOMAIN t /\ (t \o p)[i] = t[i]
      BY <2>1, <3>2
    <3>3. CASE i - Len(t) \in DOMAIN p /\ (t \o p)[i] = p[i - Len(t)]
      <4> PICK j : j = i - Len(t)
        OBVIOUS
      <4>1. j \in DOMAIN x /\ x[j].ns = b.ns /\ x[j].prefix = b.prefix /\ x[j] \in Binding
        <5>1. j \in DOMAIN x /\ p[j].ns = b.ns /\ p[j].prefix = b.prefix
          BY <1>2, <2>1, <3>3
        <5>2. p[j] = EntryOf(l, x[j])
          BY <1>2, <5>1
        <5>3. x[j] \in Binding
          BY <1>1, <5>1
        <5> QED
          BY <5>1, <5>2, <5>3 DEF EntryOf
      <4>2. x[j] = b
        BY <4>1 DEF Binding
      <4> QED
        BY <4>1, <4>2 DEF ToSet
    <3> QED
      BY <3>1, <3>2, <3>3
  <2> QED
    BY <1>1, <1>4, <2>2 DEF Wrote
<1>5. IsHelper(g) /\ g.level = l /\ g.table = t \o p
  BY <1>1, <1>2 DEF IsHelper
<1>6. LET k == WriteXmlns(g, b)
      IN  \/ /\ k = [level |-> k.level, table |-> k.table, xmlns |-> k.xmlns] /\ k.level = g.level
             /\ k.xmlns = Append(g.xmlns, b) /\ k.table = Append(g.table, EntryOf(g.level, b))
          \/ k = g /\ \E i \in DOMAIN g.table : g.table[i].ns = b.ns /\ g.table[i].prefix = b.prefix
  BY <1>5, XmlnsWritten
<1>7. \/ WriteXmlns(g, b) = [level |-> l, xmlns |-> Append(x, b), table |-> Append(t \o p, e)]
      \/ /\ WriteXmlns(g, b) = g
         /\ \E i \in DOMAIN (t \o p) : (t \o p)[i].ns = b.ns /\ (t \o p)[i].prefix = b.prefix
  BY <1>5, <1>6
<1> QED
  BY <1>3, <1>4, <1>7

\* write_xmlns for all the bindings of an element, from a helper without attributes.
LEMMA AllWritten ==
  ASSUME NEW l \in Nat, NEW t \in Seq(Entry), NEW bs \in Seq(Binding)
  PROVE  LET h == [level |-> l, table |-> t, xmlns |-> <<>>]
         IN  Wrote(WriteAll(h, bs), l, t, ToSet(bs)) /\ (bs = <<>> => WriteAll(h, bs) = h)
<1> PICK h : h = [level |-> l, table |-> t, xmlns |-> <<>>]
  OBVIOUS
<1>1. Len(bs) \in Nat /\ DOMAIN bs = 1 .. Len(bs) /\ \A i \in 1 .. Len(bs) : bs[i] \in Binding
  OBVIOUS
<1>2. PICK f : /\ WriteAll(h, bs) = f[Len(bs)] /\ f[0] = h
               /\ \A k \in 1 .. Len(bs) : f[k] = WriteXmlns(f[k - 1], bs[k])
  <2>1. Len(bs) \in Nat
    OBVIOUS
  <2> QED
    BY ONLY <2>1, WriteSteps
<1> DEFINE T == {k \in 0 .. Len(bs) : Wrote(f[k], l, t, {bs[i] : i \in 1 .. k})}
<1>3. 0 \in T
  <2>1. EntriesAt(l, <<>>) = <<>> /\ t \o <<>> = t /\ <<>> \in Seq(Binding)
    BY DEF EntriesAt
  <2>2. h.xmlns = <<>> /\ {bs[i] : i \in 1 .. 0} = {}
    OBVIOUS
  <2>3. Wrote(h, l, t, {bs[i] : i \in 1 .. 0})
    BY <2>1, <2>2 DEF Wrote
  <2> QED
    BY <1>1, <1>2, <2>3
<1>4. ASSUME NEW m \in 0 .. Len(bs) - 1, m \in T PROVE m + 1 \in T
  <2>1. m + 1 \in 1 .. Len(bs) /\ m + 1 \in 0 .. Len(bs) /\ (m + 1) - 1 = m /\ bs[m + 1] \in Binding
    BY <1>1
  <2>2. f[m + 1] = WriteXmlns(f[m], bs[m + 1])
    BY <1>2, <2>1
  <2>3. {bs[i] : i \in 1 .. m + 1} = {bs[i] : i \in 1 .. m} \cup {bs[m + 1]}
    <3>1. 1 .. m + 1 = 1 .. m \cup {m + 1}
      OBVIOUS
    <3> QED
      BY <3>1
  <2>4. Wrote(f[m], l, t, {bs[i] : i \in 1 .. m})
    BY <1>4
  <2>5. Wrote(f[m + 1], l, t, {bs[i] : i \in 1 .. m + 1})
    <3> PICK d : d = {bs[i] : i \in 1 .. m}
      OBVIOUS
    <3> PICK c : c = bs[m + 1]
      OBVIOUS
    <3>1. l \in Nat /\ t \in Seq(Entry) /\ c \in Binding /\ Wrote(f[m], l, t, d)
      BY <2>1, <2>4
    <3>2. Wrote(WriteXmlns(f[m], c), l, t, d \cup {c})
      BY ONLY <3>1, WroteMore
    <3>3. f[m + 1] = WriteXmlns(f[m], c) /\ {bs[i] : i \in 1 .. m + 1} = d \cup {c}
      BY <2>2, <2>3
    <3> QED
      BY ONLY <3>2, <3>3
  <2> QED
    BY <2>1, <2>5
<1>5. Len(bs) \in T
  <2> HIDE DEF T
  <2>1. \A m \in 0 .. Len(bs) : m \in T
    BY <1>1, <1>3, <1>4, UpTo
  <2> QED
    BY <1>1, <2>1
<1>6. {bs[i] : i \in 1 .. Len(bs)} = ToSet(bs)
  BY <1>1 DEF ToSet
<1>7. bs = <<>> => WriteAll(h, bs) = h
  BY <1>2
<1> QED
  BY <1>2, <1>5, <1>6, <1>7

-----------------------------------------------------------------------------
(* The invariant of the writer.                                            *)

ScopedOnes == {i \in DOMAIN open : open[i].scoped}
HasAnySimple == \E t \in Types : \E m \in ToSet(schema.types[t].members) : m.type = AnySimple

\* No scope was begun that nothing ends.
Exact == level = Cardinality(ScopedOnes)
Counted == level >= Cardinality(ScopedOnes) /\ (Exact \/ HasAnySimple)

\* The table has the entries of outer levels before those of inner ones.
Sorted(t, l) ==
  /\ t \in Seq(Entry)
  /\ \A i \in DOMAIN t : t[i].level <= l
  /\ \A i, j \in DOMAIN t : i <= j => t[i].level <= t[j].level
TableSorted == level \in Nat /\ Sorted(table, level)

IsElement(e) ==
  /\ e.level \in Nat /\ e.scoped \in BOOLEAN /\ e.home \in BOOLEAN
  /\ e.xmlns \in Seq(Binding) /\ e.names \subseteq Binding
OpenTyped == IsList(open) /\ \A i \in DOMAIN open : IsElement(open[i])

\* Each element has the level after the one around it, or the same, and then no attributes.
Depth(i) == IF i = 0 THEN 0 ELSE open[i].level
Nested ==
  /\ \A i \in DOMAIN open :
       /\ open[i].level = Depth(i - 1) + IF open[i].scoped THEN 1 ELSE 0
       /\ ~ open[i].scoped => open[i].xmlns = <<>>
  /\ level = Depth(Len(open))

OpenEntries == [i \in DOMAIN open |-> EntriesAt(open[i].level, open[i].xmlns)]
TableFits == Only(table, NotXsi) = Only(FlattenSeq(OpenEntries), NotXsi)

\* What is inside is a member of a type the root contains.
Within(m) == \E u \in Contained(root) : m \in ToSet(schema.types[u].members)
MembersWithin == \A i \in DOMAIN open : \A m \in ToSet(open[i].members) : Within(m)

KeyBinding(k) == Bind(IF k.default THEN NoPrefix ELSE schema.prefix[k.ns], k.ns)
RootDeclares ==
  open # <<>> /\ schema.mode = "global" /\ ~ CutOff =>
    \A k \in KeysWithin(root) : k.ns # Xsi => KeyBinding(k) \in ToSet(open[1].xmlns)

\* The names that may be written without a declaration.
OwnName(b) == schema.mode = "local" /\ b.ns = schema.default /\ b = Bind(schema.prefix[b.ns], b.ns)
Excused(b) == b.ns = Xsi \/ OwnName(b) \/ CutOff
DeclaredTo(b, n) == \E i \in 1 .. n : b \in ToSet(open[i].xmlns)
NamesDeclared ==
  \A i \in DOMAIN open : open[i].home => \A b \in open[i].names : Excused(b) \/ DeclaredTo(b, i)

\* The name of an element of the module of its content is known inside.
TagKnown ==
  \A i \in DOMAIN open :
    open[i].home /\ (\E m \in ToSet(open[i].members) : m.type # AnyElement) =>
      Bind(TagPrefix(open[i].ns), open[i].ns) \in open[i].names

DeclaredIn(b, scope) == \E p \in Places(scope) : At(scope, p) = b
WireTyped ==
  /\ IsList(wire.scope) /\ \A i \in DOMAIN wire.scope : wire.scope[i] \in Seq(Binding)
WireNamed == wire.home => \A b \in wire.names : Excused(b) \/ DeclaredIn(b, wire.scope)

WriterTypes == OpenTyped /\ WireTyped /\ TableSorted /\ Counted /\ MembersWithin /\ TagKnown
WriterFits == Nested /\ TableFits /\ RootDeclares /\ NamesDeclared /\ WireNamed
WriterInv == CollectorInv /\ WriterTypes /\ (Exact => WriterFits)

-----------------------------------------------------------------------------
(* The table.                                                              *)

\* The entries up to a level.
UpToLevel(l) == {e \in Entry : e.level <= l}

\* What Sorted says of the entries, by number.
LEMMA SortedTyped ==
  ASSUME NEW l, NEW t, Sorted(t, l)
  PROVE  /\ t \in Seq(Entry) /\ Len(t) \in Nat /\ DOMAIN t = 1 .. Len(t)
         /\ \A i \in 1 .. Len(t) : t[i] \in Entry /\ t[i].level \in Nat /\ t[i].level <= l
         /\ \A i, j \in 1 .. Len(t) : i <= j => t[i].level <= t[j].level
<1>1. t \in Seq(Entry)
  BY DEF Sorted
<1>2. Len(t) \in Nat /\ DOMAIN t = 1 .. Len(t) /\ \A i \in 1 .. Len(t) : t[i] \in Entry
  BY <1>1
<1>3. \A e \in Entry : e.level \in Nat
  BY DEF Entry
<1> QED
  BY <1>1, <1>2, <1>3 DEF Sorted

\* What is popped is what is of deeper levels.
LEMMA PoppedSorted ==
  ASSUME NEW l \in Nat, NEW t, Sorted(t, l), NEW to \in Nat
  PROVE  PopOutdated(t, to) = Only(t, UpToLevel(to)) /\ Sorted(PopOutdated(t, to), to)
<1> DEFINE Left(k) == /\ k = 0 \/ t[k].level <= to
                      /\ \A i \in k + 1 .. Len(t) : t[i].level > to
           T == {i \in 1 .. Len(t) : t[i].level <= to}
<1>1. /\ t \in Seq(Entry) /\ Len(t) \in Nat /\ DOMAIN t = 1 .. Len(t)
      /\ \A i \in 1 .. Len(t) : t[i] \in Entry /\ t[i].level \in Nat
      /\ \A i, j \in 1 .. Len(t) : i <= j => t[i].level <= t[j].level
  BY SortedTyped
<1>2. \E k \in 0 .. Len(t) : Left(k)
  <2>1. CASE T = {}
    <3>1. \A i \in 1 .. Len(t) : t[i].level > to
      BY <1>1, <2>1
    <3> QED
      BY <1>1, <3>1
  <2>2. CASE T # {}
    <3>1. PICK k \in T : \A i \in T : i <= k
      <4>1. T \in SUBSET (1 .. Len(t))
        OBVIOUS
      <4> HIDE DEF T
      <4> QED
        BY <1>1, <2>2, <4>1, GreatestNumber
    <3>2. \A i \in k + 1 .. Len(t) : t[i].level > to
      BY <1>1, <3>1
    <3> QED
      BY <1>1, <3>1, <3>2
  <2> QED
    BY <2>1, <2>2
<1>3. PICK c : c = CHOOSE k \in 0 .. Len(t) : Left(k)
  OBVIOUS
<1>4. c \in 0 .. Len(t) /\ Left(c)
  <2> HIDE DEF Left
  <2> QED
    BY <1>2, <1>3
<1>5. PopOutdated(t, to) = SubSeq(t, 1, c)
  BY <1>3 DEF PopOutdated
<1>6. \A i \in 1 .. c : t[i] \in UpToLevel(to)
  <2> SUFFICES ASSUME NEW i \in 1 .. c PROVE t[i] \in UpToLevel(to)
    OBVIOUS
  <2>1. c # 0 /\ c \in 1 .. Len(t) /\ i \in 1 .. Len(t) /\ i <= c /\ t[c].level <= to
    BY <1>1, <1>4
  <2>2. t[i].level <= t[c].level /\ t[i] \in Entry /\ t[i].level \in Nat /\ t[c].level \in Nat
    BY <1>1, <2>1
  <2> QED
    BY <2>1, <2>2 DEF UpToLevel
<1>7. \A i \in c + 1 .. Len(t) : t[i] \notin UpToLevel(to)
  <2> SUFFICES ASSUME NEW i \in c + 1 .. Len(t) PROVE t[i] \notin UpToLevel(to)
    OBVIOUS
  <2>1. t[i].level > to /\ t[i].level \in Nat
    BY <1>1, <1>4
  <2> QED
    BY <2>1 DEF UpToLevel
<1>8. Only(t, UpToLevel(to)) = SubSeq(t, 1, c)
  BY <1>1, <1>4, <1>6, <1>7, OnlyFront
<1> PICK s : s = SubSeq(t, 1, c)
  OBVIOUS
<1>9. s \in Seq(Entry) /\ DOMAIN s = 1 .. c /\ \A i \in 1 .. c : s[i] = t[i]
  BY <1>1, <1>4, FirstOnes
<1>10. Sorted(s, to)
  <2>1. \A i \in 1 .. c : s[i].level <= to
    BY <1>6, <1>9 DEF UpToLevel
  <2>2. \A i, j \in 1 .. c : i <= j => s[i].level <= s[j].level
    BY <1>1, <1>4, <1>9
  <2> QED
    BY <1>9, <2>1, <2>2 DEF Sorted
<1> QED
  BY <1>5, <1>8, <1>10

\* What entries of a level are chosen.
LEMMA LevelChosen ==
  ASSUME NEW l \in Nat, NEW x \in Seq(Binding), NEW to \in Nat
  PROVE  /\ l <= to => Only(EntriesAt(l, x), UpToLevel(to)) = EntriesAt(l, x)
         /\ l > to => Only(EntriesAt(l, x), UpToLevel(to)) = <<>>
<1> PICK p : p = EntriesAt(l, x)
  OBVIOUS
<1>1. p \in Seq(Entry) /\ DOMAIN p = DOMAIN x /\ \A i \in DOMAIN x : p[i] = EntryOf(l, x[i])
  BY EntriesTyped
<1>2. Len(p) \in Nat /\ DOMAIN p = 1 .. Len(p) /\ \A i \in 1 .. Len(p) : p[i] \in Entry /\ p[i].level = l
  BY <1>1 DEF EntryOf
<1>3. CASE l <= to
  <2>1. \A i \in 1 .. Len(p) : p[i] \in UpToLevel(to)
    BY <1>2, <1>3 DEF UpToLevel
  <2>2. Only(p, UpToLevel(to)) = SubSeq(p, 1, Len(p))
    <3>1. Len(p) \in 0 .. Len(p) /\ \A i \in Len(p) + 1 .. Len(p) : p[i] \notin UpToLevel(to)
      BY <1>2
    <3> QED
      BY <1>1, <2>1, <3>1, OnlyFront
  <2>3. SubSeq(p, 1, Len(p)) = p
    BY <1>1, <1>2, FirstOnes
  <2> QED
    BY <1>3, <2>2, <2>3
<1>4. CASE l > to
  <2>1. \A i \in 0 + 1 .. Len(p) : p[i] \notin UpToLevel(to)
    BY <1>2, <1>4 DEF UpToLevel
  <2>2. Only(p, UpToLevel(to)) = SubSeq(p, 1, 0)
    <3>1. 0 \in 0 .. Len(p) /\ \A i \in 1 .. 0 : p[i] \in UpToLevel(to)
      BY <1>2
    <3> QED
      BY <1>1, <2>1, <3>1, OnlyFront
  <2>3. SubSeq(p, 1, 0) = <<>>
    BY <1>1, <1>2, FirstOnes
  <2> QED
    BY <1>4, <2>2, <2>3
<1> QED
  BY <1>3, <1>4

\* All of a sequence is chosen, if all of it is in the set.
LEMMA OnlyAll ==
  ASSUME NEW U, NEW s \in Seq(U), NEW S, \A i \in DOMAIN s : s[i] \in S
  PROVE  Only(s, S) = s
<1>1. Len(s) \in Nat /\ Len(s) \in 0 .. Len(s) /\ DOMAIN s = 1 .. Len(s)
      /\ \A i \in Len(s) + 1 .. Len(s) : s[i] \notin S
  OBVIOUS
<1>2. Only(s, S) = SubSeq(s, 1, Len(s))
  BY <1>1, OnlyFront
<1> QED
  BY <1>1, <1>2, FirstOnes

\* The entries of one more element.
LEMMA SortedConcat ==
  ASSUME NEW m \in Nat, NEW l \in Nat, m <= l, NEW t, Sorted(t, m), NEW x \in Seq(Binding)
  PROVE  Sorted(t \o EntriesAt(l, x), l)
<1> PICK p : p = EntriesAt(l, x)
  OBVIOUS
<1> PICK c : c = t \o p
  OBVIOUS
<1>1. /\ p \in Seq(Entry) /\ Len(p) \in Nat /\ DOMAIN p = 1 .. Len(p)
      /\ \A i \in 1 .. Len(p) : p[i].level = l
  <2>1. p \in Seq(Entry) /\ DOMAIN p = DOMAIN x /\ \A i \in DOMAIN x : p[i] = EntryOf(l, x[i])
    BY EntriesTyped
  <2>2. Len(p) \in Nat /\ DOMAIN p = 1 .. Len(p)
    BY <2>1
  <2>3. ASSUME NEW i \in 1 .. Len(p) PROVE p[i].level = l
    <3>1. p[i] = EntryOf(l, x[i])
      BY <2>1, <2>2
    <3> QED
      BY <3>1 DEF EntryOf
  <2> QED
    BY <2>1, <2>2, <2>3
<1>2. /\ t \in Seq(Entry) /\ Len(t) \in Nat /\ DOMAIN t = 1 .. Len(t)
      /\ \A i \in 1 .. Len(t) : t[i].level <= m /\ t[i].level \in Nat
      /\ \A i, j \in 1 .. Len(t) : i <= j => t[i].level <= t[j].level
  BY SortedTyped
<1>3. /\ c \in Seq(Entry) /\ DOMAIN c = 1 .. Len(t) + Len(p)
      /\ \A i \in 1 .. Len(t) + Len(p) : c[i] = IF i <= Len(t) THEN t[i] ELSE p[i - Len(t)]
  BY <1>1, <1>2
<1>4. \A i \in 1 .. Len(t) + Len(p) :
        IF i <= Len(t) THEN c[i].level = t[i].level /\ c[i].level <= m /\ c[i].level \in Nat
        ELSE c[i].level = l
  BY <1>1, <1>2, <1>3
<1>5. \A i \in DOMAIN c : c[i].level <= l
  BY <1>1, <1>2, <1>3, <1>4
<1>6. \A i, j \in DOMAIN c : i <= j => c[i].level <= c[j].level
  BY <1>1, <1>2, <1>3, <1>4
<1> QED
  BY <1>3, <1>5, <1>6 DEF Sorted

\* The entries of an element that ends at once are popped, and nothing else.
LEMMA PoppedNew ==
  ASSUME NEW l \in Nat, NEW t, Sorted(t, l), NEW x \in Seq(Binding)
  PROVE  PopOutdated(t \o EntriesAt(l + 1, x), l) = t
<1> PICK p : p = EntriesAt(l + 1, x)
  OBVIOUS
<1>1. p \in Seq(Entry) /\ t \in Seq(Entry) /\ Sorted(t \o p, l + 1) /\ l + 1 \in Nat
  <2>1. l + 1 \in Nat /\ l <= l + 1
    OBVIOUS
  <2>2. p \in Seq(Entry)
    BY <2>1, EntriesTyped
  <2>3. Sorted(t \o p, l + 1)
    BY <2>1, SortedConcat
  <2> QED
    BY <2>1, <2>2, <2>3, SortedTyped
<1>2. PopOutdated(t \o p, l) = Only(t \o p, UpToLevel(l))
  BY <1>1, PoppedSorted
<1>3. Only(t \o p, UpToLevel(l)) = Only(t, UpToLevel(l)) \o Only(p, UpToLevel(l))
  <2>1. \A q, r \in Seq(Entry) : Only(q \o r, UpToLevel(l)) = Only(q, UpToLevel(l)) \o Only(r, UpToLevel(l))
    BY OnlyConcat
  <2> QED
    BY <1>1, <2>1
<1>4. Only(p, UpToLevel(l)) = <<>>
  BY LevelChosen
<1>5. Only(t, UpToLevel(l)) = t
  <2>1. \A i \in DOMAIN t : t[i] \in UpToLevel(l)
    BY <1>1 DEF Sorted, UpToLevel
  <2> QED
    BY <1>1, <2>1, OnlyAll
<1> QED
  BY <1>1, <1>2, <1>3, <1>4, <1>5

\* The entries of the open elements.
LEMMA OpenEntriesTyped ==
  ASSUME OpenTyped
  PROVE  /\ OpenEntries \in Seq(Seq(Entry)) /\ Len(OpenEntries) = Len(open) /\ DOMAIN OpenEntries = DOMAIN open
         /\ \A i \in DOMAIN open : OpenEntries[i] = EntriesAt(open[i].level, open[i].xmlns)
<1>1. Len(open) \in Nat /\ DOMAIN open = 1 .. Len(open)
  BY DEF OpenTyped, IsList
<1>2. \A i \in 1 .. Len(open) : EntriesAt(open[i].level, open[i].xmlns) \in Seq(Entry)
  BY <1>1, EntriesTyped DEF OpenTyped, IsElement
<1>3. OpenEntries = [i \in 1 .. Len(open) |-> EntriesAt(open[i].level, open[i].xmlns)]
  BY <1>1 DEF OpenEntries
<1>4. OpenEntries \in Seq(Seq(Entry)) /\ Len(OpenEntries) = Len(open)
  BY <1>1, <1>2, <1>3
<1> QED
  BY <1>1, <1>3, <1>4

\* What the table says was declared by an element that is open.
LEMMA TableDeclares ==
  ASSUME OpenTyped, TableSorted, TableFits, NEW b \in Binding, b.ns # Xsi,
         NEW i \in DOMAIN table, table[i].ns = b.ns, table[i].prefix = b.prefix
  PROVE  DeclaredTo(b, Len(open))
<1> PICK f : f = FlattenSeq(OpenEntries)
  OBVIOUS
<1>1. f \in Seq(Entry) /\ \A e \in ToSet(f) : \E k \in DOMAIN open : e \in ToSet(OpenEntries[k])
  BY OpenEntriesTyped, FlatTyped
<1>2. table \in Seq(Entry) /\ table[i] \in Entry /\ table[i] \in ToSet(table)
  BY DEF TableSorted, Sorted, ToSet
<1>3. table[i] \in NotXsi
  BY <1>2 DEF Entry, NotXsi
<1>4. table[i] \in ToSet(Only(table, NotXsi))
  <2>1. ToSet(Only(table, NotXsi)) = ToSet(table) \cap NotXsi
    BY <1>2, OnlyTyped
  <2> QED
    BY <1>2, <1>3, <2>1
<1>5. table[i] \in ToSet(f)
  <2>1. Only(table, NotXsi) = Only(f, NotXsi)
    BY DEF TableFits
  <2>2. ToSet(Only(f, NotXsi)) = ToSet(f) \cap NotXsi
    BY <1>1, OnlyTyped
  <2> QED
    BY <1>4, <2>1, <2>2
<1>6. PICK k \in DOMAIN open : table[i] \in ToSet(OpenEntries[k])
  BY <1>1, <1>5
<1>7. PICK x : x = open[k].xmlns /\ x \in Seq(Binding) /\ open[k].level \in Nat
  BY DEF OpenTyped, IsElement
<1>8. PICK j \in DOMAIN x : table[i] = EntryOf(open[k].level, x[j])
  BY <1>6, <1>7, OpenEntriesTyped, EntriesTyped DEF ToSet
<1>9. x[j] = b
  <2>1. x[j] \in Binding
    BY <1>7
  <2> QED
    BY <1>8, <2>1 DEF Binding, EntryOf
<1>10. b \in ToSet(open[k].xmlns)
  BY <1>7, <1>8, <1>9 DEF ToSet
<1>11. k \in 1 .. Len(open)
  BY DEF OpenTyped, IsList
<1> QED
  BY <1>10, <1>11 DEF DeclaredTo

-----------------------------------------------------------------------------
(* The steps of the writer.                                                *)

\* What was written is in scope of the element.
LEMMA WroteDeclares ==
  ASSUME OpenTyped, TableSorted, TableFits, NEW h, NEW l, NEW bs, Wrote(h, l, table, bs),
         NEW b \in bs, b \in Binding, b.ns # Xsi
  PROVE  b \in ToSet(h.xmlns) \/ DeclaredTo(b, Len(open))
  BY TableDeclares DEF Wrote

\* The places of the scope of an element.
LEMMA ScopeTyped ==
  ASSUME OpenTyped
  PROVE  /\ IsList(Scope) /\ DOMAIN Scope = 1 .. Len(open) /\ Len(Scope) = Len(open) /\ Len(open) \in Nat
         /\ \A i \in 1 .. Len(open) : Scope[i] = open[i].xmlns /\ Scope[i] \in Seq(Binding)
<1>1. Len(open) \in Nat /\ DOMAIN open = 1 .. Len(open)
  BY DEF OpenTyped, IsList
<1>2. Scope = [i \in 1 .. Len(open) |-> open[i].xmlns]
  BY <1>1 DEF Scope
<1>3. \A i \in 1 .. Len(open) : Scope[i] = open[i].xmlns /\ Scope[i] \in Seq(Binding)
  BY <1>1, <1>2 DEF OpenTyped, IsElement
<1>4. DOMAIN Scope = 1 .. Len(open)
  BY <1>2
<1>5. IsList(Scope) /\ Len(Scope) = Len(open)
  <2> PICK n : n = Len(open)
    OBVIOUS
  <2> PICK s : s = Scope
    OBVIOUS
  <2>1. n \in Nat /\ s = [i \in 1 .. n |-> s[i]]
    BY <1>1, <1>2
  <2>2. s \in Seq({s[i] : i \in DOMAIN s}) /\ Len(s) = n
    BY ONLY <2>1
  <2> QED
    BY ONLY <2>2, s = Scope, n = Len(open) DEF IsList
<1> QED
  BY <1>1, <1>3, <1>4, <1>5

\* What is declared around an element, or by it, is declared in its scope.
LEMMA InsideTyped ==
  ASSUME OpenTyped, NEW x \in Seq(Binding)
  PROVE  LET s == Append(Scope, x)
         IN  /\ IsList(s) /\ \A i \in DOMAIN s : s[i] \in Seq(Binding)
             /\ \A b : b \in ToSet(x) \/ DeclaredTo(b, Len(open)) => DeclaredIn(b, s)
<1> PICK s : s = Append(Scope, x)
  OBVIOUS
<1> PICK n : n = Len(open)
  OBVIOUS
<1>1. /\ IsList(Scope) /\ DOMAIN Scope = 1 .. n /\ Len(Scope) = n /\ n \in Nat
      /\ \A i \in 1 .. n : Scope[i] = open[i].xmlns /\ Scope[i] \in Seq(Binding)
  BY ScopeTyped
<1>2. /\ IsList(s) /\ DOMAIN s = 1 .. n \cup {n + 1} /\ s[n + 1] = x
      /\ \A i \in 1 .. n : s[i] = open[i].xmlns /\ s[i] \in Seq(Binding)
  <2>1. /\ IsList(s) /\ DOMAIN s = DOMAIN Scope \cup {Len(Scope) + 1} /\ s[Len(Scope) + 1] = x
        /\ \A i \in DOMAIN Scope : s[i] = Scope[i]
    BY <1>1, ListAppended
  <2> QED
    BY <1>1, <2>1
<1>3. ASSUME NEW b, NEW i \in DOMAIN s, b \in ToSet(s[i]) PROVE DeclaredIn(b, s)
  <2>1. PICK j \in DOMAIN s[i] : b = s[i][j]
    BY <1>3 DEF ToSet
  <2>2. <<i, j>> \in Places(s) /\ At(s, <<i, j>>) = b
    BY <2>1 DEF Places, At
  <2> QED
    BY <2>2 DEF DeclaredIn
<1>4. ASSUME NEW b, b \in ToSet(x) PROVE DeclaredIn(b, s)
  BY <1>2, <1>3, <1>4
<1>5. ASSUME NEW b, DeclaredTo(b, n) PROVE DeclaredIn(b, s)
  <2>1. PICK i \in 1 .. n : b \in ToSet(open[i].xmlns)
    BY <1>5 DEF DeclaredTo
  <2> QED
    BY <1>2, <1>3, <2>1
<1> QED
  BY <1>2, <1>4, <1>5

\* The scopes of what is open once more.
LEMMA DeclaredAround ==
  ASSUME OpenTyped, NEW b, DeclaredTo(b, Len(open))
  PROVE  DeclaredIn(b, Scope)
<1>1. PICK i \in 1 .. Len(open) : b \in ToSet(open[i].xmlns)
  BY DEF DeclaredTo
<1>2. i \in DOMAIN Scope /\ Scope[i] = open[i].xmlns
  BY ScopeTyped
<1>3. PICK j \in DOMAIN Scope[i] : b = Scope[i][j]
  BY <1>1, <1>2 DEF ToSet
<1>4. <<i, j>> \in Places(Scope) /\ At(Scope, <<i, j>>) = b
  BY <1>2, <1>3 DEF Places, At
<1> QED
  BY <1>4 DEF DeclaredIn

\* What depends on the schema and the root alone.
LEMMA SameRoot ==
  ASSUME schema' = schema, root' = root
  PROVE  /\ CutOff' = CutOff /\ HasAnySimple' = HasAnySimple
         /\ \A m : Within(m)' = Within(m)
         /\ \A b : Excused(b)' = Excused(b)
         /\ \A k : KeyBinding(k)' = KeyBinding(k)
         /\ KeysWithin(root)' = KeysWithin(root)
         /\ \A n : TagPrefix(n)' = TagPrefix(n)
<1>1. Frozen
  BY SchemaFrozen
<1>2. Contained(root)' = Contained(root) /\ KeysWithin(root)' = KeysWithin(root)
  BY <1>1 DEF Frozen
<1>3. CutOff' = CutOff
  BY <1>1, <1>2 DEF CutOff, Frozen
<1>4. HasAnySimple' = HasAnySimple
  BY DEF HasAnySimple, Types
<1>5. \A m : Within(m)' = Within(m)
  BY <1>2 DEF Within
<1>6. \A b : Excused(b)' = Excused(b)
  BY <1>3 DEF Excused, OwnName
<1> QED
  BY <1>2, <1>3, <1>4, <1>5, <1>6 DEF KeyBinding, TagPrefix

\* How many scopes were begun.
LEMMA ScopedCounted ==
  ASSUME OpenTyped
  PROVE  Cardinality(ScopedOnes) \in Nat /\ IsFiniteSet(ScopedOnes)
         /\ (open = <<>> => Cardinality(ScopedOnes) = 0)
<1>1. Len(open) \in Nat /\ DOMAIN open = 1 .. Len(open)
  BY DEF OpenTyped, IsList
<1>2. IsFiniteSet(1 .. Len(open))
  BY <1>1, FS_Interval
<1>3. ScopedOnes \subseteq 1 .. Len(open)
  BY <1>1 DEF ScopedOnes
<1>4. IsFiniteSet(ScopedOnes)
  BY <1>2, <1>3, FS_Subset
<1>5. open = <<>> => ScopedOnes = {}
  BY DEF ScopedOnes
<1> QED
  BY <1>4, <1>5, FS_CardinalityType, FS_EmptySet

\* An element that opens counts if it has a scope.
LEMMA ScopedPushed ==
  ASSUME OpenTyped, NEW e, open' = Append(open, e)
  PROVE  Cardinality(ScopedOnes)' = Cardinality(ScopedOnes) + (IF e.scoped THEN 1 ELSE 0)
<1>1. /\ DOMAIN open' = DOMAIN open \cup {Len(open) + 1} /\ Len(open) + 1 \notin DOMAIN open
      /\ \A i \in DOMAIN open : open'[i] = open[i]
      /\ open'[Len(open) + 1] = e
  BY ListAppended DEF OpenTyped
<1>2. ScopedOnes' = IF e.scoped THEN ScopedOnes \cup {Len(open) + 1} ELSE ScopedOnes
  BY <1>1 DEF ScopedOnes
<1>3. Len(open) + 1 \notin ScopedOnes
  BY <1>1 DEF ScopedOnes
<1>4. Cardinality(ScopedOnes) \in Nat /\ IsFiniteSet(ScopedOnes)
  BY ScopedCounted
<1>5. CASE e.scoped
  <2>1. Cardinality(ScopedOnes \cup {Len(open) + 1}) = Cardinality(ScopedOnes) + 1
    BY <1>3, <1>4, FS_AddElement
  <2> QED
    BY <1>2, <1>5, <2>1
<1>6. CASE ~ e.scoped
  BY <1>2, <1>4, <1>6
<1> QED
  BY <1>5, <1>6

\* An element that ends no longer counts.
LEMMA ScopedPopped ==
  ASSUME OpenTyped, open # <<>>, open' = Front(open)
  PROVE  /\ Cardinality(ScopedOnes)' = Cardinality(ScopedOnes) - (IF Inner.scoped THEN 1 ELSE 0)
         /\ Inner.scoped => Cardinality(ScopedOnes) > 0
<1>1. /\ Len(open) \in Nat \ {0} /\ DOMAIN open = 1 .. Len(open)
      /\ DOMAIN open' = 1 .. Len(open) - 1
      /\ \A i \in 1 .. Len(open) - 1 : open'[i] = open[i]
  BY ListShortened DEF OpenTyped
<1>2. Inner = open[Len(open)]
  BY DEF Inner, Last
<1>3. ScopedOnes' = ScopedOnes \ {Len(open)}
  BY <1>1 DEF ScopedOnes
<1>4. Len(open) \in ScopedOnes <=> Inner.scoped
  BY <1>1, <1>2 DEF ScopedOnes
<1>5. Cardinality(ScopedOnes) \in Nat /\ IsFiniteSet(ScopedOnes)
  BY ScopedCounted
<1>6. Cardinality(ScopedOnes \ {Len(open)}) =
        IF Len(open) \in ScopedOnes THEN Cardinality(ScopedOnes) - 1 ELSE Cardinality(ScopedOnes)
  BY <1>5, FS_RemoveElement
<1>7. Len(open) \in ScopedOnes => Cardinality(ScopedOnes) # 0
  BY <1>5, FS_EmptySet
<1> QED
  BY <1>3, <1>4, <1>5, <1>6, <1>7

-----------------------------------------------------------------------------
(* What a step does to the table and to the levels.                        *)

\* An element is open now.
Opened(e) ==
  /\ open' = Append(open, e) /\ IsElement(e)
  /\ level' = e.level /\ e.level = level + (IF e.scoped THEN 1 ELSE 0)
  /\ table' = table \o EntriesAt(e.level, e.xmlns)
  /\ ~ e.scoped => e.xmlns = <<>>

\* An element is open, and a scope that it does not end.
Drifts(e) ==
  /\ open' = Append(open, e) /\ IsElement(e) /\ ~ e.scoped
  /\ level' = level + 1 /\ HasAnySimple
  /\ \E x \in Seq(Binding) : table' = table \o EntriesAt(level + 1, x)

\* An element was written whole.
Passed ==
  /\ open' = open /\ level' = level
  /\ table' = table \/ \E b \in Binding : b.ns = Xsi /\ table' = Append(table, EntryOf(level, b))

\* The innermost element has ended.
Closed ==
  /\ open # <<>> /\ open' = Front(open)
  /\ IF Inner.scoped THEN /\ level' = IF level > 0 THEN level - 1 ELSE 0
                          /\ table' = PopOutdated(table, level')
     ELSE level' = level /\ table' = table

TableInv == OpenTyped /\ TableSorted /\ Counted
TableHolds == Nested /\ TableFits

\* The elements that are open when one more is.
LEMMA OpenedAll ==
  ASSUME OpenTyped, NEW e, open' = Append(open, e), IsElement(e)
  PROVE  /\ OpenTyped' /\ Len(open) \in Nat /\ Len(open') = Len(open) + 1 /\ open' # <<>>
         /\ DOMAIN open = 1 .. Len(open) /\ DOMAIN open' = 1 .. Len(open) + 1
         /\ open'[Len(open) + 1] = e
         /\ \A i \in 1 .. Len(open) : open'[i] = open[i]
<1>1. /\ IsList(open') /\ open' # <<>> /\ Len(open) \in Nat /\ DOMAIN open = 1 .. Len(open)
      /\ Len(open') = Len(open) + 1 /\ DOMAIN open' = DOMAIN open \cup {Len(open) + 1}
      /\ \A i \in DOMAIN open : open'[i] = open[i]
      /\ open'[Len(open) + 1] = e
  BY ListAppended DEF OpenTyped
<1>2. DOMAIN open' = 1 .. Len(open) + 1
  BY <1>1
<1>3. \A i \in DOMAIN open' : IsElement(open'[i])
  BY <1>1 DEF OpenTyped
<1>4. OpenTyped'
  BY <1>1, <1>3 DEF OpenTyped, IsElement
<1> QED
  BY <1>1, <1>2, <1>4

\* An element that opens adds its level and its entries.
LEMMA OpenedTable ==
  ASSUME TableInv, schema' = schema, NEW e, Opened(e)
  PROVE  /\ TableInv' /\ (Exact' => Exact)
         /\ Exact /\ TableHolds => TableHolds'
<1> PICK n : n = Len(open)
  OBVIOUS
<1>1. /\ OpenTyped' /\ n \in Nat /\ Len(open') = n + 1 /\ DOMAIN open = 1 .. n /\ DOMAIN open' = 1 .. n + 1
      /\ open'[n + 1] = e /\ \A i \in 1 .. n : open'[i] = open[i]
  BY OpenedAll DEF TableInv, Opened
<1>2. /\ level \in Nat /\ Sorted(table, level) /\ table \in Seq(Entry) /\ OpenTyped
      /\ e.level \in Nat /\ e.xmlns \in Seq(Binding) /\ level <= e.level
      /\ level' = e.level /\ table' = table \o EntriesAt(e.level, e.xmlns)
  <2>1. level \in Nat /\ e.level = level + (IF e.scoped THEN 1 ELSE 0)
    BY DEF TableInv, TableSorted, Opened
  <2>2. level <= e.level
    BY <2>1
  <2> QED
    BY <2>1, <2>2 DEF TableInv, TableSorted, Sorted, Opened, IsElement
<1>3. TableSorted'
  <2>1. Sorted(table', e.level)
    BY <1>2, SortedConcat
  <2> QED
    BY <1>2, <2>1 DEF TableSorted, Sorted
<1>4. /\ Cardinality(ScopedOnes)' = Cardinality(ScopedOnes) + (IF e.scoped THEN 1 ELSE 0)
      /\ Cardinality(ScopedOnes) \in Nat
      /\ level' = level + (IF e.scoped THEN 1 ELSE 0)
  BY <1>2, ScopedPushed, ScopedCounted DEF Opened
<1>5. Exact' <=> Exact
  BY <1>2, <1>4 DEF Exact
<1>6. Counted'
  <2>1. HasAnySimple' = HasAnySimple
    BY DEF HasAnySimple, Types
  <2>2. level >= Cardinality(ScopedOnes) /\ (Exact \/ HasAnySimple)
    BY DEF TableInv, Counted
  <2>3. level' >= Cardinality(ScopedOnes)'
    BY <1>2, <1>4, <2>2
  <2> QED
    BY <1>5, <2>1, <2>2, <2>3 DEF Counted
<1>7. ASSUME Nested, TableFits PROVE Nested' /\ TableFits'
  <2>1. Nested'
    <3>1. \A i \in 1 .. n + 1 : Depth(i - 1)' = Depth(i - 1)
      BY <1>1 DEF Depth
    <3>2. ASSUME NEW i \in 1 .. n + 1
          PROVE  /\ open'[i].level = Depth(i - 1)' + IF open'[i].scoped THEN 1 ELSE 0
                 /\ ~ open'[i].scoped => open'[i].xmlns = <<>>
      <4>1. CASE i \in 1 .. n
        BY <1>1, <1>7, <3>1, <4>1 DEF Nested
      <4>2. CASE i = n + 1
        <5>1. Depth(n)' = level
          BY <1>1, <1>7, <3>1, <4>2 DEF Nested
        <5>2. i - 1 = n /\ open'[i] = e
          BY <1>1, <4>2
        <5> QED
          BY <5>1, <5>2 DEF Opened
      <4> QED
        BY <1>1, <4>1, <4>2
    <3>3. level' = Depth(Len(open))'
      BY <1>1, <1>2 DEF Depth
    <3> QED
      BY <1>1, <3>2, <3>3 DEF Nested
  <2> PICK x : x = EntriesAt(e.level, e.xmlns)
    OBVIOUS
  <2> PICK s : s = OpenEntries
    OBVIOUS
  <2> PICK f : f = FlattenSeq(s)
    OBVIOUS
  <2>2. x \in Seq(Entry) /\ s \in Seq(Seq(Entry)) /\ Len(s) = n /\ f \in Seq(Entry)
        /\ \A i \in 1 .. n : s[i] = EntriesAt(open[i].level, open[i].xmlns)
    <3>1. x \in Seq(Entry) /\ s \in Seq(Seq(Entry)) /\ Len(s) = n
          /\ \A i \in 1 .. n : s[i] = EntriesAt(open[i].level, open[i].xmlns)
      BY <1>1, <1>2, EntriesTyped, OpenEntriesTyped
    <3>2. f \in Seq(Entry)
      BY <3>1, FlatTyped
    <3> QED
      BY <3>1, <3>2
  <2>3. OpenEntries' = Append(s, x)
    <3>1. OpenEntries' = [i \in 1 .. n + 1 |-> EntriesAt(open'[i].level, open'[i].xmlns)]
      BY <1>1 DEF OpenEntries, EntriesAt
    <3>2. Append(s, x) = [i \in 1 .. n + 1 |-> IF i = n + 1 THEN x ELSE s[i]]
      BY <1>1, <2>2
    <3>3. \A i \in 1 .. n + 1 : EntriesAt(open'[i].level, open'[i].xmlns) = IF i = n + 1 THEN x ELSE s[i]
      BY <1>1, <2>2
    <3> QED
      BY <3>1, <3>2, <3>3
  <2>4. FlattenSeq(OpenEntries)' = f \o x
    BY <2>2, <2>3, FlatAppend
  <2>5. \A q, r \in Seq(Entry) : Only(q \o r, NotXsi) = Only(q, NotXsi) \o Only(r, NotXsi)
    BY OnlyConcat
  <2>6. Only(table', NotXsi) = Only(table, NotXsi) \o Only(x, NotXsi)
    BY <1>2, <2>2, <2>5
  <2>7. Only(f \o x, NotXsi) = Only(f, NotXsi) \o Only(x, NotXsi)
    BY <2>2, <2>5
  <2>8. TableFits'
    <3>1. Only(table, NotXsi) = Only(f, NotXsi)
      BY <1>7 DEF TableFits
    <3> QED
      BY <2>4, <2>6, <2>7, <3>1 DEF TableFits, NotXsi
  <2> QED
    BY <2>1, <2>8
<1> QED
  BY <1>1, <1>3, <1>5, <1>6, <1>7 DEF TableInv, TableHolds

\* A value of xs:anySimpleType leaves one level too many.
LEMMA DriftsTable ==
  ASSUME TableInv, schema' = schema, NEW e, Drifts(e)
  PROVE  TableInv' /\ ~ Exact'
<1>1. OpenTyped'
  BY OpenedAll DEF TableInv, Drifts
<1>2. level \in Nat /\ Sorted(table, level) /\ level' = level + 1
  BY DEF TableInv, TableSorted, Drifts
<1>3. TableSorted'
  <2>1. PICK x \in Seq(Binding) : table' = table \o EntriesAt(level + 1, x)
    BY DEF Drifts
  <2>2. level + 1 \in Nat /\ level <= level + 1
    BY <1>2
  <2>3. Sorted(table', level + 1)
    BY <1>2, <2>1, <2>2, SortedConcat
  <2> QED
    BY <1>2, <2>2, <2>3 DEF TableSorted, Sorted
<1>4. Cardinality(ScopedOnes)' = Cardinality(ScopedOnes) /\ Cardinality(ScopedOnes) \in Nat
      /\ level >= Cardinality(ScopedOnes)
  BY ScopedPushed, ScopedCounted DEF Drifts, TableInv, Counted
<1>5. ~ Exact' /\ level' >= Cardinality(ScopedOnes)'
  BY <1>2, <1>4 DEF Exact
<1>6. HasAnySimple'
  BY DEF HasAnySimple, Types, Drifts
<1> QED
  BY <1>1, <1>3, <1>5, <1>6 DEF TableInv, Counted

\* An element that was written whole leaves the table as it was, but for xsi.
LEMMA PassedTable ==
  ASSUME TableInv, schema' = schema, Passed
  PROVE  /\ TableInv' /\ (Exact' => Exact)
         /\ Exact /\ TableHolds => TableHolds'
<1>1. /\ open' = open /\ level' = level /\ level \in Nat /\ Sorted(table, level) /\ table \in Seq(Entry)
      /\ OpenTyped /\ OpenTyped'
  BY DEF Passed, TableInv, TableSorted, Sorted, OpenTyped, IsList, IsElement
<1>2. (Exact' <=> Exact) /\ Counted'
  BY <1>1 DEF Exact, ScopedOnes, TableInv, Counted, HasAnySimple, Types
<1>3. Nested' <=> Nested
  BY <1>1 DEF Nested, Depth
<1>4. OpenEntries' = OpenEntries
  BY <1>1 DEF OpenEntries, EntriesAt
<1>5. CASE table' = table
  BY <1>1, <1>2, <1>3, <1>4, <1>5 DEF TableInv, TableHolds, TableFits, NotXsi, TableSorted, Sorted
<1>6. ASSUME NEW b \in Binding, b.ns = Xsi, table' = Append(table, EntryOf(level, b))
      PROVE  TableSorted' /\ (TableFits => TableFits')
  <2> PICK x : x = EntryOf(level, b)
    OBVIOUS
  <2>1. x \in Entry /\ x.level = level /\ x.ns = Xsi
    BY <1>1, <1>6 DEF Entry, EntryOf, Binding
  <2>2. Sorted(Append(table, x), level)
    <3> PICK t : t = Append(table, x)
      OBVIOUS
    <3>1. /\ Len(table) \in Nat /\ DOMAIN table = 1 .. Len(table)
          /\ \A i \in 1 .. Len(table) : table[i].level \in Nat /\ table[i].level <= level
          /\ \A i, j \in 1 .. Len(table) : i <= j => table[i].level <= table[j].level
      BY <1>1, SortedTyped
    <3>2. /\ t \in Seq(Entry) /\ DOMAIN t = 1 .. Len(table) + 1 /\ t[Len(table) + 1] = x
          /\ \A i \in 1 .. Len(table) : t[i] = table[i]
      BY <1>1, <2>1, <3>1
    <3>3. \A i \in 1 .. Len(table) + 1 : t[i].level = IF i = Len(table) + 1 THEN level ELSE table[i].level
      BY <2>1, <3>1, <3>2
    <3> QED
      BY <1>1, <3>1, <3>2, <3>3 DEF Sorted
  <2>3. Only(Append(table, x), NotXsi) = Only(table, NotXsi)
    <3>1. x \notin NotXsi
      BY <2>1 DEF NotXsi
    <3> QED
      BY <1>1, <2>1, <3>1, OnlyAppend
  <2> QED
    BY <1>1, <1>4, <1>6, <2>2, <2>3 DEF TableSorted, TableFits, Sorted, NotXsi
<1>7. CASE \E b \in Binding : b.ns = Xsi /\ table' = Append(table, EntryOf(level, b))
  BY <1>1, <1>2, <1>3, <1>6, <1>7 DEF TableInv, TableHolds
<1> QED
  BY <1>5, <1>7 DEF Passed

\* The levels grow inwards.
LEMMA DepthsGrow ==
  ASSUME OpenTyped, Nested, NEW n \in 0 .. Len(open)
  PROVE  \A i \in 0 .. n : Depth(i) <= Depth(n) /\ Depth(i) \in Nat
<1>1. Len(open) \in Nat /\ DOMAIN open = 1 .. Len(open) /\ \A i \in 1 .. Len(open) : open[i].level \in Nat
  BY DEF OpenTyped, IsList, IsElement
<1>2. \A i \in 0 .. Len(open) : Depth(i) \in Nat
  BY <1>1 DEF Depth
<1>3. \A i \in 1 .. Len(open) : Depth(i - 1) <= Depth(i)
  <2> SUFFICES ASSUME NEW i \in 1 .. Len(open) PROVE Depth(i - 1) <= Depth(i)
    OBVIOUS
  <2>1. Depth(i) = open[i].level /\ i - 1 \in 0 .. Len(open) /\ Depth(i - 1) \in Nat
    BY <1>1, <1>2 DEF Depth
  <2>2. open[i].level = Depth(i - 1) + IF open[i].scoped THEN 1 ELSE 0
    BY <1>1 DEF Nested
  <2> QED
    BY <2>1, <2>2
<1> DEFINE T == {m \in 0 .. n : \A i \in 0 .. m : Depth(i) <= Depth(m)}
<1>4. 0 \in T
  BY <1>1, <1>2
<1>5. ASSUME NEW m \in 0 .. n - 1, m \in T PROVE m + 1 \in T
  <2>1. m + 1 \in 1 .. Len(open) /\ (m + 1) - 1 = m /\ m + 1 \in 0 .. n /\ m \in 0 .. Len(open)
    BY <1>1
  <2>2. Depth(m) <= Depth(m + 1) /\ Depth(m) \in Nat /\ Depth(m + 1) \in Nat
    BY <1>1, <1>2, <1>3, <2>1
  <2>3. ASSUME NEW i \in 0 .. m + 1 PROVE Depth(i) <= Depth(m + 1)
    <3>1. CASE i = m + 1
      BY <2>2, <3>1
    <3>2. CASE i \in 0 .. m
      <4>1. Depth(i) <= Depth(m) /\ Depth(i) \in Nat
        BY <1>1, <1>2, <1>5, <2>1, <3>2
      <4> QED
        BY <2>2, <4>1
    <3> QED
      BY <2>1, <3>1, <3>2
  <2> QED
    BY <2>1, <2>3
<1>6. n \in T
  <2> HIDE DEF T
  <2>1. \A m \in 0 .. n : m \in T
    <3>1. n \in Nat
      BY <1>1
    <3> QED
      BY <1>4, <1>5, <3>1, UpTo
  <2> QED
    BY <1>1, <2>1
<1> QED
  BY <1>1, <1>2, <1>6

\* What the elements in front declared is of their levels.
LEMMA FlatLevels ==
  ASSUME NEW s \in Seq(Seq(Entry)), NEW l \in Nat,
         \A i \in DOMAIN s : \A j \in DOMAIN s[i] : s[i][j].level <= l
  PROVE  Only(FlattenSeq(s), UpToLevel(l)) = FlattenSeq(s)
<1> PICK f : f = FlattenSeq(s)
  OBVIOUS
<1>1. f \in Seq(Entry) /\ \A e \in ToSet(f) : \E i \in DOMAIN s : e \in ToSet(s[i])
  BY FlatTyped
<1>2. ASSUME NEW j \in DOMAIN f PROVE f[j] \in UpToLevel(l)
  <2>1. f[j] \in Entry /\ f[j] \in ToSet(f)
    BY <1>1 DEF ToSet
  <2>2. PICK i \in DOMAIN s : f[j] \in ToSet(s[i])
    BY <1>1, <2>1
  <2>3. PICK k \in DOMAIN s[i] : f[j] = s[i][k]
    BY <2>2 DEF ToSet
  <2>4. f[j].level <= l
    BY <2>3
  <2> QED
    BY <2>1, <2>4 DEF UpToLevel
<1> QED
  BY <1>1, <1>2, OnlyAll

\* The elements that are open when the innermost has ended.
LEMMA ClosedAll ==
  ASSUME OpenTyped, open # <<>>, open' = Front(open)
  PROVE  /\ OpenTyped' /\ Len(open) \in Nat \ {0} /\ Len(open') = Len(open) - 1
         /\ DOMAIN open = 1 .. Len(open) /\ DOMAIN open' = 1 .. Len(open) - 1
         /\ Inner = open[Len(open)] /\ IsElement(Inner)
         /\ \A i \in 1 .. Len(open) - 1 : open'[i] = open[i]
<1>1. /\ IsList(open') /\ Len(open) \in Nat \ {0} /\ DOMAIN open = 1 .. Len(open)
      /\ Len(open') = Len(open) - 1 /\ DOMAIN open' = 1 .. Len(open) - 1
      /\ \A i \in 1 .. Len(open) - 1 : open'[i] = open[i]
  BY ListShortened DEF OpenTyped
<1>2. Inner = open[Len(open)] /\ IsElement(Inner)
  BY <1>1 DEF Inner, Last, OpenTyped
<1>3. \A i \in DOMAIN open' : IsElement(open'[i])
  BY <1>1 DEF OpenTyped
<1>4. OpenTyped'
  BY <1>1, <1>3 DEF OpenTyped, IsElement
<1> QED
  BY <1>1, <1>2, <1>4

\* end_scope removes the entries of the element that ended, and no others.
LEMMA ClosedTable ==
  ASSUME TableInv, schema' = schema, Closed
  PROVE  /\ TableInv' /\ (Exact' => Exact)
         /\ Exact /\ TableHolds => TableHolds'
<1> PICK n : n = Len(open)
  OBVIOUS
<1> PICK e : e = Inner
  OBVIOUS
<1>1. /\ OpenTyped' /\ n \in Nat \ {0} /\ Len(open') = n - 1 /\ DOMAIN open = 1 .. n
      /\ DOMAIN open' = 1 .. n - 1 /\ e = open[n] /\ IsElement(e)
      /\ \A i \in 1 .. n - 1 : open'[i] = open[i]
  BY ClosedAll DEF TableInv, Closed
<1>2. level \in Nat /\ Sorted(table, level) /\ table \in Seq(Entry) /\ OpenTyped
  BY DEF TableInv, TableSorted, Sorted
<1>3. /\ Cardinality(ScopedOnes)' = Cardinality(ScopedOnes) - (IF e.scoped THEN 1 ELSE 0)
      /\ e.scoped => Cardinality(ScopedOnes) > 0
      /\ Cardinality(ScopedOnes) \in Nat /\ level >= Cardinality(ScopedOnes)
  BY <1>2, ScopedPopped, ScopedCounted DEF Closed, TableInv, Counted
<1>4. IF e.scoped THEN level' = level - 1 /\ level - 1 \in Nat /\ table' = PopOutdated(table, level - 1)
      ELSE level' = level /\ table' = table
  <2>1. CASE e.scoped
    <3>1. level > 0
      BY <1>2, <1>3, <2>1
    <3> QED
      BY <1>2, <2>1, <3>1 DEF Closed
  <2>2. CASE ~ e.scoped
    BY <2>2 DEF Closed
  <2> QED
    BY <2>1, <2>2
<1>5. TableSorted'
  <2>1. CASE e.scoped
    <3>1. Sorted(table', level - 1)
      BY <1>2, <1>4, <2>1, PoppedSorted
    <3> QED
      BY <1>4, <2>1, <3>1 DEF TableSorted, Sorted
  <2>2. CASE ~ e.scoped
    BY <1>2, <1>4, <2>2 DEF TableSorted, Sorted
  <2> QED
    BY <2>1, <2>2
<1>6. level' - Cardinality(ScopedOnes)' = level - Cardinality(ScopedOnes)
      /\ level' \in Nat /\ Cardinality(ScopedOnes)' \in Int
  BY <1>2, <1>3, <1>4
<1>7. Exact' <=> Exact
  BY <1>2, <1>3, <1>6 DEF Exact
<1>8. Counted'
  <2>1. HasAnySimple' = HasAnySimple
    BY DEF HasAnySimple, Types
  <2>2. level' >= Cardinality(ScopedOnes)'
    BY <1>2, <1>3, <1>6
  <2> QED
    BY <1>7, <2>1, <2>2 DEF TableInv, Counted
<1>9. ASSUME Nested, TableFits PROVE Nested' /\ TableFits'
  <2> PICK l : l = Depth(n - 1)
    OBVIOUS
  <2>1. /\ \A i \in 0 .. n - 1 : Depth(i)' = Depth(i)
        /\ level = Depth(n) /\ Depth(n) = e.level
        /\ e.level = l + (IF e.scoped THEN 1 ELSE 0)
        /\ ~ e.scoped => e.xmlns = <<>>
    BY <1>1, <1>9 DEF Depth, Nested
  <2>2. \A i \in 0 .. n - 1 : Depth(i) <= l /\ Depth(i) \in Nat
    <3>1. n - 1 \in 0 .. Len(open)
      BY <1>1
    <3> QED
      BY <1>2, <1>9, <3>1, DepthsGrow
  <2>3. l \in Nat /\ level' = l
    BY <1>1, <1>4, <2>1, <2>2
  <2>4. Nested'
    <3>1. \A i \in 1 .. n - 1 : i - 1 \in 0 .. n - 1 /\ i \in DOMAIN open
      BY <1>1
    <3>2. \A i \in 1 .. n - 1 : /\ open'[i].level = Depth(i - 1)' + IF open'[i].scoped THEN 1 ELSE 0
                                /\ ~ open'[i].scoped => open'[i].xmlns = <<>>
      BY <1>1, <1>9, <2>1, <3>1 DEF Nested
    <3>3. level' = Depth(Len(open))'
      <4>1. n - 1 \in 0 .. n - 1
        BY <1>1
      <4>2. Depth(n - 1)' = l
        BY <2>1, <4>1
      <4> QED
        BY <1>1, <2>3, <4>2
    <3> QED
      BY <1>1, <3>2, <3>3 DEF Nested
  <2> PICK s : s = OpenEntries'
    OBVIOUS
  <2> PICK x : x = EntriesAt(e.level, e.xmlns)
    OBVIOUS
  <2> PICK f : f = FlattenSeq(s)
    OBVIOUS
  <2>5. /\ s \in Seq(Seq(Entry)) /\ Len(s) = n - 1 /\ DOMAIN s = 1 .. n - 1
        /\ \A i \in 1 .. n - 1 : s[i] = EntriesAt(open[i].level, open[i].xmlns)
        /\ x \in Seq(Entry) /\ f \in Seq(Entry)
    <3>1. /\ s \in Seq(Seq(Entry)) /\ Len(s) = n - 1 /\ DOMAIN s = 1 .. n - 1
          /\ \A i \in 1 .. n - 1 : s[i] = EntriesAt(open'[i].level, open'[i].xmlns)
      <4>1. s = [i \in 1 .. n - 1 |-> EntriesAt(open'[i].level, open'[i].xmlns)]
        BY <1>1 DEF OpenEntries, EntriesAt
      <4>2. \A i \in 1 .. n - 1 : EntriesAt(open'[i].level, open'[i].xmlns) \in Seq(Entry)
        BY <1>1, <1>2, EntriesTyped DEF OpenTyped, IsElement
      <4>3. n - 1 \in Nat
        BY <1>1
      <4> QED
        BY <4>1, <4>2, <4>3
    <3>2. x \in Seq(Entry)
      BY <1>1, EntriesTyped DEF IsElement
    <3>3. f \in Seq(Entry)
      BY <3>1, FlatTyped
    <3> QED
      BY <1>1, <3>1, <3>2, <3>3
  <2>6. OpenEntries = Append(s, x)
    <3>1. OpenEntries = [i \in 1 .. n |-> EntriesAt(open[i].level, open[i].xmlns)]
      BY <1>1 DEF OpenEntries
    <3>2. Append(s, x) = [i \in 1 .. n |-> IF i = n THEN x ELSE s[i]]
      BY <1>1, <2>5
    <3>3. \A i \in 1 .. n : EntriesAt(open[i].level, open[i].xmlns) = IF i = n THEN x ELSE s[i]
      BY <1>1, <2>5
    <3> QED
      BY <3>1, <3>2, <3>3
  <2>7. FlattenSeq(OpenEntries) = f \o x
    BY <2>5, <2>6, FlatAppend
  <2>8. Only(table, NotXsi) = Only(f \o x, NotXsi)
    BY <1>9, <2>7 DEF TableFits
  <2>9. CASE ~ e.scoped
    <3>1. x = <<>>
      BY <2>1, <2>9 DEF EntriesAt
    <3>2. f \o x = f
      BY <2>5, <3>1
    <3> QED
      BY <1>4, <2>4, <2>8, <2>9, <3>2 DEF TableFits, NotXsi
  <2>10. CASE e.scoped
    <3>1. level - 1 = l /\ table' = PopOutdated(table, l) /\ e.level > l
      BY <1>2, <1>4, <2>1, <2>3, <2>10
    <3> PICK u : u = UpToLevel(l)
      OBVIOUS
    <3>2. table' = Only(table, u)
      BY <1>2, <2>3, <3>1, PoppedSorted
    <3>3. Only(f \o x, u) = f
      <4>1. Only(x, u) = <<>>
        BY <1>1, <2>3, <3>1, LevelChosen DEF IsElement
      <4>2. Only(f, u) = f
        <5>1. \A i \in DOMAIN s : \A j \in DOMAIN s[i] : s[i][j].level <= l
          <6> SUFFICES ASSUME NEW i \in 1 .. n - 1, NEW j \in DOMAIN s[i] PROVE s[i][j].level <= l
            BY <2>5
          <6>1. /\ s[i] = EntriesAt(open[i].level, open[i].xmlns) /\ open[i].level \in Nat
                /\ open[i].xmlns \in Seq(Binding)
            BY <1>1, <1>2, <2>5 DEF OpenTyped, IsElement
          <6>2. s[i][j].level = open[i].level
            <7>1. j \in DOMAIN open[i].xmlns /\ s[i][j] = EntryOf(open[i].level, open[i].xmlns[j])
              BY <6>1, EntriesTyped
            <7> QED
              BY <7>1 DEF EntryOf
          <6>3. i \in 0 .. n - 1 /\ Depth(i) = open[i].level
            BY <1>1 DEF Depth
          <6> QED
            BY <2>2, <6>2, <6>3
        <5> QED
          BY <2>3, <2>5, <5>1, FlatLevels
      <4>3. \A q, r \in Seq(Entry) : Only(q \o r, u) = Only(q, u) \o Only(r, u)
        BY ONLY OnlyConcat
      <4>4. Only(f \o x, u) = f \o <<>>
        <5>1. Only(f \o x, u) = Only(f, u) \o Only(x, u)
          BY <2>5, <4>3
        <5> QED
          BY <4>1, <4>2, <5>1
      <4> QED
        BY <2>5, <4>4
    <3>4. \A q \in Seq(Entry) : Only(Only(q, u), NotXsi) = Only(Only(q, NotXsi), u)
      <4> SUFFICES ASSUME NEW q \in Seq(Entry) PROVE Only(Only(q, u), NotXsi) = Only(Only(q, NotXsi), u)
        OBVIOUS
      <4>1. Only(Only(q, u), NotXsi) = Only(q, u \cap NotXsi)
        BY OnlyOnly
      <4>2. Only(Only(q, NotXsi), u) = Only(q, NotXsi \cap u)
        BY OnlyOnly
      <4>3. u \cap NotXsi = NotXsi \cap u
        OBVIOUS
      <4> QED
        BY <4>1, <4>2, <4>3
    <3>5. f \o x \in Seq(Entry)
      BY <2>5, ConcatSet
    <3>6. Only(table', NotXsi) = Only(Only(f \o x, NotXsi), u)
      BY <1>2, <2>8, <3>2, <3>4
    <3>7. Only(table', NotXsi) = Only(f, NotXsi)
      BY <3>3, <3>4, <3>5, <3>6
    <3> QED
      BY <2>4, <3>7 DEF TableFits, NotXsi
  <2> QED
    BY <2>9, <2>10
<1> QED
  BY <1>1, <1>5, <1>7, <1>8, <1>9 DEF TableInv, TableHolds

-----------------------------------------------------------------------------
(* The bindings of an element.                                             *)

\* Namespaces of keys are those of modules.
LEMMA KeysTyped ==
  ASSUME schema \in Schemas, NEW t \in Types, NEW k \in OwnKeys(t)
  PROVE  /\ k.ns \in ToSet(Modules) /\ k.default \in BOOLEAN
         /\ k.default \/ schema.prefix[k.ns] # NoPrefix
<1>1. schema.types[t].ns \in ToSet(Modules) /\ schema.types[t].attrs \subseteq ToSet(Modules)
  BY ModuleAssumption DEF Types
<1> DEFINE Fine(j) == j.ns \in ToSet(Modules) /\ j.default \in BOOLEAN
<1>2. Fine(OwnKey(t))
  BY <1>1 DEF OwnKey, Normal, Default
<1>3. \A n \in schema.types[t].attrs : Fine(Normal(n))
  BY <1>1 DEF Normal
<1>4. Fine(Normal(Xsi)) /\ Fine(Normal(Xs))
  BY ModuleAssumption DEF Normal
<1>5. \A type : \A j \in CustomKeys(type) : Fine(j)
  BY <1>4 DEF CustomKeys
<1>6. \/ k = OwnKey(t) \/ (\E n \in schema.types[t].attrs : k = Normal(n)) \/ k = Normal(Xsi)
      \/ \E m \in ToSet(schema.types[t].members) : k \in CustomKeys(m.type)
  <2> HIDE DEF Fine
  <2> QED
    BY DEF OwnKeys, Emittable
<1>7. Fine(k)
  <2> HIDE DEF Fine
  <2> QED
    BY <1>2, <1>3, <1>4, <1>5, <1>6
<1>8. k.default \/ schema.prefix[k.ns] # NoPrefix
  BY DEF OwnKeys, Emittable
<1> QED
  BY <1>7, <1>8

\* The bindings of two lists together.
LEMMA BindingsConcat ==
  \A p, q \in Seq(Binding) : p \o q \in Seq(Binding) /\ ToSet(p \o q) = ToSet(p) \cup ToSet(q)
  BY ONLY ConcatSet

\* A list of bindings, one for each of a list of namespaces.
LEMMA BindingList ==
  ASSUME NEW s \in Seq(STRING), NEW p, \A n \in ToSet(s) : p[n] \in STRING
  PROVE  LET l == [i \in DOMAIN s |-> Bind(p[s[i]], s[i])]
         IN  l \in Seq(Binding) /\ \A n \in ToSet(s) : Bind(p[n], n) \in ToSet(l)
<1> PICK l : l = [i \in DOMAIN s |-> Bind(p[s[i]], s[i])]
  OBVIOUS
<1>1. Len(s) \in Nat /\ DOMAIN s = 1 .. Len(s) /\ \A i \in 1 .. Len(s) : s[i] \in STRING
  OBVIOUS
<1>2. \A i \in 1 .. Len(s) : s[i] \in ToSet(s)
  BY <1>1 DEF ToSet
<1>3. \A i \in 1 .. Len(s) : Bind(p[s[i]], s[i]) \in Binding
  BY <1>1, <1>2 DEF Bind, Binding
<1>4. l = [i \in 1 .. Len(s) |-> Bind(p[s[i]], s[i])]
  BY <1>1
<1>5. l \in Seq(Binding)
  BY <1>1, <1>3, <1>4
<1>6. ASSUME NEW n \in ToSet(s) PROVE Bind(p[n], n) \in ToSet(l)
  <2>1. PICK i \in 1 .. Len(s) : n = s[i]
    BY <1>1 DEF ToSet
  <2>2. i \in DOMAIN l /\ l[i] = Bind(p[n], n)
    BY <1>4, <2>1
  <2> QED
    BY <2>2 DEF ToSet
<1> QED
  BY <1>5, <1>6

\* The bindings without a prefix.
LEMMA DefaultList ==
  ASSUME NEW s \in Seq(STRING)
  PROVE  LET l == [i \in DOMAIN s |-> Bind(NoPrefix, s[i])]
         IN  l \in Seq(Binding) /\ \A n \in ToSet(s) : Bind(NoPrefix, n) \in ToSet(l)
<1> PICK l : l = [i \in DOMAIN s |-> Bind(NoPrefix, s[i])]
  OBVIOUS
<1>1. Len(s) \in Nat /\ DOMAIN s = 1 .. Len(s) /\ \A i \in 1 .. Len(s) : s[i] \in STRING
  OBVIOUS
<1>2. \A i \in 1 .. Len(s) : Bind(NoPrefix, s[i]) \in Binding
  BY <1>1, ModuleAssumption DEF Bind, Binding
<1>3. l = [i \in 1 .. Len(s) |-> Bind(NoPrefix, s[i])]
  BY <1>1
<1>4. l \in Seq(Binding)
  BY <1>1, <1>2, <1>3
<1>5. ASSUME NEW n \in ToSet(s) PROVE Bind(NoPrefix, n) \in ToSet(l)
  <2>1. PICK i \in 1 .. Len(s) : n = s[i]
    BY <1>1 DEF ToSet
  <2>2. i \in DOMAIN l /\ l[i] = Bind(NoPrefix, n)
    BY <1>3, <2>1
  <2> QED
    BY <2>2 DEF ToSet
<1> QED
  BY <1>4, <1>5

\* Modules that are chosen.
LEMMA ModulesChosen ==
  ASSUME NEW S
  PROVE  Only(Modules, S) \in Seq(STRING) /\ ToSet(Only(Modules, S)) = ToSet(Modules) \cap S
<1>1. Modules \in Seq(STRING)
  BY ModuleAssumption
<1>2. Only(Modules, S) \in Seq(STRING \cap S) /\ ToSet(Only(Modules, S)) = ToSet(Modules) \cap S
  BY <1>1, OnlyTyped
<1>3. \A q \in Seq(STRING \cap S) : q \in Seq(STRING)
  OBVIOUS
<1> QED
  BY <1>2, <1>3

\* All keys are declared, and without keys nothing is.
LEMMA OrderedDeclares ==
  ASSUME schema \in Schemas, NEW keys, \A k \in keys : k.ns \in ToSet(Modules) /\ k.default \in BOOLEAN
  PROVE  /\ Ordered(keys) \in Seq(Binding)
         /\ \A k \in keys : KeyBinding(k) \in ToSet(Ordered(keys))
         /\ keys = {} => Ordered(keys) = <<>>
<1> PICK normal : normal = Only(Modules, {k.ns : k \in {k \in keys : ~ k.default}})
  OBVIOUS
<1> PICK default : default = Only(Modules, {k.ns : k \in {k \in keys : k.default}})
  OBVIOUS
<1> PICK p : p = [i \in DOMAIN normal |-> Bind(schema.prefix[normal[i]], normal[i])]
  OBVIOUS
<1> PICK q : q = [i \in DOMAIN default |-> Bind(NoPrefix, default[i])]
  OBVIOUS
<1>1. Ordered(keys) = p \o q
  BY DEF Ordered
<1>2. /\ normal \in Seq(STRING) /\ ToSet(normal) = ToSet(Modules) \cap {k.ns : k \in {k \in keys : ~ k.default}}
      /\ default \in Seq(STRING) /\ ToSet(default) = ToSet(Modules) \cap {k.ns : k \in {k \in keys : k.default}}
  BY ModulesChosen
<1>3. p \in Seq(Binding) /\ \A n \in ToSet(normal) : Bind(schema.prefix[n], n) \in ToSet(p)
  <2>1. schema.prefix \in [ToSet(Modules) -> STRING]
    BY ModuleAssumption
  <2>2. \A n \in ToSet(normal) : schema.prefix[n] \in STRING
    BY <1>2, <2>1
  <2> QED
    BY <1>2, <2>2, BindingList
<1>4. q \in Seq(Binding) /\ \A n \in ToSet(default) : Bind(NoPrefix, n) \in ToSet(q)
  BY <1>2, DefaultList
<1>5. p \o q \in Seq(Binding) /\ ToSet(p \o q) = ToSet(p) \cup ToSet(q)
  BY <1>3, <1>4, BindingsConcat
<1>6. ASSUME NEW k \in keys PROVE KeyBinding(k) \in ToSet(p) \cup ToSet(q)
  <2>1. CASE k.default
    <3>1. k.ns \in ToSet(default)
      BY <1>2, <2>1
    <3> QED
      BY <1>4, <2>1, <3>1 DEF KeyBinding
  <2>2. CASE ~ k.default
    <3>1. k.ns \in ToSet(normal)
      BY <1>2, <2>2
    <3> QED
      BY <1>3, <2>2, <3>1 DEF KeyBinding
  <2> QED
    BY <2>1, <2>2
<1>7. ASSUME keys = {} PROVE p \o q = <<>>
  <2>1. ToSet(normal) = {} /\ ToSet(default) = {}
    BY <1>2, <1>7
  <2>2. \A s \in Seq(STRING) : ToSet(s) = {} => s = <<>>
    <3> SUFFICES ASSUME NEW s \in Seq(STRING), s # <<>> PROVE ToSet(s) # {}
      OBVIOUS
    <3>1. 1 \in DOMAIN s
      OBVIOUS
    <3>2. s[1] \in ToSet(s)
      BY <3>1 DEF ToSet
    <3> QED
      BY <3>2
  <2>3. normal = <<>> /\ default = <<>>
    BY <1>2, <2>1, <2>2
  <2>4. p = <<>> /\ q = <<>>
    BY <2>3
  <2> QED
    BY <2>4
<1> QED
  BY <1>1, <1>5, <1>6, <1>7

\* Modules have names and prefixes.
LEMMA PrefixTyped ==
  ASSUME schema \in Schemas, NEW n \in ToSet(Modules)
  PROVE  n \in STRING /\ schema.prefix[n] \in STRING /\ TagPrefix(n) \in STRING
<1>1. schema.prefix \in [ToSet(Modules) -> STRING] /\ NoPrefix \in STRING /\ Modules \in Seq(STRING)
  BY ModuleAssumption
<1>2. n \in STRING
  BY <1>1 DEF ToSet
<1> QED
  BY <1>1, <1>2 DEF TagPrefix

\* What the element of a value of complex type declares.
LEMMA BindingsDeclare ==
  ASSUME CollectorInv, NEW t \in Types, NEW tag \in ToSet(Modules), NEW isRoot \in BOOLEAN
  PROVE  LET bs == Bindings(tag, t, isRoot)
             n == schema.types[t].ns
         IN  /\ bs \in Seq(Binding)
             /\ ~ NeedsScope(t) => bs = <<>>
             /\ schema.mode = "local" \/ schema.prefix[n] = NoPrefix => Bind(TagPrefix(tag), n) \in ToSet(bs)
             /\ schema.mode = "local" =>
                  \A a \in schema.types[t].attrs \ {n} : Bind(schema.prefix[a], a) \in ToSet(bs)
             /\ schema.mode # "local" /\ isRoot => \A k \in cache[t].keys : KeyBinding(k) \in ToSet(bs)
<1> PICK n : n = schema.types[t].ns
  OBVIOUS
<1> PICK b : b = Bind(TagPrefix(tag), n)
  OBVIOUS
<1>1. /\ schema \in Schemas /\ n \in ToSet(Modules) /\ schema.types[t].attrs \subseteq ToSet(Modules)
      /\ cache[t].keys \subseteq AllKeys
  BY ModuleAssumption DEF CollectorInv, Shape, Types
<1>2. b \in Binding
  BY <1>1, PrefixTyped DEF Bind, Binding
<1>3. <<b>> \in Seq(Binding) /\ ToSet(<<b>>) = {b} /\ <<>> \in Seq(Binding) /\ ToSet(<<>>) = {}
  BY <1>2 DEF ToSet
<1>4. CASE schema.mode = "local"
  <2> PICK others : others = Only(Modules, schema.types[t].attrs \ {n})
    OBVIOUS
  <2> PICK q : q = [i \in DOMAIN others |-> Bind(schema.prefix[others[i]], others[i])]
    OBVIOUS
  <2>1. others \in Seq(STRING) /\ ToSet(others) = schema.types[t].attrs \ {n}
    BY <1>1, ModulesChosen
  <2>2. q \in Seq(Binding) /\ \A a \in ToSet(others) : Bind(schema.prefix[a], a) \in ToSet(q)
    <3>1. \A a \in ToSet(others) : schema.prefix[a] \in STRING
      BY <1>1, <2>1, PrefixTyped
    <3> QED
      BY <2>1, <3>1, BindingList
  <2>3. <<b>> \o q \in Seq(Binding) /\ ToSet(<<b>> \o q) = {b} \cup ToSet(q)
    <3>1. \A r, u \in Seq(Binding) : r \o u \in Seq(Binding) /\ ToSet(r \o u) = ToSet(r) \cup ToSet(u)
      BY ONLY BindingsConcat
    <3>2. <<b>> \in Seq(Binding) /\ ToSet(<<b>>) = {b} /\ q \in Seq(Binding)
      BY <1>3, <2>2
    <3> PICK r : r = <<b>>
      OBVIOUS
    <3> QED
      BY ONLY <3>1, <3>2, r = <<b>>
  <2>4. Bindings(tag, t, isRoot) = <<b>> \o q
    BY <1>4 DEF Bindings, LocalBindings
  <2> QED
    BY <1>4, <2>1, <2>2, <2>3, <2>4 DEF NeedsScope
<1>5. CASE schema.mode # "local"
  <2> PICK f : f = IF schema.prefix[n] = NoPrefix THEN <<b>> ELSE <<>>
    OBVIOUS
  <2> PICK q : q = IF isRoot THEN Ordered(cache[t].keys) ELSE <<>>
    OBVIOUS
  <2>1. Bindings(tag, t, isRoot) = f \o q
    BY <1>5 DEF Bindings, GlobalBindings
  <2>2. /\ Ordered(cache[t].keys) \in Seq(Binding)
        /\ \A k \in cache[t].keys : KeyBinding(k) \in ToSet(Ordered(cache[t].keys))
        /\ cache[t].keys = {} => Ordered(cache[t].keys) = <<>>
    <3>1. \A k \in cache[t].keys : k.ns \in ToSet(Modules) /\ k.default \in BOOLEAN
      BY <1>1, KeysTyped DEF AllKeys
    <3> QED
      BY <1>1, <3>1, OrderedDeclares
  <2>3. f \in Seq(Binding) /\ q \in Seq(Binding)
    BY <1>3, <2>2
  <2>4. f \o q \in Seq(Binding) /\ ToSet(f \o q) = ToSet(f) \cup ToSet(q)
    BY <2>3, BindingsConcat
  <2>5. ~ NeedsScope(t) => f \o q = <<>>
    <3> SUFFICES ASSUME ~ NeedsScope(t) PROVE f \o q = <<>>
      OBVIOUS
    <3>1. f = <<>> /\ q = <<>>
      BY <2>2 DEF NeedsScope
    <3> QED
      BY <3>1
  <2> QED
    BY <1>3, <1>5, <2>1, <2>2, <2>4, <2>5
<1> QED
  BY <1>4, <1>5

-----------------------------------------------------------------------------
(* The steps of the writer, and what they do to the invariant.             *)

WriterHolds == WriterTypes /\ (Exact => WriterFits)

\* b is known where the attributes x are written.
KnownWith(b, x) == Excused(b)' \/ b \in ToSet(x) \/ DeclaredTo(b, Len(open))

\* What is inside an element.
Inside(e) ==
  /\ \A m \in ToSet(e.members) : Within(m)'
  /\ e.home /\ (\E m \in ToSet(e.members) : m.type # AnyElement) => Bind(TagPrefix(e.ns), e.ns) \in e.names

\* The event of an element with the attributes x.
Sent(x) == wire'.scope = Append(Scope, x) /\ x \in Seq(Binding)

OpenStep(e) ==
  /\ schema' = schema /\ Opened(e) /\ Inside(e) /\ Sent(e.xmlns)
  /\ wire'.names = e.names /\ wire'.home = e.home
  /\ open # <<>> => root' = root
  /\ Exact /\ WriterFits =>
       /\ e.home => \A b \in e.names : KnownWith(b, e.xmlns)
       /\ open = <<>> /\ schema.mode = "global" /\ ~ CutOff' =>
            \A k \in KeysWithin(root)' : k.ns # Xsi => KeyBinding(k) \in ToSet(e.xmlns)

DriftStep(e) ==
  /\ schema' = schema /\ root' = root /\ Drifts(e) /\ Inside(e)
  /\ \E x : Sent(x)

PassStep ==
  /\ schema' = schema /\ Passed
  /\ open # <<>> => root' = root
  /\ \E x : /\ Sent(x)
            /\ Exact /\ WriterFits /\ wire'.home => \A b \in wire'.names : KnownWith(b, x)

CloseStep ==
  /\ schema' = schema /\ root' = root /\ Closed
  /\ wire'.scope = Scope /\ wire'.names = Inner.names /\ wire'.home = Inner.home

QuietStep ==
  /\ schema' = schema /\ UNCHANGED <<level, table, root, open, wire>>

\* What is known is in scope of the event.
LEMMA SentNames ==
  ASSUME OpenTyped, NEW x, Sent(x)
  PROVE  /\ WireTyped'
         /\ \A b : KnownWith(b, x) => Excused(b)' \/ DeclaredIn(b, wire'.scope)
<1>1. x \in Seq(Binding) /\ wire'.scope = Append(Scope, x)
  BY DEF Sent
<1>2. /\ IsList(wire'.scope) /\ \A i \in DOMAIN wire'.scope : wire'.scope[i] \in Seq(Binding)
      /\ \A b : b \in ToSet(x) \/ DeclaredTo(b, Len(open)) => DeclaredIn(b, wire'.scope)
  BY <1>1, InsideTyped
<1> QED
  BY <1>2 DEF WireTyped, IsList, KnownWith

\* What the elements declare up to one that stays open.
LEMMA DeclaredStays ==
  ASSUME NEW n \in Nat, \A i \in 1 .. n : open'[i] = open[i]
  PROVE  \A b : \A k \in 0 .. n : DeclaredTo(b, k)' <=> DeclaredTo(b, k)
<1> SUFFICES ASSUME NEW b, NEW k \in 0 .. n PROVE DeclaredTo(b, k)' <=> DeclaredTo(b, k)
  OBVIOUS
<1>1. \A i \in 1 .. k : open'[i] = open[i]
  OBVIOUS
<1> QED
  BY <1>1 DEF DeclaredTo

\* What an element has inside, and what is around it.
LEMMA InsideOpened ==
  ASSUME OpenTyped, MembersWithin, TagKnown, schema' = schema, NEW e, Inside(e), IsElement(e),
         open' = Append(open, e), open # <<>> => root' = root
  PROVE  MembersWithin' /\ TagKnown'
<1> PICK n : n = Len(open)
  OBVIOUS
<1>1. /\ n \in Nat /\ DOMAIN open = 1 .. n /\ DOMAIN open' = 1 .. n + 1
      /\ open'[n + 1] = e /\ \A i \in 1 .. n : open'[i] = open[i]
  BY OpenedAll
<1>2. ASSUME NEW i \in 1 .. n
      PROVE  \A m : Within(m)' <=> Within(m)
  <2>1. root' = root
    BY <1>1, <1>2
  <2> QED
    BY <2>1, SameRoot
<1>3. \A k : TagPrefix(k)' = TagPrefix(k)
  BY DEF TagPrefix
<1>4. ASSUME NEW i \in DOMAIN open', NEW m \in ToSet(open'[i].members) PROVE Within(m)'
  <2>1. CASE i = n + 1
    BY <1>1, <1>4, <2>1 DEF Inside
  <2>2. CASE i # n + 1
    <3>1. i \in 1 .. n /\ i \in DOMAIN open /\ open'[i] = open[i]
      BY <1>1, <2>2
    <3>2. Within(m)
      BY <1>4, <3>1 DEF MembersWithin
    <3> QED
      BY <1>2, <3>1, <3>2
  <2> QED
    BY <2>1, <2>2
<1>5. ASSUME NEW i \in DOMAIN open', open'[i].home, \E m \in ToSet(open'[i].members) : m.type # AnyElement
      PROVE  Bind(TagPrefix(open'[i].ns), open'[i].ns) \in open'[i].names
  <2>1. CASE i = n + 1
    BY <1>1, <1>5, <2>1 DEF Inside
  <2>2. CASE i # n + 1
    <3>1. i \in 1 .. n /\ i \in DOMAIN open /\ open'[i] = open[i]
      BY <1>1, <2>2
    <3> QED
      BY <1>5, <3>1 DEF TagKnown
  <2> QED
    BY <2>1, <2>2
<1>6. MembersWithin'
  BY <1>4 DEF MembersWithin, ToSet
<1>7. TagKnown'
  BY <1>3, <1>5 DEF TagKnown, ToSet, Bind
<1> QED
  BY <1>6, <1>7

\* The invariant after an element was opened.
LEMMA OpenStepHolds == ASSUME WriterHolds, NEW e, OpenStep(e) PROVE WriterHolds'
<1> PICK n : n = Len(open)
  OBVIOUS
<1>1. /\ WriterTypes /\ TableInv /\ OpenTyped /\ schema' = schema /\ Opened(e)
      /\ open' = Append(open, e) /\ IsElement(e)
  BY DEF WriterHolds, WriterTypes, TableInv, OpenStep, Opened
<1>2. /\ n \in Nat /\ DOMAIN open = 1 .. n /\ DOMAIN open' = 1 .. n + 1 /\ open' # <<>>
      /\ open'[n + 1] = e /\ \A i \in 1 .. n : open'[i] = open[i]
  BY <1>1, OpenedAll
<1>3. TableInv' /\ (Exact' => Exact) /\ (Exact /\ TableHolds => TableHolds')
  BY <1>1, OpenedTable
<1>4. MembersWithin' /\ TagKnown'
  BY <1>1, InsideOpened DEF WriterTypes, OpenStep
<1>5. WireTyped' /\ \A b : KnownWith(b, e.xmlns) => Excused(b)' \/ DeclaredIn(b, wire'.scope)
  BY <1>1, SentNames DEF OpenStep
<1>6. WriterTypes'
  BY <1>3, <1>4, <1>5 DEF WriterTypes, TableInv
<1>7. ASSUME Exact' PROVE WriterFits'
  <2>1. Exact /\ WriterFits
    BY <1>3, <1>7 DEF WriterHolds
  <2>2. Nested' /\ TableFits'
    BY <1>3, <2>1 DEF TableHolds, WriterFits
  <2>3. \A b : \A k \in 0 .. n : DeclaredTo(b, k)' <=> DeclaredTo(b, k)
    BY <1>2, DeclaredStays
  <2>4. RootDeclares'
    <3>1. CASE open = <<>>
      <4>1. n = 0 /\ open'[1] = e
        BY <1>2, <3>1
      <4>2. schema.mode = "global" /\ ~ CutOff' =>
              \A k \in KeysWithin(root)' : k.ns # Xsi => KeyBinding(k) \in ToSet(e.xmlns)
        BY <2>1, <3>1 DEF OpenStep
      <4>3. \A k : KeyBinding(k)' = KeyBinding(k)
        BY <1>1 DEF KeyBinding, Bind
      <4> QED
        BY <1>1, <4>1, <4>2, <4>3 DEF RootDeclares, ToSet
    <3>2. CASE open # <<>>
      <4>1. root' = root /\ n # 0
        BY <1>2, <3>2 DEF OpenStep
      <4>2. open'[1] = open[1]
        BY <1>2, <4>1
      <4>3. /\ CutOff' = CutOff /\ KeysWithin(root)' = KeysWithin(root)
            /\ \A k : KeyBinding(k)' = KeyBinding(k)
        BY <1>1, <4>1, SameRoot
      <4>4. RootDeclares
        BY <2>1 DEF WriterFits
      <4> QED
        BY <1>1, <3>2, <4>2, <4>3, <4>4 DEF RootDeclares, ToSet
    <3> QED
      BY <3>1, <3>2
  <2>5. NamesDeclared'
    <3>1. ASSUME NEW i \in DOMAIN open', open'[i].home, NEW b \in open'[i].names
          PROVE  Excused(b)' \/ DeclaredTo(b, i)'
      <4>1. CASE i = n + 1
        <5>1. KnownWith(b, e.xmlns)
          BY <1>2, <2>1, <3>1, <4>1 DEF OpenStep
        <5>2. b \in ToSet(e.xmlns) => DeclaredTo(b, i)'
          <6>1. n + 1 \in 1 .. i /\ open'[n + 1].xmlns = e.xmlns
            BY <1>2, <4>1
          <6> QED
            BY <6>1 DEF DeclaredTo, ToSet
        <5>3. DeclaredTo(b, n) => DeclaredTo(b, i)'
          <6>1. SUFFICES ASSUME DeclaredTo(b, n) PROVE DeclaredTo(b, i)'
            OBVIOUS
          <6>2. PICK j \in 1 .. n : b \in ToSet(open[j].xmlns)
            BY <6>1 DEF DeclaredTo
          <6>3. j \in 1 .. i /\ open'[j] = open[j]
            BY <1>2, <4>1
          <6> QED
            BY <6>2, <6>3 DEF DeclaredTo, ToSet
        <5> QED
          BY <5>1, <5>2, <5>3 DEF KnownWith
      <4>2. CASE i # n + 1
        <5>1. i \in 1 .. n /\ i \in 0 .. n /\ i \in DOMAIN open /\ open'[i] = open[i] /\ root' = root
          BY <1>2, <4>2 DEF OpenStep
        <5>2. Excused(b) \/ DeclaredTo(b, i)
          BY <2>1, <3>1, <5>1 DEF WriterFits, NamesDeclared
        <5>3. Excused(b)' = Excused(b)
          BY <1>1, <5>1, SameRoot
        <5> QED
          BY <2>3, <5>1, <5>2, <5>3
      <4> QED
        BY <4>1, <4>2
    <3> QED
      BY <3>1 DEF NamesDeclared
  <2>6. WireNamed'
    <3>1. \A b \in wire'.names : wire'.home => KnownWith(b, e.xmlns)
      BY <2>1 DEF OpenStep
    <3>2. \A b : DeclaredIn(b, wire'.scope) <=> DeclaredIn(b, wire.scope)'
      BY DEF DeclaredIn, Places, At
    <3> QED
      BY <1>5, <3>1, <3>2 DEF WireNamed
  <2> QED
    BY <2>2, <2>4, <2>5, <2>6 DEF WriterFits
<1> QED
  BY <1>6, <1>7 DEF WriterHolds

\* The invariant after a value of xs:anySimpleType was begun: its scope is never ended.
LEMMA DriftStepHolds == ASSUME WriterHolds, NEW e, DriftStep(e) PROVE WriterHolds'
<1>1. /\ WriterTypes /\ TableInv /\ OpenTyped /\ schema' = schema /\ Drifts(e)
      /\ open' = Append(open, e) /\ IsElement(e)
  BY DEF WriterHolds, WriterTypes, TableInv, DriftStep, Drifts
<1>2. TableInv' /\ ~ Exact'
  BY <1>1, DriftsTable
<1>3. MembersWithin' /\ TagKnown'
  BY <1>1, InsideOpened DEF WriterTypes, DriftStep
<1>4. WireTyped'
  BY <1>1, SentNames DEF DriftStep
<1> QED
  BY <1>2, <1>3, <1>4 DEF WriterHolds, WriterTypes, TableInv

\* Elements that stay open, with the same root, keep what they have.
LEMMA OpenStays ==
  ASSUME OpenTyped, schema' = schema, open' = open, open # <<>> => root' = root
  PROVE  /\ MembersWithin => MembersWithin'
         /\ TagKnown => TagKnown'
         /\ RootDeclares => RootDeclares'
         /\ NamesDeclared => NamesDeclared'
<1>1. CASE open = <<>>
  BY <1>1 DEF MembersWithin, TagKnown, RootDeclares, NamesDeclared
<1>2. CASE open # <<>>
  <2>1. /\ CutOff' = CutOff
        /\ \A m : Within(m)' = Within(m)
        /\ \A b : Excused(b)' = Excused(b)
        /\ \A k : KeyBinding(k)' = KeyBinding(k)
        /\ KeysWithin(root)' = KeysWithin(root)
        /\ \A n : TagPrefix(n)' = TagPrefix(n)
    BY <1>2, SameRoot
  <2>2. MembersWithin => MembersWithin'
    BY <2>1 DEF MembersWithin
  <2>3. TagKnown => TagKnown'
    BY <2>1 DEF TagKnown, Bind
  <2>4. RootDeclares => RootDeclares'
    BY <2>1 DEF RootDeclares
  <2>5. NamesDeclared => NamesDeclared'
    BY <2>1 DEF NamesDeclared, DeclaredTo
  <2> QED
    BY <2>2, <2>3, <2>4, <2>5
<1> QED
  BY <1>1, <1>2

\* The invariant after an element was written whole.
LEMMA PassStepHolds == ASSUME WriterHolds, PassStep PROVE WriterHolds'
<1>1. /\ WriterTypes /\ TableInv /\ OpenTyped /\ schema' = schema /\ Passed /\ open' = open
      /\ open # <<>> => root' = root
  BY DEF WriterHolds, WriterTypes, TableInv, PassStep, Passed
<1>2. TableInv' /\ (Exact' => Exact) /\ (Exact /\ TableHolds => TableHolds')
  BY <1>1, PassedTable
<1>3. PICK x : Sent(x) /\ (Exact /\ WriterFits /\ wire'.home => \A b \in wire'.names : KnownWith(b, x))
  BY DEF PassStep
<1>4. WireTyped' /\ \A b : KnownWith(b, x) => Excused(b)' \/ DeclaredIn(b, wire'.scope)
  BY <1>1, <1>3, SentNames
<1>5. MembersWithin' /\ TagKnown' /\ (RootDeclares => RootDeclares') /\ (NamesDeclared => NamesDeclared')
  BY <1>1, OpenStays DEF WriterTypes
<1>6. WriterTypes'
  BY <1>2, <1>4, <1>5 DEF WriterTypes, TableInv
<1>7. ASSUME Exact' PROVE WriterFits'
  <2>1. Exact /\ WriterFits
    BY <1>2, <1>7 DEF WriterHolds
  <2>2. \A b : DeclaredIn(b, wire'.scope) <=> DeclaredIn(b, wire.scope)'
    BY DEF DeclaredIn, Places, At
  <2>3. WireNamed'
    BY <1>3, <1>4, <2>1, <2>2 DEF WireNamed
  <2> QED
    BY <1>2, <1>5, <2>1, <2>3 DEF WriterFits, TableHolds
<1> QED
  BY <1>6, <1>7 DEF WriterHolds

\* The invariant after the innermost element has ended.
LEMMA CloseStepHolds == ASSUME WriterHolds, CloseStep PROVE WriterHolds'
<1> PICK n : n = Len(open)
  OBVIOUS
<1>1. /\ WriterTypes /\ TableInv /\ OpenTyped /\ schema' = schema /\ root' = root /\ Closed
      /\ open # <<>> /\ open' = Front(open)
  BY DEF WriterHolds, WriterTypes, TableInv, CloseStep, Closed
<1>2. /\ n \in Nat \ {0} /\ DOMAIN open = 1 .. n /\ DOMAIN open' = 1 .. n - 1
      /\ Inner = open[n] /\ \A i \in 1 .. n - 1 : open'[i] = open[i]
  BY <1>1, ClosedAll
<1>3. TableInv' /\ (Exact' => Exact) /\ (Exact /\ TableHolds => TableHolds')
  BY <1>1, ClosedTable
<1>4. /\ CutOff' = CutOff
      /\ \A m : Within(m)' = Within(m)
      /\ \A b : Excused(b)' = Excused(b)
      /\ \A k : KeyBinding(k)' = KeyBinding(k)
      /\ KeysWithin(root)' = KeysWithin(root)
      /\ \A k : TagPrefix(k)' = TagPrefix(k)
  BY <1>1, SameRoot
<1>5. \A i \in DOMAIN open' : i \in DOMAIN open /\ i \in 0 .. n - 1 /\ open'[i] = open[i]
  BY <1>2
<1>6. MembersWithin'
  BY <1>1, <1>4, <1>5 DEF WriterTypes, MembersWithin, ToSet
<1>7. TagKnown'
  BY <1>1, <1>4, <1>5 DEF WriterTypes, TagKnown, ToSet, Bind
<1>8. WireTyped'
  <2>1. wire'.scope = Scope
    BY DEF CloseStep
  <2>2. IsList(Scope) /\ \A i \in DOMAIN Scope : Scope[i] \in Seq(Binding)
    BY <1>1, ScopeTyped
  <2> QED
    BY <2>1, <2>2 DEF WireTyped, IsList
<1>9. WriterTypes'
  BY <1>3, <1>6, <1>7, <1>8 DEF WriterTypes, TableInv
<1>10. ASSUME Exact' PROVE WriterFits'
  <2>1. Exact /\ WriterFits
    BY <1>3, <1>10 DEF WriterHolds
  <2>2. \A b : \A k \in 0 .. n - 1 : DeclaredTo(b, k)' <=> DeclaredTo(b, k)
    <3>1. n - 1 \in Nat
      BY <1>2
    <3> QED
      BY <1>2, <3>1, DeclaredStays
  <2>3. RootDeclares'
    <3>1. SUFFICES ASSUME open' # <<>> PROVE RootDeclares'
      BY DEF RootDeclares
    <3>2. 1 \in DOMAIN open'
      <4>1. OpenTyped'
        BY <1>9 DEF WriterTypes
      <4>2. open' \in Seq({open'[i] : i \in DOMAIN open'})
        BY <4>1 DEF OpenTyped, IsList
      <4> QED
        BY <3>1, <4>2
    <3>3. open'[1] = open[1]
      BY <1>5, <3>2
    <3> QED
      BY <1>1, <1>4, <2>1, <3>3 DEF RootDeclares, WriterFits, ToSet
  <2>4. NamesDeclared'
    <3>1. ASSUME NEW i \in DOMAIN open', open'[i].home, NEW b \in open'[i].names
          PROVE  Excused(b)' \/ DeclaredTo(b, i)'
      <4>1. Excused(b) \/ DeclaredTo(b, i)
        BY <1>5, <2>1, <3>1 DEF WriterFits, NamesDeclared
      <4> QED
        BY <1>4, <1>5, <2>2, <4>1
    <3> QED
      BY <3>1 DEF NamesDeclared
  <2>5. WireNamed'
    <3>1. ASSUME wire'.home, NEW b \in wire'.names PROVE Excused(b)' \/ DeclaredIn(b, wire.scope)'
      <4>1. n \in DOMAIN open /\ open[n].home /\ b \in open[n].names /\ wire'.scope = Scope
        BY <1>2, <3>1 DEF CloseStep
      <4>2. Excused(b) \/ DeclaredTo(b, n)
        BY <2>1, <4>1 DEF WriterFits, NamesDeclared
      <4>3. DeclaredTo(b, n) => DeclaredIn(b, Scope)
        BY <1>1, DeclaredAround
      <4>4. DeclaredIn(b, wire'.scope) <=> DeclaredIn(b, wire.scope)'
        BY DEF DeclaredIn, Places, At
      <4> QED
        BY <1>4, <4>1, <4>2, <4>3, <4>4
    <3> QED
      BY <3>1 DEF WireNamed
  <2> QED
    BY <1>3, <2>1, <2>3, <2>4, <2>5 DEF WriterFits, TableHolds
<1> QED
  BY <1>9, <1>10 DEF WriterHolds

\* The invariant while nothing is written.
LEMMA QuietStepHolds == ASSUME WriterHolds, QuietStep PROVE WriterHolds'
<1>1. /\ WriterTypes /\ TableInv /\ OpenTyped /\ schema' = schema /\ Passed /\ open' = open
      /\ root' = root /\ wire' = wire
  BY DEF WriterHolds, WriterTypes, TableInv, QuietStep, Passed
<1>2. TableInv' /\ (Exact' => Exact) /\ (Exact /\ TableHolds => TableHolds')
  BY <1>1, PassedTable
<1>3. /\ MembersWithin' /\ TagKnown' /\ (RootDeclares => RootDeclares') /\ (NamesDeclared => NamesDeclared')
  BY <1>1, OpenStays DEF WriterTypes
<1>4. WireTyped'
  BY <1>1 DEF WriterTypes, WireTyped, IsList
<1>5. WireNamed => WireNamed'
  <2>1. \A b : Excused(b)' = Excused(b)
    BY <1>1, SameRoot
  <2> QED
    BY <1>1, <2>1 DEF WireNamed, DeclaredIn, Places, At
<1>6. WriterTypes'
  BY <1>2, <1>3, <1>4 DEF WriterTypes, TableInv
<1>7. Exact' => WriterFits'
  BY <1>2, <1>3, <1>5 DEF WriterHolds, WriterFits, TableHolds
<1> QED
  BY <1>6, <1>7 DEF WriterHolds

-----------------------------------------------------------------------------
(* What is inside the elements, and the names of it.                       *)

\* Whether the bindings are of names that are known around the element.
Around(h, bs) == \A b \in bs : b.ns # Xsi => b \in ToSet(h.xmlns) \/ DeclaredTo(b, Len(open))

\* A member of what is open is one of a type that the root contains.
LEMMA MemberTyped ==
  ASSUME OpenTyped, MembersWithin, schema \in Schemas, NEW m \in Members
  PROVE  /\ open # <<>> /\ Within(m) /\ m \in ToSet(Inner.members)
         /\ Len(open) \in DOMAIN open /\ Inner = open[Len(open)] /\ IsElement(Inner)
         /\ m.tag \in ToSet(Modules) /\ m.tag \in STRING
         /\ m.nillable => m.type # AnyElement
         /\ m.type \in Types => m.type \in Contained(root)
<1>1. open # <<>> /\ m \in ToSet(Inner.members)
  BY DEF Members
<1>2. Len(open) \in DOMAIN open /\ Inner = open[Len(open)] /\ IsElement(Inner)
  <2>1. Len(open) \in Nat \ {0} /\ DOMAIN open = 1 .. Len(open)
    BY <1>1, ListShortened DEF OpenTyped
  <2> QED
    BY <2>1 DEF OpenTyped, Inner, Last
<1>3. Within(m)
  BY <1>1, <1>2 DEF MembersWithin
<1>4. PICK u \in Contained(root) : m \in ToSet(schema.types[u].members)
  BY <1>3 DEF Within
<1>5. u \in Types
  BY <1>4 DEF Contained
<1>6. schema.types[u].members \in Seq(Content(schema.types))
  BY <1>5, SchemaAssumption DEF Types
<1>7. PICK i \in DOMAIN schema.types[u].members : m = schema.types[u].members[i]
  BY <1>4 DEF ToSet
<1>8. m \in Content(schema.types)
  BY <1>6, <1>7
<1>9. m.tag \in ToSet(Modules)
  BY <1>8 DEF Content
<1>10. m.tag \in STRING
  BY <1>9, PrefixTyped
<1>11. m.nillable => m.type # AnyElement
  BY <1>4, <1>5, ModuleAssumption DEF Types
<1>12. m.type \in Types => m.type \in Contained(root)
  <2>1. m.type \in Types => m.type \in TypesOf(u)
    BY <1>7 DEF TypesOf, Merged
  <2> QED
    BY <1>4, <1>5, <2>1 DEF Contained
<1> QED
  BY <1>1, <1>2, <1>3, <1>9, <1>10, <1>11, <1>12

\* The name of an element of text is known, if it is in the module of the element around it.
LEMMA TextKnown ==
  ASSUME WriterTypes, schema \in Schemas, NEW m \in Members, m.type # AnyElement, HomeText(m.tag), WriterFits
  PROVE  Excused(Bind(TagPrefix(m.tag), m.tag)) \/ DeclaredTo(Bind(TagPrefix(m.tag), m.tag), Len(open))
<1>1. /\ m \in ToSet(Inner.members) /\ Len(open) \in DOMAIN open /\ Inner = open[Len(open)]
  BY MemberTyped DEF WriterTypes
<1>2. Inner.home /\ m.tag = Inner.ns
  BY DEF HomeText
<1>3. Bind(TagPrefix(m.tag), m.tag) \in Inner.names
  BY <1>1, <1>2 DEF WriterTypes, TagKnown
<1> QED
  BY <1>1, <1>2, <1>3 DEF WriterFits, NamesDeclared

\* What has the root as it is now.
LEMMA SameNames ==
  ASSUME schema' = schema, root' = root
  PROVE  /\ \A b, x : KnownWith(b, x) <=> Excused(b) \/ b \in ToSet(x) \/ DeclaredTo(b, Len(open))
         /\ \A m : Within(m)' = Within(m)
  BY SameRoot DEF KnownWith

\* The name of an element as it is made from its module.
LEMMA NameTyped ==
  ASSUME schema \in Schemas, NEW n \in ToSet(Modules)
  PROVE  /\ Bind(TagPrefix(n), n) \in Binding /\ Bind(schema.prefix[n], n) \in Binding
         /\ Bind(TagPrefix(n), n).ns = n
  BY PrefixTyped DEF Bind, Binding

\* The bindings of the two namespaces whose prefix is in the code.
LEMMA XsiTyped ==
  /\ Xsi \in STRING /\ Xs \in STRING /\ Bind("xsi", Xsi) \in Binding /\ Bind("xs", Xs) \in Binding
<1>1. Xsi \in STRING /\ Xs \in STRING
  BY ModuleAssumption DEF ToSet
<1>2. \A p, n \in STRING : Bind(p, n) \in Binding
  BY DEF Bind, Binding
<1>3. "xsi" \in STRING /\ "xs" \in STRING
  BY LiteralAssumption
<1> QED
  BY <1>1, <1>2, <1>3

-----------------------------------------------------------------------------
(* Elements of text.                                                       *)

\* ContentSerializer opens an element whose name is known around it.
LEMMA SimpleOpens ==
  ASSUME WriterTypes, schema \in Schemas, NEW m, WriteSimple(m)
  PROVE  \E e : OpenStep(e)
<1> PICK names : names = {Bind(TagPrefix(m.tag), m.tag)}
  OBVIOUS
<1> PICK e : e = [ns |-> m.tag, members |-> <<>>, scoped |-> FALSE, level |-> level, xmlns |-> <<>>,
                  names |-> names, home |-> HomeText(m.tag)]
  OBVIOUS
<1>1. /\ m \in Members /\ m.type = Simple /\ open' = Append(open, e) /\ schema' = schema /\ root' = root
      /\ level' = level /\ table' = table
      /\ wire' = [kind |-> "start", names |-> names, home |-> HomeText(m.tag), declares |-> <<>>,
                  scope |-> Append(Scope, <<>>)]
  BY DEF WriteSimple, Write, Push, Helper, collector
<1>2. /\ OpenTyped /\ level \in Nat /\ table \in Seq(Entry)
  BY DEF WriterTypes, TableSorted, Sorted
<1>3. /\ open # <<>> /\ m.tag \in ToSet(Modules) /\ IsElement(Inner)
  BY <1>1, <1>2, MemberTyped DEF WriterTypes
<1>4. HomeText(m.tag) \in BOOLEAN
  BY <1>3 DEF HomeText, IsElement
<1>5. <<>> \in Seq(Binding) /\ names \subseteq Binding
  BY <1>3, NameTyped
<1>6. IsElement(e)
  BY <1>2, <1>4, <1>5 DEF IsElement
<1>7. table \o EntriesAt(level, <<>>) = table
  BY <1>2 DEF EntriesAt
<1>8. Opened(e)
  BY <1>1, <1>2, <1>6, <1>7 DEF Opened
<1>9. Inside(e)
  BY DEF Inside, ToSet
<1>10. ASSUME Exact, WriterFits, e.home, NEW b \in e.names PROVE KnownWith(b, e.xmlns)
  <2>1. m.type # AnyElement /\ HomeText(m.tag) /\ b = Bind(TagPrefix(m.tag), m.tag)
    BY <1>1, <1>10, ModuleAssumption
  <2> QED
    BY <1>1, <1>10, <2>1, TextKnown, SameNames
<1> QED
  BY <1>1, <1>3, <1>5, <1>8, <1>9, <1>10 DEF OpenStep, Sent

\* NillableSerializer writes an element whole.
LEMMA NilPasses ==
  ASSUME WriterTypes, schema \in Schemas, NEW m, WriteNil(m)
  PROVE  PassStep
<1> PICK b : b = Bind("xsi", Xsi)
  OBVIOUS
<1> PICK h : h = WriteXmlns(Helper, b)
  OBVIOUS
<1> PICK a : a = Bind(TagPrefix(m.tag), m.tag)
  OBVIOUS
<1>1. /\ m \in Members /\ m.nillable /\ open' = open /\ schema' = schema /\ root' = root
      /\ level' = h.level /\ table' = h.table
      /\ wire' = [kind |-> "empty", names |-> {a, b}, home |-> HomeText(m.tag), declares |-> h.xmlns,
                  scope |-> Append(Scope, h.xmlns)]
  BY DEF WriteNil, Write, collector
<1>2. /\ OpenTyped /\ level \in Nat /\ table \in Seq(Entry)
  BY DEF WriterTypes, TableSorted, Sorted
<1>3. open # <<>> /\ m.type # AnyElement
  BY <1>1, <1>2, MemberTyped DEF WriterTypes
<1>4. b \in Binding /\ b.ns = Xsi
  BY XsiTyped DEF Bind
<1> PICK g : g = Helper
  OBVIOUS
<1>5. IsHelper(g) /\ g.level = level /\ g.table = table /\ g.xmlns = <<>>
  <2>1. <<>> \in Seq(Binding)
    OBVIOUS
  <2> QED
    BY <1>2, <2>1 DEF Helper, IsHelper
<1>6. /\ h.level = level /\ h.xmlns \in Seq(Binding)
      /\ h.table = table \/ h.table = Append(table, EntryOf(level, b))
  <2>1. \/ h.level = level /\ h.xmlns = Append(<<>>, b) /\ h.table = Append(table, EntryOf(level, b))
        \/ h = g
    BY <1>4, <1>5, XmlnsWritten
  <2>2. Append(<<>>, b) \in Seq(Binding) /\ <<>> \in Seq(Binding)
    BY <1>4
  <2> QED
    BY <1>5, <2>1, <2>2
<1>7. Passed
  BY <1>1, <1>4, <1>6 DEF Passed
<1>8. Sent(h.xmlns)
  BY <1>1, <1>6 DEF Sent
<1>9. ASSUME Exact, WriterFits, wire'.home, NEW c \in wire'.names PROVE KnownWith(c, h.xmlns)
  <2>1. CASE c = b
    BY <1>4, <2>1 DEF KnownWith, Excused
  <2>2. CASE c = a
    <3>1. HomeText(m.tag)
      BY <1>1, <1>9
    <3>2. Excused(a) \/ DeclaredTo(a, Len(open))
      BY <1>1, <1>3, <1>9, <3>1, TextKnown
    <3> QED
      BY <1>1, <2>2, <3>2, SameNames
  <2> QED
    BY <1>1, <1>9, <2>1, <2>2
<1> QED
  BY <1>1, <1>3, <1>7, <1>8, <1>9 DEF PassStep

\* AnySimpleTypeSerializer begins a scope that its element does not have.
LEMMA AnySimpleDrifts ==
  ASSUME WriterTypes, schema \in Schemas, NEW m, WriteAnySimple(m)
  PROVE  \E e : DriftStep(e)
<1> PICK l : l = level + 1
  OBVIOUS
<1> PICK b : b = Bind("xsi", Xsi)
  OBVIOUS
<1> PICK c : c = Bind("xs", Xs)
  OBVIOUS
<1> PICK g : g = BeginScope(Helper)
  OBVIOUS
<1> PICK typed : typed = AddQNameNamespace(g, c)
  OBVIOUS
<1> PICK h : h = WriteXmlns(typed, b)
  OBVIOUS
<1> PICK names : names = {Bind(TagPrefix(m.tag), m.tag), b, Bind(Innermost(typed, Xs).prefix, Xs)}
  OBVIOUS
<1> PICK e : e = [ns |-> m.tag, members |-> <<>>, scoped |-> FALSE, level |-> h.level, xmlns |-> h.xmlns,
                  names |-> names, home |-> HomeText(m.tag)]
  OBVIOUS
<1>1. /\ m \in Members /\ m.type = AnySimple /\ open' = Append(open, e) /\ schema' = schema /\ root' = root
      /\ level' = h.level /\ table' = h.table
      /\ wire' = [kind |-> "start", names |-> names, home |-> HomeText(m.tag), declares |-> h.xmlns,
                  scope |-> Append(Scope, h.xmlns)]
  BY DEF WriteAnySimple, Write, Push, collector
<1>2. /\ OpenTyped /\ level \in Nat /\ l \in Nat /\ table \in Seq(Entry) /\ <<>> \in Seq(Binding)
  BY DEF WriterTypes, TableSorted, Sorted
<1>3. /\ open # <<>> /\ m.tag \in ToSet(Modules) /\ IsElement(Inner) /\ Within(m)
  BY <1>1, <1>2, MemberTyped DEF WriterTypes
<1>4. b \in Binding /\ c \in Binding /\ c.ns = Xs /\ Xs \in STRING
  BY XsiTyped DEF Bind
<1>5. g = [level |-> l, table |-> table, xmlns |-> <<>>] /\ IsHelper(g)
  <2>1. g = [level |-> l, table |-> table, xmlns |-> <<>>]
    BY DEF BeginScope, Helper
  <2> QED
    BY <1>2, <2>1 DEF IsHelper
<1>6. /\ IsHelper(typed) /\ typed.level = l
      /\ \E x \in Seq(Binding) : typed.table = table \o EntriesAt(l, x)
      /\ Active(typed, Xs)
  <2>1. CASE Active(g, Xs)
    <3>1. typed = g
      BY <1>4, <2>1 DEF AddQNameNamespace
    <3>2. table = table \o EntriesAt(l, <<>>)
      BY <1>2 DEF EntriesAt
    <3>3. typed.level = l /\ typed.table = table
      BY <1>5, <3>1
    <3>4. \E x \in Seq(Binding) : typed.table = table \o EntriesAt(l, x)
      BY <1>2, <3>2, <3>3
    <3> QED
      BY <1>5, <2>1, <3>1, <3>3, <3>4
  <2>2. CASE ~ Active(g, Xs)
    <3> PICK x : x = Append(<<>>, c)
      OBVIOUS
    <3> PICK y : y = EntryOf(l, c)
      OBVIOUS
    <3> PICK u : u = Append(table, y)
      OBVIOUS
    <3>0. g.level = l /\ g.table = table /\ g.xmlns = <<>>
      BY <1>5
    <3>1. typed = [g EXCEPT !.table = u, !.xmlns = x]
      <4>1. typed = [g EXCEPT !.table = Append(@, EntryOf(g.level, c)), !.xmlns = Append(@, c)]
        BY <1>4, <2>2 DEF AddQNameNamespace, AddEntry, EntryOf
      <4> QED
        BY <3>0, <4>1
    <3>2. typed = [level |-> g.level, table |-> u, xmlns |-> x]
      BY <1>5, <3>1 DEF IsHelper
    <3>3. x \in Seq(Binding) /\ y \in Entry /\ y.ns = Xs /\ Append(table, y) \in Seq(Entry)
      BY <1>2, <1>4 DEF Entry, EntryOf, Binding
    <3>4. Append(table, y) = table \o EntriesAt(l, x)
      <4>1. EntriesAt(l, x) = Append(EntriesAt(l, <<>>), y)
        BY <1>2, <1>4, EntriesAppend
      <4>2. EntriesAt(l, <<>>) = <<>>
        BY DEF EntriesAt
      <4>3. table \o Append(<<>>, y) = Append(table, y)
        BY <1>2, <3>3
      <4> QED
        BY <4>1, <4>2, <4>3
    <3>5. Active(typed, Xs)
      <4>1. Len(table) + 1 \in DOMAIN Append(table, y) /\ Append(table, y)[Len(table) + 1] = y
        BY <1>2, <3>3
      <4> QED
        BY <3>2, <3>3, <4>1 DEF Active
    <3>6. typed.level = l /\ typed.table = u /\ typed.xmlns = x
      BY <3>0, <3>2
    <3>7. IsHelper(typed)
      BY <1>2, <3>0, <3>2, <3>3, <3>6 DEF IsHelper
    <3> QED
      BY <3>3, <3>4, <3>5, <3>6, <3>7
  <2> QED
    BY <2>1, <2>2
<1>7. Bind(Innermost(typed, Xs).prefix, Xs) \in Binding
  <2>1. typed.table \in Seq(Entry)
    BY <1>6 DEF IsHelper
  <2>2. PICK i \in DOMAIN typed.table : Innermost(typed, Xs) = typed.table[i]
    BY <1>6, <2>1, InnermostActive
  <2>3. typed.table[i] \in Entry
    BY <2>1
  <2> QED
    BY <1>4, <2>2, <2>3 DEF Entry, Bind, Binding
<1>8. /\ h.level = l /\ h.xmlns \in Seq(Binding)
      /\ \E x \in Seq(Binding) : h.table = table \o EntriesAt(l, x)
  <2>1. PICK x \in Seq(Binding) : typed.table = table \o EntriesAt(l, x)
    BY <1>6
  <2>2. typed.xmlns \in Seq(Binding)
    BY <1>6 DEF IsHelper
  <2>3. \/ h.level = l /\ h.xmlns = Append(typed.xmlns, b) /\ h.table = Append(typed.table, EntryOf(l, b))
        \/ h = typed
    BY <1>4, <1>6, XmlnsWritten
  <2>4. Append(typed.xmlns, b) \in Seq(Binding)
    BY <1>4, <2>2
  <2>5. Append(typed.table, EntryOf(l, b)) = table \o EntriesAt(l, Append(x, b)) /\ Append(x, b) \in Seq(Binding)
    <3>1. EntriesAt(l, Append(x, b)) = Append(EntriesAt(l, x), EntryOf(l, b)) /\ EntryOf(l, b) \in Entry
      BY <1>2, <1>4, <2>1, EntriesAppend
    <3>2. EntriesAt(l, x) \in Seq(Entry)
      BY <1>2, <2>1, EntriesTyped
    <3>3. table \o Append(EntriesAt(l, x), EntryOf(l, b)) = Append(table \o EntriesAt(l, x), EntryOf(l, b))
      BY <1>2, <3>1, <3>2, ConcatAppend
    <3>4. Append(x, b) \in Seq(Binding)
      BY <1>4, <2>1
    <3> QED
      BY <2>1, <3>1, <3>3, <3>4
  <2> QED
    BY <1>6, <2>1, <2>2, <2>3, <2>4, <2>5
<1>9. HomeText(m.tag) \in BOOLEAN
  BY <1>3 DEF HomeText, IsElement
<1>10. names \subseteq Binding
  BY <1>3, <1>4, <1>7, NameTyped
<1>11. IsElement(e)
  BY <1>2, <1>8, <1>9, <1>10 DEF IsElement
<1>12. HasAnySimple
  <2>1. PICK u \in Contained(root) : m \in ToSet(schema.types[u].members)
    BY <1>3 DEF Within
  <2>2. u \in Types
    BY <2>1 DEF Contained
  <2> QED
    BY <1>1, <2>1, <2>2 DEF HasAnySimple
<1>13. Drifts(e)
  BY <1>1, <1>8, <1>11, <1>12 DEF Drifts
<1>14. Inside(e)
  BY DEF Inside, ToSet
<1> QED
  BY <1>1, <1>8, <1>13, <1>14 DEF DriftStep, Sent

-----------------------------------------------------------------------------
(* Elements with attributes.                                               *)

\* The attributes of an element with a scope of its own, and of one without.
LEMMA ScopeWritten ==
  ASSUME TableSorted, NEW bs \in Seq(Binding), NEW l, l = level + 1, NEW g, g = BeginScope(Helper)
  PROVE  Wrote(WriteAll(g, bs), l, table, ToSet(bs))
<1>1. l \in Nat /\ table \in Seq(Entry)
  BY DEF TableSorted, Sorted
<1>2. g = [level |-> l, table |-> table, xmlns |-> <<>>]
  BY DEF BeginScope, Helper
<1> QED
  BY <1>1, <1>2, AllWritten

\* Without a scope nothing is declared.
LEMMA NothingWritten ==
  ASSUME TableSorted
  PROVE  Wrote(WriteAll(Helper, <<>>), level, table, {}) /\ WriteAll(Helper, <<>>) = Helper
<1>1. level \in Nat /\ table \in Seq(Entry) /\ <<>> \in Seq(Binding) /\ ToSet(<<>>) = {}
  BY DEF TableSorted, Sorted, ToSet
<1>2. Helper = [level |-> level, table |-> table, xmlns |-> <<>>]
  BY DEF Helper
<1> QED
  BY <1>1, <1>2, AllWritten

\* What was written is known inside the element.
LEMMA StartKnown ==
  ASSUME OpenTyped, TableSorted, TableFits, NEW h, NEW l, NEW bs \in Seq(Binding), Wrote(h, l, table, ToSet(bs))
  PROVE  Around(h, ToSet(bs))
<1>1. \A b \in ToSet(bs) : b \in Binding
  BY DEF ToSet
<1> QED
  BY <1>1, WroteDeclares DEF Around

\* The scope of an element that ends at once.
LEMMA ScopeEnds ==
  ASSUME TableSorted, NEW l, l = level + 1, NEW h, NEW bs, Wrote(h, l, table, bs)
  PROVE  EndScope(h).level = level /\ EndScope(h).table = table
<1> PICK x : x = h.xmlns
  OBVIOUS
<1> PICK u : u = table \o EntriesAt(l, x)
  OBVIOUS
<1>1. /\ level \in Nat /\ Sorted(table, level) /\ x \in Seq(Binding)
      /\ h = [level |-> l, table |-> u, xmlns |-> x]
  BY DEF TableSorted, Wrote
<1>2. PopOutdated(u, level) = table
  BY <1>1, PoppedNew
<1>3. h.level = level + 1 /\ h.table = u /\ (IF h.level > 0 THEN h.level - 1 ELSE 0) = level
  BY <1>1
<1>4. EndScope(h) = [h EXCEPT !.level = level, !.table = PopOutdated(@, level)]
  BY <1>3 DEF EndScope
<1>5. EndScope(h).level = level /\ EndScope(h).table = PopOutdated(u, level)
  BY <1>1, <1>3, <1>4
<1> QED
  BY <1>2, <1>5

\* ElementSerializer opens an element or writes it whole, with what was in scope of it.
LEMMA AnyWrites ==
  ASSUME WriterTypes, schema \in Schemas, NEW m, NEW bs \in Captured, NEW b \in ToSet(bs), NEW empty \in BOOLEAN,
         WriteAny(m, bs, b, empty)
  PROVE  PassStep \/ \E e : OpenStep(e)
<1> PICK g : g = BeginScope(Helper)
  OBVIOUS
<1> PICK l : l = level + 1
  OBVIOUS
<1> PICK h : h = WriteAll(g, bs)
  OBVIOUS
<1>1. /\ m \in Members /\ m.type = AnyElement /\ schema' = schema /\ root' = root
      /\ OpenTyped /\ TableSorted /\ level \in Nat /\ table \in Seq(Entry)
  BY DEF WriteAny, Write, collector, WriterTypes, TableSorted, Sorted
<1>2. bs \in Seq(Binding) /\ b \in Binding
  <2>1. bs \in Seq(Binding)
    BY CapturedAssumption DEF Binding
  <2> QED
    BY <2>1 DEF ToSet
<1>3. Wrote(h, l, table, ToSet(bs))
  BY <1>1, <1>2, ScopeWritten
<1>4. h.level = l /\ h.table = table \o EntriesAt(l, h.xmlns) /\ h.xmlns \in Seq(Binding)
  BY <1>3 DEF Wrote
<1>5. open # <<>> /\ Within(m)
  BY <1>1, MemberTyped DEF WriterTypes
<1>6. ASSUME Exact, WriterFits PROVE KnownWith(b, h.xmlns)
  <2>1. Around(h, ToSet(bs))
    BY <1>1, <1>2, <1>3, <1>6, StartKnown DEF WriterFits
  <2> QED
    BY <2>1 DEF Around, KnownWith, Excused
<1>7. CASE empty
  <2>1. /\ open' = open /\ level' = EndScope(h).level /\ table' = EndScope(h).table
        /\ wire' = [kind |-> "empty", names |-> {b}, home |-> TRUE, declares |-> h.xmlns,
                    scope |-> Append(Scope, h.xmlns)]
    BY <1>7 DEF WriteAny, Write
  <2>2. Passed
    BY <1>1, <1>3, <2>1, ScopeEnds DEF Passed
  <2> QED
    BY <1>1, <1>4, <1>6, <2>1, <2>2 DEF PassStep, Sent
<1>8. CASE ~ empty
  <2> PICK e : e = [ns |-> b.ns, members |-> <<m>>, scoped |-> TRUE, level |-> h.level, xmlns |-> h.xmlns,
                    names |-> {b}, home |-> TRUE]
    OBVIOUS
  <2>1. /\ open' = Append(open, e) /\ level' = h.level /\ table' = h.table
        /\ wire' = [kind |-> "start", names |-> {b}, home |-> TRUE, declares |-> h.xmlns,
                    scope |-> Append(Scope, h.xmlns)]
    BY <1>8 DEF WriteAny, Write, Push
  <2>2. IsElement(e)
    BY <1>1, <1>2, <1>4 DEF IsElement
  <2>3. Opened(e)
    BY <1>1, <1>4, <2>1, <2>2 DEF Opened
  <2>4. ToSet(e.members) = {m}
    BY DEF ToSet
  <2>5. Inside(e)
    BY <1>1, <1>5, <2>4, SameNames DEF Inside
  <2>6. OpenStep(e)
    BY <1>1, <1>4, <1>5, <1>6, <2>1, <2>3, <2>5 DEF OpenStep, Sent
  <2> QED
    BY <2>6
<1> QED
  BY <1>7, <1>8

-----------------------------------------------------------------------------
(* Elements of a complex type.                                             *)

\* The names of an element and its attributes are bindings.
LEMMA NamesTyped ==
  ASSUME schema \in Schemas, NEW t \in Types, NEW tag \in ToSet(Modules)
  PROVE  {Bind(TagPrefix(tag), tag)} \cup AttributeNames(t) \subseteq Binding
<1>1. schema.types[t].attrs \subseteq ToSet(Modules)
  BY ModuleAssumption DEF Types
<1>2. \A n \in schema.types[t].attrs : Bind(schema.prefix[n], n) \in Binding
  BY <1>1, NameTyped
<1>3. AttributeNames(t) \subseteq Binding
  BY <1>2 DEF AttributeNames
<1> QED
  BY <1>3, NameTyped

\* The keys a type has for its own name and the names of its attributes.
LEMMA KeysOwned ==
  ASSUME schema \in Schemas, NEW t \in Types
  PROVE  LET n == schema.types[t].ns
         IN  /\ schema.prefix[n] # NoPrefix =>
                  OwnKey(t) \in OwnKeys(t) /\ KeyBinding(OwnKey(t)) = Bind(TagPrefix(n), n)
             /\ \A a \in schema.types[t].attrs : schema.prefix[a] # NoPrefix =>
                  Normal(a) \in OwnKeys(t) /\ KeyBinding(Normal(a)) = Bind(schema.prefix[a], a)
<1> PICK n : n = schema.types[t].ns
  OBVIOUS
<1>1. OwnKey(t).ns = n /\ (OwnKey(t).default <=> n = schema.default)
  BY DEF OwnKey, Normal, Default
<1>2. schema.prefix[n] # NoPrefix => OwnKey(t) \in OwnKeys(t)
  BY <1>1 DEF OwnKeys, Emittable
<1>3. KeyBinding(OwnKey(t)) = Bind(TagPrefix(n), n)
  BY <1>1 DEF KeyBinding, TagPrefix, Bind
<1>4. ASSUME NEW a \in schema.types[t].attrs, schema.prefix[a] # NoPrefix
      PROVE  Normal(a) \in OwnKeys(t) /\ KeyBinding(Normal(a)) = Bind(schema.prefix[a], a)
  <2>1. Normal(a).ns = a /\ Normal(a).default = FALSE
    BY DEF Normal
  <2>2. Normal(a) \in OwnKeys(t)
    BY <1>4, <2>1 DEF OwnKeys, Emittable
  <2> QED
    BY <2>1, <2>2 DEF KeyBinding, Bind
<1> QED
  BY <1>2, <1>3, <1>4

\* Whether the keys of a type are known where h was written.
KeysKnown(t, h) ==
  \A k \in OwnKeys(t) : k.ns # Xsi => KeyBinding(k) \in ToSet(h.xmlns) \/ DeclaredTo(KeyBinding(k), Len(open))

\* An element in the module of its type: its name and those of its attributes are known.
LEMMA StartNames ==
  ASSUME CollectorInv, schema' = schema, NEW t \in Types, NEW tag \in ToSet(Modules), HomeTyped(tag, t),
         NEW isRoot \in BOOLEAN, NEW h, Around(h, ToSet(Bindings(tag, t, isRoot))),
         schema.mode = "global" /\ ~ CutOff' => KeysKnown(t, h),
         NEW b \in {Bind(TagPrefix(tag), tag)} \cup AttributeNames(t)
  PROVE  KnownWith(b, h.xmlns)
<1> PICK n : n = schema.types[t].ns
  OBVIOUS
<1> PICK bs : bs = Bindings(tag, t, isRoot)
  OBVIOUS
<1>1. schema \in Schemas /\ tag = n /\ schema.mode \in {"local", "global"}
  BY ModuleAssumption DEF CollectorInv, Shape, HomeTyped
<1>2. /\ schema.mode = "local" \/ schema.prefix[n] = NoPrefix => Bind(TagPrefix(tag), n) \in ToSet(bs)
      /\ schema.mode = "local" =>
           \A a \in schema.types[t].attrs \ {n} : Bind(schema.prefix[a], a) \in ToSet(bs)
  BY BindingsDeclare
<1>3. SUFFICES ASSUME b.ns # Xsi, ~ CutOff', ~ OwnName(b)
               PROVE  b \in ToSet(h.xmlns) \/ DeclaredTo(b, Len(open))
  BY DEF KnownWith, Excused, OwnName, Bind
<1>4. b \in ToSet(bs) => b \in ToSet(h.xmlns) \/ DeclaredTo(b, Len(open))
  BY <1>3 DEF Around
<1>5. schema.mode = "global" =>
        \A k \in OwnKeys(t) : b = KeyBinding(k) => b \in ToSet(h.xmlns) \/ DeclaredTo(b, Len(open))
  BY <1>3 DEF KeysKnown, KeyBinding, Bind
<1>6. CASE b = Bind(TagPrefix(n), n)
  BY <1>1, <1>2, <1>4, <1>5, <1>6, KeysOwned
<1>7. ASSUME NEW a \in schema.types[t].attrs, schema.prefix[a] # NoPrefix, b = Bind(schema.prefix[a], a)
      PROVE  b \in ToSet(h.xmlns) \/ DeclaredTo(b, Len(open))
  <2>1. CASE schema.mode = "global"
    BY <1>1, <1>5, <1>7, <2>1, KeysOwned
  <2>2. CASE schema.mode = "local" /\ a # n
    BY <1>2, <1>4, <1>7, <2>2
  <2>3. CASE schema.mode = "local" /\ a = n
    <3>1. b.ns = n /\ schema.prefix[b.ns] = schema.prefix[n]
      BY <1>7, <2>3 DEF Bind
    <3>2. n # schema.default
      BY <1>3, <1>7, <2>3, <3>1 DEF OwnName
    <3>3. b = Bind(TagPrefix(n), n)
      BY <1>7, <2>3, <3>2 DEF TagPrefix
    <3> QED
      BY <1>6, <3>3
  <2> QED
    BY <1>1, <2>1, <2>2, <2>3
<1>8. b = Bind(TagPrefix(n), n) \/ b \in AttributeNames(t)
  BY <1>1
<1> QED
  BY <1>6, <1>7, <1>8 DEF AttributeNames

\* What the start tag of a value of complex type leaves, if it has members and if it has none.
LEMMA TypedStarts ==
  ASSUME WriterTypes, CollectorInv, schema' = schema, NEW t \in Types, NEW tag \in ToSet(Modules),
         NEW isRoot \in BOOLEAN, StartTyped(tag, t, isRoot), open # <<>> => root' = root,
         \A m \in ToSet(schema.types[t].members) : Within(m)',
         WriterFits /\ schema.mode = "global" /\ ~ CutOff' =>
           \A k \in OwnKeys(t) : k.ns # Xsi => \/ KeyBinding(k) \in ToSet(Bindings(tag, t, isRoot))
                                               \/ DeclaredTo(KeyBinding(k), Len(open)),
         open = <<>> /\ schema.mode = "global" /\ ~ CutOff' =>
           \A k \in KeysWithin(root)' : KeyBinding(k) \in ToSet(Bindings(tag, t, isRoot))
  PROVE  PassStep \/ \E e : OpenStep(e)
<1> PICK bs : bs = Bindings(tag, t, isRoot)
  OBVIOUS
<1> PICK names : names = {Bind(TagPrefix(tag), tag)} \cup AttributeNames(t)
  OBVIOUS
<1> PICK l : l = IF NeedsScope(t) THEN level + 1 ELSE level
  OBVIOUS
<1> PICK h : h = WriteAll(IF NeedsScope(t) THEN BeginScope(Helper) ELSE Helper, bs)
  OBVIOUS
<1>1. /\ schema \in Schemas /\ OpenTyped /\ TableSorted /\ level \in Nat /\ l \in Nat /\ table \in Seq(Entry)
      /\ bs \in Seq(Binding) /\ (~ NeedsScope(t) => bs = <<>>) /\ names \subseteq Binding
  <2>1. schema \in Schemas /\ OpenTyped /\ TableSorted
    BY DEF CollectorInv, Shape, WriterTypes
  <2>2. bs \in Seq(Binding) /\ (~ NeedsScope(t) => bs = <<>>)
    BY BindingsDeclare
  <2> QED
    BY <2>1, <2>2, NamesTyped DEF TableSorted, Sorted
<1>2. /\ Wrote(h, l, table, ToSet(bs)) /\ (~ NeedsScope(t) => h.xmlns = <<>>)
      /\ NeedsScope(t) => EndScope(h).level = level /\ EndScope(h).table = table
      /\ ~ NeedsScope(t) => h.level = level /\ h.table = table
  <2>1. CASE NeedsScope(t)
    <3> PICK g : g = BeginScope(Helper)
      OBVIOUS
    <3>1. h = WriteAll(g, bs) /\ l = level + 1
      BY <2>1
    <3>2. Wrote(h, l, table, ToSet(bs))
      BY <1>1, <3>1, ScopeWritten
    <3>3. EndScope(h).level = level /\ EndScope(h).table = table
      BY <1>1, <3>1, <3>2, ScopeEnds
    <3> QED
      BY <2>1, <3>2, <3>3
  <2>2. CASE ~ NeedsScope(t)
    <3>1. h = Helper /\ l = level /\ Wrote(h, level, table, {})
      BY <1>1, <2>2, NothingWritten
    <3>2. ToSet(bs) = {} /\ h.xmlns = <<>> /\ h.level = level /\ h.table = table
      BY <1>1, <2>2, <3>1 DEF ToSet, Helper
    <3> QED
      BY <2>2, <3>1, <3>2
  <2> QED
    BY <2>1, <2>2
<1>3. h.level = l /\ h.table = table \o EntriesAt(l, h.xmlns) /\ h.xmlns \in Seq(Binding)
  BY <1>2 DEF Wrote
<1>4. ASSUME WriterFits PROVE Around(h, ToSet(bs))
  BY <1>1, <1>2, <1>4, StartKnown DEF WriterFits
<1>5. ASSUME WriterFits, HomeTyped(tag, t), NEW b \in names PROVE KnownWith(b, h.xmlns)
  <2>1. Around(h, ToSet(Bindings(tag, t, isRoot)))
    BY <1>4, <1>5
  <2>2. schema.mode = "global" /\ ~ CutOff' => KeysKnown(t, h)
    <3>1. SUFFICES ASSUME schema.mode = "global" /\ ~ CutOff', NEW k \in OwnKeys(t), k.ns # Xsi
                   PROVE  KeyBinding(k) \in ToSet(h.xmlns) \/ DeclaredTo(KeyBinding(k), Len(open))
      BY DEF KeysKnown
    <3>2. KeyBinding(k) \in ToSet(bs) \/ DeclaredTo(KeyBinding(k), Len(open))
      BY <1>5, <3>1
    <3>3. KeyBinding(k).ns # Xsi
      BY <3>1 DEF KeyBinding, Bind
    <3> QED
      BY <2>1, <3>2, <3>3 DEF Around
  <2> QED
    BY <1>5, <2>1, <2>2, StartNames
<1>6. HomeTyped(tag, t) \in BOOLEAN
  BY DEF HomeTyped
<1>7. CASE schema.types[t].members = <<>>
  <2>1. /\ open' = open
        /\ level' = (IF NeedsScope(t) THEN EndScope(h) ELSE h).level
        /\ table' = (IF NeedsScope(t) THEN EndScope(h) ELSE h).table
        /\ wire' = [kind |-> "empty", names |-> names, home |-> HomeTyped(tag, t), declares |-> h.xmlns,
                    scope |-> Append(Scope, h.xmlns)]
    BY <1>7 DEF StartTyped, Write
  <2>2. Passed
    BY <1>2, <2>1 DEF Passed
  <2>3. Sent(h.xmlns)
    BY <1>3, <2>1 DEF Sent
  <2>4. wire'.names = names /\ (wire'.home => HomeTyped(tag, t))
    BY <2>1
  <2> QED
    BY <1>5, <2>2, <2>3, <2>4 DEF PassStep
<1>8. CASE schema.types[t].members # <<>>
  <2> PICK e : e = [ns |-> schema.types[t].ns, members |-> schema.types[t].members, scoped |-> NeedsScope(t),
                    level |-> h.level, xmlns |-> h.xmlns, names |-> names, home |-> HomeTyped(tag, t)]
    OBVIOUS
  <2>1. /\ open' = Append(open, e) /\ level' = h.level /\ table' = h.table
        /\ wire' = [kind |-> "start", names |-> names, home |-> HomeTyped(tag, t), declares |-> h.xmlns,
                    scope |-> Append(Scope, h.xmlns)]
    BY <1>8 DEF StartTyped, Write, Push
  <2>2. /\ e.ns = schema.types[t].ns /\ e.members = schema.types[t].members /\ (e.scoped <=> NeedsScope(t))
        /\ e.scoped \in BOOLEAN /\ e.level = l /\ e.xmlns = h.xmlns /\ e.names = names
        /\ (e.home <=> HomeTyped(tag, t)) /\ e.home \in BOOLEAN
    <3>1. NeedsScope(t) \in BOOLEAN
      BY DEF NeedsScope
    <3> QED
      BY <1>3, <1>6, <3>1
  <2>3. IsElement(e)
    BY <1>1, <1>3, <2>2 DEF IsElement
  <2>4. Opened(e)
    <3>1. e.level = level + (IF e.scoped THEN 1 ELSE 0)
      BY <1>1, <2>2
    <3> QED
      BY <1>2, <1>3, <2>1, <2>2, <2>3, <3>1 DEF Opened
  <2>5. Inside(e)
    <3>1. ASSUME e.home PROVE Bind(TagPrefix(e.ns), e.ns) \in e.names
      BY <2>2, <3>1 DEF HomeTyped
    <3> QED
      BY <2>2, <3>1 DEF Inside
  <2>6. Sent(e.xmlns) /\ wire'.names = e.names /\ wire'.home = e.home
    BY <1>3, <2>1, <2>2 DEF Sent
  <2>7. ASSUME WriterFits, e.home, NEW b \in e.names PROVE KnownWith(b, e.xmlns)
    BY <1>5, <2>2, <2>7
  <2>8. ASSUME WriterFits, open = <<>>, schema.mode = "global", ~ CutOff', NEW k \in KeysWithin(root)', k.ns # Xsi
        PROVE  KeyBinding(k) \in ToSet(e.xmlns)
    <3>1. KeyBinding(k) \in ToSet(bs) /\ KeyBinding(k).ns # Xsi
      BY <2>8 DEF KeyBinding, Bind
    <3>2. KeyBinding(k) \in ToSet(h.xmlns) \/ DeclaredTo(KeyBinding(k), Len(open))
      BY <1>4, <2>8, <3>1 DEF Around
    <3>3. ~ DeclaredTo(KeyBinding(k), Len(open))
      BY <2>8 DEF DeclaredTo
    <3> QED
      BY <2>2, <3>2, <3>3
  <2>9. OpenStep(e)
    BY <2>4, <2>5, <2>6, <2>7, <2>8 DEF OpenStep
  <2> QED
    BY <2>9
<1> QED
  BY <1>7, <1>8

\* The root declares what the collector has found for its type.
LEMMA RootStarts ==
  ASSUME WriterTypes, CollectorInv, NEW t \in Types, WriteRoot(t)
  PROVE  PassStep \/ \E e : OpenStep(e)
<1>1. /\ open = <<>> /\ root' = t /\ StartTyped(schema.types[t].ns, t, TRUE) /\ schema' = schema
      /\ schema.mode = "global" => Rendered
  BY DEF WriteRoot, CanStart, CanWrite, StartTyped, Write, collector
<1>2. Frozen /\ schema \in Schemas /\ schema.types[t].ns \in ToSet(Modules)
  BY <1>1, SchemaFrozen, ModuleAssumption DEF CollectorInv, Shape, Types
<1>3. /\ Contained(root)' = Contained(t) /\ KeysWithin(root)' = KeysWithin(t)
      /\ t \in Contained(t) /\ OwnKeys(t) \subseteq KeysWithin(t)
  <2>1. Contained(root)' = Contained(t) /\ KeysWithin(root)' = KeysWithin(t)
    BY <1>1, <1>2 DEF Frozen
  <2>2. t \in Contained(t) /\ OwnKeys(t) \subseteq KeysWithin(t)
    BY ContainedClosed DEF KeysWithin
  <2> QED
    BY <2>1, <2>2
<1>4. \A m \in ToSet(schema.types[t].members) : Within(m)'
  BY <1>1, <1>3 DEF Within
<1>5. ASSUME schema.mode = "global", ~ CutOff', NEW k \in KeysWithin(t)
      PROVE  KeyBinding(k) \in ToSet(Bindings(schema.types[t].ns, t, TRUE))
  <2>1. WithoutCircles(t)
    <3>1. \A u \in Contained(t) : ~ Circular(u)'
      BY <1>1, <1>3, <1>5 DEF CutOff
    <3>2. \A u : Circular(u)' = Circular(u)
      BY <1>2 DEF Frozen
    <3> QED
      BY <3>1, <3>2 DEF WithoutCircles
  <2>2. cache[t].state = "done"
    BY <1>1, <1>5 DEF Rendered
  <2>3. k \in cache[t].keys
    BY <1>5, <2>1, <2>2 DEF CollectorInv, DoneComplete
  <2> QED
    BY <1>2, <1>5, <2>3, BindingsDeclare
<1> QED
  BY <1>1, <1>2, <1>3, <1>4, <1>5, TypedStarts

\* A member relies on what the root has declared, or declares it itself.
LEMMA MemberStarts ==
  ASSUME WriterTypes, CollectorInv, NEW m, WriteTyped(m)
  PROVE  PassStep \/ \E e : OpenStep(e)
<1> PICK t : t = m.type
  OBVIOUS
<1>1. /\ m \in Members /\ t \in Types /\ root' = root /\ StartTyped(m.tag, t, FALSE) /\ schema' = schema
  BY DEF WriteTyped, StartTyped, Write, collector
<1>2. schema \in Schemas /\ OpenTyped /\ MembersWithin
  BY DEF CollectorInv, Shape, WriterTypes
<1>3. open # <<>> /\ m.tag \in ToSet(Modules) /\ t \in Contained(root)
  BY <1>1, <1>2, MemberTyped
<1>4. \A n \in ToSet(schema.types[t].members) : Within(n)'
  BY <1>1, <1>3, SameRoot DEF Within
<1>5. ASSUME WriterFits, schema.mode = "global", ~ CutOff', NEW k \in OwnKeys(t), k.ns # Xsi
      PROVE  DeclaredTo(KeyBinding(k), Len(open))
  <2>1. ~ CutOff
    BY <1>1, <1>5, SameRoot
  <2>2. k \in KeysWithin(root)
    BY <1>3, <1>5 DEF KeysWithin
  <2>3. KeyBinding(k) \in ToSet(open[1].xmlns)
    BY <1>3, <1>5, <2>1, <2>2 DEF WriterFits, RootDeclares
  <2>4. 1 \in 1 .. Len(open)
    BY <1>2, <1>3, ListShortened DEF OpenTyped
  <2> QED
    BY <2>3, <2>4 DEF DeclaredTo
<1> QED
  BY <1>1, <1>3, <1>4, <1>5, TypedStarts

\* EndSerializer ends the scope of the element, if it has one.
LEMMA EndCloses == ASSUME WriterTypes, WriteEnd PROVE CloseStep
<1> PICK g : g = Helper
  OBVIOUS
<1> PICK left : left = IF level > 0 THEN level - 1 ELSE 0
  OBVIOUS
<1>1. /\ open # <<>> /\ open' = Front(open) /\ schema' = schema /\ root' = root
      /\ level' = (IF Inner.scoped THEN EndScope(g) ELSE g).level
      /\ table' = (IF Inner.scoped THEN EndScope(g) ELSE g).table
      /\ wire' = [kind |-> "end", names |-> Inner.names, home |-> Inner.home, declares |-> <<>>, scope |-> Scope]
  BY DEF WriteEnd, collector
<1>2. g = [level |-> level, table |-> table, xmlns |-> <<>>] /\ g.level = level /\ g.table = table
  BY DEF Helper
<1>3. EndScope(g) = [g EXCEPT !.level = left, !.table = PopOutdated(@, left)]
  BY <1>2 DEF EndScope
<1>4. EndScope(g).level = left /\ EndScope(g).table = PopOutdated(table, left)
  BY <1>2, <1>3
<1>5. Closed
  BY <1>1, <1>2, <1>4 DEF Closed
<1> QED
  BY <1>1, <1>5 DEF CloseStep

-----------------------------------------------------------------------------
(* The invariant.                                                          *)

\* Each action is one of the steps.
LEMMA WriterSteps ==
  ASSUME WriterTypes, CollectorInv, [ScopeNext]_scopeVars
  PROVE  QuietStep \/ PassStep \/ CloseStep \/ \E e : OpenStep(e) \/ DriftStep(e)
<1>1. schema \in Schemas
  BY DEF CollectorInv, Shape
<1>2. ASSUME NEW m, WriteTyped(m) \/ WriteSimple(m) \/ WriteNil(m) \/ WriteAnySimple(m)
      PROVE  PassStep \/ \E e : OpenStep(e) \/ DriftStep(e)
  BY <1>1, <1>2, MemberStarts, SimpleOpens, NilPasses, AnySimpleDrifts
<1>3. ASSUME NEW m, NEW bs \in Captured, NEW empty \in BOOLEAN, NEW b \in ToSet(bs), WriteAny(m, bs, b, empty)
      PROVE  PassStep \/ \E e : OpenStep(e) \/ DriftStep(e)
  BY <1>1, <1>3, AnyWrites
<1>4. CASE WriteMember
  BY <1>2, <1>3, <1>4 DEF WriteMember
<1>5. CASE \E t \in Types : WriteRoot(t)
  BY <1>5, RootStarts
<1>6. CASE WriteEnd
  BY <1>6, EndCloses
<1>7. CASE Collecting /\ UNCHANGED <<writer, unread, reader>>
  BY <1>7 DEF Collecting, Collect, MergeKnown, MergeNew, Collected, QuietStep, writer
<1>8. CASE \E ask \in BOOLEAN : Read(ask)
  BY <1>8 DEF Read, QuietStep, writer, collector
<1>9. CASE Written \/ UNCHANGED scopeVars
  BY <1>9 DEF Written, scopeVars, QuietStep, writer, collector
<1> QED
  BY <1>4, <1>5, <1>6, <1>7, <1>8, <1>9 DEF ScopeNext

\* The invariant holds at first.
LEMMA WriterInvInit == ScopeInit => WriterInv
<1> SUFFICES ASSUME ScopeInit PROVE WriterInv
  OBVIOUS
<1>1. /\ CollectorInv /\ level = 0 /\ table = <<>> /\ open = <<>> /\ DOMAIN open = {} /\ Len(open) = 0
      /\ wire.scope = <<>> /\ wire.names = {}
  BY CollectorInvInit DEF ScopeInit, NoEvent
<1>2. OpenTyped /\ WireTyped
  BY <1>1 DEF OpenTyped, WireTyped, IsList
<1>3. TableSorted
  BY <1>1 DEF TableSorted, Sorted
<1>4. Exact /\ Counted
  BY <1>1, <1>2, ScopedCounted DEF Exact, Counted
<1>5. MembersWithin /\ TagKnown
  BY <1>1 DEF MembersWithin, TagKnown
<1>6. Nested /\ RootDeclares /\ NamesDeclared /\ WireNamed
  BY <1>1 DEF Nested, Depth, RootDeclares, NamesDeclared, WireNamed
<1>7. TableFits
  <2>1. OpenEntries = <<>>
    BY <1>1 DEF OpenEntries
  <2>2. FlattenSeq(OpenEntries) \in Seq(Entry) /\ ToSet(FlattenSeq(OpenEntries)) = {}
    <3>1. OpenEntries \in Seq(Seq(Entry)) /\ DOMAIN OpenEntries = {}
      BY <2>1
    <3> QED
      BY <3>1, FlatTyped
  <2>3. FlattenSeq(OpenEntries) = <<>>
    <3> PICK f : f = FlattenSeq(OpenEntries)
      OBVIOUS
    <3>1. f \in Seq(Entry) /\ (f # <<>> => 1 \in DOMAIN f)
      BY <2>2
    <3>2. f # <<>> => f[1] \in ToSet(f)
      BY <3>1 DEF ToSet
    <3> QED
      BY <2>2, <3>2
  <2> QED
    BY <1>1, <2>3 DEF TableFits
<1> QED
  BY <1>1, <1>2, <1>3, <1>4, <1>5, <1>6, <1>7 DEF WriterInv, WriterTypes, WriterFits

\* The invariant is kept by every step.
LEMMA WriterInvStep == WriterInv /\ [ScopeNext]_scopeVars => WriterInv'
<1> SUFFICES ASSUME WriterInv, [ScopeNext]_scopeVars PROVE WriterInv'
  OBVIOUS
<1>1. CollectorInv /\ WriterHolds /\ WriterTypes
  BY DEF WriterInv, WriterHolds
<1>2. CollectorInv'
  BY <1>1, CollectorInvStep
<1>3. WriterHolds'
  BY <1>1, WriterSteps, OpenStepHolds, DriftStepHolds, PassStepHolds, CloseStepHolds, QuietStepHolds
<1> QED
  BY <1>2, <1>3 DEF WriterInv, WriterHolds

\* The invariant holds in every state that is reached.
LEMMA WriterInvAlways == ScopeSpec => []WriterInv
  BY WriterInvInit, WriterInvStep, PTL DEF ScopeSpec

-----------------------------------------------------------------------------
(* What it says of the table and of the names.                             *)

\* Without a drift the table is exact.
LEMMA TableFitsInScope == WriterInv => TableIsInScope
<1> SUFFICES ASSUME WriterInv, ~ Drifted PROVE Only(table, NotXsi) =
               Only(FlattenSeq([i \in DOMAIN open |-> Entries(open[i])]), NotXsi)
  BY DEF TableIsInScope
<1>1. Exact
  BY DEF WriterInv, WriterTypes, Counted, Exact, HasAnySimple, Drifted, ScopedOnes
<1>2. TableFits
  BY <1>1 DEF WriterInv, WriterFits
<1>3. \A i \in DOMAIN open : Entries(open[i]) = EntriesAt(open[i].level, open[i].xmlns)
  BY DEF Entries, EntriesAt, EntryOf
<1>4. [i \in DOMAIN open |-> Entries(open[i])] = OpenEntries
  BY <1>3 DEF OpenEntries
<1> QED
  BY <1>2, <1>4 DEF TableFits

\* Of the places where a prefix is declared there is an innermost one.
LEMMA InnermostPlace ==
  ASSUME NEW s, IsList(s), \A i \in DOMAIN s : s[i] \in Seq(Binding), NEW T \in SUBSET Places(s), T # {}
  PROVE  \E p \in T : \A q \in T : ~ Before(p, q)
<1>1. Len(s) \in Nat /\ DOMAIN s = 1 .. Len(s)
  BY DEF IsList
<1>2. \A p \in T : p[1] \in 1 .. Len(s) /\ p[2] \in DOMAIN s[p[1]]
  BY <1>1 DEF Places
<1>3. PICK i \in {p[1] : p \in T} : \A j \in {p[1] : p \in T} : j <= i
  <2>1. {p[1] : p \in T} \in SUBSET (1 .. Len(s)) /\ {p[1] : p \in T} # {}
    BY <1>2
  <2> QED
    BY <1>1, <2>1, GreatestNumber
<1>4. i \in 1 .. Len(s) /\ Len(s[i]) \in Nat /\ DOMAIN s[i] = 1 .. Len(s[i])
  BY <1>1, <1>2, <1>3
<1> DEFINE R == {p \in T : p[1] = i}
<1>5. PICK k \in {p[2] : p \in R} : \A j \in {p[2] : p \in R} : j <= k
  <2>1. {p[2] : p \in R} \in SUBSET (1 .. Len(s[i])) /\ {p[2] : p \in R} # {}
    BY <1>2, <1>3, <1>4
  <2> QED
    BY <1>4, <2>1, GreatestNumber
<1>6. PICK p \in R : p[2] = k
  BY <1>5
<1>7. ASSUME NEW q \in T PROVE ~ Before(p, q)
  <2>1. q[1] <= i /\ q[1] \in Nat /\ i \in Nat /\ p[1] = i
    BY <1>2, <1>3, <1>4, <1>6
  <2>2. q[1] = i => q[2] <= k /\ q[2] \in Nat /\ k \in Nat
    BY <1>2, <1>4, <1>5, <1>6
  <2> QED
    BY <1>6, <2>1, <2>2 DEF Before
<1> QED
  BY <1>6, <1>7

\* What is declared around the event is in scope of it, or its prefix was given away.
LEMMA DeclaredInScope ==
  ASSUME WireTyped, NEW b, DeclaredIn(b, wire.scope)
  PROVE  b \in InScope(wire.scope) \/ Rebound(b)
<1> PICK s : s = wire.scope
  OBVIOUS
<1> DEFINE T == {p \in Places(s) : At(s, p) = b}
<1>1. PICK p \in T : \A q \in T : ~ Before(p, q)
  <2>1. T \in SUBSET Places(s) /\ T # {}
    BY DEF DeclaredIn
  <2> HIDE DEF T
  <2> QED
    BY <2>1, InnermostPlace DEF WireTyped
<1>2. CASE \E q \in Places(s) : At(s, q).prefix = b.prefix /\ Before(p, q)
  <2>1. PICK q \in Places(s) : At(s, q).prefix = b.prefix /\ Before(p, q)
    BY <1>2
  <2>2. At(s, q) # b
    BY <1>1, <2>1
  <2>3. At(s, q) \in Binding /\ b \in Binding
    BY <1>1 DEF Places, At, WireTyped
  <2>4. At(s, q).ns # b.ns
    BY <2>1, <2>2, <2>3 DEF Binding
  <2> QED
    BY <1>1, <2>1, <2>4 DEF Rebound
<1>3. CASE ~ \E q \in Places(s) : At(s, q).prefix = b.prefix /\ Before(p, q)
  BY <1>1, <1>3 DEF InScope
<1> QED
  BY <1>2, <1>3

\* A name is declared in the scope of the event, or is one of the exceptions.
LEMMA NamesRead == WriterInv => ReadAsWritten
<1> SUFFICES ASSUME WriterInv, NEW b \in wire.names, wire.home, ~ Drifted, ~ CutOff
             PROVE  b \in InScope(wire.scope) \/ Rebound(b) \/ StrayXsi(b) \/ OwnAttribute(b)
  BY DEF ReadAsWritten
<1>1. Exact
  BY DEF WriterInv, WriterTypes, Counted, Exact, HasAnySimple, Drifted, ScopedOnes
<1>2. WireTyped /\ WireNamed
  BY <1>1 DEF WriterInv, WriterTypes, WriterFits
<1>3. Excused(b) \/ DeclaredIn(b, wire.scope)
  BY <1>2 DEF WireNamed
<1>4. CASE DeclaredIn(b, wire.scope)
  BY <1>2, <1>4, DeclaredInScope
<1>5. CASE ~ DeclaredIn(b, wire.scope)
  <2>1. \A p \in Places(wire.scope) : At(wire.scope, p) # b
    BY <1>5 DEF DeclaredIn
  <2> QED
    BY <1>3, <1>5, <2>1 DEF Excused, OwnName, StrayXsi, OwnAttribute
<1> QED
  BY <1>4, <1>5

\* SerializeHelper: the table of active namespaces says what is active at the place in the
\* document, for every schema and every nesting of elements.
THEOREM TableAlwaysInScope == ScopeSpec => []TableIsInScope
  BY WriterInvAlways, TableFitsInScope, PTL

\* What the serializers write is read again: every name is bound to the namespace it was
\* written for, but for the exceptions ReadAsWritten names.
THEOREM AlwaysReadAsWritten == ScopeSpec => []ReadAsWritten
  BY WriterInvAlways, NamesRead, PTL
=============================================================================
