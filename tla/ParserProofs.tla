---------------------------- MODULE ParserProofs ----------------------------
(***************************************************************************)
(* Proofs about the Parser for every set of files, every resolver and every*)
(* order of calls, as long as the resolver is set before the first schema  *)
(* is added (what exec_parser does).                                       *)
(***************************************************************************)
EXTENDS Parser, TLAPS, WellFoundedInduction

-----------------------------------------------------------------------------
(* Queues of requests.                                                     *)

IdsIn(q) == {q[i].id : i \in DOMAIN q}
Distinct(q) == \A i, j \in DOMAIN q : q[i].id = q[j].id => i = j

\* Without its first request a queue has lost exactly the id of that one.
LEMMA TailIds ==
  ASSUME NEW q \in Seq(Request), q # <<>>, Distinct(q)
  PROVE  /\ Head(q) \in Request
         /\ Tail(q) \in Seq(Request)
         /\ IdsIn(Tail(q)) = IdsIn(q) \ {Head(q).id}
         /\ Head(q).id \in IdsIn(q)
         /\ Distinct(Tail(q))
         /\ \A k \in DOMAIN Tail(q) : \E j \in DOMAIN q : Tail(q)[k] = q[j]
<1>1. /\ Head(q) = q[1] /\ 1 \in DOMAIN q /\ Tail(q) \in Seq(Request)
      /\ DOMAIN q = 1 .. Len(q) /\ Len(q) \in Nat
      /\ DOMAIN Tail(q) = 1 .. Len(q) - 1
      /\ \A i \in 1 .. Len(q) - 1 : Tail(q)[i] = q[i + 1]
  OBVIOUS
<1>2. Distinct(Tail(q))
  BY <1>1 DEF Distinct
<1>3. IdsIn(Tail(q)) \subseteq IdsIn(q) \ {Head(q).id}
  BY <1>1 DEF IdsIn, Distinct
<1>4. ASSUME NEW x \in IdsIn(q) \ {Head(q).id} PROVE x \in IdsIn(Tail(q))
  <2>1. PICK i \in DOMAIN q : x = q[i].id
    BY DEF IdsIn
  <2>2. i - 1 \in 1 .. Len(q) - 1 /\ Tail(q)[i - 1] = q[i]
    BY <1>1, <2>1
  <2> QED
    BY <1>1, <2>1, <2>2 DEF IdsIn
<1>5. Head(q) \in Request /\ Head(q).id \in IdsIn(q)
  BY <1>1 DEF IdsIn
<1>6. ASSUME NEW k \in DOMAIN Tail(q) PROVE \E j \in DOMAIN q : Tail(q)[k] = q[j]
  <2>1. k + 1 \in DOMAIN q /\ Tail(q)[k] = q[k + 1]
    BY <1>1
  <2> QED
    BY <2>1
<1> QED
  BY <1>1, <1>2, <1>3, <1>4, <1>5, <1>6

\* Two queues without a common id, one after the other.
LEMMA ConcatIds ==
  ASSUME NEW q \in Seq(Request), NEW r \in Seq(Request), Distinct(q), Distinct(r),
         IdsIn(q) \cap IdsIn(r) = {}
  PROVE  /\ q \o r \in Seq(Request)
         /\ IdsIn(q \o r) = IdsIn(q) \cup IdsIn(r)
         /\ Distinct(q \o r)
         /\ \A k \in DOMAIN (q \o r) : \/ \E j \in DOMAIN q : (q \o r)[k] = q[j]
                                       \/ \E j \in DOMAIN r : (q \o r)[k] = r[j]
<1>1. /\ q \o r \in Seq(Request)
      /\ DOMAIN q = 1 .. Len(q) /\ DOMAIN r = 1 .. Len(r)
      /\ Len(q) \in Nat /\ Len(r) \in Nat
      /\ DOMAIN (q \o r) = 1 .. Len(q) + Len(r)
      /\ \A i \in 1 .. Len(q) : (q \o r)[i] = q[i]
      /\ \A i \in 1 .. Len(r) : (q \o r)[Len(q) + i] = r[i]
  OBVIOUS
<1>2. \A i \in 1 .. Len(q) + Len(r) :
         \/ i \in 1 .. Len(q) /\ (q \o r)[i] = q[i]
         \/ i - Len(q) \in 1 .. Len(r) /\ (q \o r)[i] = r[i - Len(q)]
  <2>1. SUFFICES ASSUME NEW i \in 1 .. Len(q) + Len(r), i \notin 1 .. Len(q)
                 PROVE  i - Len(q) \in 1 .. Len(r) /\ (q \o r)[i] = r[i - Len(q)]
    BY <1>1
  <2>2. i - Len(q) \in 1 .. Len(r) /\ Len(q) + (i - Len(q)) = i
    BY <1>1, <2>1
  <2> QED
    BY <1>1, <2>2
<1>3. IdsIn(q \o r) \subseteq IdsIn(q) \cup IdsIn(r)
  BY <1>1, <1>2 DEF IdsIn
<1>4. IdsIn(q) \subseteq IdsIn(q \o r)
  BY <1>1 DEF IdsIn
<1>5. ASSUME NEW x \in IdsIn(r) PROVE x \in IdsIn(q \o r)
  <2>1. PICK i \in DOMAIN r : x = r[i].id
    BY DEF IdsIn
  <2>2. Len(q) + i \in DOMAIN (q \o r) /\ (q \o r)[Len(q) + i] = r[i]
    BY <1>1, <2>1
  <2> QED
    BY <2>1, <2>2 DEF IdsIn
<1>6. Distinct(q \o r)
  <2>1. SUFFICES ASSUME NEW i \in 1 .. Len(q) + Len(r), NEW j \in 1 .. Len(q) + Len(r),
                        (q \o r)[i].id = (q \o r)[j].id
                 PROVE  i = j
    BY <1>1 DEF Distinct
  <2>2. CASE i \in 1 .. Len(q) /\ j \in 1 .. Len(q)
    BY <1>1, <2>1, <2>2 DEF Distinct
  <2>3. CASE i \notin 1 .. Len(q) /\ j \notin 1 .. Len(q)
    <3>1. PICK k \in DOMAIN r : k = i - Len(q) /\ (q \o r)[i] = r[k]
      BY <1>1, <1>2, <2>3
    <3>2. PICK l \in DOMAIN r : l = j - Len(q) /\ (q \o r)[j] = r[l]
      BY <1>1, <1>2, <2>3
    <3>3. r[k].id = r[l].id
      BY <2>1, <3>1, <3>2
    <3>4. k = l
      BY <3>3 DEF Distinct
    <3> QED
      BY <1>1, <3>1, <3>2, <3>4
  <2>4. ASSUME NEW k \in 1 .. Len(q), NEW l \in 1 .. Len(r) PROVE q[k].id # r[l].id
    <3>1. q[k].id \in IdsIn(q) /\ r[l].id \in IdsIn(r)
      BY <1>1 DEF IdsIn
    <3> QED
      BY <3>1
  <2>5. CASE i \in 1 .. Len(q) /\ j \notin 1 .. Len(q)
    BY <1>1, <1>2, <2>1, <2>4, <2>5
  <2>6. CASE i \notin 1 .. Len(q) /\ j \in 1 .. Len(q)
    BY <1>1, <1>2, <2>1, <2>4, <2>6
  <2> QED
    BY <2>2, <2>3, <2>5, <2>6
<1>7. \A k \in DOMAIN (q \o r) : \/ \E j \in DOMAIN q : (q \o r)[k] = q[j]
                                 \/ \E j \in DOMAIN r : (q \o r)[k] = r[j]
  BY <1>1, <1>2
<1> QED
  BY <1>1, <1>3, <1>4, <1>5, <1>6, <1>7

\* What is in a longer queue is in one of its parts.
LEMMA ConcatParts ==
  ASSUME NEW q \in Seq(Request), NEW r \in Seq(Request), NEW k \in DOMAIN (q \o r)
  PROVE  \/ \E j \in DOMAIN q : (q \o r)[k] = q[j]
         \/ \E j \in DOMAIN r : (q \o r)[k] = r[j]
<1>1. /\ DOMAIN q = 1 .. Len(q) /\ DOMAIN r = 1 .. Len(r)
      /\ Len(q) \in Nat /\ Len(r) \in Nat /\ k \in 1 .. Len(q) + Len(r)
  OBVIOUS
<1>2. CASE k <= Len(q)
  <2>1. k \in DOMAIN q /\ (q \o r)[k] = q[k]
    BY <1>1, <1>2
  <2> QED
    BY <2>1
<1>3. CASE ~ (k <= Len(q))
  <2>1. k - Len(q) \in DOMAIN r /\ (q \o r)[k] = r[k - Len(q)]
    BY <1>1, <1>3
  <2> QED
    BY <2>1
<1> QED
  BY <1>2, <1>3

\* The requests r have the n ids from first on, each of them once.
Numbered(r, n, first) ==
  n \in Nat /\ r \in Seq(Request) /\ Distinct(r) /\ IdsIn(r) = first .. first + n - 1

\* The requests of a document have the ids that follow.
LEMMA RequestsNumbered ==
  ASSUME NEW d \in Doc, NEW ns \in Ns \cup {NoNs}, NEW loc \in Loc \cup {NoLoc}, NEW first \in Nat
  PROVE  Numbered(Requests(d, ns, loc, first), Len(Followed(d)), first)
<1> DEFINE f == Followed(d)
           r == Requests(d, ns, loc, first)
<1>1. f \in Seq(Ref)
  BY DEF Followed, Doc
<1>2. DOMAIN f = 1 .. Len(f) /\ Len(f) \in Nat /\ \A i \in 1 .. Len(f) : f[i] \in Ref
  BY <1>1
<1>3. \A i \in 1 .. Len(f) : f[i].kind \in Including \cup {"import"} /\ f[i].name \in Name
  BY <1>2 DEF Ref
<1>4. DOMAIN r = 1 .. Len(f) /\ \A i \in 1 .. Len(f) : r[i].id = first + i - 1
  BY <1>2 DEF Requests
<1>5. \A i \in 1 .. Len(f) : r[i] \in Request
  <2> TAKE i \in 1 .. Len(f)
  <2>1. first + i - 1 \in Nat
    BY <1>2
  <2> QED
    BY <1>2, <1>3, <2>1 DEF Requests, Request
<1>6. r \in Seq(Request)
  <2>1. r = [i \in 1 .. Len(f) |-> r[i]]
    BY <1>2 DEF Requests
  <2>2. r \in [1 .. Len(f) -> Request]
    BY <1>5, <2>1
  <2> HIDE DEF r, f
  <2> QED
    BY <1>2, <2>2
<1>7. Distinct(r)
  BY <1>2, <1>4 DEF Distinct
<1>8. IdsIn(r) \subseteq first .. first + Len(f) - 1
  BY <1>2, <1>4 DEF IdsIn
<1>9. ASSUME NEW x \in first .. first + Len(f) - 1 PROVE x \in IdsIn(r)
  <2>1. x - first + 1 \in 1 .. Len(f) /\ first + (x - first + 1) - 1 = x
    BY <1>2
  <2>2. r[x - first + 1].id = x /\ x - first + 1 \in DOMAIN r
    BY <1>4, <2>1
  <2> HIDE DEF r, f
  <2> QED
    BY <2>2 DEF IdsIn
<1>10. Numbered(r, Len(f), first)
  <2>1. IdsIn(r) = first .. first + Len(f) - 1
    <3> HIDE DEF r, f
    <3> QED
      BY <1>8, <1>9
  <2> HIDE DEF r, f
  <2> QED
    BY <1>2, <1>6, <1>7, <2>1 DEF Numbered
<1> QED
  BY <1>10

\* What each of these requests is.
LEMMA RequestIds ==
  ASSUME NEW d \in Doc, NEW ns \in Ns \cup {NoNs}, NEW loc \in Loc \cup {NoLoc},
         NEW first \in Nat
  PROVE  LET r == Requests(d, ns, loc, first)
         IN  /\ Len(Followed(d)) \in Nat
             /\ r \in Seq(Request)
             /\ Distinct(r)
             /\ IdsIn(r) = first .. first + Len(Followed(d)) - 1
             /\ DOMAIN r = DOMAIN Followed(d)
             /\ \A i \in DOMAIN r :
                  /\ r[i].id = first + i - 1 /\ r[i].at = loc
                  /\ r[i].name = Followed(d)[i].name
             /\ \A i, j \in DOMAIN r : first + i - 1 = first + j - 1 => i = j
<1> DEFINE f == Followed(d)
           r == Requests(d, ns, loc, first)
<1>1. DOMAIN f = 1 .. Len(f) /\ Len(f) \in Nat
  BY DEF Followed, Doc
<1>2. /\ DOMAIN r = DOMAIN f
      /\ \A i \in DOMAIN r : r[i].id = first + i - 1 /\ r[i].at = loc /\ r[i].name = f[i].name
      /\ \A i, j \in DOMAIN r : first + i - 1 = first + j - 1 => i = j
  BY <1>1 DEF Requests
<1>3. Numbered(r, Len(f), first)
  BY RequestsNumbered
<1> HIDE DEF r, f
<1>4. /\ Len(f) \in Nat /\ r \in Seq(Request) /\ Distinct(r) /\ IdsIn(r) = first .. first + Len(f) - 1
  BY <1>3 DEF Numbered
<1> QED
  BY <1>2, <1>4 DEF r, f

-----------------------------------------------------------------------------
(* Dependencies and entries.                                               *)

\* A set of numbers that is not empty has a least one.
LEMMA LeastNumber ==
  ASSUME NEW T \in SUBSET Nat, T # {}
  PROVE  \E x \in T : \A y \in T : x <= y
<1>1. IsWellFoundedOn({p \in Nat \X Nat : p[1] < p[2]}, Nat)
  BY NatLessThanWellFounded DEF OpToRel
<1>2. \E x \in T : \A y \in T : ~ (<<y, x>> \in {p \in Nat \X Nat : p[1] < p[2]})
  BY <1>1, WFMin
<1>3. \E x \in T : \A y \in T : ~ (y < x)
  BY <1>2
<1> QED
  BY <1>3

\* Of the references that have one name one is the last.
LEMMA LastReference ==
  ASSUME NEW refs \in Seq(Ref), NEW k \in DOMAIN refs
  PROVE  \E i \in DOMAIN refs :
           /\ refs[i].name = refs[k].name
           /\ \A j \in DOMAIN refs : refs[j].name = refs[k].name => j <= i
<1> DEFINE T == {Len(refs) - i : i \in {i \in DOMAIN refs : refs[i].name = refs[k].name}}
<1>1. Len(refs) \in Nat /\ DOMAIN refs = 1 .. Len(refs)
  OBVIOUS
<1>2. T \in SUBSET Nat /\ T # {}
  BY <1>1
<1>3. PICK x \in T : \A y \in T : x <= y
  BY <1>2, LeastNumber
<1>4. PICK i \in DOMAIN refs : refs[i].name = refs[k].name /\ x = Len(refs) - i
  OBVIOUS
<1>5. \A j \in DOMAIN refs : refs[j].name = refs[k].name => x <= Len(refs) - j
  BY <1>3
<1>6. \A j \in DOMAIN refs : refs[j].name = refs[k].name => j <= i
  BY <1>1, <1>4, <1>5
<1> QED
  BY <1>4, <1>6

\* The dependencies of a document have the names of its references, and each one
\* has the id of a request for that name.
LEMMA DependencyIds ==
  ASSUME NEW d \in Doc, NEW first \in Nat
  PROVE  LET deps == Dependencies(d, first)
         IN  /\ DOMAIN deps \subseteq Name
             /\ \A n \in DOMAIN deps :
                  /\ deps[n] \in Dependency
                  /\ \E i \in DOMAIN Followed(d) :
                       /\ Followed(d)[i].name = n /\ deps[n].id = first + i - 1
                       /\ deps[n].kind = Followed(d)[i].kind
<1> DEFINE refs == Followed(d)
           deps == Dependencies(d, first)
           last(n) == CHOOSE i \in DOMAIN refs :
                        refs[i].name = n /\ \A j \in DOMAIN refs : refs[j].name = n => j <= i
<1>1. refs \in Seq(Ref)
  BY DEF Followed, Doc
<1>2. \A i \in DOMAIN refs : /\ refs[i].kind \in Including \cup {"import"}
                             /\ refs[i].name \in Name
                             /\ i \in Nat /\ i >= 1
  <2>1. DOMAIN refs = 1 .. Len(refs) /\ Len(refs) \in Nat /\ \A i \in DOMAIN refs : refs[i] \in Ref
    BY <1>1
  <2> HIDE DEF refs
  <2> QED
    BY <2>1 DEF Ref
<1>3. deps = [n \in {refs[i].name : i \in DOMAIN refs} |->
                [kind |-> refs[last(n)].kind, id |-> first + last(n) - 1]]
  BY DEF Dependencies
<1>4. ASSUME NEW n \in {refs[i].name : i \in DOMAIN refs}
      PROVE  last(n) \in DOMAIN refs /\ refs[last(n)].name = n
  <2>1. PICK k \in DOMAIN refs : refs[k].name = n
    OBVIOUS
  <2>2. \E i \in DOMAIN refs :
          refs[i].name = n /\ \A j \in DOMAIN refs : refs[j].name = n => j <= i
    BY <1>1, <2>1, LastReference
  <2> HIDE DEF refs
  <2> QED
    BY <2>2
<1> HIDE DEF last, refs, deps
<1>5. DOMAIN deps = {refs[i].name : i \in DOMAIN refs}
  BY <1>3
<1>6. ASSUME NEW n \in DOMAIN deps
      PROVE  /\ deps[n] \in Dependency
             /\ \E i \in DOMAIN refs : /\ refs[i].name = n /\ deps[n].id = first + i - 1
                                      /\ deps[n].kind = refs[i].kind
  <2>1. last(n) \in DOMAIN refs /\ refs[last(n)].name = n
    BY <1>4, <1>5
  <2>2. deps[n] = [kind |-> refs[last(n)].kind, id |-> first + last(n) - 1]
    BY <1>3, <1>5
  <2>3. first + last(n) - 1 \in Nat
    BY <1>2, <2>1
  <2> QED
    BY <1>2, <2>1, <2>2, <2>3 DEF Dependency
<1> QED
  BY <1>2, <1>5, <1>6 DEF deps, refs

\* One entry more.
LEMMA EntryAppended ==
  ASSUME entries \in Seq({entries[i] : i \in DOMAIN entries}),
         NEW e, entries' = Append(entries, e)
  PROVE  /\ entries' \in Seq({entries'[i] : i \in DOMAIN entries'})
         /\ Len(entries) + 1 \notin DOMAIN entries
         /\ DOMAIN entries' = DOMAIN entries \cup {Len(entries) + 1}
         /\ \A i \in DOMAIN entries : entries'[i] = entries[i]
         /\ entries'[Len(entries) + 1] = e
         /\ SchemaEntries' = SchemaEntries \cup
              (IF e.kind = "schema" THEN {Len(entries) + 1} ELSE {})
<1>1. /\ Len(entries) \in Nat /\ DOMAIN entries = 1 .. Len(entries)
      /\ DOMAIN entries' = 1 .. Len(entries) + 1
      /\ \A i \in DOMAIN entries : entries'[i] = entries[i]
      /\ entries'[Len(entries) + 1] = e
  OBVIOUS
<1>2. entries' \in Seq({entries'[i] : i \in DOMAIN entries'})
  <2>1. {entries'[i] : i \in DOMAIN entries'} = {entries[i] : i \in DOMAIN entries} \cup {e}
    BY <1>1
  <2>2. entries \in Seq({entries[i] : i \in DOMAIN entries} \cup {e})
    OBVIOUS
  <2> QED
    BY <2>1, <2>2
<1>3. SchemaEntries' = SchemaEntries \cup
              (IF e.kind = "schema" THEN {Len(entries) + 1} ELSE {})
  BY <1>1 DEF SchemaEntries
<1> QED
  BY <1>1, <1>2, <1>3

\* What add_schema appends is an entry, and it is that of a schema.
LEMMA SchemaEntryTyped ==
  ASSUME NEW d \in Doc, NEW ns \in Ns \cup {NoNs}, NEW loc \in Loc \cup {NoLoc},
         NEW id \in Nat, NEW first \in Nat
  PROVE  LET e == SchemaEntry(id, d, ns, loc, first)
         IN  IsEntry(e) /\ e.kind = "schema" /\ e.id = id /\ e.ns = ns /\ e.loc = loc
<1> DEFINE deps == Dependencies(d, first)
<1>1. DOMAIN deps \subseteq Name /\ \A n \in DOMAIN deps : deps[n] \in Dependency
  BY DependencyIds
<1> HIDE DEF deps
<1>2. SchemaEntry(id, d, ns, loc, first) =
        [kind |-> "schema", id |-> id, ns |-> ns, loc |-> loc,
         declares |-> d.declares, deps |-> deps]
  BY DEF SchemaEntry, deps
<1> QED
  BY <1>1, <1>2 DEF IsEntry

-----------------------------------------------------------------------------
(* Types.                                                                  *)

\* What the resolver finds is a document at a location.
LEMMA TargetTyped ==
  ASSUME TypeOK, Busy
  PROVE  /\ Req \in Request
         /\ Tail(pending) \in Seq(Request)
         /\ Readable => Target \in Loc /\ files[Target] \in Doc
<1>1. Req \in Request /\ Tail(pending) \in Seq(Request)
  BY DEF TypeOK, Busy, Req
<1>2. DOMAIN files \subseteq Loc /\ \A l \in DOMAIN files : files[l] \in Doc
  BY DocumentAssumption DEF TypeOK
<1> QED
  BY <1>1, <1>2 DEF Readable

LEMMA TypeInit == Init => TypeOK
<1> SUFFICES ASSUME Init PROVE TypeOK
  OBVIOUS
<1>1. entries = <<>> /\ pending = <<>> /\ DOMAIN entries = {}
  BY DEF Init
<1>2. entries \in Seq({entries[i] : i \in DOMAIN entries}) /\ pending \in Seq(Request)
  BY <1>1
<1> QED
  BY <1>1, <1>2 DEF Init, TypeOK

LEMMA TypeStep == TypeOK /\ [Next]_vars => TypeOK'
<1> SUFFICES ASSUME TypeOK, [Next]_vars PROVE TypeOK'
  OBVIOUS
<1>1. CASE WithAnonymousNamespace
  <2> DEFINE e == [kind |-> "namespace", ns |-> NoNs]
  <2>1. IsEntry(e)
    BY DEF IsEntry
  <2>2. entries' = Append(entries, e)
    BY <1>1 DEF WithAnonymousNamespace
  <2> HIDE DEF e
  <2>3. /\ entries' \in Seq({entries'[i] : i \in DOMAIN entries'})
        /\ \A i \in DOMAIN entries' : IsEntry(entries'[i])
    BY <2>1, <2>2, EntryAppended DEF TypeOK
  <2> QED
    BY <1>1, <2>3 DEF WithAnonymousNamespace, TypeOK
<1>2. ASSUME NEW p \in Prefix, NEW ns \in Ns, WithNamespace(p, ns) PROVE TypeOK'
  <2> DEFINE e == [kind |-> "namespace", ns |-> ns, prefix |-> p]
  <2>1. IsEntry(e)
    BY DEF IsEntry
  <2>2. entries' = Append(entries, e)
    BY <1>2 DEF WithNamespace
  <2> HIDE DEF e
  <2>3. /\ entries' \in Seq({entries'[i] : i \in DOMAIN entries'})
        /\ \A i \in DOMAIN entries' : IsEntry(entries'[i])
    BY <2>1, <2>2, EntryAppended DEF TypeOK
  <2> QED
    BY <1>2, <2>3 DEF WithNamespace, TypeOK
<1>3. CASE WithResolver
  BY <1>3 DEF WithResolver, TypeOK
<1>4. ASSUME NEW f \in Settable, NEW on \in BOOLEAN, SetFlag(f, on) PROVE TypeOK'
  BY <1>4, OwnerAssumption DEF SetFlag, TypeOK
<1>5. ASSUME NEW d \in Texts, AddFromStr(d) PROVE TypeOK'
  <2> DEFINE e == SchemaEntry(nextId, d, d.ns, NoLoc, nextId + 1)
  <2>1. d \in Doc /\ d.ns \in Ns \cup {NoNs} /\ nextId \in Nat /\ nextId + 1 \in Nat
    <3>1. d \in Doc
      BY DocumentAssumption
    <3> QED
      BY <3>1 DEF Doc, TypeOK
  <2>2. IsEntry(e)
    BY <2>1, SchemaEntryTyped
  <2>3. pending' \in Seq(Request) /\ Len(Followed(d)) \in Nat
    BY <1>5, <2>1, RequestIds DEF AddFromStr
  <2>4. entries' = Append(entries, e)
    BY <1>5 DEF AddFromStr
  <2> HIDE DEF e
  <2>5. /\ entries' \in Seq({entries'[i] : i \in DOMAIN entries'})
        /\ \A i \in DOMAIN entries' : IsEntry(entries'[i])
    BY <2>2, <2>4, EntryAppended DEF TypeOK
  <2>6. nextId' \in Nat
    BY <1>5, <2>1, <2>3 DEF AddFromStr
  <2> QED
    BY <1>5, <2>3, <2>5, <2>6 DEF AddFromStr, TypeOK
<1>6. CASE AddFromStrError
  BY <1>6 DEF AddFromStrError, TypeOK
<1>7. ASSUME NEW n \in Name, AddFromUrl(n) PROVE TypeOK'
  <2> DEFINE r == [id |-> nextId, kind |-> "user", name |-> n, ns |-> NoNs, at |-> NoLoc]
  <2>1. r \in Request /\ nextId' \in Nat
    BY <1>7 DEF Request, TypeOK, AddFromUrl
  <2>2. pending' = <<r>>
    BY <1>7 DEF AddFromUrl
  <2> HIDE DEF r
  <2>3. pending' \in Seq(Request)
    BY <2>1, <2>2
  <2> QED
    BY <1>7, <2>1, <2>3 DEF AddFromUrl, TypeOK
<1>8. CASE ResolveHit
  <2>1. Req.id \in Nat /\ Tail(pending) \in Seq(Request)
    BY <1>8, TargetTyped DEF ResolveHit, Request
  <2> QED
    BY <1>8, <2>1 DEF ResolveHit, TypeOK
<1>9. CASE ResolveLoad
  <2> DEFINE d  == files[Target]
             ns == IF d.ns = NoNs THEN Req.ns ELSE d.ns
             e  == SchemaEntry(Req.id, d, ns, Target, nextId)
             r  == Requests(d, ns, Target, nextId)
  <2>1. d \in Doc /\ ns \in Ns \cup {NoNs} /\ Target \in Loc /\ Req.id \in Nat /\ nextId \in Nat
    BY <1>9, TargetTyped DEF ResolveLoad, Doc, Request, TypeOK
  <2>2. /\ entries' = Append(entries, e)
        /\ pending' = Tail(pending) \o r
        /\ nextId' = nextId + Len(Followed(d))
        /\ cache' = [l \in DOMAIN cache \cup {Target} |-> IF l = Target THEN {Req.id} ELSE cache[l]]
        /\ UNCHANGED <<files, resolver, flags, phase>>
    BY <1>9 DEF ResolveLoad
  <2>3. r \in Seq(Request) /\ Len(Followed(d)) \in Nat
    BY <2>1, RequestIds
  <2>4. Tail(pending) \in Seq(Request)
    BY <1>9, TargetTyped DEF ResolveLoad
  <2>5. IsEntry(e)
    BY <2>1, SchemaEntryTyped
  <2> HIDE DEF d, ns, e, r
  <2>6. /\ entries' \in Seq({entries'[i] : i \in DOMAIN entries'})
        /\ \A i \in DOMAIN entries' : IsEntry(entries'[i])
    BY <2>2, <2>5, EntryAppended DEF TypeOK
  <2>7. pending' \in Seq(Request)
    BY <2>2, <2>3, <2>4
  <2>8. DOMAIN cache' \subseteq Loc /\ \A l \in DOMAIN cache' : cache'[l] \subseteq Nat
    BY <2>1, <2>2 DEF TypeOK
  <2>9. nextId' \in Nat
    BY <2>1, <2>2, <2>3
  <2> QED
    BY <2>2, <2>6, <2>7, <2>8, <2>9 DEF TypeOK
<1>10. CASE ResolveError
  BY <1>10, TargetTyped DEF ResolveError, TypeOK
<1>11. CASE Finish
  BY <1>11 DEF Finish, TypeOK
<1>12. CASE UNCHANGED vars
  BY <1>12 DEF vars, TypeOK
<1> QED
  BY <1>1, <1>2, <1>3, <1>4, <1>5, <1>6, <1>7, <1>8, <1>9, <1>10, <1>11, <1>12
     DEF Next, Configure, Add, Resolve, Terminated

-----------------------------------------------------------------------------
(* One entry per location, and what happens to the entries of schemas.     *)

\* A namespace definition leaves the schemas as they are.
LEMMA NamespaceAdded ==
  ASSUME TypeOK, NEW e, entries' = Append(entries, e), e.kind = "namespace"
  PROVE  /\ SchemaEntries' = SchemaEntries
         /\ \A i \in SchemaEntries : entries'[i] = entries[i]
         /\ TextIds' = TextIds
<1>1. /\ SchemaEntries' = SchemaEntries
      /\ \A i \in SchemaEntries : entries'[i] = entries[i]
  BY EntryAppended DEF TypeOK, SchemaEntries
<1> QED
  BY <1>1 DEF TextIds

LEMMA SchemaAdded ==
  ASSUME TypeOK, NEW e, entries' = Append(entries, e), e.kind = "schema"
  PROVE  /\ SchemaEntries' = SchemaEntries \cup {Len(entries) + 1}
         /\ Len(entries) + 1 \notin SchemaEntries
         /\ \A i \in SchemaEntries : entries'[i] = entries[i]
         /\ entries'[Len(entries) + 1] = e
         /\ TextIds' = TextIds \cup (IF e.loc = NoLoc THEN {e.id} ELSE {})
<1>1. /\ SchemaEntries' = SchemaEntries \cup {Len(entries) + 1}
      /\ Len(entries) + 1 \notin SchemaEntries
      /\ \A i \in SchemaEntries : entries'[i] = entries[i]
      /\ entries'[Len(entries) + 1] = e
  BY EntryAppended DEF TypeOK, SchemaEntries
<1> QED
  BY <1>1 DEF TextIds

\* What a loaded document adds, in terms of its parts.
LEMMA LoadParts ==
  ASSUME TypeOK, ResolveLoad
  PROVE  \E d \in Doc, ns \in Ns \cup {NoNs} :
           /\ entries' = Append(entries, SchemaEntry(Req.id, d, ns, Target, nextId))
           /\ pending' = Tail(pending) \o Requests(d, ns, Target, nextId)
           /\ nextId' = nextId + Len(Followed(d))
           /\ cache' = [l \in DOMAIN cache \cup {Target} |->
                          IF l = Target THEN {Req.id} ELSE cache[l]]
           /\ Target \notin DOMAIN cache /\ Target \in Loc /\ Req.id \in Nat /\ nextId \in Nat
           /\ Busy /\ UNCHANGED <<files, resolver, flags, phase>>
<1> DEFINE d  == files[Target]
           ns == IF d.ns = NoNs THEN Req.ns ELSE d.ns
<1>1. d \in Doc /\ ns \in Ns \cup {NoNs} /\ Target \in Loc /\ Req.id \in Nat /\ nextId \in Nat
  BY TargetTyped DEF ResolveLoad, Doc, Request, TypeOK
<1>2. /\ entries' = Append(entries, SchemaEntry(Req.id, d, ns, Target, nextId))
      /\ pending' = Tail(pending) \o Requests(d, ns, Target, nextId)
      /\ nextId' = nextId + Len(Followed(d))
      /\ cache' = [l \in DOMAIN cache \cup {Target} |-> IF l = Target THEN {Req.id} ELSE cache[l]]
      /\ Target \notin DOMAIN cache /\ Busy
      /\ UNCHANGED <<files, resolver, flags, phase>>
  BY DEF ResolveLoad
<1> HIDE DEF d, ns
<1> QED
  BY <1>1, <1>2

LEMMA LoadedOnceInit == Init => LoadedOnce
  BY DEF Init, LoadedOnce, SchemaEntries

\* Nothing changes as long as the schemas and the cache stay as they are.
LEMMA SameSchemas ==
  ASSUME LoadedOnce, SchemaEntries' = SchemaEntries, cache' = cache,
         \A i \in SchemaEntries : entries'[i] = entries[i]
  PROVE  LoadedOnce'
<1>1. {entries'[i].loc : i \in SchemaEntries} = {entries[i].loc : i \in SchemaEntries}
  OBVIOUS
<1>2. \A i, j \in SchemaEntries : entries'[i].loc = entries'[j].loc /\ entries'[i].loc # NoLoc => i = j
  BY DEF LoadedOnce
<1>3. \A i \in SchemaEntries : entries'[i].loc # NoLoc => entries'[i].id \in cache[entries'[i].loc]
  BY DEF LoadedOnce
<1> QED
  BY <1>1, <1>2, <1>3 DEF LoadedOnce

LEMMA LoadedOnceStep ==
  ASSUME ~ LateResolver, TypeOK, LoadedOnce, [Next]_vars
  PROVE  LoadedOnce'
<1>1. CASE WithAnonymousNamespace
  <2> DEFINE e == [kind |-> "namespace", ns |-> NoNs]
  <2>1. e.kind = "namespace" /\ entries' = Append(entries, e) /\ cache' = cache
    BY <1>1 DEF WithAnonymousNamespace
  <2> HIDE DEF e
  <2>2. SchemaEntries' = SchemaEntries /\ \A i \in SchemaEntries : entries'[i] = entries[i]
    BY <2>1, NamespaceAdded
  <2> QED
    BY <2>1, <2>2, SameSchemas
<1>2. ASSUME NEW p \in Prefix, NEW ns \in Ns, WithNamespace(p, ns) PROVE LoadedOnce'
  <2> DEFINE e == [kind |-> "namespace", ns |-> ns, prefix |-> p]
  <2>1. e.kind = "namespace" /\ entries' = Append(entries, e) /\ cache' = cache
    BY <1>2 DEF WithNamespace
  <2> HIDE DEF e
  <2>2. SchemaEntries' = SchemaEntries /\ \A i \in SchemaEntries : entries'[i] = entries[i]
    BY <2>1, NamespaceAdded
  <2> QED
    BY <2>1, <2>2, SameSchemas
<1>3. CASE WithResolver
  BY <1>3 DEF WithResolver, LoadedOnce, SchemaEntries
<1>4. ASSUME NEW d \in Texts, AddFromStr(d) PROVE LoadedOnce'
  <2> DEFINE e == SchemaEntry(nextId, d, d.ns, NoLoc, nextId + 1)
  <2>1. /\ e.kind = "schema" /\ e.loc = NoLoc
        /\ entries' = Append(entries, e) /\ cache' = cache
    BY <1>4 DEF AddFromStr, SchemaEntry
  <2> HIDE DEF e
  <2>2. /\ SchemaEntries' = SchemaEntries \cup {Len(entries) + 1}
        /\ \A i \in SchemaEntries : entries'[i] = entries[i]
        /\ entries'[Len(entries) + 1].loc = NoLoc
    BY <2>1, SchemaAdded
  <2> HIDE DEF LoadedOnce
  <2>3. \A i, j \in SchemaEntries' :
          entries'[i].loc = entries'[j].loc /\ entries'[i].loc # NoLoc => i = j
    BY <2>2 DEF LoadedOnce
  <2>4. {entries'[i].loc : i \in SchemaEntries'} = {entries[i].loc : i \in SchemaEntries} \cup {NoLoc}
    BY <2>2
  <2>5. \A i \in SchemaEntries' : entries'[i].loc # NoLoc => entries'[i].id \in cache'[entries'[i].loc]
    BY <2>1, <2>2 DEF LoadedOnce
  <2> QED
    BY <2>1, <2>3, <2>4, <2>5 DEF LoadedOnce
<1>5. CASE ResolveHit
  <2>1. /\ SchemaEntries' = SchemaEntries /\ entries' = entries
        /\ DOMAIN cache' = DOMAIN cache
        /\ \A l \in DOMAIN cache : cache[l] \subseteq cache'[l]
    BY <1>5 DEF ResolveHit, SchemaEntries
  <2> QED
    BY <2>1 DEF LoadedOnce
<1>6. CASE ResolveLoad
  <2>1. PICK d \in Doc, ns \in Ns \cup {NoNs} :
          /\ entries' = Append(entries, SchemaEntry(Req.id, d, ns, Target, nextId))
          /\ cache' = [l \in DOMAIN cache \cup {Target} |->
                         IF l = Target THEN {Req.id} ELSE cache[l]]
          /\ Target \notin DOMAIN cache /\ Target \in Loc
    BY <1>6, LoadParts
  <2> DEFINE e == SchemaEntry(Req.id, d, ns, Target, nextId)
  <2>2. e.kind = "schema" /\ e.loc = Target /\ e.id = Req.id /\ entries' = Append(entries, e)
    BY <2>1 DEF SchemaEntry
  <2> HIDE DEF e
  <2>3. Target # NoLoc
    BY <2>1, NoneAssumption
  <2>4. /\ SchemaEntries' = SchemaEntries \cup {Len(entries) + 1}
        /\ \A i \in SchemaEntries : entries'[i] = entries[i]
        /\ entries'[Len(entries) + 1].loc = Target
        /\ entries'[Len(entries) + 1].id = Req.id
    BY <2>2, SchemaAdded
  <2>5. \A i \in SchemaEntries : entries[i].loc # Target
    BY <2>1, <2>3 DEF LoadedOnce
  <2>6. DOMAIN cache' = DOMAIN cache \cup {Target} /\ cache'[Target] = {Req.id}
        /\ \A l \in DOMAIN cache : cache'[l] = cache[l]
    BY <2>1
  <2>7. \A i, j \in SchemaEntries' :
          entries'[i].loc = entries'[j].loc /\ entries'[i].loc # NoLoc => i = j
    BY <2>4, <2>5 DEF LoadedOnce
  <2>8. DOMAIN cache' = {entries'[i].loc : i \in SchemaEntries'} \ {NoLoc}
    <3>1. {entries'[i].loc : i \in SchemaEntries'} = {entries[i].loc : i \in SchemaEntries} \cup {Target}
      BY <2>4
    <3> QED
      BY <2>3, <2>6, <3>1 DEF LoadedOnce
  <2>9. \A i \in SchemaEntries' : entries'[i].loc # NoLoc => entries'[i].id \in cache'[entries'[i].loc]
    <3>1. \A i \in SchemaEntries : entries[i].loc # NoLoc =>
            entries[i].loc \in DOMAIN cache /\ entries[i].id \in cache[entries[i].loc]
      BY DEF LoadedOnce
    <3> QED
      BY <2>4, <2>6, <3>1
  <2> QED
    BY <2>7, <2>8, <2>9 DEF LoadedOnce
<1>7. ASSUME UNCHANGED <<entries, cache>> PROVE LoadedOnce'
  BY <1>7 DEF LoadedOnce, SchemaEntries
<1>8. \/ WithAnonymousNamespace \/ (\E p \in Prefix, ns \in Ns : WithNamespace(p, ns))
      \/ WithResolver \/ (\E d \in Texts : AddFromStr(d)) \/ ResolveHit \/ ResolveLoad
      \/ UNCHANGED <<entries, cache>>
  BY DEF Next, Configure, Add, Resolve, SetFlag, AddFromStrError, AddFromUrl, ResolveError,
         Finish, Terminated, vars
<1> QED
  BY <1>1, <1>2, <1>3, <1>4, <1>5, <1>6, <1>7, <1>8

-----------------------------------------------------------------------------
(* Every id is in one place.                                               *)

\* The entry of every location is among those that are cached.
LEMMA EntryIds ==
  ASSUME LoadedOnce, NEW i \in SchemaEntries
  PROVE  entries[i].id \in TextIds \cup CachedIds
<1>1. CASE entries[i].loc = NoLoc
  BY <1>1 DEF TextIds
<1>2. CASE entries[i].loc # NoLoc
  <2>1. entries[i].loc \in DOMAIN cache /\ entries[i].id \in cache[entries[i].loc]
    BY <1>2 DEF LoadedOnce
  <2> QED
    BY <2>1 DEF CachedIds
<1> QED
  BY <1>1, <1>2

LEMMA IdsInit == Init => IdsAccounted
  BY DEF Init, IdsAccounted, PendingIds, TextIds, CachedIds, SchemaEntries

\* Nothing changes as long as schemas, cache and queue stay as they are.
LEMMA SameIds ==
  ASSUME IdsAccounted, phase # "failed", SchemaEntries' = SchemaEntries, TextIds' = TextIds,
         \A i \in SchemaEntries : entries'[i] = entries[i],
         UNCHANGED <<cache, pending, nextId>>
  PROVE  IdsAccounted'
<1>1. PendingIds' = PendingIds /\ CachedIds' = CachedIds
  BY DEF PendingIds, CachedIds
<1>2. \A i, j \in SchemaEntries : entries'[i].id = entries'[j].id => i = j
  BY DEF IdsAccounted
<1> QED
  BY <1>1, <1>2 DEF IdsAccounted

LEMMA IdsStep ==
  ASSUME ~ LateResolver, TypeOK, LoadedOnce, IdsAccounted, [Next]_vars
  PROVE  IdsAccounted'
<1>1. CASE WithAnonymousNamespace
  <2> DEFINE e == [kind |-> "namespace", ns |-> NoNs]
  <2>1. e.kind = "namespace" /\ entries' = Append(entries, e)
    BY <1>1 DEF WithAnonymousNamespace
  <2> HIDE DEF e
  <2>2. /\ SchemaEntries' = SchemaEntries /\ TextIds' = TextIds
        /\ \A i \in SchemaEntries : entries'[i] = entries[i]
    BY <2>1, NamespaceAdded
  <2> QED
    BY <1>1, <2>2, SameIds DEF WithAnonymousNamespace, Idle
<1>2. ASSUME NEW p \in Prefix, NEW ns \in Ns, WithNamespace(p, ns) PROVE IdsAccounted'
  <2> DEFINE e == [kind |-> "namespace", ns |-> ns, prefix |-> p]
  <2>1. e.kind = "namespace" /\ entries' = Append(entries, e)
    BY <1>2 DEF WithNamespace
  <2> HIDE DEF e
  <2>2. /\ SchemaEntries' = SchemaEntries /\ TextIds' = TextIds
        /\ \A i \in SchemaEntries : entries'[i] = entries[i]
    BY <2>1, NamespaceAdded
  <2> QED
    BY <1>2, <2>2, SameIds DEF WithNamespace, Idle
<1>3. CASE WithResolver
  <2>1. /\ SchemaEntries' = {} /\ DOMAIN cache' = {} /\ pending' = <<>> /\ nextId' = 0
    BY <1>3 DEF WithResolver, Idle, SchemaEntries
  <2>2. TextIds' = {} /\ CachedIds' = {} /\ PendingIds' = {}
    BY <2>1 DEF TextIds, CachedIds, PendingIds
  <2> QED
    BY <2>1, <2>2 DEF IdsAccounted
<1>4. ASSUME NEW d \in Texts, AddFromStr(d) PROVE IdsAccounted'
  <2> DEFINE e == SchemaEntry(nextId, d, d.ns, NoLoc, nextId + 1)
             r == Requests(d, d.ns, NoLoc, nextId + 1)
             k == Len(Followed(d))
  <2>1. /\ e.kind = "schema" /\ e.loc = NoLoc /\ e.id = nextId
        /\ entries' = Append(entries, e) /\ cache' = cache /\ pending' = r
        /\ nextId' = nextId + 1 + k
        /\ pending = <<>> /\ phase = "open"
    BY <1>4 DEF AddFromStr, SchemaEntry, Idle
  <2>2. d \in Doc /\ d.ns \in Ns \cup {NoNs} /\ nextId \in Nat /\ nextId + 1 \in Nat
    <3>1. d \in Doc
      BY DocumentAssumption
    <3> QED
      BY <3>1 DEF Doc, TypeOK
  <2>3. k \in Nat /\ Distinct(r) /\ IdsIn(r) = nextId + 1 .. nextId + 1 + k - 1
    <3>1. \A x \in Doc, ns \in Ns \cup {NoNs}, loc \in Loc \cup {NoLoc}, first \in Nat :
            /\ Len(Followed(x)) \in Nat
            /\ Distinct(Requests(x, ns, loc, first))
            /\ IdsIn(Requests(x, ns, loc, first)) = first .. first + Len(Followed(x)) - 1
      BY RequestIds
    <3>2. NoLoc \in Loc \cup {NoLoc}
      OBVIOUS
    <3> QED
      BY <2>2, <3>1, <3>2
  <2> HIDE DEF e, r, k
  <2>4. /\ SchemaEntries' = SchemaEntries \cup {Len(entries) + 1}
        /\ \A i \in SchemaEntries : entries'[i] = entries[i]
        /\ entries'[Len(entries) + 1].id = nextId
        /\ TextIds' = TextIds \cup {nextId}
    BY <2>1, SchemaAdded
  <2>5. PendingIds = {} /\ PendingIds' = nextId + 1 .. nextId + k /\ CachedIds' = CachedIds
    BY <2>1, <2>2, <2>3 DEF PendingIds, CachedIds, IdsIn
  <2>6. /\ TextIds \cup CachedIds = 0 .. nextId - 1 /\ TextIds \cap CachedIds = {}
    BY <2>1, <2>5 DEF IdsAccounted
  <2>7. \A i, j \in SchemaEntries' : entries'[i].id = entries'[j].id => i = j
    <3>1. \A i \in SchemaEntries : entries[i].id # nextId
      BY <2>2, <2>6, EntryIds
    <3>2. \A i, j \in SchemaEntries : entries[i].id = entries[j].id => i = j
      BY <2>1 DEF IdsAccounted
    <3> QED
      BY <2>4, <3>1, <3>2
  <2>8. \A i, j \in DOMAIN pending' : pending'[i].id = pending'[j].id => i = j
    BY <2>1, <2>3 DEF Distinct
  <2>9. \A x, l \in DOMAIN cache' : cache'[x] \cap cache'[l] # {} => x = l
    BY <2>1 DEF IdsAccounted
  <2>10. /\ PendingIds' \cup TextIds' \cup CachedIds' = 0 .. nextId' - 1
         /\ PendingIds' \cap (TextIds' \cup CachedIds') = {}
         /\ TextIds' \cap CachedIds' = {}
    BY <2>1, <2>2, <2>3, <2>4, <2>5, <2>6
  <2> QED
    BY <2>7, <2>8, <2>9, <2>10 DEF IdsAccounted
<1>5. ASSUME NEW n \in Name, AddFromUrl(n) PROVE IdsAccounted'
  <2>1. /\ pending = <<>> /\ phase = "open" /\ nextId \in Nat /\ nextId' = nextId + 1
        /\ DOMAIN pending' = {1} /\ pending'[1].id = nextId
        /\ UNCHANGED <<entries, cache>>
    BY <1>5 DEF AddFromUrl, Idle, TypeOK
  <2>2. /\ PendingIds = {} /\ PendingIds' = {nextId} /\ CachedIds' = CachedIds
        /\ TextIds' = TextIds /\ SchemaEntries' = SchemaEntries
    BY <2>1 DEF PendingIds, CachedIds, TextIds, SchemaEntries
  <2>3. /\ PendingIds' \cup TextIds' \cup CachedIds' = 0 .. nextId' - 1
        /\ PendingIds' \cap (TextIds' \cup CachedIds') = {}
    BY <2>1, <2>2 DEF IdsAccounted
  <2> QED
    BY <2>1, <2>2, <2>3 DEF IdsAccounted
<1>6. CASE ResolveHit
  <2>1. /\ Req.id \in PendingIds /\ PendingIds' = PendingIds \ {Req.id}
        /\ \A i, j \in DOMAIN pending' : pending'[i].id = pending'[j].id => i = j
    <3>1. pending \in Seq(Request) /\ pending # <<>> /\ Distinct(pending) /\ pending' = Tail(pending)
      BY <1>6 DEF ResolveHit, Busy, TypeOK, IdsAccounted, Distinct
    <3>2. /\ IdsIn(Tail(pending)) = IdsIn(pending) \ {Req.id} /\ Req.id \in IdsIn(pending)
          /\ Distinct(Tail(pending))
      BY <3>1, TailIds DEF Req
    <3>3. PendingIds = IdsIn(pending) /\ PendingIds' = IdsIn(Tail(pending))
      BY <3>1 DEF PendingIds, IdsIn
    <3> QED
      BY <3>1, <3>2, <3>3 DEF Distinct
  <2>2. /\ Target \in DOMAIN cache /\ DOMAIN cache' = DOMAIN cache
        /\ cache'[Target] = cache[Target] \cup {Req.id}
        /\ \A l \in DOMAIN cache \ {Target} : cache'[l] = cache[l]
        /\ UNCHANGED <<entries, nextId>> /\ phase = "open"
    BY <1>6 DEF ResolveHit, Busy
  <2>3. TextIds' = TextIds /\ SchemaEntries' = SchemaEntries /\ CachedIds' = CachedIds \cup {Req.id}
    BY <2>2 DEF TextIds, SchemaEntries, CachedIds
  <2>4. Req.id \notin TextIds \cup CachedIds
    BY <2>1, <2>2 DEF IdsAccounted
  <2>5. \A l \in DOMAIN cache : Req.id \notin cache[l]
    BY <2>4 DEF CachedIds
  <2>6. \A x, l \in DOMAIN cache' : cache'[x] \cap cache'[l] # {} => x = l
    BY <2>2, <2>5 DEF IdsAccounted
  <2>7. /\ PendingIds' \cup TextIds' \cup CachedIds' = 0 .. nextId' - 1
        /\ PendingIds' \cap (TextIds' \cup CachedIds') = {}
        /\ TextIds' \cap CachedIds' = {}
    BY <2>1, <2>2, <2>3, <2>4 DEF IdsAccounted
  <2> QED
    BY <2>1, <2>2, <2>3, <2>6, <2>7 DEF IdsAccounted
<1>7. CASE ResolveLoad
  <2>1. PICK d \in Doc, ns \in Ns \cup {NoNs} :
           /\ entries' = Append(entries, SchemaEntry(Req.id, d, ns, Target, nextId))
           /\ pending' = Tail(pending) \o Requests(d, ns, Target, nextId)
           /\ nextId' = nextId + Len(Followed(d))
           /\ cache' = [l \in DOMAIN cache \cup {Target} |->
                          IF l = Target THEN {Req.id} ELSE cache[l]]
           /\ Target \notin DOMAIN cache /\ Target \in Loc /\ nextId \in Nat
           /\ Busy
    BY <1>7, LoadParts
  <2> DEFINE e == SchemaEntry(Req.id, d, ns, Target, nextId)
             r == Requests(d, ns, Target, nextId)
             k == Len(Followed(d))
  <2>2. /\ e.kind = "schema" /\ e.loc = Target /\ e.id = Req.id /\ entries' = Append(entries, e)
        /\ pending' = Tail(pending) \o r /\ nextId' = nextId + k
    BY <2>1 DEF SchemaEntry
  <2>3. /\ k \in Nat /\ Distinct(r) /\ r \in Seq(Request) /\ IdsIn(r) = nextId .. nextId + k - 1
    <3>1. d \in Doc /\ ns \in Ns \cup {NoNs} /\ Target \in Loc \cup {NoLoc} /\ nextId \in Nat
      BY <2>1
    <3> QED
      BY <3>1, RequestsNumbered DEF Numbered
  <2>4. /\ phase = "open" /\ pending \in Seq(Request) /\ pending # <<>> /\ Distinct(pending)
        /\ IdsIn(pending) = PendingIds /\ Target # NoLoc
    BY <2>1, NoneAssumption DEF Busy, TypeOK, IdsAccounted, Distinct, IdsIn, PendingIds
  <2> HIDE DEF e, r, k
  <2>5. /\ Req.id \in PendingIds /\ Tail(pending) \in Seq(Request) /\ Distinct(Tail(pending))
        /\ IdsIn(Tail(pending)) = PendingIds \ {Req.id}
    BY <2>4, TailIds DEF Req
  <2>6. PendingIds \subseteq 0 .. nextId - 1
    BY <2>4 DEF IdsAccounted
  <2>7. Distinct(pending') /\ PendingIds' = (PendingIds \ {Req.id}) \cup (nextId .. nextId + k - 1)
    <3>1. IdsIn(Tail(pending)) \cap IdsIn(r) = {}
      BY <2>1, <2>3, <2>5, <2>6
    <3>2. Distinct(Tail(pending) \o r) /\ IdsIn(Tail(pending) \o r) = IdsIn(Tail(pending)) \cup IdsIn(r)
      BY <2>3, <2>5, <3>1, ConcatIds
    <3>3. PendingIds' = IdsIn(Tail(pending) \o r)
      BY <2>2 DEF PendingIds, IdsIn
    <3>4. Distinct(pending')
      BY <2>2, <3>2
    <3> QED
      BY <2>3, <2>5, <3>2, <3>3, <3>4
  <2>8. /\ SchemaEntries' = SchemaEntries \cup {Len(entries) + 1}
        /\ \A i \in SchemaEntries : entries'[i] = entries[i]
        /\ entries'[Len(entries) + 1].id = Req.id
        /\ TextIds' = TextIds
    BY <2>2, <2>4, SchemaAdded
  <2>9. /\ DOMAIN cache' = DOMAIN cache \cup {Target} /\ cache'[Target] = {Req.id}
        /\ \A l \in DOMAIN cache : cache'[l] = cache[l]
    BY <2>1
  <2>10. CachedIds' = CachedIds \cup {Req.id}
    BY <2>9 DEF CachedIds
  <2>11. Req.id \notin TextIds \cup CachedIds
    BY <2>4, <2>5 DEF IdsAccounted
  <2>12. \A i, j \in SchemaEntries' : entries'[i].id = entries'[j].id => i = j
    <3>1. \A i \in SchemaEntries : entries[i].id # Req.id
      BY <2>11, EntryIds
    <3>2. \A i, j \in SchemaEntries : entries[i].id = entries[j].id => i = j
      BY <2>4 DEF IdsAccounted
    <3> QED
      BY <2>8, <3>1, <3>2
  <2>13. \A x, l \in DOMAIN cache' : cache'[x] \cap cache'[l] # {} => x = l
    <3>1. \A l \in DOMAIN cache : Req.id \notin cache[l]
      BY <2>11 DEF CachedIds
    <3>2. \A x, l \in DOMAIN cache : cache[x] \cap cache[l] # {} => x = l
      BY <2>4 DEF IdsAccounted
    <3> QED
      BY <2>9, <3>1, <3>2
  <2>14. /\ PendingIds' \cup TextIds' \cup CachedIds' = 0 .. nextId' - 1
         /\ PendingIds' \cap (TextIds' \cup CachedIds') = {}
         /\ TextIds' \cap CachedIds' = {}
    <3>1. /\ PendingIds \cup TextIds \cup CachedIds = 0 .. nextId - 1
          /\ PendingIds \cap (TextIds \cup CachedIds) = {}
          /\ TextIds \cap CachedIds = {}
      BY <2>4 DEF IdsAccounted
    <3>2. (0 .. nextId - 1) \cup (nextId .. nextId + k - 1) = 0 .. nextId' - 1
      BY <2>1, <2>2, <2>3
    <3>3. (0 .. nextId - 1) \cap (nextId .. nextId + k - 1) = {}
      BY <2>1, <2>3
    <3> QED
      BY <2>5, <2>7, <2>8, <2>10, <2>11, <3>1, <3>2, <3>3
  <2> QED
    BY <2>7, <2>12, <2>13, <2>14 DEF IdsAccounted, Distinct
<1>8. ASSUME UNCHANGED <<entries, cache, pending, nextId>>, phase' = phase \/ phase = "open"
      PROVE  IdsAccounted'
  BY <1>8 DEF IdsAccounted, PendingIds, TextIds, CachedIds, SchemaEntries
<1>9. CASE ResolveError
  BY <1>9 DEF ResolveError, IdsAccounted
<1>10. \/ WithAnonymousNamespace \/ (\E p \in Prefix, ns \in Ns : WithNamespace(p, ns))
       \/ WithResolver \/ (\E d \in Texts : AddFromStr(d)) \/ (\E n \in Name : AddFromUrl(n))
       \/ ResolveHit \/ ResolveLoad \/ ResolveError
       \/ UNCHANGED <<entries, cache, pending, nextId>> /\ (phase' = phase \/ phase = "open")
  BY DEF Next, Configure, Add, Resolve, SetFlag, AddFromStrError, Finish, Idle, Terminated, vars
<1> QED
  BY <1>1, <1>2, <1>3, <1>4, <1>5, <1>6, <1>7, <1>8, <1>9, <1>10
-----------------------------------------------------------------------------
(* Every dependency is queued or loaded.                                   *)

\* A request is the first of its queue or among the others.
LEMMA FirstOrLater ==
  ASSUME NEW q \in Seq(Request), NEW k \in DOMAIN q
  PROVE  q # <<>> /\ (q[k] = Head(q) \/ \E j \in DOMAIN Tail(q) : Tail(q)[j] = q[k])
<1>1. /\ q # <<>> /\ DOMAIN q = 1 .. Len(q) /\ Len(q) \in Nat /\ Head(q) = q[1]
      /\ DOMAIN Tail(q) = 1 .. Len(q) - 1
      /\ \A i \in 1 .. Len(q) - 1 : Tail(q)[i] = q[i + 1]
  OBVIOUS
<1>2. CASE k # 1
  <2>1. k - 1 \in 1 .. Len(q) - 1 /\ Tail(q)[k - 1] = q[k]
    BY <1>1, <1>2
  <2> QED
    BY <1>1, <2>1
<1> QED
  BY <1>1, <1>2

\* Both parts of a longer queue are in it.
LEMMA InConcat ==
  ASSUME NEW q \in Seq(Request), NEW r \in Seq(Request)
  PROVE  /\ \A k \in DOMAIN q : \E j \in DOMAIN (q \o r) : (q \o r)[j] = q[k]
         /\ \A k \in DOMAIN r : \E j \in DOMAIN (q \o r) : (q \o r)[j] = r[k]
<1>1. /\ DOMAIN q = 1 .. Len(q) /\ DOMAIN r = 1 .. Len(r)
      /\ Len(q) \in Nat /\ Len(r) \in Nat
      /\ DOMAIN (q \o r) = 1 .. Len(q) + Len(r)
      /\ \A i \in 1 .. Len(q) : (q \o r)[i] = q[i]
      /\ \A i \in 1 .. Len(r) : (q \o r)[Len(q) + i] = r[i]
  OBVIOUS
<1>2. ASSUME NEW k \in DOMAIN r PROVE \E j \in DOMAIN (q \o r) : (q \o r)[j] = r[k]
  <2>1. Len(q) + k \in DOMAIN (q \o r) /\ (q \o r)[Len(q) + k] = r[k]
    BY <1>1
  <2> QED
    BY <2>1
<1>3. ASSUME NEW k \in DOMAIN q PROVE \E j \in DOMAIN (q \o r) : (q \o r)[j] = q[k]
  <2>1. k \in DOMAIN (q \o r) /\ (q \o r)[k] = q[k]
    BY <1>1
  <2> QED
    BY <2>1
<1> QED
  BY <1>2, <1>3

\* The dependencies of a document are among its requests.
LEMMA DependenciesRequested ==
  ASSUME NEW d \in Doc, NEW ns \in Ns \cup {NoNs}, NEW loc \in Loc \cup {NoLoc},
         NEW first \in Nat
  PROVE  LET r    == Requests(d, ns, loc, first)
             deps == Dependencies(d, first)
         IN  \A n \in DOMAIN deps : \E k \in DOMAIN r :
               r[k].id = deps[n].id /\ r[k].name = n /\ r[k].at = loc
<1> SUFFICES ASSUME NEW n \in DOMAIN Dependencies(d, first)
             PROVE  LET r == Requests(d, ns, loc, first)
                    IN  \E k \in DOMAIN r : /\ r[k].id = Dependencies(d, first)[n].id
                                            /\ r[k].name = n /\ r[k].at = loc
  OBVIOUS
<1>1. PICK i \in DOMAIN Followed(d) :
        Followed(d)[i].name = n /\ Dependencies(d, first)[n].id = first + i - 1
  BY DependencyIds
<1>2. LET r == Requests(d, ns, loc, first)
      IN  /\ DOMAIN r = DOMAIN Followed(d)
          /\ \A j \in DOMAIN r : /\ r[j].id = first + j - 1 /\ r[j].at = loc
                                 /\ r[j].name = Followed(d)[j].name
  BY RequestIds
<1> QED
  BY <1>1, <1>2

LEMMA DependenciesInit == Init => DependenciesFollowed
  BY DEF Init, DependenciesFollowed, SchemaEntries

\* As long as the queue is empty every dependency is loaded.
LEMMA IdleLoaded ==
  ASSUME DependenciesFollowed, Idle, NEW i \in SchemaEntries, NEW n \in DOMAIN entries[i].deps
  PROVE  Loaded(entries[i].deps[n].id, n, entries[i].loc)
<1>1. phase # "failed" /\ DOMAIN pending = {}
  BY DEF Idle
<1> QED
  BY <1>1 DEF DependenciesFollowed, Queued

\* With an empty queue, and as long as the cache and the schemas stay.
LEMMA SameDependencies ==
  ASSUME DependenciesFollowed, Idle, SchemaEntries' = SchemaEntries, cache' = cache,
         \A i \in SchemaEntries : entries'[i] = entries[i]
  PROVE  DependenciesFollowed'
  BY IdleLoaded DEF DependenciesFollowed, Loaded

LEMMA DependenciesStep ==
  ASSUME ~ LateResolver, TypeOK, DependenciesFollowed, [Next]_vars
  PROVE  DependenciesFollowed'
<1>1. CASE WithAnonymousNamespace
  <2> DEFINE e == [kind |-> "namespace", ns |-> NoNs]
  <2>1. e.kind = "namespace" /\ entries' = Append(entries, e)
    BY <1>1 DEF WithAnonymousNamespace
  <2> HIDE DEF e
  <2>2. SchemaEntries' = SchemaEntries /\ \A i \in SchemaEntries : entries'[i] = entries[i]
    BY <2>1, NamespaceAdded
  <2> QED
    BY <1>1, <2>2, SameDependencies DEF WithAnonymousNamespace
<1>2. ASSUME NEW p \in Prefix, NEW ns \in Ns, WithNamespace(p, ns) PROVE DependenciesFollowed'
  <2> DEFINE e == [kind |-> "namespace", ns |-> ns, prefix |-> p]
  <2>1. e.kind = "namespace" /\ entries' = Append(entries, e)
    BY <1>2 DEF WithNamespace
  <2> HIDE DEF e
  <2>2. SchemaEntries' = SchemaEntries /\ \A i \in SchemaEntries : entries'[i] = entries[i]
    BY <2>1, NamespaceAdded
  <2> QED
    BY <1>2, <2>2, SameDependencies DEF WithNamespace
<1>3. CASE WithResolver
  BY <1>3 DEF WithResolver, DependenciesFollowed, SchemaEntries
<1>4. ASSUME NEW d \in Texts, AddFromStr(d) PROVE DependenciesFollowed'
  <2>1. d \in Doc /\ d.ns \in Ns \cup {NoNs} /\ nextId + 1 \in Nat
    <3>1. d \in Doc
      BY DocumentAssumption
    <3> QED
      BY <3>1 DEF Doc, TypeOK
  <2> PICK e : e = SchemaEntry(nextId, d, d.ns, NoLoc, nextId + 1)
    OBVIOUS
  <2>2. /\ e.kind = "schema" /\ e.loc = NoLoc /\ e.deps = Dependencies(d, nextId + 1)
        /\ entries' = Append(entries, e) /\ cache' = cache /\ Idle
        /\ pending' = Requests(d, d.ns, NoLoc, nextId + 1)
    BY <1>4 DEF AddFromStr, SchemaEntry
  <2>3. \A n \in DOMAIN e.deps : Queued(e.deps[n].id, n, e.loc)'
    <3>1. PICK ns \in Ns \cup {NoNs}, loc \in Loc \cup {NoLoc}, first \in Nat :
            ns = d.ns /\ loc = NoLoc /\ first = nextId + 1
      BY <2>1
    <3>2. LET r    == Requests(d, ns, loc, first)
              deps == Dependencies(d, first)
          IN  \A n \in DOMAIN deps : \E k \in DOMAIN r :
                r[k].id = deps[n].id /\ r[k].name = n /\ r[k].at = loc
      <4>1. d \in Doc
        BY <2>1
      <4> QED
        BY <4>1, DependenciesRequested
    <3>3. \A n \in DOMAIN e.deps : \E k \in DOMAIN pending' :
            pending'[k].id = e.deps[n].id /\ pending'[k].name = n /\ pending'[k].at = NoLoc
      BY <2>2, <3>1, <3>2
    <3> QED
      BY <2>2, <3>3 DEF Queued
  <2>4. /\ SchemaEntries' = SchemaEntries \cup {Len(entries) + 1}
        /\ \A i \in SchemaEntries : entries'[i] = entries[i]
        /\ entries'[Len(entries) + 1] = e
    BY <2>2, SchemaAdded
  <2>5. \A i \in SchemaEntries : \A n \in DOMAIN entries[i].deps :
          Loaded(entries[i].deps[n].id, n, entries[i].loc)
    BY <2>2, IdleLoaded
  <2>6. ASSUME NEW id, NEW n, NEW loc, Loaded(id, n, loc) PROVE Loaded(id, n, loc)'
    BY <2>2, <2>6 DEF Loaded
  <2> QED
    BY <2>3, <2>4, <2>5, <2>6 DEF DependenciesFollowed
<1>5. ASSUME NEW n \in Name, AddFromUrl(n) PROVE DependenciesFollowed'
  BY <1>5, SameDependencies DEF AddFromUrl, SchemaEntries
<1>6. CASE ResolveHit
  <2>1. /\ pending \in Seq(Request) /\ pending' = Tail(pending) /\ phase = "open"
        /\ Target \in DOMAIN cache /\ cache' = [cache EXCEPT ![Target] = @ \cup {Req.id}]
        /\ entries' = entries
    BY <1>6 DEF ResolveHit, Busy, TypeOK
  <2>2. ASSUME NEW id, NEW n, NEW loc, Queued(id, n, loc) \/ Loaded(id, n, loc)
        PROVE  Queued(id, n, loc)' \/ Loaded(id, n, loc)'
    <3>1. CASE Loaded(id, n, loc)
      BY <2>1, <3>1 DEF Loaded
    <3>2. ASSUME NEW k \in DOMAIN pending, pending[k].id = id, pending[k].name = n, pending[k].at = loc
          PROVE  Queued(id, n, loc)' \/ Loaded(id, n, loc)'
      <4>1. pending[k] = Req \/ \E j \in DOMAIN pending' : pending'[j] = pending[k]
        BY <2>1, FirstOrLater DEF Req
      <4>2. CASE pending[k] = Req
        BY <2>1, <3>2, <4>2 DEF Loaded, Target
      <4> QED
        BY <3>2, <4>1, <4>2 DEF Queued
    <3> QED
      BY <2>2, <3>1, <3>2 DEF Queued
  <2> QED
    BY <2>1, <2>2 DEF DependenciesFollowed, SchemaEntries
<1>7. CASE ResolveLoad
  <2>1. PICK d \in Doc, ns \in Ns \cup {NoNs} :
          /\ entries' = Append(entries, SchemaEntry(Req.id, d, ns, Target, nextId))
          /\ pending' = Tail(pending) \o Requests(d, ns, Target, nextId)
          /\ cache' = [l \in DOMAIN cache \cup {Target} |->
                         IF l = Target THEN {Req.id} ELSE cache[l]]
          /\ Target \notin DOMAIN cache /\ Target \in Loc /\ nextId \in Nat /\ Busy
    BY <1>7, LoadParts
  <2> PICK e : e = SchemaEntry(Req.id, d, ns, Target, nextId)
    OBVIOUS
  <2> DEFINE r == Requests(d, ns, Target, nextId)
  <2>2. /\ e.kind = "schema" /\ e.loc = Target /\ e.deps = Dependencies(d, nextId)
        /\ entries' = Append(entries, e)
    BY <2>1 DEF SchemaEntry
  <2>3. \A n \in DOMAIN e.deps :
          \E k \in DOMAIN r : r[k].id = e.deps[n].id /\ r[k].name = n /\ r[k].at = e.loc
    <3>1. PICK loc \in Loc \cup {NoLoc}, first \in Nat : loc = Target /\ first = nextId
      BY <2>1
    <3>2. LET q    == Requests(d, ns, loc, first)
              deps == Dependencies(d, first)
          IN  \A n \in DOMAIN deps : \E k \in DOMAIN q :
                q[k].id = deps[n].id /\ q[k].name = n /\ q[k].at = loc
      BY DependenciesRequested
    <3> QED
      BY <2>2, <3>1, <3>2
  <2>4. r \in Seq(Request) /\ pending \in Seq(Request) /\ Tail(pending) \in Seq(Request)
    BY <2>1, RequestIds, TargetTyped DEF TypeOK
  <2>5. pending' = Tail(pending) \o r
    BY <2>1
  <2> HIDE DEF r
  <2>6. \A n \in DOMAIN e.deps : Queued(e.deps[n].id, n, e.loc)'
    <3>1. \A k \in DOMAIN r : \E j \in DOMAIN pending' : pending'[j] = r[k]
      BY <2>4, <2>5, InConcat
    <3> QED
      BY <2>3, <3>1 DEF Queued
  <2>7. ASSUME NEW id, NEW n, NEW loc, Queued(id, n, loc) \/ Loaded(id, n, loc)
        PROVE  Queued(id, n, loc)' \/ Loaded(id, n, loc)'
    <3>1. CASE Loaded(id, n, loc)
      BY <2>1, <3>1 DEF Loaded
    <3>2. ASSUME NEW k \in DOMAIN pending, pending[k].id = id, pending[k].name = n, pending[k].at = loc
          PROVE  Queued(id, n, loc)' \/ Loaded(id, n, loc)'
      <4>1. pending[k] = Req \/ \E j \in DOMAIN Tail(pending) : Tail(pending)[j] = pending[k]
        BY <2>4, FirstOrLater DEF Req
      <4>2. CASE pending[k] = Req
        BY <2>1, <3>2, <4>2 DEF Loaded, Target
      <4>3. \A j \in DOMAIN Tail(pending) : \E i \in DOMAIN pending' : pending'[i] = Tail(pending)[j]
        BY <2>4, <2>5, InConcat
      <4> QED
        BY <3>2, <4>1, <4>2, <4>3 DEF Queued
    <3> QED
      BY <2>7, <3>1, <3>2 DEF Queued
  <2>8. /\ SchemaEntries' = SchemaEntries \cup {Len(entries) + 1}
        /\ \A i \in SchemaEntries : entries'[i] = entries[i]
        /\ entries'[Len(entries) + 1] = e
    BY <2>2, SchemaAdded
  <2>9. phase # "failed"
    BY <2>1 DEF Busy
  <2> QED
    BY <2>6, <2>7, <2>8, <2>9 DEF DependenciesFollowed
<1>8. ASSUME UNCHANGED <<entries, cache, pending>>, phase' = phase \/ phase = "open"
      PROVE  DependenciesFollowed'
  BY <1>8 DEF DependenciesFollowed, SchemaEntries, Queued, Loaded
<1>9. CASE ResolveError
  BY <1>9 DEF ResolveError, DependenciesFollowed
<1>10. \/ WithAnonymousNamespace \/ (\E p \in Prefix, ns \in Ns : WithNamespace(p, ns))
       \/ WithResolver \/ (\E d \in Texts : AddFromStr(d)) \/ (\E n \in Name : AddFromUrl(n))
       \/ ResolveHit \/ ResolveLoad \/ ResolveError
       \/ UNCHANGED <<entries, cache, pending>> /\ (phase' = phase \/ phase = "open")
  BY DEF Next, Configure, Add, Resolve, SetFlag, AddFromStrError, Finish, Idle, Terminated, vars
<1> QED
  BY <1>1, <1>2, <1>3, <1>4, <1>5, <1>6, <1>7, <1>8, <1>9, <1>10

-----------------------------------------------------------------------------
(* Included documents have the namespace of the one that includes them.    *)

\* The request of a dependency is as the document that has it made it.
RequestsAlike ==
  phase # "failed" =>
    \A i \in SchemaEntries : \A n \in DOMAIN entries[i].deps :
      LET dep == entries[i].deps[n]
      IN  /\ dep.id \in 0 .. nextId - 1
          /\ \A k \in DOMAIN pending : pending[k].id = dep.id =>
               pending[k].kind = dep.kind /\ pending[k].ns = entries[i].ns

\* The dependencies deps of a schema in the namespace ns have ids from first on, and the
\* requests r for them are of their kind.
Alike(deps, r, ns, first) ==
  \A n \in DOMAIN deps :
    /\ deps[n].id \in Nat /\ first <= deps[n].id
    /\ \E k \in DOMAIN r : r[k].id = deps[n].id
    /\ \A k \in DOMAIN r : r[k].id = deps[n].id => r[k].kind = deps[n].kind /\ r[k].ns = ns

LEMMA DependenciesAlike ==
  ASSUME NEW d \in Doc, NEW ns \in Ns \cup {NoNs}, NEW loc \in Loc \cup {NoLoc}, NEW first \in Nat
  PROVE  Alike(Dependencies(d, first), Requests(d, ns, loc, first), ns, first)
<1> DEFINE f   == Followed(d)
           r   == Requests(d, ns, loc, first)
           deps == Dependencies(d, first)
<1>1. ASSUME NEW n \in DOMAIN deps
      PROVE  \E i \in DOMAIN f : deps[n].id = first + i - 1 /\ deps[n].kind = f[i].kind
  BY DependencyIds
<1>2. /\ DOMAIN r = DOMAIN f
      /\ \A k \in DOMAIN r : r[k].id = first + k - 1 /\ r[k].ns = ns /\ r[k].kind = f[k].kind
  BY DEF Requests
<1>3. DOMAIN f = 1 .. Len(f) /\ Len(f) \in Nat
  BY DEF Followed, Doc
<1> HIDE DEF f, r, deps
<1>4. ASSUME NEW n \in DOMAIN deps
      PROVE  /\ deps[n].id \in Nat /\ first <= deps[n].id
             /\ \E k \in DOMAIN r : r[k].id = deps[n].id
             /\ \A k \in DOMAIN r : r[k].id = deps[n].id => r[k].kind = deps[n].kind /\ r[k].ns = ns
  <2>1. PICK i \in DOMAIN f : deps[n].id = first + i - 1 /\ deps[n].kind = f[i].kind
    BY <1>1
  <2>2. \A k \in DOMAIN r : first + k - 1 = first + i - 1 => k = i
    BY <1>2, <1>3, <2>1
  <2>3. deps[n].id \in Nat /\ first <= deps[n].id
    BY <1>3, <2>1
  <2> QED
    BY <1>2, <2>1, <2>2, <2>3
<1>5. Alike(deps, r, ns, first)
  BY <1>4 DEF Alike
<1> QED
  BY <1>5 DEF deps, r

\* The m-th entry becomes e, the schema of a document, and the requests r it makes are
\* queued behind some of those that were there.
Added(e, r, m, first) ==
  /\ first \in Nat /\ nextId' \in Nat /\ nextId <= first /\ first <= nextId'
  /\ e.id \in Nat /\ e.id < first
  /\ SchemaEntries' = SchemaEntries \cup {m} /\ entries'[m] = e
  /\ \A i \in SchemaEntries : entries'[i] = entries[i]
  /\ \A k \in DOMAIN r : r[k].id \in first .. nextId' - 1
  /\ Alike(e.deps, r, e.ns, first)
  /\ \A k \in DOMAIN pending' : \/ \E j \in DOMAIN pending : pending'[k] = pending[j]
                                \/ \E j \in DOMAIN r : pending'[k] = r[j]

\* Nobody depends on the schema e to have another namespace.
Awaited(e) ==
  \A i \in SchemaEntries : \A n \in DOMAIN entries[i].deps :
    entries[i].deps[n].id = e.id /\ entries[i].deps[n].kind \in Including
    => entries[i].ns \in {e.ns, NoNs}

\* A schema is added whose id nobody depends on, or only schemas of its namespace.
LEMMA IncludedAdded ==
  ASSUME TypeOK, LoadedOnce, IdsAccounted, RequestsAlike, IncludedNamespace, phase # "failed",
         NEW e, NEW r, NEW m, NEW first, Added(e, r, m, first), Awaited(e)
  PROVE  RequestsAlike' /\ IncludedNamespace'
<1>1. /\ nextId \in Nat /\ first \in Nat /\ nextId' \in Nat /\ nextId <= first /\ first <= nextId'
      /\ \A j \in SchemaEntries : entries[j].id \in 0 .. nextId - 1
  BY EntryIds DEF Added, TypeOK, IdsAccounted
<1>2. \A j \in DOMAIN pending : pending[j].id \in 0 .. nextId - 1
  BY DEF IdsAccounted, PendingIds
<1>3. \A n \in DOMAIN e.deps : /\ e.deps[n].id \in first .. nextId' - 1
                               /\ \A k \in DOMAIN r : r[k].id = e.deps[n].id =>
                                    r[k].kind = e.deps[n].kind /\ r[k].ns = e.ns
  BY DEF Added, Alike
<1>4. /\ SchemaEntries' = SchemaEntries \cup {m} /\ entries'[m] = e
      /\ \A i \in SchemaEntries : entries'[i] = entries[i]
      /\ e.id \in Nat /\ e.id < first
  BY DEF Added
<1>5. /\ \A k \in DOMAIN r : r[k].id \in first .. nextId' - 1
      /\ \A k \in DOMAIN pending' : \/ \E j \in DOMAIN pending : pending'[k] = pending[j]
                                    \/ \E j \in DOMAIN r : pending'[k] = r[j]
  BY DEF Added
<1>6. ASSUME NEW i \in SchemaEntries, NEW n \in DOMAIN entries[i].deps
      PROVE  /\ entries[i].deps[n].id \in 0 .. nextId - 1
             /\ \A k \in DOMAIN pending : pending[k].id = entries[i].deps[n].id =>
                  pending[k].kind = entries[i].deps[n].kind /\ pending[k].ns = entries[i].ns
  BY DEF RequestsAlike
<1>7. ASSUME NEW i \in SchemaEntries, NEW n \in DOMAIN entries[i].deps
      PROVE  /\ entries[i].deps[n].id \in 0 .. nextId' - 1
             /\ \A k \in DOMAIN pending' : pending'[k].id = entries[i].deps[n].id =>
                  pending'[k].kind = entries[i].deps[n].kind /\ pending'[k].ns = entries[i].ns
  <2>1. entries[i].deps[n].id \in 0 .. nextId - 1
    BY <1>6
  <2>2. \A j \in DOMAIN r : r[j].id # entries[i].deps[n].id
    BY <1>1, <1>5, <2>1
  <2>3. entries[i].deps[n].id \in 0 .. nextId' - 1
    BY <1>1, <2>1
  <2>4. ASSUME NEW k \in DOMAIN pending', pending'[k].id = entries[i].deps[n].id
        PROVE  pending'[k].kind = entries[i].deps[n].kind /\ pending'[k].ns = entries[i].ns
    <3>1. PICK j \in DOMAIN pending : pending'[k] = pending[j]
      BY <1>5, <2>2, <2>4
    <3> QED
      BY <1>6, <2>4, <3>1
  <2> QED
    BY <2>3, <2>4
<1>8. ASSUME NEW n \in DOMAIN e.deps
      PROVE  /\ e.deps[n].id \in 0 .. nextId' - 1
             /\ \A k \in DOMAIN pending' : pending'[k].id = e.deps[n].id =>
                  pending'[k].kind = e.deps[n].kind /\ pending'[k].ns = e.ns
  <2>1. e.deps[n].id \in first .. nextId' - 1
    BY <1>3
  <2>2. \A j \in DOMAIN pending : pending[j].id # e.deps[n].id
    BY <1>1, <1>2, <2>1
  <2>3. e.deps[n].id \in 0 .. nextId' - 1
    BY <1>1, <2>1
  <2>4. ASSUME NEW k \in DOMAIN pending', pending'[k].id = e.deps[n].id
        PROVE  pending'[k].kind = e.deps[n].kind /\ pending'[k].ns = e.ns
    <3>1. PICK j \in DOMAIN r : pending'[k] = r[j]
      BY <1>5, <2>2, <2>4
    <3> QED
      BY <1>3, <2>4, <3>1
  <2> QED
    BY <2>3, <2>4
<1>9. RequestsAlike'
  <2>1. ASSUME NEW i \in SchemaEntries', NEW n \in DOMAIN entries'[i].deps
        PROVE  /\ entries'[i].deps[n].id \in 0 .. nextId' - 1
               /\ \A k \in DOMAIN pending' : pending'[k].id = entries'[i].deps[n].id =>
                    pending'[k].kind = entries'[i].deps[n].kind /\ pending'[k].ns = entries'[i].ns
    <3>1. CASE i \in SchemaEntries
      <4>1. entries'[i] = entries[i]
        BY <1>4, <3>1
      <4> QED
        BY <1>7, <3>1, <4>1
    <3>2. CASE i = m
      BY <1>4, <1>8, <3>2
    <3> QED
      BY <1>4, <3>1, <3>2
  <2> QED
    BY <2>1 DEF RequestsAlike
<1>10. ASSUME NEW i \in SchemaEntries', NEW j \in SchemaEntries', NEW n \in DOMAIN entries'[i].deps,
              entries'[i].deps[n].kind \in Including,
              entries'[j].loc = Location(n, entries'[i].loc),
              entries'[i].deps[n].id = entries'[j].id
       PROVE  entries'[i].ns \in {entries'[j].ns, NoNs}
  <2>1. CASE i \in SchemaEntries /\ j \in SchemaEntries
    BY <1>4, <1>10, <2>1 DEF IncludedNamespace
  <2>2. CASE i \in SchemaEntries /\ j = m
    BY <1>4, <1>10, <2>2 DEF Awaited
  <2>3. CASE i = m
    <3>1. e.deps[n].id \in first .. nextId' - 1 /\ e.deps[n].id = entries'[j].id
      BY <1>3, <1>4, <1>10, <2>3
    <3>2. entries'[j].id \in Int /\ entries'[j].id < first
      <4>1. CASE j \in SchemaEntries
        <5>1. entries[j].id \in 0 .. nextId - 1 /\ entries'[j] = entries[j]
          BY <1>1, <1>4, <4>1
        <5> QED
          BY <1>1, <5>1
      <4>2. CASE j = m
        BY <1>4, <4>2
      <4> QED
        BY <1>4, <4>1, <4>2
    <3> QED
      BY <1>1, <3>1, <3>2
  <2> QED
    BY <1>4, <2>1, <2>2, <2>3
<1> QED
  BY <1>9, <1>10 DEF IncludedNamespace

\* What add_schema appends to the entries and to the rest q of the queue.
SchemaQueued(id, d, ns, loc, first, q) ==
  /\ d \in Doc /\ ns \in Ns \cup {NoNs} /\ loc \in Loc \cup {NoLoc}
  /\ first \in Nat /\ nextId <= first /\ id \in Nat /\ id < first
  /\ q \in Seq(Request) /\ \A k \in DOMAIN q : \E j \in DOMAIN pending : q[k] = pending[j]
  /\ entries' = Append(entries, SchemaEntry(id, d, ns, loc, first))
  /\ pending' = q \o Requests(d, ns, loc, first)
  /\ nextId' = first + Len(Followed(d))

LEMMA IncludedSchema ==
  ASSUME TypeOK, NEW id, NEW d, NEW ns, NEW loc, NEW first, NEW q,
         SchemaQueued(id, d, ns, loc, first, q)
  PROVE  \E e, r, m : Added(e, r, m, first) /\ e.id = id /\ e.ns = ns
<1> PICK e : e = SchemaEntry(id, d, ns, loc, first)
  OBVIOUS
<1> PICK r : r = Requests(d, ns, loc, first)
  OBVIOUS
<1> PICK m : m = Len(entries) + 1
  OBVIOUS
<1>1. /\ d \in Doc /\ ns \in Ns \cup {NoNs} /\ loc \in Loc \cup {NoLoc}
      /\ first \in Nat /\ nextId <= first /\ id \in Nat /\ id < first /\ q \in Seq(Request)
  BY DEF SchemaQueued
<1>2. /\ e.kind = "schema" /\ e.id = id /\ e.ns = ns /\ e.loc = loc
      /\ e.deps = Dependencies(d, first)
  BY DEF SchemaEntry
<1>3. /\ SchemaEntries' = SchemaEntries \cup {m} /\ entries'[m] = e
      /\ \A i \in SchemaEntries : entries'[i] = entries[i]
  <2>1. entries' = Append(entries, e)
    BY DEF SchemaQueued
  <2> QED
    BY <1>2, <2>1, SchemaAdded
<1>4. Alike(e.deps, r, e.ns, first)
  BY <1>1, <1>2, DependenciesAlike
<1>5. /\ r \in Seq(Request) /\ Len(Followed(d)) \in Nat
      /\ IdsIn(r) = first .. first + Len(Followed(d)) - 1
  BY <1>1, RequestsNumbered DEF Numbered
<1>6. nextId' \in Nat /\ first <= nextId' /\ nextId' = first + Len(Followed(d))
  BY <1>1, <1>5 DEF SchemaQueued
<1>7. \A k \in DOMAIN r : r[k].id \in first .. nextId' - 1
  <2>1. \A k \in DOMAIN r : r[k].id \in IdsIn(r)
    BY DEF IdsIn
  <2>2. IdsIn(r) = first .. nextId' - 1
    <3>1. first + Len(Followed(d)) - 1 = nextId' - 1
      BY <1>1, <1>5, <1>6
    <3> QED
      BY <1>5, <3>1
  <2> QED
    BY <2>1, <2>2
<1>8. \A k \in DOMAIN pending' : \/ \E j \in DOMAIN pending : pending'[k] = pending[j]
                                 \/ \E j \in DOMAIN r : pending'[k] = r[j]
  <2>1. pending' = q \o r /\ \A k \in DOMAIN q : \E j \in DOMAIN pending : q[k] = pending[j]
    BY DEF SchemaQueued
  <2>2. ASSUME NEW k \in DOMAIN (q \o r)
        PROVE  \/ \E j \in DOMAIN q : (q \o r)[k] = q[j]
               \/ \E j \in DOMAIN r : (q \o r)[k] = r[j]
    BY <1>1, <1>5, ConcatParts
  <2> QED
    BY <2>1, <2>2
<1>9. Added(e, r, m, first)
  <2>1. e.id \in Nat /\ e.id < first
    BY <1>1, <1>2
  <2> QED
    BY <1>1, <1>3, <1>4, <1>6, <1>7, <1>8, <2>1 DEF Added
<1> QED
  BY <1>2, <1>9

LEMMA IncludedInit == Init => RequestsAlike /\ IncludedNamespace
  BY DEF Init, RequestsAlike, IncludedNamespace, SchemaEntries

\* Nothing changes as long as no schema is added, and a new request has a new id.
LEMMA SameIncluded ==
  ASSUME TypeOK, RequestsAlike, IncludedNamespace,
         phase # "failed", SchemaEntries' = SchemaEntries, nextId' = nextId \/ nextId' = nextId + 1,
         \A i \in SchemaEntries : entries'[i] = entries[i],
         \A k \in DOMAIN pending' : \/ \E j \in DOMAIN pending : pending'[k] = pending[j]
                                    \/ pending'[k].id = nextId
  PROVE  RequestsAlike' /\ IncludedNamespace'
<1>1. nextId \in Nat
  BY DEF TypeOK
<1>2. \A i \in SchemaEntries : \A n \in DOMAIN entries[i].deps :
        entries[i].deps[n].id \in 0 .. nextId - 1
  BY DEF RequestsAlike
<1>3. \A i \in SchemaEntries : \A n \in DOMAIN entries[i].deps :
        /\ entries[i].deps[n].id # nextId
        /\ entries[i].deps[n].id \in 0 .. nextId' - 1
  BY <1>1, <1>2
<1>4. RequestsAlike'
  BY <1>3 DEF RequestsAlike
<1> QED
  BY <1>4 DEF IncludedNamespace

LEMMA IncludedStep ==
  ASSUME ~ LateResolver, TypeOK, LoadedOnce, IdsAccounted, RequestsAlike, IncludedNamespace,
         [Next]_vars
  PROVE  RequestsAlike' /\ IncludedNamespace'
<1>1. ASSUME NEW e, e.kind = "namespace", entries' = Append(entries, e), Idle, UNCHANGED <<pending, nextId>>
      PROVE  RequestsAlike' /\ IncludedNamespace'
  <2>1. SchemaEntries' = SchemaEntries /\ \A i \in SchemaEntries : entries'[i] = entries[i]
    BY <1>1, NamespaceAdded
  <2> QED
    BY <1>1, <2>1, SameIncluded DEF Idle
<1>2. CASE WithAnonymousNamespace
  BY <1>1, <1>2 DEF WithAnonymousNamespace
<1>3. ASSUME NEW p \in Prefix, NEW ns \in Ns, WithNamespace(p, ns)
      PROVE  RequestsAlike' /\ IncludedNamespace'
  <2> DEFINE e == [kind |-> "namespace", ns |-> ns, prefix |-> p]
  <2>1. /\ e.kind = "namespace" /\ entries' = Append(entries, e) /\ Idle
        /\ UNCHANGED <<pending, nextId>>
    BY <1>3 DEF WithNamespace
  <2> HIDE DEF e
  <2> QED
    BY <1>1, <2>1
<1>4. CASE WithResolver
  BY <1>4 DEF WithResolver, RequestsAlike, IncludedNamespace, SchemaEntries
<1>5. ASSUME NEW d \in Texts, AddFromStr(d) PROVE RequestsAlike' /\ IncludedNamespace'
  <2>1. d \in Doc
    BY DocumentAssumption
  <2>2. d.ns \in Ns \cup {NoNs} /\ nextId \in Nat /\ nextId + 1 \in Nat
    BY <2>1 DEF Doc, TypeOK
  <2>3. phase # "failed"
    BY <1>5 DEF AddFromStr, Idle
  <2>4. PICK r : r = Requests(d, d.ns, NoLoc, nextId + 1) /\ r \in Seq(Request)
    BY <2>1, <2>2, RequestsNumbered DEF Numbered
  <2>5. /\ entries' = Append(entries, SchemaEntry(nextId, d, d.ns, NoLoc, nextId + 1))
        /\ pending' = <<>> \o r /\ nextId' = nextId + 1 + Len(Followed(d))
    BY <1>5, <2>4 DEF AddFromStr
  <2>6. SchemaQueued(nextId, d, d.ns, NoLoc, nextId + 1, <<>>)
    BY <2>1, <2>2, <2>4, <2>5 DEF SchemaQueued
  <2>7. PICK e, r2, m : Added(e, r2, m, nextId + 1) /\ e.id = nextId /\ e.ns = d.ns
    BY <2>6, IncludedSchema
  <2>8. \A i \in SchemaEntries : \A n \in DOMAIN entries[i].deps : entries[i].deps[n].id # nextId
    BY <2>2, <2>3 DEF RequestsAlike
  <2>9. Awaited(e)
    BY <2>7, <2>8 DEF Awaited
  <2> QED
    BY <2>3, <2>7, <2>9, IncludedAdded
<1>6. ASSUME NEW n \in Name, AddFromUrl(n) PROVE RequestsAlike' /\ IncludedNamespace'
  <2>1. /\ phase # "failed" /\ SchemaEntries' = SchemaEntries /\ nextId' = nextId + 1
        /\ \A i \in SchemaEntries : entries'[i] = entries[i]
        /\ \A k \in DOMAIN pending' : pending'[k].id = nextId
    BY <1>6 DEF AddFromUrl, Idle, SchemaEntries
  <2> QED
    BY <2>1, SameIncluded
<1>7. CASE ResolveHit
  <2>1. /\ phase # "failed" /\ SchemaEntries' = SchemaEntries /\ nextId' = nextId
        /\ \A i \in SchemaEntries : entries'[i] = entries[i]
        /\ pending' = Tail(pending) /\ pending # <<>> /\ pending \in Seq(Request)
    BY <1>7 DEF ResolveHit, Busy, SchemaEntries, TypeOK
  <2>2. \A k \in DOMAIN Tail(pending) : \E j \in DOMAIN pending : Tail(pending)[k] = pending[j]
    BY <2>1, TailIds DEF IdsAccounted, Distinct
  <2> QED
    BY <2>1, <2>2, SameIncluded
<1>8. CASE ResolveLoad
  <2> PICK d : d = files[Target]
    OBVIOUS
  <2> PICK ns : ns = IF d.ns = NoNs THEN Req.ns ELSE d.ns
    OBVIOUS
  <2>1. /\ entries' = Append(entries, SchemaEntry(Req.id, d, ns, Target, nextId))
        /\ pending' = Tail(pending) \o Requests(d, ns, Target, nextId)
        /\ nextId' = nextId + Len(Followed(d))
    BY <1>8 DEF ResolveLoad
  <2>2. /\ Busy /\ phase # "failed" /\ pending # <<>> /\ Readable
        /\ Req.kind \in Including => Req.ns \in {ns, NoNs}
    BY <1>8 DEF ResolveLoad, Busy, Mismatch
  <2>3. /\ d \in Doc /\ ns \in Ns \cup {NoNs} /\ Target \in Loc \cup {NoLoc} /\ nextId \in Nat
        /\ pending \in Seq(Request) /\ Req.id \in Nat
    BY <2>2, TargetTyped DEF TypeOK, Doc, Request
  <2>4. /\ Tail(pending) \in Seq(Request)
        /\ \A k \in DOMAIN Tail(pending) : \E j \in DOMAIN pending : Tail(pending)[k] = pending[j]
    BY <2>2, <2>3, TailIds DEF IdsAccounted, Distinct
  <2>5. 1 \in DOMAIN pending /\ pending[1] = Req
    BY <2>2, <2>3 DEF Req
  <2>6. Req.id < nextId
    <3>1. Req.id \in 0 .. nextId - 1
      BY <2>2, <2>5 DEF IdsAccounted, PendingIds
    <3> QED
      BY <2>3, <3>1
  <2>7. nextId <= nextId
    BY <2>3
  <2>8. SchemaQueued(Req.id, d, ns, Target, nextId, Tail(pending))
    BY <2>1, <2>3, <2>4, <2>6, <2>7 DEF SchemaQueued
  <2>9. PICK e, r, m : Added(e, r, m, nextId) /\ e.id = Req.id /\ e.ns = ns
    BY <2>8, IncludedSchema
  <2>10. Awaited(e)
    BY <2>2, <2>5, <2>9 DEF Awaited, RequestsAlike
  <2> QED
    BY <2>2, <2>9, <2>10, IncludedAdded
<1>9. CASE UNCHANGED <<entries, pending, nextId>> /\ (phase' = phase \/ phase = "open")
  BY <1>9 DEF RequestsAlike, IncludedNamespace, SchemaEntries
<1>10. CASE ResolveError
  BY <1>10 DEF ResolveError, RequestsAlike, IncludedNamespace
<1>11. \/ WithAnonymousNamespace \/ (\E p \in Prefix, ns \in Ns : WithNamespace(p, ns))
       \/ WithResolver \/ (\E d \in Texts : AddFromStr(d)) \/ (\E n \in Name : AddFromUrl(n))
       \/ ResolveHit \/ ResolveLoad \/ ResolveError
       \/ UNCHANGED <<entries, pending, nextId>> /\ (phase' = phase \/ phase = "open")
  BY DEF Next, Configure, Add, Resolve, SetFlag, AddFromStrError, Finish, Idle, Terminated, vars
<1> QED
  BY <1>2, <1>3, <1>4, <1>5, <1>6, <1>7, <1>8, <1>9, <1>10, <1>11

-----------------------------------------------------------------------------
(* The theorems.                                                           *)

\* The state keeps its shape: every queued request, every cached id and every
\* entry is well formed, whatever is added in whatever order.
THEOREM TypesCorrect == Spec => []TypeOK
<1>1. Init => TypeOK
  BY TypeInit
<1>2. TypeOK /\ [Next]_vars => TypeOK'
  BY TypeStep
<1> QED
  BY <1>1, <1>2, PTL DEF Spec

\* A document is loaded once, however many requests there are for it, when the
\* resolver is in place before the first schema (as exec_parser has it).
THEOREM AlwaysLoadedOnce ==
  ASSUME ~ LateResolver
  PROVE  Spec => []LoadedOnce
<1>1. Init => LoadedOnce
  BY LoadedOnceInit
<1>2. TypeOK /\ LoadedOnce /\ [Next]_vars => LoadedOnce'
  BY LoadedOnceStep
<1> QED
  BY <1>1, <1>2, TypesCorrect, PTL DEF Spec

\* Every id that was given is queued, that of a text, or that of a loaded
\* location, and only one of these.
THEOREM IdsAlwaysAccounted ==
  ASSUME ~ LateResolver
  PROVE  Spec => []IdsAccounted
<1>1. Init => IdsAccounted
  BY IdsInit
<1>2. TypeOK /\ LoadedOnce /\ IdsAccounted /\ [Next]_vars => IdsAccounted'
  BY IdsStep
<1> QED
  BY <1>1, <1>2, TypesCorrect, AlwaysLoadedOnce, PTL DEF Spec

\* No dependency is lost between the request for it and the entry of the
\* location it names.
THEOREM DependenciesAlwaysFollowed ==
  ASSUME ~ LateResolver
  PROVE  Spec => []DependenciesFollowed
<1>1. Init => DependenciesFollowed
  BY DependenciesInit
<1>2. TypeOK /\ DependenciesFollowed /\ [Next]_vars => DependenciesFollowed'
  BY DependenciesStep
<1> QED
  BY <1>1, <1>2, TypesCorrect, PTL DEF Spec

\* An included document has the namespace of the one that includes it, unless it was
\* loaded before for someone else: the request carries the namespace over the queue.
THEOREM IncludedAlwaysAlike ==
  ASSUME ~ LateResolver
  PROVE  Spec => []IncludedNamespace
<1>1. Init => RequestsAlike /\ IncludedNamespace
  BY IncludedInit
<1>2. TypeOK /\ LoadedOnce /\ IdsAccounted /\ RequestsAlike /\ IncludedNamespace /\ [Next]_vars
      => RequestsAlike' /\ IncludedNamespace'
  BY IncludedStep
<1> QED
  BY <1>1, <1>2, TypesCorrect, AlwaysLoadedOnce, IdsAlwaysAccounted, PTL DEF Spec
=============================================================================
