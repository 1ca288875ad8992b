--------------------------- MODULE NodeCacheProofs ---------------------------
(***************************************************************************)
(* Proofs about the NodeCache, for any number of schemas, whatever they    *)
(* declare, import and redefine, in circles too.                           *)
(***************************************************************************)
EXTENDS NodeCache, TLAPS, WellFoundedInduction, FiniteSetTheorems

-----------------------------------------------------------------------------
(* Numbers and sequences.                                                  *)

\* A set of numbers that is not empty has a least one.
LEMMA LeastNumber ==
  ASSUME NEW T \in SUBSET Nat, T # {}
  PROVE  \E x \in T : \A y \in T : x <= y
<1>1. IsWellFoundedOn({p \in Nat \X Nat : p[1] < p[2]}, Nat)
  BY NatLessThanWellFounded DEF OpToRel
<1>2. \E x \in T : \A y \in T : ~ (<<y, x>> \in {p \in Nat \X Nat : p[1] < p[2]})
  BY <1>1, WFMin
<1>3. \E x \in T : \A y \in T : ~ (y < x)
  BY <1>2
<1> QED
  BY <1>3

\* A sequence without repetitions is not longer than the set of its elements.
LEMMA InjectiveLength ==
  ASSUME NEW S, IsFiniteSet(S), NEW q \in Seq(S), IsInjective(q)
  PROVE  Len(q) <= Cardinality(S)
<1>1. q \in Injection(1 .. Len(q), S)
  <2>1. q \in [1 .. Len(q) -> S]
    OBVIOUS
  <2>2. DOMAIN q = 1 .. Len(q)
    OBVIOUS
  <2> QED
    BY <2>1, <2>2 DEF Injection, IsInjective
<1>2. Cardinality(1 .. Len(q)) <= Cardinality(S)
  BY <1>1, FS_Injection
<1>3. Len(q) \in Nat /\ Cardinality(1 .. Len(q)) = Len(q)
  <2>1. Len(q) \in Int /\ 1 \in Int /\ Len(q) >= 0
    OBVIOUS
  <2>2. Cardinality(1 .. Len(q)) = IF 1 > Len(q) THEN 0 ELSE Len(q) - 1 + 1
    BY <2>1, FS_Interval
  <2> QED
    BY <2>1, <2>2
<1> QED
  BY <1>2, <1>3

\* The elements of sequences.
LEMMA Elements ==
  ASSUME NEW S, NEW q \in Seq(S)
  PROVE  /\ ToSet(q) \subseteq S
         /\ \A e : Contains(q, e) <=> e \in ToSet(q)
         /\ \A i \in 1 .. Len(q) : q[i] \in ToSet(q)
         /\ \A e \in ToSet(q) : \E i \in 1 .. Len(q) : q[i] = e
<1>1. DOMAIN q = 1 .. Len(q) /\ \A i \in 1 .. Len(q) : q[i] \in S
  OBVIOUS
<1> QED
  BY <1>1 DEF ToSet, Contains

LEMMA AppendedElements ==
  ASSUME NEW S, NEW q \in Seq(S), NEW e \in S
  PROVE  /\ Append(q, e) \in Seq(S)
         /\ ToSet(Append(q, e)) = ToSet(q) \cup {e}
         /\ e \notin ToSet(q) /\ IsInjective(q) => IsInjective(Append(q, e))
<1> DEFINE a == Append(q, e)
<1>1. /\ a \in Seq(S) /\ Len(a) = Len(q) + 1 /\ Len(q) \in Nat
      /\ \A i \in 1 .. Len(q) : a[i] = q[i]
      /\ a[Len(q) + 1] = e
      /\ DOMAIN a = 1 .. Len(q) + 1 /\ DOMAIN q = 1 .. Len(q)
  OBVIOUS
<1> HIDE DEF a
<1>2. 1 .. Len(q) + 1 = (1 .. Len(q)) \cup {Len(q) + 1}
  BY <1>1
<1>3. ToSet(a) = ToSet(q) \cup {e}
  BY <1>1, <1>2 DEF ToSet
<1>4. ASSUME e \notin ToSet(q), IsInjective(q)
      PROVE  IsInjective(a)
  <2>1. \A i \in 1 .. Len(q) : q[i] # e
    BY <1>4, <1>1 DEF ToSet
  <2> QED
    BY <2>1, <1>4, <1>1, <1>2 DEF IsInjective
<1> QED
  BY <1>1, <1>3, <1>4 DEF a

LEMMA JoinedElements ==
  ASSUME NEW S, NEW q \in Seq(S), NEW p \in Seq(S)
  PROVE  q \o p \in Seq(S) /\ Len(q \o p) = Len(q) + Len(p) /\ ToSet(q \o p) = ToSet(q) \cup ToSet(p)
<1> DEFINE a == q \o p
<1>1. /\ a \in Seq(S) /\ Len(a) = Len(q) + Len(p) /\ Len(q) \in Nat /\ Len(p) \in Nat
      /\ \A i \in 1 .. Len(q) : a[i] = q[i]
      /\ \A i \in 1 .. Len(p) : a[Len(q) + i] = p[i]
      /\ DOMAIN a = 1 .. Len(q) + Len(p) /\ DOMAIN q = 1 .. Len(q) /\ DOMAIN p = 1 .. Len(p)
  OBVIOUS
<1> HIDE DEF a
<1>2. ASSUME NEW e \in ToSet(a)
      PROVE  e \in ToSet(q) \cup ToSet(p)
  <2>1. PICK i \in 1 .. Len(q) + Len(p) : a[i] = e
    BY <1>1 DEF ToSet
  <2>2. CASE i <= Len(q)
    BY <2>1, <2>2, <1>1 DEF ToSet
  <2>3. CASE i > Len(q)
    <3>1. i - Len(q) \in 1 .. Len(p) /\ i = Len(q) + (i - Len(q))
      BY <2>1, <2>3, <1>1
    <3>2. p[i - Len(q)] = e
      BY <3>1, <2>1, <1>1
    <3> QED
      BY <3>1, <3>2, <1>1 DEF ToSet
  <2> QED
    BY <2>1, <2>2, <2>3, <1>1
<1>3. ASSUME NEW e \in ToSet(q)
      PROVE  e \in ToSet(a)
  <2>1. PICK i \in 1 .. Len(q) : q[i] = e
    BY <1>1 DEF ToSet
  <2>2. i \in 1 .. Len(q) + Len(p) /\ a[i] = e
    BY <2>1, <1>1
  <2> QED
    BY <2>2, <1>1 DEF ToSet
<1>4. ASSUME NEW e \in ToSet(p)
      PROVE  e \in ToSet(a)
  <2>1. PICK i \in 1 .. Len(p) : p[i] = e
    BY <1>1 DEF ToSet
  <2>2. Len(q) + i \in 1 .. Len(q) + Len(p) /\ a[Len(q) + i] = e
    BY <2>1, <1>1
  <2> QED
    BY <2>2, <1>1 DEF ToSet
<1>5. ToSet(a) = ToSet(q) \cup ToSet(p)
  BY <1>2, <1>3, <1>4
<1> QED
  BY <1>1, <1>5 DEF a

LEMMA RestElements ==
  ASSUME NEW S, NEW q \in Seq(S), q # <<>>
  PROVE  /\ Head(q) \in S /\ Head(q) = q[1] /\ Tail(q) \in Seq(S)
         /\ Len(Tail(q)) = Len(q) - 1
         /\ ToSet(q) = {Head(q)} \cup ToSet(Tail(q))
<1> DEFINE a == Tail(q)
<1>1. /\ a \in Seq(S) /\ Len(a) = Len(q) - 1 /\ Len(q) \in Nat \ {0}
      /\ Head(q) = q[1] /\ q[1] \in S
      /\ \A i \in 1 .. Len(q) - 1 : a[i] = q[i + 1]
      /\ DOMAIN a = 1 .. Len(q) - 1 /\ DOMAIN q = 1 .. Len(q)
  OBVIOUS
<1> HIDE DEF a
<1>2. ASSUME NEW e \in ToSet(q)
      PROVE  e = Head(q) \/ e \in ToSet(a)
  <2>1. PICK i \in 1 .. Len(q) : q[i] = e
    BY <1>1 DEF ToSet
  <2>2. CASE i > 1
    <3>1. i - 1 \in 1 .. Len(q) - 1 /\ i = (i - 1) + 1
      BY <2>1, <2>2, <1>1
    <3>2. a[i - 1] = e
      BY <3>1, <2>1, <1>1
    <3> QED
      BY <3>1, <3>2, <1>1 DEF ToSet
  <2> QED
    BY <2>1, <2>2, <1>1
<1>3. ASSUME NEW e \in ToSet(a)
      PROVE  e \in ToSet(q)
  <2>1. PICK i \in 1 .. Len(q) - 1 : a[i] = e
    BY <1>1 DEF ToSet
  <2>2. i + 1 \in 1 .. Len(q) /\ q[i + 1] = e
    BY <2>1, <1>1
  <2> QED
    BY <2>2, <1>1 DEF ToSet
<1>4. Head(q) \in ToSet(q)
  BY <1>1 DEF ToSet
<1> QED
  BY <1>1, <1>2, <1>3, <1>4 DEF a

-----------------------------------------------------------------------------
(* The search for a declaration.                                           *)

LEMMA EnoughType == Cardinality(Schema) \in Nat /\ Enough \in Nat
<1>1. Cardinality(Schema) \in Nat
  BY SchemaAssumption, FS_CardinalityType
<1>2. Cardinality(Schema) * Cardinality(Schema) \in Nat
  BY <1>1
<1> QED
  BY <1>1, <1>2 DEF Enough

\* The search is defined for each number of steps.
LEMMA SearchSteps ==
  ASSUME NEW deps, NEW start
  PROVE  /\ Search(deps, start)[0] = [seen |-> <<>>, todo |-> start]
         /\ \A k \in 1 .. Enough : Search(deps, start)[k] = Advance(deps, Search(deps, start)[k - 1])
<1> DEFINE Start == [seen |-> <<>>, todo |-> start]
           Is(f, m) == f = [k \in 0 .. m |-> IF k = 0 THEN Start ELSE Advance(deps, f[k - 1])]
<1>1. \E f : Is(f, 0)
  <2>1. Is([k \in 0 .. 0 |-> Start], 0)
    OBVIOUS
  <2> QED
    BY <2>1
<1>2. ASSUME NEW m \in Nat, \E f : Is(f, m)
      PROVE  \E f : Is(f, m + 1)
  <2>1. PICK f : Is(f, m)
    BY <1>2
  <2> DEFINE g == [k \in 0 .. m + 1 |-> IF k <= m THEN f[k] ELSE Advance(deps, f[m])]
  <2> HIDE DEF Is
  <2>2. \A k \in 0 .. m : f[k] = IF k = 0 THEN Start ELSE Advance(deps, f[k - 1])
    BY <2>1 DEF Is
  <2>3. ASSUME NEW k \in 0 .. m + 1
        PROVE  g[k] = IF k = 0 THEN Start ELSE Advance(deps, g[k - 1])
    <3>1. CASE k = 0
      BY <3>1, <2>2
    <3>2. CASE k # 0 /\ k <= m
      <4>1. k \in 0 .. m /\ k - 1 \in 0 .. m + 1 /\ k - 1 <= m
        BY <3>2
      <4>2. g[k] = f[k] /\ g[k - 1] = f[k - 1]
        BY <3>2, <4>1
      <4> QED
        BY <4>1, <4>2, <2>2, <3>2
    <3>3. CASE k = m + 1
      BY <3>3
    <3> QED
      BY <3>1, <3>2, <3>3
  <2>4. Is(g, m + 1)
    BY <2>3 DEF Is
  <2> QED
    BY <2>4
<1>3. \A m \in Nat : \E f : Is(f, m)
  <2> DEFINE Bad == {m \in Nat : ~ \E f : Is(f, m)}
  <2> HIDE DEF Is
  <2>1. SUFFICES ASSUME Bad # {}
                 PROVE  FALSE
    OBVIOUS
  <2>2. PICK m \in Bad : \A k \in Bad : m <= k
    BY <2>1, LeastNumber
  <2>3. m # 0 /\ m - 1 \in Nat /\ m - 1 \notin Bad
    BY <2>2, <1>1
  <2>4. m = (m - 1) + 1
    BY <2>2
  <2> QED
    BY <2>2, <2>3, <2>4, <1>2
<1> DEFINE search == Search(deps, start)
<1>4. Is(search, Enough)
  <2>1. search = CHOOSE f : Is(f, Enough)
    BY DEF Search
  <2>2. \E f : Is(f, Enough)
    BY <1>3, EnoughType
  <2> HIDE DEF Is, search
  <2> QED
    BY <2>1, <2>2
<1>5. /\ \A k \in 0 .. Enough : search[k] = IF k = 0 THEN Start ELSE Advance(deps, search[k - 1])
      /\ 0 \in 0 .. Enough
  <2> HIDE DEF search
  <2> QED
    BY <1>4, EnoughType
<1> QED
  BY <1>5, EnoughType

\* The dependencies of schemas: no list has a schema twice.
IsDeps(deps) == deps \in [Schema -> Seq(Schema)] /\ \A s \in Schema : IsInjective(deps[s])

Closed(deps, P) == \A t \in P : ToSet(deps[t]) \subseteq P

\* A list of schemas to begin a search with.
IsStart(start) == start \in Seq(Schema) /\ Len(start) <= Cardinality(Schema)

\* After k steps w is a search that began with the list start: what was seen leads to what was
\* seen or is to do, only what every closed set with the list has comes up, and each step
\* uses up one place of a list.
Walk(deps, start, k, w) ==
  /\ w.seen \in Seq(Schema) /\ w.todo \in Seq(Schema)
  /\ IsInjective(w.seen)
  /\ w.todo # <<>> => Len(w.todo) + k <= Len(start) + Len(w.seen) * Cardinality(Schema)
  /\ IF w.seen = <<>> THEN w.todo = start ELSE start # <<>> /\ w.seen[1] = start[1]
  /\ ToSet(start) \subseteq ToSet(w.seen) \cup ToSet(w.todo)
  /\ \A t \in ToSet(w.seen) : ToSet(deps[t]) \subseteq ToSet(w.seen) \cup ToSet(w.todo)
  /\ \A P \in SUBSET Schema : ToSet(start) \subseteq P /\ Closed(deps, P) => ToSet(w.seen) \cup ToSet(w.todo) \subseteq P

LEMMA WalkStep ==
  ASSUME NEW deps, IsDeps(deps), NEW start, IsStart(start), NEW k \in Nat, NEW w, Walk(deps, start, k, w)
  PROVE  Walk(deps, start, k + 1, Advance(deps, w))
<1> DEFINE n == Cardinality(Schema)
           v == Advance(deps, w)
           h == Head(w.todo)
           m == Len(w.seen) * n
           c == Len(start)
<1> HIDE DEF n, v, m, c
<1>1. /\ w.seen \in Seq(Schema) /\ w.todo \in Seq(Schema) /\ IsInjective(w.seen)
      /\ w.todo # <<>> => Len(w.todo) + k <= c + m
      /\ IF w.seen = <<>> THEN w.todo = start ELSE start # <<>> /\ w.seen[1] = start[1]
      /\ ToSet(start) \subseteq ToSet(w.seen) \cup ToSet(w.todo)
      /\ \A t \in ToSet(w.seen) : ToSet(deps[t]) \subseteq ToSet(w.seen) \cup ToSet(w.todo)
      /\ \A P \in SUBSET Schema : ToSet(start) \subseteq P /\ Closed(deps, P) => ToSet(w.seen) \cup ToSet(w.todo) \subseteq P
  BY DEF Walk, m, n, c
<1>2. n \in Nat /\ Len(w.seen) \in Nat /\ Len(w.todo) \in Nat /\ m \in Nat /\ c \in Nat
  <2>1. n \in Nat /\ Len(w.seen) \in Nat /\ Len(w.todo) \in Nat
    BY <1>1, EnoughType DEF n
  <2>2. c \in Nat
    BY DEF IsStart, c
  <2> QED
    BY <2>1, <2>2 DEF m
<1>3. CASE w.todo = <<>>
  <2>1. v = w
    BY <1>3 DEF Advance, v
  <2>2. Walk(deps, start, k + 1, w)
    BY <1>1, <1>3 DEF Walk
  <2> QED
    BY <2>1, <2>2 DEF v
<1>4. CASE w.todo # <<>> /\ Contains(w.seen, h)
  <2>1. v = [seen |-> w.seen, todo |-> Tail(w.todo)]
    BY <1>4 DEF Advance, v
  <2>2. v.seen = w.seen /\ v.todo = Tail(w.todo)
    BY <2>1
  <2>3. /\ v.todo \in Seq(Schema) /\ Len(v.todo) = Len(w.todo) - 1
        /\ ToSet(w.todo) = {h} \cup ToSet(v.todo) /\ h \in ToSet(w.seen)
    BY <2>2, <1>1, <1>4, RestElements, Elements
  <2>4. w.seen # <<>>
    <3>1. ToSet(<<>>) = {}
      BY DEF ToSet
    <3> QED
      BY <2>3, <3>1
  <2>5. v.todo # <<>> => Len(v.todo) + (k + 1) <= c + Len(v.seen) * n
    <3> DEFINE l == Len(w.todo)
    <3>2. l \in Nat /\ Len(v.todo) = l - 1 /\ l + k <= c + m
      BY <2>3, <1>1, <1>2, <1>4
    <3> HIDE DEF l
    <3>1. Len(v.todo) + (k + 1) <= c + m
      BY <3>2, <1>2
    <3> QED
      BY <3>1, <2>2 DEF m
  <2>6. ToSet(w.seen) \cup ToSet(w.todo) = ToSet(v.seen) \cup ToSet(v.todo)
    BY <2>2, <2>3
  <2>7. Walk(deps, start, k + 1, v)
    <3>1. v.seen \in Seq(Schema) /\ v.todo \in Seq(Schema) /\ IsInjective(v.seen)
      BY <2>2, <2>3, <1>1
    <3>2. (IF v.seen = <<>> THEN v.todo = start ELSE start # <<>> /\ v.seen[1] = start[1])
         /\ ToSet(start) \subseteq ToSet(v.seen) \cup ToSet(v.todo)
      BY <2>2, <2>4, <2>6, <1>1
    <3>3. \A t \in ToSet(v.seen) : ToSet(deps[t]) \subseteq ToSet(v.seen) \cup ToSet(v.todo)
      BY <2>2, <2>6, <1>1
    <3>4. \A P \in SUBSET Schema : ToSet(start) \subseteq P /\ Closed(deps, P) => ToSet(v.seen) \cup ToSet(v.todo) \subseteq P
      BY <2>6, <1>1
    <3> QED
      BY <3>1, <3>2, <3>3, <3>4, <2>5 DEF Walk, n, c
  <2> QED
    BY <2>7 DEF v
<1>5. CASE w.todo # <<>> /\ ~ Contains(w.seen, h)
  <2>1. v = [seen |-> Append(w.seen, h), todo |-> deps[h] \o Tail(w.todo)]
    BY <1>5 DEF Advance, v
  <2>2. v.seen = Append(w.seen, h) /\ v.todo = deps[h] \o Tail(w.todo)
    BY <2>1
  <2>3. /\ Tail(w.todo) \in Seq(Schema) /\ Len(Tail(w.todo)) = Len(w.todo) - 1
        /\ ToSet(w.todo) = {h} \cup ToSet(Tail(w.todo)) /\ h \notin ToSet(w.seen)
        /\ h \in Schema /\ h = w.todo[1]
    BY <1>1, <1>5, RestElements, Elements
  <2>4. deps[h] \in Seq(Schema) /\ Len(deps[h]) \in Nat /\ Len(deps[h]) <= n
    <3>1. deps[h] \in Seq(Schema) /\ IsInjective(deps[h])
      BY <2>3 DEF IsDeps
    <3> QED
      BY <3>1, InjectiveLength, SchemaAssumption DEF n
  <2>5. /\ v.seen \in Seq(Schema) /\ IsInjective(v.seen) /\ ToSet(v.seen) = ToSet(w.seen) \cup {h}
    BY <2>2, <2>3, <1>1, AppendedElements
  <2>6. /\ v.todo \in Seq(Schema) /\ Len(v.todo) = Len(deps[h]) + (Len(w.todo) - 1)
        /\ ToSet(v.todo) = ToSet(deps[h]) \cup ToSet(Tail(w.todo))
    <3> DEFINE r == Tail(w.todo)
               q == deps[h]
    <3>1. r \in Seq(Schema) /\ Len(r) = Len(w.todo) - 1 /\ q \in Seq(Schema) /\ v.todo = q \o r
      BY <2>2, <2>3, <2>4
    <3> HIDE DEF r, q
    <3>2. /\ q \o r \in Seq(Schema) /\ Len(q \o r) = Len(q) + Len(r)
          /\ ToSet(q \o r) = ToSet(q) \cup ToSet(r)
      BY <3>1, JoinedElements
    <3>3. v.todo \in Seq(Schema) /\ Len(v.todo) = Len(q) + (Len(w.todo) - 1)
          /\ ToSet(v.todo) = ToSet(q) \cup ToSet(r)
      BY <3>1, <3>2
    <3> QED
      BY <3>3 DEF q, r
  <2>7. Len(v.seen) = Len(w.seen) + 1
    BY <2>2, <2>3, <1>1
  <2>8. Len(v.seen) * n = m + n
    <3>1. \A a, b \in Nat : (a + 1) * b = a * b + b
      OBVIOUS
    <3> QED
      BY <3>1, <2>7, <1>2 DEF m
  <2>9. Len(v.todo) + (k + 1) <= c + Len(v.seen) * n
    <3> DEFINE d == Len(deps[h])
               l == Len(w.todo)
    <3> HIDE DEF d, l
    <3>1. Len(v.todo) = d + (l - 1) /\ d \in Nat /\ l \in Nat /\ d <= n
      BY <2>6, <2>4, <1>2 DEF d, l
    <3>2. l + k <= c + m
      BY <1>1, <1>5 DEF l
    <3>3. (d + (l - 1)) + (k + 1) <= c + (m + n)
      BY <3>1, <3>2, <1>2
    <3> QED
      BY <3>1, <3>3, <2>8
  <2>10. v.seen # <<>> /\ start # <<>> /\ v.seen[1] = start[1]
    <3>1. CASE w.seen = <<>>
      <4>1. start # <<>> /\ h = start[1]
        BY <3>1, <2>3, <1>1, <1>5
      <4> QED
        BY <4>1, <3>1, <2>2
    <3>2. CASE w.seen # <<>>
      <4>1. Append(w.seen, h)[1] = w.seen[1]
        BY <3>2, <1>1, <2>3
      <4> QED
        BY <4>1, <3>2, <1>1, <2>2, <2>3
    <3> QED
      BY <3>1, <3>2
  <2>11. \A t \in ToSet(v.seen) : ToSet(deps[t]) \subseteq ToSet(v.seen) \cup ToSet(v.todo)
    BY <2>3, <2>5, <2>6, <1>1
  <2>12. ASSUME NEW P \in SUBSET Schema, ToSet(start) \subseteq P, Closed(deps, P)
         PROVE  ToSet(v.seen) \cup ToSet(v.todo) \subseteq P
    <3>1. ToSet(w.seen) \cup ToSet(w.todo) \subseteq P
      BY <2>12, <1>1
    <3>2. h \in P /\ ToSet(deps[h]) \subseteq P
      BY <3>1, <2>3, <2>12 DEF Closed
    <3> QED
      BY <3>1, <3>2, <2>3, <2>5, <2>6
  <2>13. ToSet(start) \subseteq ToSet(v.seen) \cup ToSet(v.todo)
    BY <2>3, <2>5, <2>6, <1>1
  <2>14. Walk(deps, start, k + 1, v)
    BY <2>5, <2>6, <2>9, <2>10, <2>11, <2>12, <2>13 DEF Walk, n, c
  <2> QED
    BY <2>14 DEF v
<1> QED
  BY <1>3, <1>4, <1>5

LEMMA WalkHolds ==
  ASSUME NEW deps, IsDeps(deps), NEW start, IsStart(start)
  PROVE  \A k \in 0 .. Enough : Walk(deps, start, k, Search(deps, start)[k])
<1>0. \A j \in 1 .. Enough : Search(deps, start)[j] = Advance(deps, Search(deps, start)[j - 1])
  <2>1. /\ Search(deps, start)[0] = [seen |-> <<>>, todo |-> start]
        /\ \A k \in 1 .. Enough : Search(deps, start)[k] = Advance(deps, Search(deps, start)[k - 1])
    BY SearchSteps
  <2> QED
    BY <2>1
<1> DEFINE Bad == {k \in 0 .. Enough : ~ Walk(deps, start, k, Search(deps, start)[k])}
<1>1. 0 \notin Bad
  <2> DEFINE w == Search(deps, start)[0]
  <2>0. w = [seen |-> <<>>, todo |-> start]
    BY SearchSteps
  <2>1. w.seen = <<>> /\ w.todo = start
    BY <2>0
  <2>2. w.seen \in Seq(Schema) /\ w.todo \in Seq(Schema) /\ Len(w.todo) = Len(start) /\ Len(w.seen) = 0
          /\ Len(start) \in Nat
    BY <2>1 DEF IsStart
  <2>3. ToSet(w.seen) = {} /\ ToSet(w.todo) = ToSet(start) /\ IsInjective(w.seen)
    BY <2>1 DEF ToSet, IsInjective
  <2>4. Len(w.seen) * Cardinality(Schema) = 0
    BY <2>2, EnoughType
  <2> HIDE DEF w
  <2>5. Walk(deps, start, 0, w)
    BY <2>1, <2>2, <2>3, <2>4 DEF Walk
  <2> QED
    BY <2>5 DEF w
<1>2. SUFFICES ASSUME Bad # {}
               PROVE  FALSE
  OBVIOUS
<1>3. PICK k \in Bad : \A j \in Bad : k <= j
  <2>1. Bad \in SUBSET Nat
    BY EnoughType
  <2> HIDE DEF Bad
  <2> QED
    BY <1>2, <2>1, LeastNumber
<1>4. k \in 1 .. Enough /\ k - 1 \in Nat /\ k - 1 \in 0 .. Enough /\ k - 1 \notin Bad /\ k = (k - 1) + 1
  BY <1>1, <1>3, EnoughType
<1>5. Walk(deps, start, k - 1, Search(deps, start)[k - 1])
  BY <1>4
<1>6. Walk(deps, start, (k - 1) + 1, Advance(deps, Search(deps, start)[k - 1]))
  BY <1>4, <1>5, WalkStep
<1>7. Search(deps, start)[k] = Advance(deps, Search(deps, start)[k - 1])
  BY <1>0, <1>4
<1>8. Walk(deps, start, k, Search(deps, start)[k])
  BY <1>4, <1>6, <1>7
<1> QED
  BY <1>3, <1>8

\* The search finds the first of its list first, and with the others exactly what they lead to:
\* with each schema its dependencies, and nothing that a closed set with the list does not have.
LEMMA DepthFirstFinds ==
  ASSUME NEW deps, IsDeps(deps), NEW start, IsStart(start)
  PROVE  LET q == DepthFirst(deps, start)
         IN  /\ q \in Seq(Schema) /\ ToSet(start) \subseteq ToSet(q)
             /\ start # <<>> => q # <<>> /\ q[1] = start[1]
             /\ Closed(deps, ToSet(q))
             /\ \A P \in SUBSET Schema : ToSet(start) \subseteq P /\ Closed(deps, P) => ToSet(q) \subseteq P
<1> DEFINE w == Search(deps, start)[Enough]
           n == Cardinality(Schema)
<1>1. Walk(deps, start, Enough, w)
  BY WalkHolds, EnoughType
<1> HIDE DEF w
<1>2. n \in Nat /\ Len(w.seen) \in Nat /\ Len(w.seen) <= n
  BY <1>1, EnoughType, InjectiveLength, SchemaAssumption DEF Walk
<1>3. w.todo = <<>>
  <2>1. SUFFICES ASSUME w.todo # <<>>
                 PROVE  FALSE
    OBVIOUS
  <2>2. Len(w.todo) + Enough <= Len(start) + Len(w.seen) * n
    BY <2>1, <1>1 DEF Walk
  <2>3. Len(w.todo) \in Nat \ {0}
    BY <2>1, <1>1 DEF Walk
  <2>4. Len(w.seen) * n <= n * n /\ Len(w.seen) * n \in Nat /\ n * n \in Nat
    <3>1. \A a, b \in Nat : a <= b => a * b <= b * b /\ a * b \in Nat /\ b * b \in Nat
      OBVIOUS
    <3> HIDE DEF n
    <3> QED
      BY <3>1, <1>2
  <2>5. Enough = n + n * n /\ Len(start) \in Nat /\ Len(start) <= n
    BY DEF Enough, IsStart
  <2> DEFINE a == Len(w.seen) * n
             b == n * n
             l == Len(w.todo)
             c == Len(start)
  <2> HIDE DEF a, b, l, c, n
  <2>6. a \in Nat /\ b \in Nat /\ a <= b /\ l + (n + b) <= c + a /\ l \in Nat \ {0} /\ c \in Nat /\ c <= n
    BY <2>2, <2>3, <2>4, <2>5 DEF a, b, l, c
  <2> QED
    BY <2>6, <1>2
<1>4. ToSet(w.todo) = {}
  BY <1>3 DEF ToSet
<1>5. start # <<>> => w.seen # <<>> /\ w.seen[1] = start[1]
  BY <1>1, <1>3 DEF Walk
<1>6. DepthFirst(deps, start) = w.seen
  BY DEF DepthFirst, w
<1> QED
  BY <1>1, <1>4, <1>5, <1>6 DEF Walk, Closed

-----------------------------------------------------------------------------
(* What schemas see, and the calls in progress.                            *)

\* The schemas that are searched for a declaration schema s mentions.
Lead(s) == ToSet(order[s])

\* Those that are listed for it: the same, and itself first.
Listings ==
  /\ listing \in [Schema -> Seq(Schema)]
  /\ \A s \in Schema : listing[s] # <<>> /\ listing[s][1] = s /\ ToSet(listing[s]) = Lead(s)

\* Every schema sees itself first, what it names, and what that sees; and nothing else.
Views ==
  /\ world \in Worlds
  /\ order \in [Schema -> Seq(Schema)]
  /\ \A s \in Schema : order[s] # <<>> /\ order[s][1] = s /\ s \in Lead(s)
  /\ Listings
  /\ \A s \in Schema : \A t \in Lead(s) : Lead(t) \subseteq Lead(s)
  /\ \A s \in Schema : \A i \in DOMAIN world.dirs[s] : world.dirs[s][i].to \in Lead(s)
  /\ \A s \in Schema : \A P \in SUBSET Schema :
       /\ s \in P
       /\ \A t \in P : \A i \in DOMAIN world.dirs[t] : world.dirs[t][i].to \in P
       => Lead(s) \subseteq P

LEMMA WorldTypes ==
  ASSUME NEW w \in Worlds
  PROVE  /\ w.ns \in [Schema -> Ns] /\ IsDeps(w.deps)
         /\ w.dirs \in [Schema -> Seq(Directive)] /\ w.decls \in [Schema -> Seq(Decl)]
         /\ \A s \in Schema : ToSet(w.deps[s]) = {w.dirs[s][i].to : i \in DOMAIN w.dirs[s]}
  BY WorldAssumption DEF IsDeps

\* A directive names a schema, and declares what replaces its declarations.
LEMMA DirectiveTypes ==
  ASSUME NEW w \in Worlds, NEW s \in Schema
  PROVE  /\ w.ns[s] \in Ns
         /\ Len(w.dirs[s]) \in Nat /\ DOMAIN w.dirs[s] = 1 .. Len(w.dirs[s])
         /\ \A i \in DOMAIN w.dirs[s] :
              /\ w.dirs[s][i] \in Directive
              /\ w.dirs[s][i].to \in Schema /\ w.dirs[s][i].decls \subseteq Decl
         /\ Len(w.decls[s]) \in Nat /\ DOMAIN w.decls[s] = 1 .. Len(w.decls[s])
         /\ \A i \in DOMAIN w.decls[s] : w.decls[s][i] \in Decl
<1>1. w.ns[s] \in Ns /\ w.dirs[s] \in Seq(Directive) /\ w.decls[s] \in Seq(Decl)
  BY WorldTypes
<1>2. /\ Len(w.dirs[s]) \in Nat /\ DOMAIN w.dirs[s] = 1 .. Len(w.dirs[s])
      /\ \A i \in DOMAIN w.dirs[s] : w.dirs[s][i] \in Directive
      /\ Len(w.decls[s]) \in Nat /\ DOMAIN w.decls[s] = 1 .. Len(w.decls[s])
      /\ \A i \in DOMAIN w.decls[s] : w.decls[s][i] \in Decl
  BY <1>1
<1> QED
  BY <1>1, <1>2 DEF Directive

LEMMA ViewsInit ==
  ASSUME Init
  PROVE  Views
<1>1. /\ world \in Worlds
      /\ order = [s \in Schema |-> DepthFirst(world.deps, <<s>>)]
      /\ listing = [s \in Schema |-> Listed(world.deps, s)]
  BY DEF Init
<1>2. IsDeps(world.deps) /\ \A s \in Schema : ToSet(world.deps[s]) = {world.dirs[s][i].to : i \in DOMAIN world.dirs[s]}
  BY <1>1, WorldTypes
<1>3. ASSUME NEW s \in Schema
      PROVE  /\ order[s] \in Seq(Schema) /\ order[s] # <<>> /\ order[s][1] = s
             /\ Closed(world.deps, Lead(s))
             /\ \A P \in SUBSET Schema : s \in P /\ Closed(world.deps, P) => Lead(s) \subseteq P
  <2>1. order[s] = DepthFirst(world.deps, <<s>>)
    BY <1>1
  <2>2. IsStart(<<s>>) /\ ToSet(<<s>>) = {s} /\ <<s>> # <<>> /\ <<s>>[1] = s
    <3>1. Cardinality({s}) <= Cardinality(Schema) /\ Cardinality({s}) = 1
      BY FS_Subset, FS_Singleton, SchemaAssumption
    <3> QED
      BY <3>1 DEF IsStart, ToSet
  <2> QED
    BY <2>1, <2>2, <1>2, DepthFirstFinds DEF Lead
<1>4. ASSUME NEW s \in Schema
      PROVE  s \in Lead(s) /\ Lead(s) \subseteq Schema
  <2>1. order[s] \in Seq(Schema) /\ order[s] # <<>> /\ order[s][1] = s
    BY <1>3
  <2>2. 1 \in 1 .. Len(order[s])
    BY <2>1
  <2> QED
    BY <2>1, <2>2, Elements DEF Lead
<1>5. \A P \in SUBSET Schema :
        Closed(world.deps, P) <=> \A t \in P : \A i \in DOMAIN world.dirs[t] : world.dirs[t][i].to \in P
  <2>1. ASSUME NEW P \in SUBSET Schema, NEW t \in P
        PROVE  ToSet(world.deps[t]) \subseteq P <=> \A i \in DOMAIN world.dirs[t] : world.dirs[t][i].to \in P
    <3>1. ToSet(world.deps[t]) = {world.dirs[t][i].to : i \in DOMAIN world.dirs[t]}
      BY <1>2
    <3> QED
      BY <3>1
  <2> QED
    BY <2>1 DEF Closed
<1>6. \A s \in Schema : \A t \in Lead(s) : Lead(t) \subseteq Lead(s)
  BY <1>3, <1>4
<1>7. \A s \in Schema : \A i \in DOMAIN world.dirs[s] : world.dirs[s][i].to \in Lead(s)
  BY <1>3, <1>4, <1>5
<1>8. order \in [Schema -> Seq(Schema)]
  BY <1>1, <1>3
<1>9. \A s \in Schema : \A P \in SUBSET Schema :
        /\ s \in P
        /\ \A t \in P : \A i \in DOMAIN world.dirs[t] : world.dirs[t][i].to \in P
        => Lead(s) \subseteq P
  BY <1>3, <1>5
\* The list begins with s, and goes on with what its dependencies lead to: to which, with s
\* itself, every schema is closed that s leads to.
<1>10. ASSUME NEW s \in Schema
       PROVE  /\ listing[s] \in Seq(Schema) /\ listing[s] # <<>> /\ listing[s][1] = s
              /\ ToSet(listing[s]) = Lead(s)
  <2> DEFINE d == world.deps[s]
             q == DepthFirst(world.deps, d)
             deps == world.deps
  <2>1. listing[s] = <<s>> \o q
    BY <1>1 DEF Listed
  <2>2. d \in Seq(Schema) /\ IsStart(d)
    <3>1. d \in Seq(Schema) /\ IsInjective(d)
      BY <1>2 DEF IsDeps
    <3> QED
      BY <3>1, InjectiveLength, SchemaAssumption DEF IsStart
  <2> HIDE DEF d, q, deps
  <2>3. /\ q \in Seq(Schema) /\ ToSet(d) \subseteq ToSet(q) /\ Closed(deps, ToSet(q))
        /\ \A P \in SUBSET Schema : ToSet(d) \subseteq P /\ Closed(deps, P) => ToSet(q) \subseteq P
    BY <2>2, <1>2, DepthFirstFinds DEF q, deps
  <2>4. PICK p : p = <<s>>
    OBVIOUS
  <2>5. p \in Seq(Schema) /\ ToSet(p) = {s} /\ Len(p) = 1 /\ p[1] = s
    BY <2>4 DEF ToSet
  <2>6. p \o q \in Seq(Schema) /\ p \o q # <<>> /\ (p \o q)[1] = s /\ ToSet(p \o q) = {s} \cup ToSet(q)
    <3>1. Len(p \o q) = Len(p) + Len(q) /\ p \o q \in Seq(Schema) /\ ToSet(p \o q) = ToSet(p) \cup ToSet(q)
      <4>1. q \in Seq(Schema) /\ p \in Seq(Schema)
        BY <2>3, <2>5
      <4> QED
        BY <4>1, JoinedElements, Zenon
    <3>2. (p \o q)[1] = p[1] /\ Len(q) \in Nat
      <4>1. q \in Seq(Schema) /\ p \in Seq(Schema) /\ Len(p) = 1
        BY <2>3, <2>5
      <4> QED
        BY <4>1
    <3>3. p \o q # <<>>
      BY <3>1, <3>2, <2>5
    <3> QED
      BY <3>1, <3>2, <3>3, <2>5
  <2>7. ToSet(q) \subseteq Schema
    BY <2>3, Elements
  <2>8. {s} \cup ToSet(q) \in SUBSET Schema /\ s \in {s} \cup ToSet(q) /\ Closed(deps, {s} \cup ToSet(q))
    BY <2>3, <2>7 DEF Closed, d, deps
  <2>9. Lead(s) \subseteq {s} \cup ToSet(q)
    BY <2>8, <1>3 DEF deps
  <2>10. ToSet(d) \subseteq Lead(s) /\ Closed(deps, Lead(s)) /\ Lead(s) \in SUBSET Schema /\ s \in Lead(s)
    BY <1>3, <1>4 DEF Closed, d, deps
  <2>11. {s} \cup ToSet(q) \subseteq Lead(s)
    BY <2>3, <2>10
  <2> QED
    BY <2>1, <2>4, <2>6, <2>9, <2>11
<1>11. listing \in [Schema -> Seq(Schema)]
  BY <1>1, <1>10
<1> QED
  BY <1>1, <1>3, <1>4, <1>6, <1>7, <1>8, <1>9, <1>10, <1>11 DEF Views, Listings

LEMMA ViewsStep ==
  ASSUME Views, [Next]_vars
  PROVE  Views' /\ world' = world /\ order' = order /\ listing' = listing
<1>1. world' = world /\ order' = order /\ listing' = listing
  BY DEF Next, Work, vars, Terminated, ProcessSchema, Visit, Redefine, Resolve, Resolved, Imported, Declare, Return, Finish
<1> QED
  BY <1>1 DEF Views, Listings, Lead

Frame == [schema : Schema, part : {"visit", "apply", "resolve", "declare"}, at : Nat \ {0}]

\* The directives of a call whose schema was visited, those that were applied, and the
\* declarations that were added.
Visited(f) == {j \in DOMAIN world.dirs[f.schema] : f.part = "declare" \/ j < f.at \/ (f.part # "visit" /\ j = f.at)}
Applied(f) == {j \in DOMAIN world.dirs[f.schema] : f.part = "declare" \/ j < f.at \/ (f.part = "resolve" /\ j = f.at)}
Added(f) == {j \in DOMAIN world.decls[f.schema] : f.part = "declare" /\ j < f.at}

Finished(u) == u \in processed /\ \A i \in DOMAIN stack : stack[i].schema # u

\* Each call is there because the schema of every call before it leads to its own.
Calls ==
  /\ stack \in Seq(Frame) /\ processed \subseteq Schema
  /\ \A i \in DOMAIN stack :
       /\ stack[i].schema \in processed
       /\ stack[i].part \in {"apply", "resolve"} => stack[i].at \in DOMAIN world.dirs[stack[i].schema]
       /\ \A j \in Visited(stack[i]) : world.dirs[stack[i].schema][j].to \in processed
  /\ \A i, j \in DOMAIN stack :
       i < j => /\ stack[i].part = "apply" /\ stack[i].schema # stack[j].schema
                /\ stack[j].schema \in Lead(stack[i].schema)
  /\ \A s \in processed : Finished(s) => \A j \in DOMAIN world.dirs[s] : world.dirs[s][j].to \in processed

\* What is known of the call in work.
LEMMA TopCall ==
  ASSUME Calls, stack # <<>>
  PROVE  /\ Len(stack) \in DOMAIN stack /\ DOMAIN stack = 1 .. Len(stack) /\ Len(stack) \in Nat
         /\ Top \in Frame /\ Top = stack[Len(stack)] /\ Current = Top.schema
         /\ Current \in Schema /\ Current \in processed /\ ~ Finished(Current)
         /\ \A i \in DOMAIN stack : i <= Len(stack) /\ stack[i] \in Frame
<1>1. /\ Len(stack) \in DOMAIN stack /\ DOMAIN stack = 1 .. Len(stack) /\ Len(stack) \in Nat
      /\ \A i \in DOMAIN stack : i <= Len(stack) /\ stack[i] \in Frame
  BY DEF Calls
<1>2. Top = stack[Len(stack)] /\ Current = Top.schema
  BY DEF Top, Current
<1> QED
  BY <1>1, <1>2 DEF Calls, Finished, Frame

\* The stack when the call in work goes on at another place.
LEMMA MovedCall ==
  ASSUME Calls, stack # <<>>, NEW p \in {"visit", "apply", "resolve", "declare"}, NEW a \in Nat \ {0}
  PROVE  /\ Moved(p, a) \in Seq(Frame)
         /\ Len(Moved(p, a)) = Len(stack) /\ DOMAIN Moved(p, a) = DOMAIN stack
         /\ Moved(p, a)[Len(stack)] = [schema |-> Current, part |-> p, at |-> a]
         /\ \A i \in DOMAIN stack : i # Len(stack) => Moved(p, a)[i] = stack[i]
<1> DEFINE n == Len(stack)
           g == [schema |-> Current, part |-> p, at |-> a]
<1>1. n \in DOMAIN stack /\ stack \in Seq(Frame) /\ stack[n] \in Frame /\ Current = stack[n].schema
  BY TopCall DEF Calls
<1>2. g \in Frame
  BY <1>1 DEF Frame
<1>3. Moved(p, a) = [stack EXCEPT ![n] = g]
  <2>1. [stack[n] EXCEPT !.part = p, !.at = a] = g
    <3>1. stack[n] = [schema |-> stack[n].schema, part |-> stack[n].part, at |-> stack[n].at]
      BY <1>1 DEF Frame
    <3>2. PICK h : h = [stack[n] EXCEPT !.part = p, !.at = a]
      OBVIOUS
    <3>3. h = [schema |-> stack[n].schema, part |-> p, at |-> a]
      BY <3>1, <3>2
    <3> QED
      BY <3>2, <3>3, <1>1
  <2>2. Moved(p, a) = [stack EXCEPT ![n] = [stack[n] EXCEPT !.part = p, !.at = a]]
    BY <1>1 DEF Moved
  <2> QED
    BY <2>1, <2>2
<1> HIDE DEF g
<1>4. [stack EXCEPT ![n] = g] \in Seq(Frame) /\ Len([stack EXCEPT ![n] = g]) = n
  BY <1>1, <1>2
<1>5. /\ DOMAIN [stack EXCEPT ![n] = g] = DOMAIN stack /\ [stack EXCEPT ![n] = g][n] = g
      /\ \A i \in DOMAIN stack : i # n => [stack EXCEPT ![n] = g][i] = stack[i]
  BY <1>1
<1> QED
  BY <1>3, <1>4, <1>5 DEF g

\* The call in work goes on at another place: the others stay, and none returns.
LEMMA MovedStep ==
  ASSUME Views, Calls, stack # <<>>, world' = world, order' = order, processed' = processed,
         NEW p \in {"visit", "apply", "resolve", "declare"}, NEW a \in Nat \ {0}, stack' = Moved(p, a),
         p \in {"apply", "resolve"} => a \in DOMAIN world.dirs[Current],
         \A j \in Visited([schema |-> Current, part |-> p, at |-> a]) : world.dirs[Current][j].to \in processed
  PROVE  /\ Calls'
         /\ \A u : Finished(u)' <=> Finished(u)
<1> DEFINE n == Len(stack)
           g == [schema |-> Current, part |-> p, at |-> a]
<1>1. /\ stack' \in Seq(Frame) /\ Len(stack') = n /\ DOMAIN stack' = DOMAIN stack
      /\ stack'[n] = g /\ \A i \in DOMAIN stack : i # n => stack'[i] = stack[i]
  BY MovedCall
<1>2. /\ n \in DOMAIN stack /\ \A i \in DOMAIN stack : i <= n /\ i \in Nat
      /\ n \in Nat /\ Current \in processed /\ stack[n].schema = Current
  BY TopCall
<1>3. g.schema = Current /\ g.part = p /\ g.at = a
  OBVIOUS
<1> HIDE DEF n, g
<1>4. \A i \in DOMAIN stack' : stack'[i].schema = stack[i].schema
  BY <1>1, <1>2, <1>3
<1>5. \A u : Finished(u)' <=> Finished(u)
  BY <1>1, <1>4 DEF Finished
<1>6. ASSUME NEW i \in DOMAIN stack'
      PROVE  /\ stack'[i].schema \in processed'
             /\ stack'[i].part \in {"apply", "resolve"} => stack'[i].at \in DOMAIN world'.dirs[stack'[i].schema]
             /\ \A j \in Visited(stack[i])' : world'.dirs[stack'[i].schema][j].to \in processed'
  <2>1. CASE i = n
    <3>1. Visited(stack[i])' = Visited(g)
      BY <2>1, <1>1 DEF Visited
    <3>2. \A j \in Visited(g) : world.dirs[Current][j].to \in processed
      BY DEF g
    <3> QED
      BY <2>1, <3>1, <3>2, <1>1, <1>2, <1>3
  <2>2. CASE i # n
    <3>1. i \in DOMAIN stack /\ stack'[i] = stack[i]
      BY <2>2, <1>1
    <3>2. Visited(stack[i])' = Visited(stack[i])
      BY <3>1 DEF Visited
    <3> QED
      BY <3>1, <3>2 DEF Calls
  <2> QED
    BY <2>1, <2>2
<1>7. ASSUME NEW i \in DOMAIN stack', NEW j \in DOMAIN stack', i < j
      PROVE  /\ stack'[i].part = "apply" /\ stack'[i].schema # stack'[j].schema
             /\ stack'[j].schema \in Lead(stack[i].schema)'
  <2>1. i # n
    BY <1>7, <1>1, <1>2
  <2>2. stack'[i] = stack[i] /\ stack'[j].schema = stack[j].schema /\ i \in DOMAIN stack /\ j \in DOMAIN stack
    BY <2>1, <1>1, <1>4
  <2> QED
    BY <2>2, <1>7 DEF Calls, Lead
<1>8. \A s \in processed' : Finished(s)' => \A j \in DOMAIN world'.dirs[s] : world'.dirs[s][j].to \in processed'
  BY <1>5 DEF Calls
<1>9. processed' \subseteq Schema
  BY DEF Calls
<1> QED
  BY <1>1, <1>5, <1>6, <1>7, <1>8, <1>9 DEF Calls

\* Directives are visited one after the other.
LEMMA VisitedNext ==
  ASSUME Views, NEW s \in Schema, NEW a \in Nat \ {0}
  PROVE  LET Place(p, b) == [schema |-> s, part |-> p, at |-> b]
         IN  /\ Visited(Place("apply", a)) \subseteq Visited(Place("visit", a)) \cup {a}
             /\ Visited(Place("resolve", a)) = Visited(Place("apply", a))
             /\ Visited(Place("visit", 1)) = {}
             /\ Visited(Place("visit", a + 1)) \subseteq Visited(Place("resolve", a))
             /\ \A b : Visited(Place("declare", b)) = DOMAIN world.dirs[s]
             /\ a > Len(world.dirs[s]) => Visited(Place("visit", a)) = DOMAIN world.dirs[s]
<1>1. DOMAIN world.dirs[s] = 1 .. Len(world.dirs[s]) /\ Len(world.dirs[s]) \in Nat
  BY DirectiveTypes DEF Views
<1> QED
  BY <1>1 DEF Visited

\* A schema that was not processed is called by the one in work.
LEMMA CalledStep ==
  ASSUME Views, Calls, stack # <<>>, world' = world, order' = order, Top.part = "visit",
         Top.at \in DOMAIN Directives, NEW b, b = Directives[Top.at].to, b \notin processed,
         processed' = processed \cup {b}, stack' = Append(Moved("apply", Top.at), Called(b))
  PROVE  /\ Calls'
         /\ \A u : Finished(u)' <=> Finished(u)
<1> DEFINE n == Len(stack)
           a == Top.at
           q == Moved("apply", a)
           g == [schema |-> Current, part |-> "apply", at |-> a]
           h == Called(b)
<1>1. /\ n \in DOMAIN stack /\ DOMAIN stack = 1 .. n /\ n \in Nat
      /\ Top \in Frame /\ Current \in Schema /\ Current \in processed /\ a \in Nat \ {0}
      /\ stack[n] = Top /\ Top.schema = Current
  BY TopCall DEF Frame
<1>2. /\ q \in Seq(Frame) /\ Len(q) = n /\ DOMAIN q = DOMAIN stack
      /\ q[n] = g /\ \A i \in DOMAIN stack : i # n => q[i] = stack[i]
  BY <1>1, MovedCall
<1>3. b \in Schema /\ b \in Lead(Current) /\ a \in DOMAIN world.dirs[Current] /\ b = world.dirs[Current][a].to
  BY <1>1, DirectiveTypes DEF Directives, Views
<1>4. h \in Frame /\ h.schema = b /\ h = [schema |-> b, part |-> "visit", at |-> 1]
  BY <1>3 DEF Called, Frame
<1>5. g.schema = Current /\ g.part = "apply" /\ g.at = a
  OBVIOUS
<1> HIDE DEF g, q, h, n
<1>6. /\ stack' \in Seq(Frame) /\ DOMAIN stack' = DOMAIN stack \cup {n + 1} /\ n + 1 \notin DOMAIN stack
      /\ stack'[n + 1] = h /\ stack'[n] = g
      /\ \A i \in DOMAIN stack : i # n => stack'[i] = stack[i]
  <2>1. stack' = Append(q, h)
    BY DEF q, h
  <2>2. /\ Append(q, h) \in Seq(Frame) /\ DOMAIN Append(q, h) = 1 .. n + 1
        /\ Append(q, h)[n + 1] = h /\ \A i \in 1 .. n : Append(q, h)[i] = q[i]
    BY <1>2, <1>4, <1>1
  <2> QED
    <3>1. 1 .. n + 1 = (1 .. n) \cup {n + 1} /\ n + 1 \notin 1 .. n /\ n \in 1 .. n
      BY <1>1
    <3> QED
      BY <2>1, <2>2, <3>1, <1>1, <1>2
<1>7. \A i \in DOMAIN stack : stack'[i].schema = stack[i].schema
  BY <1>6, <1>1, <1>5
<1>8. \A u : Finished(u)' <=> Finished(u)
  <2>1. ASSUME NEW u, Finished(u)
        PROVE  Finished(u)'
    <3>1. u # b /\ u \in processed'
      BY <2>1 DEF Finished
    <3> QED
      BY <3>1, <2>1, <1>6, <1>7, <1>4 DEF Finished
  <2>2. ASSUME NEW u, Finished(u)'
        PROVE  Finished(u)
    <3>1. u # b
      BY <2>2, <1>6, <1>4 DEF Finished
    <3> QED
      BY <3>1, <2>2, <1>6, <1>7 DEF Finished
  <2> QED
    BY <2>1, <2>2
<1>9. ASSUME NEW i \in DOMAIN stack'
      PROVE  /\ stack'[i].schema \in processed'
             /\ stack'[i].part \in {"apply", "resolve"} => stack'[i].at \in DOMAIN world'.dirs[stack'[i].schema]
             /\ \A j \in Visited(stack[i])' : world'.dirs[stack'[i].schema][j].to \in processed'
  <2>1. CASE i = n + 1
    <3>1. stack'[i] = h
      BY <2>1, <1>6
    <3>2. Visited(stack[i])' = Visited(h)
      BY <3>1 DEF Visited
    <3>3. Visited(h) = {} /\ h.part = "visit"
      <4>1. Visited([schema |-> b, part |-> "visit", at |-> 1]) = {}
        <5>1. 1 \in Nat \ {0}
          OBVIOUS
        <5> QED
          BY <5>1, <1>3, VisitedNext
      <4> QED
        BY <4>1, <1>4
    <3> QED
      BY <3>1, <3>2, <3>3, <1>4
  <2>2. CASE i = n
    <3>1. stack'[i] = g
      BY <2>2, <1>6
    <3>2. Visited(stack[i])' = Visited(g)
      BY <3>1 DEF Visited
    <3>3. Visited(g) \subseteq Visited(Top) \cup {a}
      <4>1. Top = [schema |-> Current, part |-> "visit", at |-> a]
        BY <1>1 DEF Frame
      <4>2. Visited(g) \subseteq Visited([schema |-> Current, part |-> "visit", at |-> a]) \cup {a}
        BY <1>1, VisitedNext DEF g
      <4> QED
        BY <4>1, <4>2
    <3>4. \A j \in Visited(Top) : world.dirs[Current][j].to \in processed
      BY <1>1 DEF Calls
    <3> QED
      BY <3>1, <3>2, <3>3, <3>4, <1>3, <1>5, <1>1
  <2>3. CASE i # n /\ i # n + 1
    <3>1. i \in DOMAIN stack /\ stack'[i] = stack[i]
      BY <2>3, <1>6
    <3>2. Visited(stack[i])' = Visited(stack[i])
      BY <3>1 DEF Visited
    <3> QED
      BY <3>1, <3>2 DEF Calls
  <2> QED
    BY <2>1, <2>2, <2>3
<1>10. ASSUME NEW i \in DOMAIN stack', NEW j \in DOMAIN stack', i < j
       PROVE  /\ stack'[i].part = "apply" /\ stack'[i].schema # stack'[j].schema
              /\ stack'[j].schema \in Lead(stack[i].schema)'
  <2>1. i \in DOMAIN stack /\ stack'[i].schema = stack[i].schema
    BY <1>10, <1>6, <1>7, <1>1
  <2>2. Lead(stack[i].schema)' = Lead(stack[i].schema)
    BY <2>1 DEF Lead
  <2>3. stack'[i].part = "apply"
    <3>1. CASE i = n
      BY <3>1, <1>6, <1>5
    <3>2. CASE i # n
      <4>1. i < n
        BY <2>1, <3>2, <1>1
      <4> QED
        BY <4>1, <2>1, <1>1, <1>6 DEF Calls
    <3> QED
      BY <3>1, <3>2
  <2>4. CASE j \in DOMAIN stack
    <3>1. stack'[j].schema = stack[j].schema
      BY <2>4, <1>7
    <3> QED
      BY <3>1, <2>1, <2>2, <2>3, <2>4, <1>10 DEF Calls
  <2>5. CASE j = n + 1
    <3>1. stack'[j].schema = b
      BY <2>5, <1>6, <1>4
    <3>2. stack[i].schema \in processed /\ stack[i].schema \in Schema
      BY <2>1 DEF Calls
    <3>3. Current \in Lead(stack[i].schema)
      <4>1. CASE i = n
        BY <4>1, <1>1, <3>2 DEF Views
      <4>2. CASE i # n
        <5>1. i < n
          BY <2>1, <4>2, <1>1
        <5> QED
          BY <5>1, <2>1, <1>1 DEF Calls
      <4> QED
        BY <4>1, <4>2
    <3>4. b \in Lead(stack[i].schema)
      BY <3>2, <3>3, <1>3 DEF Views
    <3> QED
      BY <3>1, <3>2, <3>4, <2>1, <2>2, <2>3
  <2> QED
    BY <2>4, <2>5, <1>6
<1>11. \A s \in processed' : Finished(s)' => \A j \in DOMAIN world'.dirs[s] : world'.dirs[s][j].to \in processed'
  <2>1. \A s : Finished(s) => s \in processed
    BY DEF Finished
  <2> QED
    BY <2>1, <1>8 DEF Calls
<1>12. processed' \subseteq Schema
  BY <1>3 DEF Calls
<1> QED
  BY <1>6, <1>8, <1>9, <1>10, <1>11, <1>12 DEF Calls

\* A schema that no other has named is called by itself.
LEMMA ProcessStep ==
  ASSUME Views, Calls, ProcessSchema
  PROVE  /\ Calls'
         /\ \A u : Finished(u)' <=> Finished(u)
         /\ DOMAIN stack' = {1} /\ stack'[1].part = "visit" /\ stack'[1].at = 1
<1>1. stack = <<>> /\ world' = world /\ order' = order /\ Schema \ processed # {}
  BY DEF ProcessSchema, Calls
<1>2. PICK s \in Schema \ processed : processed' = processed \cup {s} /\ stack' = <<Called(s)>>
  <2> DEFINE T == Schema \ processed
  <2>1. \E x \in T : \A t \in T : x <= t
    BY <1>1, SchemaAssumption, LeastNumber
  <2>2. (CHOOSE x \in T : \A t \in T : x <= t) \in T
    BY <2>1
  <2> QED
    BY <2>2 DEF ProcessSchema
<1> DEFINE h == Called(s)
<1>3. h = [schema |-> s, part |-> "visit", at |-> 1] /\ h.schema = s /\ h.part = "visit" /\ h.at = 1 /\ h \in Frame
  BY DEF Called, Frame
<1>4. stack' \in Seq(Frame) /\ DOMAIN stack' = {1} /\ stack'[1] = h
  <2> HIDE DEF h
  <2>1. <<h>> \in Seq(Frame) /\ DOMAIN <<h>> = 1 .. 1 /\ <<h>>[1] = h
    BY <1>3
  <2> QED
    BY <2>1, <1>2 DEF h
<1> HIDE DEF h
<1>5. \A u : Finished(u)' <=> Finished(u)
  BY <1>1, <1>2, <1>3, <1>4 DEF Finished
<1>6. ASSUME NEW i \in DOMAIN stack'
      PROVE  /\ stack'[i].schema \in processed'
             /\ stack'[i].part \in {"apply", "resolve"} => stack'[i].at \in DOMAIN world'.dirs[stack'[i].schema]
             /\ \A j \in Visited(stack[i])' : world'.dirs[stack'[i].schema][j].to \in processed'
  <2>1. stack'[i] = h
    BY <1>4
  <2>2. Visited(stack[i])' = Visited(h)
    BY <2>1, <1>1 DEF Visited
  <2>3. Visited(h) = {}
    <3>1. Visited([schema |-> s, part |-> "visit", at |-> 1]) = {}
      <4>1. 1 \in Nat \ {0}
        OBVIOUS
      <4> QED
        BY <4>1, VisitedNext
    <3> QED
      BY <3>1, <1>3
  <2> QED
    BY <2>1, <2>2, <2>3, <1>2, <1>3
<1>7. \A i, j \in DOMAIN stack' : ~ (i < j)
  BY <1>4
<1>8. \A t \in processed' : Finished(t)' => \A j \in DOMAIN world'.dirs[t] : world'.dirs[t][j].to \in processed'
  <2>1. \A t : Finished(t) => t \in processed
    BY DEF Finished
  <2> QED
    BY <2>1, <1>1, <1>2, <1>5 DEF Calls
<1>9. processed' \subseteq Schema
  BY <1>2 DEF Calls
<1>10. Calls'
  BY <1>4, <1>6, <1>7, <1>8, <1>9 DEF Calls
<1> QED
  BY <1>3, <1>4, <1>5, <1>10

\* The call in work returns, and its schema is finished.
LEMMA ReturnStep ==
  ASSUME Views, Calls, Return
  PROVE  /\ Calls'
         /\ \A u : Finished(u)' <=> Finished(u) \/ u = Current
         /\ DOMAIN stack' = DOMAIN stack \ {Len(stack)} /\ \A i \in DOMAIN stack' : stack'[i] = stack[i]
<1> DEFINE n == Len(stack)
<1>1. stack # <<>> /\ Top.part = "declare" /\ stack' = Front(stack) /\ world' = world /\ order' = order /\ processed' = processed
  BY DEF Return, At
<1>2. /\ n \in DOMAIN stack /\ DOMAIN stack = 1 .. n /\ n \in Nat
      /\ Top \in Frame /\ Current \in Schema /\ Current \in processed
      /\ stack[n] = Top /\ Top.schema = Current
  BY <1>1, TopCall DEF Frame
<1>3. /\ stack' \in Seq(Frame) /\ DOMAIN stack' = 1 .. n - 1 /\ \A i \in 1 .. n - 1 : stack'[i] = stack[i]
  <2>1. stack \in Seq(Frame) /\ n \in Nat \ {0}
    BY <1>2 DEF Calls
  <2>2. Front(stack) = SubSeq(stack, 1, n - 1)
    BY DEF Front
  <2>3. /\ SubSeq(stack, 1, n - 1) \in Seq(Frame) /\ DOMAIN SubSeq(stack, 1, n - 1) = 1 .. n - 1
        /\ \A i \in 1 .. n - 1 : SubSeq(stack, 1, n - 1)[i] = stack[i]
    BY <2>1
  <2> QED
    BY <2>2, <2>3, <1>1
<1> HIDE DEF n
<1>4. DOMAIN stack' = DOMAIN stack \ {n} /\ \A i \in DOMAIN stack' : stack'[i] = stack[i]
  BY <1>2, <1>3
<1>5. \A i \in DOMAIN stack' : stack[i].schema # Current
  <2>1. \A i \in DOMAIN stack' : i \in DOMAIN stack /\ i < n
    BY <1>2, <1>3
  <2> QED
    BY <2>1, <1>2 DEF Calls
<1>6. \A u : Finished(u)' <=> Finished(u) \/ u = Current
  BY <1>1, <1>2, <1>4, <1>5 DEF Finished
<1>7. ASSUME NEW i \in DOMAIN stack'
      PROVE  /\ stack'[i].schema \in processed'
             /\ stack'[i].part \in {"apply", "resolve"} => stack'[i].at \in DOMAIN world'.dirs[stack'[i].schema]
             /\ \A j \in Visited(stack[i])' : world'.dirs[stack'[i].schema][j].to \in processed'
  <2>1. i \in DOMAIN stack /\ stack'[i] = stack[i]
    BY <1>4
  <2>2. Visited(stack[i])' = Visited(stack[i])
    BY <2>1, <1>1 DEF Visited
  <2> QED
    BY <2>1, <2>2, <1>1 DEF Calls
<1>8. ASSUME NEW i \in DOMAIN stack', NEW j \in DOMAIN stack', i < j
      PROVE  /\ stack'[i].part = "apply" /\ stack'[i].schema # stack'[j].schema
             /\ stack'[j].schema \in Lead(stack[i].schema)'
  <2>1. stack'[i] = stack[i] /\ stack'[j] = stack[j] /\ i \in DOMAIN stack /\ j \in DOMAIN stack
    BY <1>4
  <2>2. Lead(stack[i].schema)' = Lead(stack[i].schema)
    BY <2>1, <1>1 DEF Lead
  <2> QED
    BY <2>1, <2>2, <1>8 DEF Calls
<1>9. \A s \in processed' : Finished(s)' => \A j \in DOMAIN world'.dirs[s] : world'.dirs[s][j].to \in processed'
  <2>1. \A j \in DOMAIN world.dirs[Current] : world.dirs[Current][j].to \in processed
    <3>1. Visited(Top) = DOMAIN world.dirs[Current]
      BY <1>1, <1>2 DEF Visited
    <3> QED
      BY <3>1, <1>2 DEF Calls
  <2> QED
    BY <2>1, <1>1, <1>6 DEF Calls
<1>10. processed' \subseteq Schema
  BY <1>1 DEF Calls
<1> QED
  BY <1>3, <1>4, <1>6, <1>7, <1>8, <1>9, <1>10 DEF Calls, n

\* Every step keeps what is known of the calls, and what is processed or finished stays so.
LEMMA CallsStep ==
  ASSUME Views, Calls, [Next]_vars
  PROVE  /\ Calls'
         /\ processed \subseteq processed'
         /\ \A u : Finished(u) => Finished(u)'
<1>1. CASE ProcessSchema
  BY <1>1, ProcessStep DEF ProcessSchema
<1>2. CASE Visit
  <2> DEFINE b == Directives[Top.at].to
  <2>1. /\ stack # <<>> /\ Top.part = "visit" /\ Top.at <= Len(Directives)
        /\ world' = world /\ order' = order
    BY <1>2 DEF Visit, At
  <2>2. Top \in Frame /\ Current \in Schema /\ Top.at \in Nat \ {0}
        /\ Top = stack[Len(stack)] /\ Len(stack) \in DOMAIN stack
    BY <2>1, TopCall DEF Frame, Current
  <2>3. Top.at \in DOMAIN Directives
    BY <2>1, <2>2, DirectiveTypes DEF Directives, Views
  <2>4. CASE b \in processed
    <3>1. stack' = Moved("apply", Top.at) /\ processed' = processed
      BY <1>2, <2>4 DEF Visit
    <3>2. \A j \in Visited([schema |-> Current, part |-> "apply", at |-> Top.at]) : world.dirs[Current][j].to \in processed
      <4>1. Visited([schema |-> Current, part |-> "apply", at |-> Top.at])
              \subseteq Visited([schema |-> Current, part |-> "visit", at |-> Top.at]) \cup {Top.at}
        BY <2>2, VisitedNext
      <4>2. Top = [schema |-> Current, part |-> "visit", at |-> Top.at]
        BY <2>1, <2>2 DEF Frame, Current
      <4>3. \A j \in Visited(Top) : world.dirs[Current][j].to \in processed
        BY <2>2 DEF Calls, Current
      <4> QED
        BY <4>1, <4>2, <4>3, <2>4 DEF Directives
    <3> QED
      BY <3>1, <3>2, <2>1, <2>2, <2>3, MovedStep DEF Directives
  <2>5. CASE b \notin processed
    <3>1. stack' = Append(Moved("apply", Top.at), Called(b)) /\ processed' = processed \cup {b}
      BY <1>2, <2>5 DEF Visit
    <3> QED
      BY <3>1, <2>1, <2>3, <2>5, CalledStep
  <2> QED
    BY <2>4, <2>5
<1>3. ASSUME UNCHANGED <<world, order, stack, processed>>
      PROVE  Calls' /\ processed \subseteq processed' /\ \A u : Finished(u) => Finished(u)'
  BY <1>3 DEF Calls, Finished, Visited, Lead
<1>4. CASE Redefine
  <2>1. stack # <<>> /\ Top.part = "apply" /\ world' = world /\ order' = order /\ processed' = processed
    BY <1>4 DEF Redefine, At
  <2>2. Top \in Frame /\ Current \in Schema /\ Top.at \in Nat \ {0}
        /\ Top = stack[Len(stack)] /\ Len(stack) \in DOMAIN stack /\ Current = Top.schema
    BY <2>1, TopCall DEF Frame
  <2>3. stack' = stack \/ stack' = Moved("resolve", Top.at)
    BY <1>4 DEF Redefine
  <2>4. \A j \in Visited([schema |-> Current, part |-> "resolve", at |-> Top.at]) : world.dirs[Current][j].to \in processed
    <3>1. Top = [schema |-> Current, part |-> "apply", at |-> Top.at]
      BY <2>1, <2>2 DEF Frame
    <3>2. \A j \in Visited(Top) : world.dirs[Current][j].to \in processed
      BY <2>2 DEF Calls
    <3>3. Visited([schema |-> Current, part |-> "resolve", at |-> Top.at])
            = Visited([schema |-> Current, part |-> "apply", at |-> Top.at])
      BY <2>2, VisitedNext
    <3> QED
      BY <3>1, <3>2, <3>3
  <2>5. Top.at \in DOMAIN world.dirs[Current]
    BY <2>1, <2>2 DEF Calls
  <2> QED
    BY <2>1, <2>2, <2>3, <2>4, <2>5, <1>3, MovedStep
<1>5. CASE \E x \in redo : Resolve(x)
  BY <1>5, <1>3 DEF Resolve
<1>6. CASE Resolved
  <2>1. /\ stack # <<>> /\ Top.part = "resolve" /\ world' = world /\ order' = order /\ processed' = processed
        /\ stack' = Moved("visit", Top.at + 1)
    BY <1>6 DEF Resolved, At
  <2>2. Top \in Frame /\ Current \in Schema /\ Top.at \in Nat \ {0} /\ Top.at + 1 \in Nat \ {0}
        /\ Top = stack[Len(stack)] /\ Len(stack) \in DOMAIN stack /\ Current = Top.schema
    BY <2>1, TopCall DEF Frame
  <2>3. \A j \in Visited([schema |-> Current, part |-> "visit", at |-> Top.at + 1]) : world.dirs[Current][j].to \in processed
    <3>1. Top = [schema |-> Current, part |-> "resolve", at |-> Top.at]
      BY <2>1, <2>2 DEF Frame
    <3>2. \A j \in Visited(Top) : world.dirs[Current][j].to \in processed
      BY <2>2 DEF Calls
    <3>3. Visited([schema |-> Current, part |-> "visit", at |-> Top.at + 1])
            \subseteq Visited([schema |-> Current, part |-> "resolve", at |-> Top.at])
      BY <2>2, VisitedNext
    <3> QED
      BY <3>1, <3>2, <3>3
  <2> QED
    BY <2>1, <2>2, <2>3, MovedStep
<1>7. CASE Imported
  <2>1. /\ stack # <<>> /\ Top.part = "visit" /\ world' = world /\ order' = order /\ processed' = processed
        /\ stack' = Moved("declare", 1) /\ Top.at > Len(world.dirs[Current])
    BY <1>7 DEF Imported, At, Directives
  <2>2. Top \in Frame /\ Current \in Schema /\ Top.at \in Nat \ {0} /\ 1 \in Nat \ {0}
        /\ Top = stack[Len(stack)] /\ Len(stack) \in DOMAIN stack /\ Current = Top.schema
    BY <2>1, TopCall DEF Frame
  <2>3. \A j \in Visited([schema |-> Current, part |-> "declare", at |-> 1]) : world.dirs[Current][j].to \in processed
    <3>1. Top = [schema |-> Current, part |-> "visit", at |-> Top.at]
      BY <2>1, <2>2 DEF Frame
    <3>2. \A j \in Visited(Top) : world.dirs[Current][j].to \in processed
      BY <2>2 DEF Calls
    <3>3. Visited([schema |-> Current, part |-> "visit", at |-> Top.at]) = DOMAIN world.dirs[Current]
      BY <2>1, <2>2, VisitedNext
    <3>4. Visited([schema |-> Current, part |-> "declare", at |-> 1]) = DOMAIN world.dirs[Current]
      BY <2>2, VisitedNext
    <3> QED
      BY <3>1, <3>2, <3>3, <3>4
  <2> QED
    BY <2>1, <2>2, <2>3, MovedStep
<1>8. CASE Declare
  <2>1. /\ stack # <<>> /\ Top.part = "declare" /\ world' = world /\ order' = order /\ processed' = processed
    BY <1>8 DEF Declare, At
  <2>2. Top \in Frame /\ Current \in Schema /\ Top.at \in Nat \ {0} /\ Top.at + 1 \in Nat \ {0}
        /\ Top = stack[Len(stack)] /\ Len(stack) \in DOMAIN stack /\ Current = Top.schema
    BY <2>1, TopCall DEF Frame
  <2>3. stack' = stack \/ stack' = Moved("declare", Top.at + 1)
    BY <1>8 DEF Declare
  <2>4. \A j \in Visited([schema |-> Current, part |-> "declare", at |-> Top.at + 1]) : world.dirs[Current][j].to \in processed
    <3>1. Top = [schema |-> Current, part |-> "declare", at |-> Top.at]
      BY <2>1, <2>2 DEF Frame
    <3>2. \A j \in Visited(Top) : world.dirs[Current][j].to \in processed
      BY <2>2 DEF Calls
    <3>3. /\ Visited([schema |-> Current, part |-> "declare", at |-> Top.at]) = DOMAIN world.dirs[Current]
          /\ Visited([schema |-> Current, part |-> "declare", at |-> Top.at + 1]) = DOMAIN world.dirs[Current]
      BY <2>2, VisitedNext
    <3> QED
      BY <3>1, <3>2, <3>3
  <2> QED
    BY <2>1, <2>2, <2>3, <2>4, <1>3, MovedStep
<1>9. CASE Return
  BY <1>9, ReturnStep DEF Return
<1>10. CASE Finish
  BY <1>10, <1>3 DEF Finish
<1>11. CASE Terminated \/ UNCHANGED vars
  BY <1>11, <1>3 DEF Terminated, vars
<1> QED
  BY <1>1, <1>2, <1>4, <1>5, <1>6, <1>7, <1>8, <1>9, <1>10, <1>11 DEF Next, Work

-----------------------------------------------------------------------------
(* The entries of the cache.                                               *)

IsEntry(c) ==
  /\ c = [base |-> c.base, deps |-> c.deps]
  /\ c.base \in Ident \cup {NoIdent}
  /\ c.deps \in [DOMAIN c.deps -> Ident]

\* What has an entry is of a schema that was processed, and a schema has the names it
\* declares and those of the copies in it.
Entries ==
  /\ \A e \in DOMAIN cache : e \in Ident /\ e.schema \in processed /\ IsEntry(cache[e])
  /\ types \in [Schema -> SUBSET Name]
  /\ \A s \in Schema : Declared(world, s) \subseteq types[s]
  /\ \A s \in Schema : \A n \in types[s] :
       n \in Declared(world, s) \/ \E c \in DOMAIN cache : c.schema = s /\ c.name = n

\* What ViewsSeparate says.
Sees ==
  \A e \in DOMAIN cache : \A r \in DOMAIN cache[e].deps : cache[e].deps[r].schema \in Lead(e.schema)

\* Redefinitions and copies keep the name of what they are made of.
Bases == \A e \in DOMAIN cache : cache[e].base # NoIdent => cache[e].base.name = e.name

\* The identifier of x in schema s.
In(x, s) == [ns |-> x.ns, schema |-> s, name |-> x.name]

\* What the entries of other schemas are redirected to is there.
Rest ==
  stack # <<>> /\ Top.part = "resolve" => redo \subseteq Ident /\ \A x \in redo : In(x, Current) \in DOMAIN cache

\* What is referred to is there, or was found by its name, or is what a redefinition
\* is made of.
Leads ==
  \A e \in DOMAIN cache : \A r \in DOMAIN cache[e].deps :
    LET d == cache[e].deps[r]
    IN  \/ d \in DOMAIN cache
        \/ d.schema \in Schema /\ d.ns = world.ns[d.schema] /\ d.name \in types[d.schema]
        \/ \E s \in Schema : d \in Replaced(s)

\* What CopiesAgree says, and why nothing changes the original of a copy: its schema is
\* finished, unless it leads back to the one of the copy.
IsCopy(e) == cache[e].base # NoIdent /\ e.name \notin Declared(world, e.schema)
Agree(e, base) ==
  /\ DOMAIN cache[e].deps = DOMAIN cache[base].deps
  /\ \A r \in DOMAIN cache[e].deps :
       cache[e].deps[r] = cache[base].deps[r] \/ cache[e].deps[r] = In(cache[base].deps[r], e.schema)
Copies ==
  \A e \in DOMAIN cache : IsCopy(e) =>
    LET base == cache[e].base
    IN  /\ base \in DOMAIN cache
        /\ e.schema \notin Lead(base.schema) => Finished(base.schema) /\ Agree(e, base)

\* The first of a list that is among S.
LEMMA FirstFound ==
  ASSUME NEW q \in Seq(Schema), NEW S \in SUBSET Schema
  PROVE  /\ Found(q, S) # 0 =>
              /\ Found(q, S) \in 1 .. Len(q) /\ q[Found(q, S)] \in S
              /\ q[Found(q, S)] \in ToSet(q)
              /\ \A k \in 1 .. Len(q) : k < Found(q, S) => q[k] \notin S
         /\ Found(q, S) = 0 => ToSet(q) \cap S = {}
<1> DEFINE I == {i \in 1 .. Len(q) : q[i] \in S}
<1>1. q \in Seq(Schema) /\ Len(q) \in Nat
  OBVIOUS
<1>2. Found(q, S) = IF I # {} THEN Min(I) ELSE 0
  BY DEF Found, SelectInSeq
<1>3. I \subseteq Nat /\ 0 \notin I
  BY <1>1
<1>4. CASE I # {}
  <2>1. \E x \in I : \A y \in I : x <= y
    BY <1>3, <1>4, LeastNumber
  <2>2. Min(I) \in I /\ \A y \in I : Min(I) <= y
    BY <2>1 DEF Min
  <2>3. Found(q, S) \in I /\ \A y \in I : Found(q, S) <= y
    BY <2>2, <1>2, <1>4
  <2>4. \A i \in 1 .. Len(q) : q[i] \in ToSet(q)
    BY <1>1, Elements
  <2>5. \A k \in 1 .. Len(q) : k < Found(q, S) => q[k] \notin S
    BY <2>3, <1>1
  <2> QED
    BY <2>3, <2>4, <2>5, <1>3
<1>5. CASE I = {}
  <2>1. Found(q, S) = 0
    BY <1>2, <1>5
  <2>2. \A t \in ToSet(q) : t \notin S
    BY <1>1, <1>5, Elements
  <2> QED
    BY <2>1, <2>2
<1> QED
  BY <1>4, <1>5

\* What is found for a reference has its name, and is of a schema that s leads to.
LEMMA Resolves ==
  ASSUME Views, Entries, NEW s \in Schema, NEW r \in Reference, ResolveForSchema(s, r) # NoIdent
  PROVE  LET d == ResolveForSchema(s, r)
         IN  /\ d \in Ident /\ d.schema \in Lead(s) /\ d.schema \in Schema
             /\ d.ns = world.ns[d.schema] /\ d.name \in types[d.schema]
<1> DEFINE S == {t \in Schema : world.ns[t] = r.ns /\ r.name \in types[t]}
           i == Found(order[s], S)
           d == ResolveForSchema(s, r)
<1>1. i # 0 /\ d = [ns |-> r.ns, schema |-> order[s][i], name |-> r.name]
  BY DEF ResolveForSchema
<1>2. S \in SUBSET Schema
  OBVIOUS
<1>3. order[s][i] \in S /\ order[s][i] \in Lead(s)
  <2>1. order[s] \in Seq(Schema)
    BY DEF Views
  <2> HIDE DEF S
  <2>2. order[s][i] \in S /\ order[s][i] \in ToSet(order[s])
    BY <1>1, <1>2, <2>1, FirstFound
  <2> QED
    BY <2>2 DEF Lead
<1> HIDE DEF i, d
<1>4. r.ns \in Ns /\ r.name \in Name
  BY DEF Reference
<1> QED
  BY <1>1, <1>3, <1>4 DEF Ident, d

\* The entry of a declaration whose references were found.
LEMMA EntryMade ==
  ASSUME Views, Calls, Entries, stack # <<>>, NEW d \in Decl, NEW b \in Ident \cup {NoIdent},
         ~ Unknown(Entry(d, b))
  PROVE  /\ IsEntry(Entry(d, b)) /\ Entry(d, b).base = b
         /\ \A r \in DOMAIN Entry(d, b).deps :
              LET x == Entry(d, b).deps[r]
              IN  \/ x = b /\ b \in Ident
                  \/ /\ x \in Ident /\ x.schema \in Lead(Current) /\ x.schema \in Schema
                     /\ x.ns = world.ns[x.schema] /\ x.name \in types[x.schema]
<1> DEFINE e == Entry(d, b)
           f == [r \in d.refs |-> IF b # NoIdent /\ r = [ns |-> b.ns, name |-> b.name]
                                     THEN b ELSE ResolveForSchema(Current, r)]
<1>1. e = [base |-> b, deps |-> f]
  BY DEF Entry
<1> HIDE DEF e, f
<1>2. e.base = b /\ e.deps = f /\ DOMAIN f = d.refs /\ d.refs \subseteq Reference
  BY <1>1 DEF f, Decl
<1>3. \A r \in d.refs : f[r] # NoIdent
  BY <1>2 DEF Unknown, e
<1>4. Current \in Schema
  BY TopCall
<1>5. ASSUME NEW r \in d.refs
      PROVE  \/ f[r] = b /\ b \in Ident
             \/ /\ f[r] \in Ident /\ f[r].schema \in Lead(Current) /\ f[r].schema \in Schema
                /\ f[r].ns = world.ns[f[r].schema] /\ f[r].name \in types[f[r].schema]
  <2>1. CASE b # NoIdent /\ r = [ns |-> b.ns, name |-> b.name]
    <3>1. f[r] = b
      BY <2>1 DEF f
    <3> QED
      BY <3>1, <2>1
  <2>2. CASE ~ (b # NoIdent /\ r = [ns |-> b.ns, name |-> b.name])
    <3>1. f[r] = ResolveForSchema(Current, r)
      BY <2>2 DEF f
    <3>2. r \in Reference
      BY <1>2
    <3> QED
      BY <3>1, <3>2, <1>3, <1>4, Resolves
  <2> QED
    BY <2>1, <2>2
<1>6. f \in [DOMAIN f -> Ident]
  <2>1. f = [r \in d.refs |-> f[r]]
    BY DEF f
  <2> QED
    BY <2>1, <1>2, <1>5
<1>7. IsEntry(e)
  BY <1>1, <1>2, <1>6 DEF IsEntry
<1> QED
  BY <1>2, <1>5, <1>7 DEF e

\* The current schema declares what is in N, or declares it in place of something else.
LEMMA AddedStep ==
  ASSUME Views, Calls, Entries, Sees, Bases, Leads, Copies, stack # <<>>,
         world' = world, order' = order, types' = types, processed' = processed,
         \A u : Finished(u) => Finished(u)',
         NEW N, DOMAIN cache' = DOMAIN cache \cup N,
         \A e \in DOMAIN cache \ N : cache'[e] = cache[e],
         \A x \in N :
           /\ x \in Ident /\ x.schema = Current /\ x.name \in Declared(world, Current)
           /\ \E d \in Decl, b \in Ident \cup {NoIdent} :
                /\ cache'[x] = Entry(d, b) /\ ~ Unknown(Entry(d, b))
                /\ b # NoIdent => b.name = x.name /\ b.schema \in Lead(Current) /\ \E s \in Schema : b \in Replaced(s)
  PROVE  Entries' /\ Sees' /\ Bases' /\ Leads' /\ Copies'
<1>1. Current \in Schema /\ Current \in processed /\ ~ Finished(Current)
  BY TopCall
<1>2. ASSUME NEW x \in N
      PROVE  /\ x \in Ident /\ x.schema = Current /\ x.name \in Declared(world, Current)
             /\ IsEntry(cache'[x])
             /\ cache'[x].base # NoIdent => cache'[x].base.name = x.name
             /\ \A r \in DOMAIN cache'[x].deps :
                  LET y == cache'[x].deps[r]
                  IN  /\ y.schema \in Lead(Current)
                      /\ \/ y.schema \in Schema /\ y.ns = world.ns[y.schema] /\ y.name \in types[y.schema]
                         \/ \E s \in Schema : y \in Replaced(s)
  <2>1. PICK d \in Decl, b \in Ident \cup {NoIdent} :
          /\ cache'[x] = Entry(d, b) /\ ~ Unknown(Entry(d, b))
          /\ b # NoIdent => b.name = x.name /\ b.schema \in Lead(Current) /\ \E s \in Schema : b \in Replaced(s)
    OBVIOUS
  <2>2. PICK c : c = cache'[x]
    OBVIOUS
  <2>3. /\ IsEntry(c) /\ c.base = b
        /\ \A r \in DOMAIN c.deps :
             \/ c.deps[r] = b /\ b \in Ident
             \/ /\ c.deps[r] \in Ident /\ c.deps[r].schema \in Lead(Current) /\ c.deps[r].schema \in Schema
                /\ c.deps[r].ns = world.ns[c.deps[r].schema] /\ c.deps[r].name \in types[c.deps[r].schema]
    BY <2>1, <2>2, EntryMade
  <2>4. b \in Ident => b # NoIdent
    BY NoIdentAssumption
  <2> QED
    BY <2>1, <2>2, <2>3, <2>4
<1>3. Entries'
  <2>1. ASSUME NEW e \in DOMAIN cache'
        PROVE  e \in Ident /\ e.schema \in processed /\ IsEntry(cache'[e])
    BY <1>1, <1>2 DEF Entries
  <2>2. \A s \in Schema : Declared(world, s)' = Declared(world, s)
    BY DEF Declared
  <2> QED
    BY <2>1, <2>2 DEF Entries, IsEntry
<1>4. Sees'
  <2>1. \A s : Lead(s)' = Lead(s)
    BY DEF Lead
  <2>2. ASSUME NEW e \in DOMAIN cache', NEW r \in DOMAIN cache'[e].deps
        PROVE  cache'[e].deps[r].schema \in Lead(e.schema)
    BY <1>2 DEF Sees
  <2> QED
    BY <2>1, <2>2 DEF Sees
<1>5. Bases'
  BY <1>2 DEF Bases
<1>6. Leads'
  <2>1. \A s : Replaced(s)' = Replaced(s)
    BY DEF Replaced, ReplacedBy
  <2>2. ASSUME NEW e \in DOMAIN cache', NEW r \in DOMAIN cache'[e].deps, NEW d, d = cache'[e].deps[r]
        PROVE  \/ d \in DOMAIN cache'
               \/ d.schema \in Schema /\ d.ns = world.ns[d.schema] /\ d.name \in types[d.schema]
               \/ \E s \in Schema : d \in Replaced(s)
    BY <1>2, <2>2 DEF Leads
  <2> QED
    BY <2>1, <2>2 DEF Leads
<1>7. Copies'
  <2>1. \A s : Lead(s)' = Lead(s) /\ Declared(world, s)' = Declared(world, s)
    BY DEF Lead, Declared
  <2>2. ASSUME NEW e \in DOMAIN cache', IsCopy(e)', NEW b, b = cache'[e].base
        PROVE  /\ b \in DOMAIN cache'
               /\ e.schema \notin Lead(b.schema) => Finished(b.schema)' /\ Agree(e, b)'
    <3>1. e \notin N
      BY <2>1, <2>2, <1>2 DEF IsCopy
    <3>2. e \in DOMAIN cache /\ cache'[e] = cache[e]
      BY <3>1
    <3>3. IsCopy(e)
      BY <3>2, <2>1, <2>2 DEF IsCopy
    <3>4. b = cache[e].base
      BY <2>2, <3>2
    <3>5. b \in DOMAIN cache /\ (e.schema \notin Lead(b.schema) => Finished(b.schema) /\ Agree(e, b))
      BY <3>2, <3>3, <3>4 DEF Copies
    <3>6. ASSUME e.schema \notin Lead(b.schema)
          PROVE  Finished(b.schema)' /\ Agree(e, b)'
      <4>1. Finished(b.schema) /\ Agree(e, b) /\ Finished(b.schema)'
        BY <3>5, <3>6
      <4>2. b \notin N
        BY <4>1, <1>1, <1>2
      <4>3. cache'[b] = cache[b]
        BY <4>2, <3>5
      <4> QED
        BY <4>1, <4>3, <3>2 DEF Agree
    <3> QED
      BY <3>5, <3>6
  <2> QED
    BY <2>2 DEF Copies, Finished, Agree, Lead
<1> QED
  BY <1>3, <1>4, <1>5, <1>6, <1>7

\* e is what is first listed for schema s under its name.
Visible(s, e) ==
  \E i \in 1 .. Len(listing[s]) :
    /\ e = [ns |-> world.ns[listing[s][i]], schema |-> listing[s][i], name |-> e.name]
    /\ e.name \in types[listing[s][i]]
    /\ \A k \in 1 .. Len(listing[s]) : k < i => e.name \notin types[listing[s][k]]

LEMMA SchemaSetVisible ==
  ASSUME Views, NEW s \in Schema, NEW e
  PROVE  e \in SchemaSet(s) <=> Visible(s, e)
<1> DEFINE S(n) == {u \in Schema : n \in types[u]}
           F(n) == Found(listing[s], S(n))
           names == UNION {types[t] : t \in Lead(s)}
<1>1. listing[s] \in Seq(Schema) /\ Len(listing[s]) \in Nat /\ Lead(s) \subseteq Schema
      /\ \A i \in 1 .. Len(listing[s]) : listing[s][i] \in Lead(s)
  <2>1. listing[s] \in Seq(Schema) /\ ToSet(listing[s]) = Lead(s) /\ ToSet(listing[s]) \subseteq Schema
    BY Elements DEF Views, Listings
  <2> QED
    BY <2>1, Elements
<1>2. ASSUME NEW n \in names
      PROVE  /\ F(n) \in 1 .. Len(listing[s]) /\ n \in types[listing[s][F(n)]]
             /\ \A k \in 1 .. Len(listing[s]) : k < F(n) => n \notin types[listing[s][k]]
  <2>1. S(n) \in SUBSET Schema
    OBVIOUS
  <2>2. ToSet(listing[s]) \cap S(n) # {}
    <3>1. ToSet(listing[s]) = Lead(s)
      BY DEF Views, Listings
    <3> QED
      BY <1>1, <3>1
  <2>3. /\ F(n) # 0 /\ F(n) \in 1 .. Len(listing[s]) /\ listing[s][F(n)] \in S(n)
        /\ \A k \in 1 .. Len(listing[s]) : k < F(n) => listing[s][k] \notin S(n)
    <3> HIDE DEF S
    <3> QED
      BY <2>1, <2>2, <1>1, FirstFound
  <2>4. \A k \in 1 .. Len(listing[s]) : listing[s][k] \in Schema
    BY <1>1
  <2> HIDE DEF F
  <2> QED
    BY <2>3, <2>4
<1>3. SchemaSet(s) = {[ns |-> world.ns[listing[s][F(n)]], schema |-> listing[s][F(n)], name |-> n] : n \in names}
  <2>1. ToSet(listing[s]) = Lead(s)
    BY DEF Views, Listings
  <2> QED
    BY <2>1 DEF SchemaSet
<1> HIDE DEF F
<1>4. ASSUME e \in SchemaSet(s)
      PROVE  Visible(s, e)
  <2>1. PICK n \in names : e = [ns |-> world.ns[listing[s][F(n)]], schema |-> listing[s][F(n)], name |-> n]
    BY <1>3, <1>4
  <2>2. e.name = n
    BY <2>1
  <2> QED
    BY <2>1, <2>2, <1>2 DEF Visible
<1>5. ASSUME Visible(s, e)
      PROVE  e \in SchemaSet(s)
  <2>1. PICK i \in 1 .. Len(listing[s]) :
          /\ e = [ns |-> world.ns[listing[s][i]], schema |-> listing[s][i], name |-> e.name]
          /\ e.name \in types[listing[s][i]]
          /\ \A k \in 1 .. Len(listing[s]) : k < i => e.name \notin types[listing[s][k]]
    BY <1>5 DEF Visible
  <2>2. e.name \in names
    BY <2>1, <1>1
  <2>3. F(e.name) = i
    BY <2>1, <2>2, <1>1, <1>2
  <2> QED
    BY <2>1, <2>2, <2>3, <1>3
<1> QED
  BY <1>4, <1>5

LEMMA VisibleLeads ==
  ASSUME Views, NEW s \in Schema, NEW e, Visible(s, e)
  PROVE  e.schema \in Lead(s) /\ e.schema \in Schema /\ e.name \in types[e.schema] /\ e.ns = world.ns[e.schema]
<1>1. listing[s] \in Seq(Schema) /\ ToSet(listing[s]) = Lead(s) /\ ToSet(listing[s]) \subseteq Schema
  BY Elements DEF Views, Listings
<1>2. PICK i \in 1 .. Len(listing[s]) :
        /\ e = [ns |-> world.ns[listing[s][i]], schema |-> listing[s][i], name |-> e.name]
        /\ e.name \in types[listing[s][i]]
  BY DEF Visible
<1>3. e.schema = listing[s][i] /\ e.ns = world.ns[listing[s][i]]
  BY <1>2
<1> QED
  BY <1>1, <1>2, <1>3, Elements

\* What a step leaves as it is: names and entries are never lost, and nothing of a
\* finished schema changes.
Keeps ==
  /\ DOMAIN cache \subseteq DOMAIN cache'
  /\ \A s \in Schema : types[s] \subseteq types'[s]
  /\ \A u : Finished(u) =>
       /\ types'[u] = types[u]
       /\ \A e \in DOMAIN cache' : e.schema = u => e \in DOMAIN cache /\ cache'[e] = cache[e]

EntryInv == Entries /\ Sees /\ Bases /\ Rest /\ Leads /\ Copies

\* A step that leaves the cache alone, and does not come to a redefinition.
LEMMA SameEntries ==
  ASSUME Views, Calls, EntryInv, world' = world, order' = order, types' = types, cache' = cache,
         processed \subseteq processed', \A u : Finished(u) => Finished(u)', Rest'
  PROVE  EntryInv' /\ Keeps
<1>1. \A s : Lead(s)' = Lead(s) /\ Declared(world, s)' = Declared(world, s) /\ Replaced(s)' = Replaced(s)
  BY DEF Lead, Declared, Replaced, ReplacedBy
<1>2. Entries'
  BY <1>1 DEF EntryInv, Entries, IsEntry
<1>3. Sees' /\ Bases'
  BY DEF EntryInv, Sees, Bases, Lead
<1>4. Leads'
  BY DEF EntryInv, Leads, Replaced, ReplacedBy
<1>5. Copies'
  <2>1. ASSUME NEW e \in DOMAIN cache, IsCopy(e)', NEW b, b = cache[e].base
        PROVE  b \in DOMAIN cache /\ (e.schema \notin Lead(b.schema) => Finished(b.schema)' /\ Agree(e, b)')
    <3>1. IsCopy(e)
      BY <2>1 DEF IsCopy, Declared
    <3>2. b \in DOMAIN cache /\ (e.schema \notin Lead(b.schema) => Finished(b.schema) /\ Agree(e, b))
      BY <2>1, <3>1 DEF EntryInv, Copies
    <3>3. Agree(e, b) => Agree(e, b)'
      BY DEF Agree
    <3> QED
      BY <3>2, <3>3
  <2> QED
    BY <2>1 DEF Copies, Finished, Agree, Lead
<1> QED
  BY <1>2, <1>3, <1>4, <1>5 DEF EntryInv, Keeps

LEMMA RedefineEntries ==
  ASSUME Views, Calls, EntryInv, [Next]_vars, Redefine, phase' # "unknown"
  PROVE  /\ EntryInv' /\ Keeps
         /\ redo' = {Own(d.name, Directives[Top.at].to) : d \in Directives[Top.at].decls}
         /\ \A d \in Directives[Top.at].decls : Own(d.name, Current) \in DOMAIN cache'
<1> DEFINE dir == Directives[Top.at]
           Made(d) == Entry(d, Own(d.name, dir.to))
           made == {Own(d.name, Current) : d \in dir.decls}
           Of(x) == CHOOSE d \in dir.decls : d.name = x.name
<1>1. /\ stack # <<>> /\ Top.part = "apply" /\ world' = world /\ order' = order /\ processed' = processed /\ types' = types
      /\ \A d \in dir.decls : ~ Unknown(Made(d))
      /\ cache' = [x \in DOMAIN cache \cup made |-> IF x \in made THEN Made(Of(x)) ELSE cache[x]]
      /\ redo' = {Own(d.name, dir.to) : d \in dir.decls}
      /\ stack' = Moved("resolve", Top.at)
  BY DEF Redefine, At
<1>2. /\ Current \in Schema /\ Top.at \in Nat \ {0} /\ Top = stack[Len(stack)] /\ Len(stack) \in DOMAIN stack
      /\ Current = Top.schema /\ ~ Finished(Current)
  BY <1>1, TopCall DEF Frame
<1>3. Top.at \in DOMAIN world.dirs[Current] /\ dir = world.dirs[Current][Top.at]
  BY <1>1, <1>2 DEF Calls, Directives
<1>4. /\ dir.to \in Schema /\ dir.to \in Lead(Current) /\ dir.decls \subseteq Decl /\ world.ns[Current] \in Ns
  <2>1. world \in Worlds /\ dir.to \in Lead(Current)
    BY <1>2, <1>3 DEF Views
  <2> HIDE DEF dir
  <2> QED
    BY <2>1, <1>2, <1>3, DirectiveTypes
<1> HIDE DEF dir
<1>5. ASSUME NEW d \in dir.decls
      PROVE  /\ d \in Decl /\ d.name \in Name /\ d.name \in Declared(world, Current)
             /\ \A s \in Schema : Own(d.name, s) = [ns |-> world.ns[Current], schema |-> s, name |-> d.name] /\ Own(d.name, s) \in Ident
             /\ Own(d.name, dir.to) \in Replaced(Current)
  <2>1. d \in Decl /\ d.name \in Name
    BY <1>4 DEF Decl
  <2>2. \A s \in Schema : Own(d.name, s) = [ns |-> world.ns[Current], schema |-> s, name |-> d.name] /\ Own(d.name, s) \in Ident
    BY <2>1, <1>4 DEF Own, Ident
  <2>3. d.name \in Declared(world, Current)
    BY <1>3 DEF Declared
  <2>4. Own(d.name, dir.to) \in Replaced(Current)
    BY <1>3, <1>4, <2>2 DEF Replaced, ReplacedBy
  <2> QED
    BY <2>1, <2>2, <2>3, <2>4
<1>6. ASSUME NEW x \in made
      PROVE  /\ x \in Ident /\ x.schema = Current /\ x.name \in Declared(world, Current)
             /\ \E d \in Decl, b \in Ident \cup {NoIdent} :
                  /\ cache'[x] = Entry(d, b) /\ ~ Unknown(Entry(d, b))
                  /\ b # NoIdent => b.name = x.name /\ b.schema \in Lead(Current) /\ \E s \in Schema : b \in Replaced(s)
  <2>1. PICK d \in dir.decls : x = Own(d.name, Current)
    OBVIOUS
  <2>2. x = [ns |-> world.ns[Current], schema |-> Current, name |-> d.name] /\ x \in Ident
    BY <2>1, <1>2, <1>5
  <2>3. Of(x) \in dir.decls /\ Of(x).name = x.name
    <3>1. d.name = x.name
      BY <2>2
    <3> QED
      BY <3>1
  <2>4. PICK c : c = Of(x)
    OBVIOUS
  <2>5. PICK b : b = Own(c.name, dir.to)
    OBVIOUS
  <2>6. c \in dir.decls /\ c.name = x.name /\ b \in Ident /\ b.name = x.name /\ b.schema = dir.to /\ b \in Replaced(Current)
    <3>1. c \in dir.decls /\ c.name = x.name
      BY <2>3, <2>4
    <3>2. b = [ns |-> world.ns[Current], schema |-> dir.to, name |-> c.name] /\ b \in Ident /\ b \in Replaced(Current)
      BY <3>1, <2>5, <1>5, <1>4
    <3> QED
      BY <3>1, <3>2
  <2>7. cache'[x] = Entry(c, b) /\ ~ Unknown(Entry(c, b))
    BY <2>4, <2>5, <2>6, <1>1
  <2>8. c \in Decl
    BY <2>6, <1>5
  <2>9. x.schema = Current /\ x.name \in Declared(world, Current)
    BY <2>2, <1>5
  <2> QED
    BY <2>2, <2>6, <2>7, <2>8, <2>9, <1>2, <1>4
<1>7. DOMAIN cache' = DOMAIN cache \cup made /\ \A e \in DOMAIN cache \ made : cache'[e] = cache[e]
  BY <1>1
<1>8. \A u : Finished(u) => Finished(u)'
  BY CallsStep
<1> HIDE DEF made
<1>9. Entries' /\ Sees' /\ Bases' /\ Leads' /\ Copies'
  BY <1>1, <1>6, <1>7, <1>8, AddedStep DEF EntryInv
<1>10. Rest'
  <2>1. Len(stack') = Len(stack) /\ stack'[Len(stack)] = [schema |-> Current, part |-> "resolve", at |-> Top.at]
    BY <1>1, <1>2, MovedCall
  <2>2. Current' = Current
    BY <2>1 DEF Current, Top
  <2>3. ASSUME NEW x \in redo'
        PROVE  x \in Ident /\ In(x, Current) \in DOMAIN cache'
    <3>1. PICK d \in dir.decls : x = Own(d.name, dir.to)
      BY <1>1
    <3>2. x = [ns |-> world.ns[Current], schema |-> dir.to, name |-> d.name] /\ x \in Ident
      BY <3>1, <1>4, <1>5
    <3>3. In(x, Current) = Own(d.name, Current)
      BY <3>2 DEF In, Own
    <3> QED
      BY <3>2, <3>3, <1>7 DEF made
  <2> QED
    BY <2>2, <2>3 DEF Rest, In
<1>11. Keeps
  <2>1. \A u : Finished(u) => u # Current
    BY <1>2
  <2> QED
    BY <2>1, <1>1, <1>6, <1>7 DEF Keeps
<1>12. \A d \in dir.decls : Own(d.name, Current) \in DOMAIN cache'
  BY <1>7 DEF made
<1> QED
  BY <1>1, <1>9, <1>10, <1>11, <1>12 DEF EntryInv, dir

LEMMA DeclareEntries ==
  ASSUME Views, Calls, EntryInv, [Next]_vars, Declare, phase' # "unknown"
  PROVE  EntryInv' /\ Keeps /\ Own(Decls[Top.at].name, Current) \in DOMAIN cache'
<1> DEFINE d == Decls[Top.at]
           x == Own(d.name, Current)
<1>1. /\ stack # <<>> /\ Top.part = "declare" /\ Top.at <= Len(Decls)
      /\ world' = world /\ order' = order /\ processed' = processed /\ types' = types
      /\ ~ Unknown(Entry(d, NoIdent))
      /\ cache' = With(cache, x, Entry(d, NoIdent))
      /\ stack' = Moved("declare", Top.at + 1)
  BY DEF Declare, At
<1>2. /\ Current \in Schema /\ Top.at \in Nat \ {0} /\ Top = stack[Len(stack)] /\ Len(stack) \in DOMAIN stack
      /\ Current = Top.schema /\ ~ Finished(Current)
  BY <1>1, TopCall DEF Frame
<1>3. Top.at \in DOMAIN Decls /\ d \in Decl /\ world.ns[Current] \in Ns
  <2>1. Top.at \in DOMAIN world.decls[Current]
    BY <1>1, <1>2, DirectiveTypes DEF Decls, Views
  <2> QED
    BY <2>1, <1>2, DirectiveTypes DEF Decls, Views
<1>4. d.name \in Name /\ d.name \in Declared(world, Current)
  <2>1. d.name \in Name
    BY <1>3 DEF Decl
  <2>2. d \in ToSet(world.decls[Current])
    BY <1>3 DEF Decls, ToSet
  <2> QED
    BY <2>1, <2>2 DEF Declared
<1>5. x = [ns |-> world.ns[Current], schema |-> Current, name |-> d.name] /\ x \in Ident
  BY <1>2, <1>3, <1>4 DEF Own, Ident
<1> HIDE DEF d, x
<1>6. DOMAIN cache' = DOMAIN cache \cup {x} /\ cache'[x] = Entry(d, NoIdent) /\ \A e \in DOMAIN cache \ {x} : cache'[e] = cache[e]
  BY <1>1 DEF With
<1>7. x.schema = Current /\ x.name = d.name
  BY <1>5
<1>8. \A u : Finished(u) => Finished(u)'
  BY CallsStep
<1>9. Entries' /\ Sees' /\ Bases' /\ Leads' /\ Copies'
  <2>1. ASSUME NEW y \in {x}
        PROVE  /\ y \in Ident /\ y.schema = Current /\ y.name \in Declared(world, Current)
               /\ \E c \in Decl, b \in Ident \cup {NoIdent} :
                    /\ cache'[y] = Entry(c, b) /\ ~ Unknown(Entry(c, b))
                    /\ b # NoIdent => b.name = y.name /\ b.schema \in Lead(Current) /\ \E s \in Schema : b \in Replaced(s)
    BY <1>1, <1>3, <1>4, <1>5, <1>6, <1>7
  <2> QED
    BY <2>1, <1>1, <1>6, <1>8, AddedStep DEF EntryInv
<1>10. Rest'
  <2>1. Len(stack') = Len(stack) /\ stack'[Len(stack)] = [schema |-> Current, part |-> "declare", at |-> Top.at + 1]
    BY <1>1, <1>2, MovedCall
  <2> QED
    BY <2>1 DEF Rest, Top
<1>11. Keeps
  <2>1. \A u : Finished(u) => u # Current
    BY <1>2
  <2> QED
    BY <2>1, <1>1, <1>6, <1>7 DEF Keeps
<1> QED
  BY <1>6, <1>9, <1>10, <1>11 DEF EntryInv, x, d

\* The dependencies f with those on x redirected to the current schema.
Redirect(f, x) == [r \in DOMAIN f |-> IF f[r] = x THEN In(x, Current) ELSE f[r]]

Foreign(x) == {e \in Referring(x) : e.schema # Current}

LEMMA RedirectedIs ==
  ASSUME NEW x \in Ident, NEW c, IsEntry(c)
  PROVE  /\ Redirected(c, x) = [base |-> c.base, deps |-> Redirect(c.deps, x)]
         /\ \A b : [Redirected(c, x) EXCEPT !.base = b] = [base |-> b, deps |-> Redirect(c.deps, x)]
<1>1. [x EXCEPT !.schema = Current] = In(x, Current)
  <2>1. x = [ns |-> x.ns, schema |-> x.schema, name |-> x.name]
    BY DEF Ident
  <2>2. PICK y : y = [x EXCEPT !.schema = Current]
    OBVIOUS
  <2>3. y = [ns |-> x.ns, schema |-> Current, name |-> x.name]
    BY <2>1, <2>2
  <2> QED
    BY <2>2, <2>3 DEF In
<1>2. Redirect(c.deps, x) = [r \in DOMAIN c.deps |-> IF c.deps[r] = x THEN [x EXCEPT !.schema = Current] ELSE c.deps[r]]
  BY <1>1 DEF Redirect
<1>3. Redirected(c, x) = [c EXCEPT !.deps = Redirect(c.deps, x)]
  BY <1>2 DEF Redirected
<1>4. c = [base |-> c.base, deps |-> c.deps]
  BY DEF IsEntry
<1>5. PICK f : f = Redirect(c.deps, x)
  OBVIOUS
<1>6. PICK h : h = [c EXCEPT !.deps = f]
  OBVIOUS
<1>7. h = [base |-> c.base, deps |-> f]
  BY <1>4, <1>6
<1>8. ASSUME NEW b
      PROVE  [h EXCEPT !.base = b] = [base |-> b, deps |-> f]
  <2>1. PICK g : g = [h EXCEPT !.base = b]
    OBVIOUS
  <2>2. g = [base |-> b, deps |-> f]
    BY <2>1, <1>7
  <2> QED
    BY <2>1, <2>2
<1>9. Redirected(c, x) = h
  BY <1>3, <1>5, <1>6
<1> QED
  BY <1>5, <1>7, <1>8, <1>9

\* What one round makes: copies of the entries of other schemas, and redirected entries.
LEMMA ResolveWrites ==
  ASSUME Views, Calls, Entries, Rest, NEW x \in redo, Resolve(x)
  PROVE  /\ stack # <<>> /\ Top.part = "resolve" /\ world' = world /\ order' = order
         /\ processed' = processed /\ stack' = stack /\ phase' = phase
         /\ x \in Ident /\ In(x, Current) \in DOMAIN cache
         /\ redo' = (redo \ {x}) \cup Foreign(x)
         /\ types' = [types EXCEPT ![Current] = @ \cup {e.name : e \in Foreign(x)}]
         /\ DOMAIN cache' = DOMAIN cache \cup {In(o, Current) : o \in Foreign(x)}
         /\ \A e \in DOMAIN cache' :
              \/ \E o \in Foreign(x) :
                   e = In(o, Current) /\ cache'[e] = [base |-> o, deps |-> Redirect(cache[o].deps, x)]
              \/ /\ e \in DOMAIN cache /\ e.schema = Current
                 /\ cache'[e] = [base |-> cache[e].base, deps |-> Redirect(cache[e].deps, x)]
              \/ e \in DOMAIN cache /\ cache'[e] = cache[e]
         /\ \A o \in Foreign(x) :
              /\ o \in DOMAIN cache /\ o \in Ident /\ o.schema # Current /\ o.schema \in Schema
              /\ o.schema \in Lead(Current) /\ o.name \in types[o.schema]
<1> DEFINE foreign == {e \in Referring(x) : e.schema # Current}
           copies == {Moves(e) : e \in foreign}
           Of(c) == CHOOSE e \in foreign : Moves(e) = c
<1>1. /\ stack # <<>> /\ Top.part = "resolve" /\ world' = world /\ order' = order
      /\ processed' = processed /\ stack' = stack /\ phase' = phase
      /\ redo' = (redo \ {x}) \cup foreign
      /\ types' = [types EXCEPT ![Current] = @ \cup {e.name : e \in foreign}]
      /\ cache' = [e \in DOMAIN cache \cup copies |->
                     CASE e \in copies -> [Redirected(cache[Of(e)], x) EXCEPT !.base = Of(e)]
                       [] e \in Referring(x) \ (foreign \cup copies) -> Redirected(cache[e], x)
                       [] OTHER -> cache[e]]
  BY DEF Resolve, At
<1>2. x \in Ident /\ In(x, Current) \in DOMAIN cache
  BY <1>1 DEF Rest
<1>3. Current \in Schema
  BY <1>1, TopCall
<1>4. foreign = Foreign(x)
  BY DEF Foreign
<1>5. ASSUME NEW o \in Referring(x)
      PROVE  /\ o \in DOMAIN cache /\ o \in Ident /\ o.schema \in Schema /\ IsEntry(cache[o])
             /\ o.schema \in Lead(Current) /\ o.name \in types[o.schema]
             /\ Moves(o) = In(o, Current)
  <2>1. o \in SchemaSet(Current) /\ o \in DOMAIN cache
    BY DEF Referring
  <2>2. o \in Ident /\ IsEntry(cache[o])
    BY <2>1 DEF Entries
  <2>3. Visible(Current, o)
    BY <2>1, <1>3, SchemaSetVisible
  <2>4. Moves(o) = In(o, Current)
    <3>1. o = [ns |-> o.ns, schema |-> o.schema, name |-> o.name]
      BY <2>2 DEF Ident
    <3>2. PICK y : y = [o EXCEPT !.schema = Current]
      OBVIOUS
    <3>3. y = [ns |-> o.ns, schema |-> Current, name |-> o.name]
      BY <3>1, <3>2
    <3> QED
      BY <3>2, <3>3 DEF Moves, In
  <2> QED
    BY <2>1, <2>2, <2>3, <2>4, <1>3, VisibleLeads
<1>6. copies = {In(o, Current) : o \in foreign}
  BY <1>5
<1> HIDE DEF foreign, copies
<1>7. DOMAIN cache' = DOMAIN cache \cup copies
  BY <1>1
<1>8. ASSUME NEW e \in DOMAIN cache'
      PROVE  \/ \E o \in foreign :
                  e = In(o, Current) /\ cache'[e] = [base |-> o, deps |-> Redirect(cache[o].deps, x)]
             \/ /\ e \in DOMAIN cache /\ e.schema = Current
                /\ cache'[e] = [base |-> cache[e].base, deps |-> Redirect(cache[e].deps, x)]
             \/ e \in DOMAIN cache /\ cache'[e] = cache[e]
  <2>1. CASE e \in copies
    <3>1. \E o \in foreign : Moves(o) = e
      BY <2>1 DEF copies
    <3>2. PICK o : o = Of(e)
      OBVIOUS
    <3>3. o \in foreign /\ Moves(o) = e
      BY <3>1, <3>2
    <3>4. cache'[e] = [Redirected(cache[o], x) EXCEPT !.base = o]
      BY <2>1, <3>2, <1>1, <1>7
    <3>5. o \in Referring(x)
      BY <3>3 DEF foreign
    <3>6. e = In(o, Current) /\ IsEntry(cache[o])
      BY <3>3, <3>5, <1>5
    <3>7. cache'[e] = [base |-> o, deps |-> Redirect(cache[o].deps, x)]
      BY <3>4, <3>6, <1>2, RedirectedIs
    <3> QED
      BY <3>3, <3>6, <3>7
  <2>2. CASE e \notin copies /\ e \in Referring(x) /\ e \notin foreign
    <3>1. cache'[e] = Redirected(cache[e], x)
      BY <2>2, <1>1, <1>7
    <3>2. e \in DOMAIN cache /\ IsEntry(cache[e])
      BY <2>2, <1>5
    <3>3. e.schema = Current
      BY <2>2 DEF foreign
    <3>4. cache'[e] = [base |-> cache[e].base, deps |-> Redirect(cache[e].deps, x)]
      BY <3>1, <3>2, <1>2, RedirectedIs
    <3> QED
      BY <3>2, <3>3, <3>4
  <2>3. CASE e \notin copies /\ ~ (e \in Referring(x) /\ e \notin foreign)
    <3>1. cache'[e] = cache[e]
      BY <2>3, <1>1, <1>7
    <3> QED
      BY <3>1, <2>3, <1>7
  <2> QED
    BY <2>1, <2>2, <2>3
<1>9. \A o \in foreign : o \in Referring(x) /\ o.schema # Current
  BY DEF foreign
<1> QED
  BY <1>1, <1>2, <1>4, <1>5, <1>6, <1>7, <1>8, <1>9

LEMMA RedirectIs ==
  ASSUME NEW x, NEW f
  PROVE  /\ DOMAIN Redirect(f, x) = DOMAIN f
         /\ \A r \in DOMAIN f : Redirect(f, x)[r] = IF f[r] = x THEN In(x, Current) ELSE f[r]
  BY DEF Redirect

LEMMA ResolveEntries ==
  ASSUME Views, Calls, EntryInv, NEW x \in redo, Resolve(x)
  PROVE  EntryInv' /\ Keeps
<1>1. /\ Entries /\ Sees /\ Bases /\ Rest /\ Leads /\ Copies
  BY DEF EntryInv
<1>2. /\ stack # <<>> /\ Top.part = "resolve" /\ world' = world /\ order' = order
      /\ processed' = processed /\ stack' = stack
      /\ x \in Ident /\ In(x, Current) \in DOMAIN cache
      /\ redo' = (redo \ {x}) \cup Foreign(x)
      /\ types' = [types EXCEPT ![Current] = @ \cup {e.name : e \in Foreign(x)}]
      /\ DOMAIN cache' = DOMAIN cache \cup {In(o, Current) : o \in Foreign(x)}
      /\ \A o \in Foreign(x) :
           /\ o \in DOMAIN cache /\ o \in Ident /\ o.schema # Current /\ o.schema \in Schema
           /\ o.schema \in Lead(Current) /\ o.name \in types[o.schema]
  BY <1>1, ResolveWrites
<1>3. \A e \in DOMAIN cache' :
        \/ \E o \in Foreign(x) :
             e = In(o, Current) /\ cache'[e] = [base |-> o, deps |-> Redirect(cache[o].deps, x)]
        \/ /\ e \in DOMAIN cache /\ e.schema = Current
           /\ cache'[e] = [base |-> cache[e].base, deps |-> Redirect(cache[e].deps, x)]
        \/ e \in DOMAIN cache /\ cache'[e] = cache[e]
  BY <1>1, ResolveWrites
<1>4. /\ Current \in Schema /\ Current \in processed /\ ~ Finished(Current) /\ Current \in Lead(Current)
  BY <1>2, TopCall DEF Views
<1>5. \A y \in Ident : In(y, Current) \in Ident /\ In(y, Current).schema = Current /\ In(y, Current).name = y.name
  BY <1>4 DEF In, Ident
<1>6. ASSUME NEW e \in DOMAIN cache, e.schema # Current
      PROVE  cache'[e] = cache[e]
  BY <1>2, <1>3, <1>5, <1>6
\* Every new entry is made from an old one by redirecting some of its dependencies.
<1>7. ASSUME NEW e \in DOMAIN cache'
      PROVE  \E o \in DOMAIN cache :
               /\ e.name = o.name /\ e \in Ident /\ e.schema \in processed
               /\ Lead(o.schema) \subseteq Lead(e.schema)
               /\ cache'[e].base = cache[o].base \/ cache'[e].base = o
               /\ IsEntry(cache'[e])
               /\ DOMAIN cache'[e].deps = DOMAIN cache[o].deps
               /\ \A r \in DOMAIN cache[o].deps :
                    \/ cache'[e].deps[r] = cache[o].deps[r]
                    \/ cache'[e].deps[r] = In(x, Current) /\ e.schema = Current
  <2>0. \A o \in DOMAIN cache : o \in Ident /\ o.schema \in processed /\ IsEntry(cache[o])
    BY <1>1 DEF Entries
  <2>1. ASSUME NEW o \in DOMAIN cache, NEW b \in Ident \cup {NoIdent}, cache'[e] = [base |-> b, deps |-> Redirect(cache[o].deps, x)]
        PROVE  /\ cache'[e].base = b /\ IsEntry(cache'[e])
               /\ DOMAIN cache'[e].deps = DOMAIN cache[o].deps
               /\ \A r \in DOMAIN cache[o].deps :
                    cache'[e].deps[r] = cache[o].deps[r] \/ cache'[e].deps[r] = In(x, Current)
    <3>1. PICK f : f = Redirect(cache[o].deps, x)
      OBVIOUS
    <3>2. PICK c : c = cache'[e]
      OBVIOUS
    <3>3. c = [base |-> b, deps |-> f]
      BY <2>1, <3>1, <3>2
    <3>4. c.base = b /\ c.deps = f
      BY <3>3
    <3>5. DOMAIN f = DOMAIN cache[o].deps /\ \A r \in DOMAIN f : f[r] = IF cache[o].deps[r] = x THEN In(x, Current) ELSE cache[o].deps[r]
      BY <3>1, RedirectIs
    <3>6. cache[o].deps \in [DOMAIN cache[o].deps -> Ident]
      BY <2>0 DEF IsEntry
    <3>7. f \in [DOMAIN f -> Ident]
      <4>1. f = [r \in DOMAIN f |-> f[r]]
        BY <3>1 DEF Redirect
      <4>2. \A r \in DOMAIN f : f[r] \in Ident
        BY <3>5, <3>6, <1>2, <1>5
      <4> QED
        BY <4>1, <4>2
    <3>8. IsEntry(c)
      BY <3>3, <3>4, <3>7 DEF IsEntry
    <3> QED
      BY <3>2, <3>4, <3>5, <3>8
  <2>2. CASE \E o \in Foreign(x) : e = In(o, Current) /\ cache'[e] = [base |-> o, deps |-> Redirect(cache[o].deps, x)]
    <3>1. PICK o \in Foreign(x) : e = In(o, Current) /\ cache'[e] = [base |-> o, deps |-> Redirect(cache[o].deps, x)]
      BY <2>2
    <3>2. o \in DOMAIN cache /\ o \in Ident /\ e \in Ident /\ e.schema = Current /\ e.name = o.name
      BY <3>1, <1>2, <1>5
    <3>3. Lead(o.schema) \subseteq Lead(e.schema)
      BY <3>1, <3>2, <1>2, <1>4 DEF Views
    <3> QED
      BY <3>1, <3>2, <3>3, <2>1, <1>4
  <2>3. CASE /\ e \in DOMAIN cache /\ e.schema = Current
             /\ cache'[e] = [base |-> cache[e].base, deps |-> Redirect(cache[e].deps, x)]
    <3>1. cache[e].base \in Ident \cup {NoIdent}
      BY <2>0, <2>3 DEF IsEntry
    <3> QED
      BY <3>1, <2>0, <2>1, <2>3
  <2>4. CASE e \in DOMAIN cache /\ cache'[e] = cache[e]
    BY <2>0, <2>4
  <2> QED
    BY <2>2, <2>3, <2>4, <1>3
<1>8. \A s \in Schema : types[s] \subseteq types'[s] /\ types'[s] \subseteq Name
  BY <1>1, <1>2 DEF Entries, Ident
<1>9. Entries'
  <2>1. \A e \in DOMAIN cache' : e \in Ident /\ e.schema \in processed /\ IsEntry(cache'[e])
    BY <1>7
  <2>2. \A s \in Schema : Declared(world, s)' = Declared(world, s)
    BY <1>2 DEF Declared
  <2>3. types' \in [Schema -> SUBSET Name]
    BY <1>1, <1>2, <1>8 DEF Entries
  <2>4. ASSUME NEW s \in Schema, NEW n \in types'[s]
        PROVE  n \in Declared(world, s) \/ \E c \in DOMAIN cache' : c.schema = s /\ c.name = n
    <3>1. CASE n \in types[s]
      BY <3>1, <1>1, <1>2 DEF Entries
    <3>2. CASE n \notin types[s]
      <4>1. s = Current /\ n \in {e.name : e \in Foreign(x)}
        BY <3>2, <1>1, <1>2, <1>4 DEF Entries
      <4>2. PICK o \in Foreign(x) : n = o.name
        BY <4>1
      <4> QED
        BY <4>1, <4>2, <1>2, <1>5
    <3> QED
      BY <3>1, <3>2
  <2>5. \A s \in Schema : Declared(world, s) \subseteq types'[s]
    BY <1>1, <1>8 DEF Entries
  <2> QED
    BY <2>1, <2>2, <2>3, <2>4, <2>5, <1>2 DEF Entries, IsEntry
<1>10. Sees'
  <2>1. ASSUME NEW e \in DOMAIN cache', NEW r \in DOMAIN cache'[e].deps
        PROVE  cache'[e].deps[r].schema \in Lead(e.schema)
    <3>1. PICK o \in DOMAIN cache :
            /\ Lead(o.schema) \subseteq Lead(e.schema)
            /\ DOMAIN cache'[e].deps = DOMAIN cache[o].deps
            /\ \A q \in DOMAIN cache[o].deps :
                 \/ cache'[e].deps[q] = cache[o].deps[q]
                 \/ cache'[e].deps[q] = In(x, Current) /\ e.schema = Current
      BY <1>7
    <3> QED
      BY <3>1, <1>1, <1>2, <1>4, <1>5 DEF Sees
  <2> QED
    BY <2>1, <1>2 DEF Sees, Lead
<1>11. Bases'
  <2>1. ASSUME NEW e \in DOMAIN cache', cache'[e].base # NoIdent
        PROVE  cache'[e].base.name = e.name
    <3>1. PICK o \in DOMAIN cache : e.name = o.name /\ (cache'[e].base = cache[o].base \/ cache'[e].base = o)
      BY <1>7
    <3> QED
      BY <3>1, <2>1, <1>1 DEF Bases
  <2> QED
    BY <2>1 DEF Bases
<1>12. Leads'
  <2>1. ASSUME NEW e \in DOMAIN cache', NEW r \in DOMAIN cache'[e].deps, NEW d, d = cache'[e].deps[r]
        PROVE  \/ d \in DOMAIN cache'
               \/ d.schema \in Schema /\ d.ns = world.ns[d.schema] /\ d.name \in types'[d.schema]
               \/ \E s \in Schema : d \in Replaced(s)
    <3>1. PICK o \in DOMAIN cache :
            /\ DOMAIN cache'[e].deps = DOMAIN cache[o].deps
            /\ \A q \in DOMAIN cache[o].deps :
                 \/ cache'[e].deps[q] = cache[o].deps[q]
                 \/ cache'[e].deps[q] = In(x, Current) /\ e.schema = Current
      BY <1>7
    <3>2. CASE d = In(x, Current)
      BY <3>2, <1>2
    <3>3. CASE d = cache[o].deps[r]
      BY <3>1, <3>3, <1>1, <1>2, <1>8 DEF Leads
    <3> QED
      BY <3>1, <3>2, <3>3, <2>1
  <2>2. \A s : Replaced(s)' = Replaced(s)
    BY <1>2 DEF Replaced, ReplacedBy
  <2> QED
    BY <2>1, <2>2, <1>2 DEF Leads
<1>13. Rest'
  <2>1. Current' = Current
    BY <1>2 DEF Current, Top
  <2>2. ASSUME NEW y \in redo'
        PROVE  y \in Ident /\ In(y, Current) \in DOMAIN cache'
    <3>1. CASE y \in redo
      BY <3>1, <1>1, <1>2 DEF Rest
    <3>2. CASE y \in Foreign(x)
      BY <3>2, <1>2
    <3> QED
      BY <3>1, <3>2, <1>2
  <2> QED
    BY <2>1, <2>2 DEF Rest, In
<1>14. Copies'
  <2>1. ASSUME NEW e \in DOMAIN cache', IsCopy(e)', NEW b, b = cache'[e].base
        PROVE  b \in DOMAIN cache' /\ (e.schema \notin Lead(b.schema) => Finished(b.schema)' /\ Agree(e, b)')
    <3>1. CASE \E o \in Foreign(x) : e = In(o, Current) /\ cache'[e] = [base |-> o, deps |-> Redirect(cache[o].deps, x)]
      <4>1. PICK o \in Foreign(x) : e = In(o, Current) /\ cache'[e] = [base |-> o, deps |-> Redirect(cache[o].deps, x)]
        BY <3>1
      <4>2. b = o /\ cache'[e].deps = Redirect(cache[o].deps, x)
        BY <4>1, <2>1
      <4>3. o \in DOMAIN cache /\ o.schema # Current /\ cache'[o] = cache[o] /\ e.schema = Current
        BY <4>1, <1>2, <1>5, <1>6
      <4>4. ASSUME Current \notin Lead(o.schema)
            PROVE  Finished(o.schema)'
        <5>1. o.schema \in processed
          BY <4>3, <1>1 DEF Entries
        <5>2. ASSUME NEW i \in DOMAIN stack
              PROVE  stack[i].schema # o.schema
          <6>1. CASE i = Len(stack)
            BY <6>1, <4>3, <1>2, TopCall
          <6>2. CASE i # Len(stack)
            <7>1. i < Len(stack) /\ Len(stack) \in DOMAIN stack /\ Current = stack[Len(stack)].schema
              BY <6>2, <1>2, TopCall
            <7>2. Current \in Lead(stack[i].schema)
              BY <7>1 DEF Calls
            <7> QED
              BY <7>2, <4>4
          <6> QED
            BY <6>1, <6>2
        <5> QED
          BY <5>1, <5>2, <1>2 DEF Finished
      <4>5. Agree(e, o)'
        <5>1. /\ DOMAIN cache'[e].deps = DOMAIN cache[o].deps
              /\ \A r \in DOMAIN cache[o].deps :
                   cache'[e].deps[r] = IF cache[o].deps[r] = x THEN In(x, Current) ELSE cache[o].deps[r]
          BY <4>2, RedirectIs
        <5> QED
          BY <5>1, <4>3 DEF Agree, In
      <4> QED
        BY <4>2, <4>3, <4>4, <4>5, <1>2
    <3>2. CASE e \in DOMAIN cache /\ cache'[e].base = cache[e].base
      <4>1. IsCopy(e)
        BY <3>2, <2>1, <1>2 DEF IsCopy, Declared
      <4>2. b \in DOMAIN cache /\ (e.schema \notin Lead(b.schema) => Finished(b.schema) /\ Agree(e, b))
        BY <4>1, <3>2, <2>1, <1>1 DEF Copies
      <4>3. ASSUME e.schema \notin Lead(b.schema)
            PROVE  Finished(b.schema)' /\ Agree(e, b)'
        <5>1. Finished(b.schema) /\ Agree(e, b)
          BY <4>2, <4>3
        <5>2. cache'[b] = cache[b]
          BY <5>1, <4>2, <1>4, <1>6
        <5>3. Finished(b.schema)'
          BY <5>1, <1>2 DEF Finished
        <5>4. CASE cache'[e] = cache[e]
          BY <5>1, <5>2, <5>3, <5>4 DEF Agree, In
        <5>5. CASE e.schema = Current /\ cache'[e] = [base |-> cache[e].base, deps |-> Redirect(cache[e].deps, x)]
          <6>1. cache'[e].deps = Redirect(cache[e].deps, x)
            BY <5>5
          <6>2. /\ DOMAIN cache'[e].deps = DOMAIN cache[e].deps
                /\ \A r \in DOMAIN cache[e].deps :
                     cache'[e].deps[r] = IF cache[e].deps[r] = x THEN In(x, Current) ELSE cache[e].deps[r]
            BY <6>1, RedirectIs
          <6>3. \A y : In(In(y, Current), Current) = In(y, Current)
            BY DEF In
          <6>4. /\ DOMAIN cache[e].deps = DOMAIN cache[b].deps
                /\ \A r \in DOMAIN cache[e].deps :
                     cache[e].deps[r] = cache[b].deps[r] \/ cache[e].deps[r] = In(cache[b].deps[r], Current)
            BY <5>1, <5>5 DEF Agree
          <6>5. /\ DOMAIN cache'[e].deps = DOMAIN cache'[b].deps
                /\ \A r \in DOMAIN cache'[e].deps :
                     cache'[e].deps[r] = cache'[b].deps[r] \/ cache'[e].deps[r] = In(cache'[b].deps[r], Current)
            BY <6>2, <6>3, <6>4, <5>2
          <6> QED
            BY <6>5, <5>3, <5>5 DEF Agree, In
        <5>6. CASE \E o \in Foreign(x) : e = In(o, Current) /\ cache'[e] = [base |-> o, deps |-> Redirect(cache[o].deps, x)]
          BY <5>6, <3>1, <2>1, <4>3
        <5> QED
          BY <5>4, <5>5, <5>6, <1>3
      <4> QED
        BY <4>2, <4>3, <1>2
    <3>3. CASE /\ e \in DOMAIN cache /\ e.schema = Current
               /\ cache'[e] = [base |-> cache[e].base, deps |-> Redirect(cache[e].deps, x)]
      BY <3>2, <3>3
    <3> QED
      BY <3>1, <3>2, <3>3, <1>3
  <2> QED
    BY <2>1, <1>2 DEF Copies, Finished, Agree, Lead
<1>15. Keeps
  <2>1. ASSUME NEW u, Finished(u)
        PROVE  types'[u] = types[u] /\ \A e \in DOMAIN cache' : e.schema = u => e \in DOMAIN cache /\ cache'[e] = cache[e]
    <3>1. u # Current /\ u \in Schema
      BY <2>1, <1>4 DEF Finished, Calls
    <3>2. types'[u] = types[u]
      BY <3>1, <1>1, <1>2 DEF Entries
    <3> QED
      BY <3>1, <3>2, <1>2, <1>5, <1>6
  <2> QED
    BY <2>1, <1>2, <1>8 DEF Keeps
<1> QED
  BY <1>9, <1>10, <1>11, <1>12, <1>13, <1>14, <1>15 DEF EntryInv

\* Every step keeps what is known of the entries.
LEMMA EntriesStep ==
  ASSUME Views, Calls, EntryInv, [Next]_vars
  PROVE  EntryInv' /\ Keeps
<1>1. /\ processed \subseteq processed' /\ \A u : Finished(u) => Finished(u)'
      /\ world' = world /\ order' = order
  BY CallsStep, ViewsStep
<1>2. ASSUME cache' = cache, types' = types, Rest'
      PROVE  EntryInv' /\ Keeps
  BY <1>1, <1>2, SameEntries
<1>3. ASSUME cache' = cache, types' = types, redo' = redo, stack' = stack
      PROVE  EntryInv' /\ Keeps
  <2>1. Rest'
    BY <1>3 DEF EntryInv, Rest, Top, Current, In
  <2> QED
    BY <2>1, <1>2, <1>3
<1>4. ASSUME cache' = cache, types' = types, stack # <<>>,
             NEW p \in {"visit", "apply", "declare"}, NEW a \in Nat \ {0}, stack' = Moved(p, a)
      PROVE  EntryInv' /\ Keeps
  <2>1. Len(stack') = Len(stack) /\ stack'[Len(stack)] = [schema |-> Current, part |-> p, at |-> a]
    BY <1>4, MovedCall
  <2>2. Rest'
    BY <2>1 DEF Rest, Top
  <2> QED
    BY <2>2, <1>2, <1>4
<1>5. CASE ProcessSchema
  <2>1. stack' # <<>> => Top'.part = "visit"
    <3>1. stack' \in Seq(Frame) /\ DOMAIN stack' = {1} /\ stack'[1].part = "visit"
      BY <1>5, ProcessStep DEF Calls
    <3>2. Len(stack') = 1
      BY <3>1
    <3> QED
      BY <3>1, <3>2 DEF Top
  <2>2. cache' = cache /\ types' = types
    BY <1>5 DEF ProcessSchema
  <2> QED
    BY <2>1, <2>2, <1>2 DEF Rest
<1>6. CASE Visit
  <2>1. stack # <<>> /\ cache' = cache /\ types' = types
    BY <1>6 DEF Visit, At
  <2>2. Top.at \in Nat \ {0} /\ Top \in Frame
    BY <2>1, TopCall DEF Frame
  <2>3. CASE stack' = Moved("apply", Top.at)
    BY <2>1, <2>2, <2>3, <1>4
  <2>4. CASE stack' = Append(Moved("apply", Top.at), Called(Directives[Top.at].to))
    <3> DEFINE q == Moved("apply", Top.at)
               h == Called(Directives[Top.at].to)
    <3>1. q \in Seq(Frame) /\ h.part = "visit"
      BY <2>1, <2>2, MovedCall DEF Called
    <3> HIDE DEF q, h
    <3>2. Append(q, h)[Len(Append(q, h))] = h
      BY <3>1
    <3>3. Top' = h
      BY <3>2, <2>4 DEF Top, q, h
    <3>4. Rest'
      BY <3>1, <3>3 DEF Rest
    <3> QED
      BY <3>4, <2>1, <1>2
  <2> QED
    BY <1>6, <2>3, <2>4 DEF Visit
<1>7. CASE Redefine
  <2>1. CASE phase' = "unknown"
    <3>1. phase = "work" /\ types' = types
      BY <1>7 DEF Redefine, At
    <3>2. stack' = stack /\ cache' = cache /\ redo' = redo
      BY <1>7, <2>1, <3>1 DEF Redefine
    <3> QED
      BY <3>1, <3>2, <1>3
  <2>2. CASE phase' # "unknown"
    BY <1>7, <2>2, RedefineEntries
  <2> QED
    BY <2>1, <2>2
<1>8. CASE \E x \in redo : Resolve(x)
  BY <1>8, ResolveEntries
<1>9. CASE Resolved
  <2>1. /\ stack # <<>> /\ cache' = cache /\ types' = types /\ stack' = Moved("visit", Top.at + 1)
    BY <1>9 DEF Resolved, At
  <2>2. Top.at + 1 \in Nat \ {0}
    BY <2>1, TopCall DEF Frame
  <2> QED
    BY <2>1, <2>2, <1>4
<1>10. CASE Imported
  <2>1. /\ stack # <<>> /\ cache' = cache /\ types' = types /\ stack' = Moved("declare", 1)
    BY <1>10 DEF Imported, At
  <2> QED
    BY <2>1, <1>4
<1>11. CASE Declare
  <2>1. CASE phase' = "unknown"
    <3>1. phase = "work" /\ types' = types /\ redo' = redo
      BY <1>11 DEF Declare, At
    <3>2. stack' = stack /\ cache' = cache
      BY <1>11, <2>1, <3>1 DEF Declare
    <3> QED
      BY <3>1, <3>2, <1>3
  <2>2. CASE phase' # "unknown"
    BY <1>11, <2>2, DeclareEntries
  <2> QED
    BY <2>1, <2>2
<1>12. CASE Return
  <2>1. stack # <<>> /\ cache' = cache /\ types' = types
    BY <1>12 DEF Return, At
  <2>2. /\ Calls' /\ DOMAIN stack' = DOMAIN stack \ {Len(stack)} /\ \A i \in DOMAIN stack' : stack'[i] = stack[i]
    BY <1>12, ReturnStep
  <2>3. stack' # <<>> => Top'.part = "apply"
    <3>1. SUFFICES ASSUME stack' # <<>>
                   PROVE  Top'.part = "apply"
      OBVIOUS
    <3>2. Len(stack') \in DOMAIN stack'
      BY <2>2, <3>1 DEF Calls
    <3>3. /\ Len(stack') \in DOMAIN stack /\ Len(stack') < Len(stack) /\ Len(stack) \in DOMAIN stack
          /\ Top' = stack[Len(stack')]
      <4>1. Top' = stack'[Len(stack')]
        BY DEF Top
      <4>2. \A i \in DOMAIN stack : i <= Len(stack) /\ i \in Nat /\ Len(stack) \in DOMAIN stack /\ Len(stack) \in Nat
        BY <2>1, TopCall
      <4> QED
        BY <4>1, <4>2, <2>2, <3>2
    <3> QED
      BY <3>3 DEF Calls
  <2> QED
    BY <2>1, <2>3, <1>2 DEF Rest
<1>13. CASE Finish
  BY <1>13, <1>3 DEF Finish
<1>14. CASE Terminated \/ UNCHANGED vars
  BY <1>14, <1>3 DEF Terminated, vars
<1> QED
  BY <1>5, <1>6, <1>7, <1>8, <1>9, <1>10, <1>11, <1>12, <1>13, <1>14 DEF Next, Work

-----------------------------------------------------------------------------
(* What every schema sees.                                                 *)

ViewsInv == Views /\ Calls /\ EntryInv

LEMMA ViewsInvInit ==
  ASSUME Init
  PROVE  ViewsInv
<1>1. Views /\ world \in Worlds
  BY ViewsInit DEF Views
<1>2. Calls
  <2>1. stack = <<>> /\ processed = {}
    BY DEF Init
  <2>2. stack \in Seq(Frame) /\ DOMAIN stack = {}
    BY <2>1
  <2> QED
    BY <2>1, <2>2 DEF Calls
<1>3. ASSUME NEW s \in Schema
      PROVE  Declared(world, s) \in SUBSET Name
  <2>1. /\ \A i \in DOMAIN world.dirs[s] : world.dirs[s][i].decls \subseteq Decl
        /\ world.decls[s] \in Seq(Decl)
    BY <1>1, DirectiveTypes, WorldTypes
  <2>2. ToSet(world.decls[s]) \subseteq Decl
    BY <2>1, Elements
  <2>3. \A d \in Decl : d.name \in Name
    BY DEF Decl
  <2> QED
    BY <2>1, <2>2, <2>3 DEF Declared
<1>4. Entries
  <2>1. DOMAIN cache = {} /\ types = [s \in Schema |-> Declared(world, s)]
    BY DEF Init
  <2> QED
    BY <2>1, <1>3 DEF Entries
<1>5. Sees /\ Bases /\ Rest /\ Leads /\ Copies
  BY DEF Init, Sees, Bases, Rest, Leads, Copies
<1> QED
  BY <1>1, <1>2, <1>4, <1>5 DEF ViewsInv, EntryInv

LEMMA ViewsInvStep ==
  ASSUME ViewsInv, [Next]_vars
  PROVE  ViewsInv'
  BY ViewsStep, CallsStep, EntriesStep DEF ViewsInv

LEMMA AlwaysViewsInv == Spec => []ViewsInv
<1>1. Init => ViewsInv
  BY ViewsInvInit
<1>2. ViewsInv /\ [Next]_vars => ViewsInv'
  BY ViewsInvStep
<1> QED
  BY <1>1, <1>2, PTL DEF Spec

\* Whatever schemas redefine, and whatever they share, each sees only declarations of
\* schemas it depends on: a redefinition elsewhere does not reach it.
THEOREM ViewsAlwaysSeparate == Spec => []ViewsSeparate
<1>1. ViewsInv => ViewsSeparate
  <2>1. SUFFICES ASSUME ViewsInv, NEW e \in DOMAIN cache, NEW r \in DOMAIN cache[e].deps
                 PROVE  Contains(order[e.schema], cache[e].deps[r].schema)
    BY DEF ViewsSeparate
  <2>2. cache[e].deps[r].schema \in Lead(e.schema) /\ e.schema \in Schema
    BY <2>1 DEF ViewsInv, EntryInv, Sees, Entries, Calls
  <2>3. order[e.schema] \in Seq(Schema)
    BY <2>1, <2>2 DEF ViewsInv, Views
  <2> QED
    BY <2>2, <2>3, Elements DEF Lead
<1> QED
  BY <1>1, AlwaysViewsInv, PTL

\* A copy stays what it was copied from, but for what was redirected to its own schema,
\* unless the two schemas depend on each other.
THEOREM CopiesAlwaysAgree == Spec => []CopiesAgree
<1>1. ViewsInv => CopiesAgree
  <2>1. SUFFICES ASSUME ViewsInv, NEW e \in DOMAIN cache, NEW b, b = cache[e].base,
                        b # NoIdent, e.name \notin Declared(world, e.schema),
                        ~ Contains(order[b.schema], e.schema)
                 PROVE  /\ DOMAIN cache[e].deps = DOMAIN cache[b].deps
                        /\ \A r \in DOMAIN cache[e].deps :
                             cache[e].deps[r] \in {cache[b].deps[r], [cache[b].deps[r] EXCEPT !.schema = e.schema]}
    BY DEF CopiesAgree
  <2>2. IsCopy(e)
    BY <2>1 DEF IsCopy
  <2>3. b \in DOMAIN cache /\ (e.schema \notin Lead(b.schema) => Agree(e, b))
    BY <2>1, <2>2 DEF ViewsInv, EntryInv, Copies
  <2>4. b.schema \in Schema /\ IsEntry(cache[b])
    BY <2>1, <2>3 DEF ViewsInv, EntryInv, Entries, Calls
  <2>5. order[b.schema] \in Seq(Schema)
    BY <2>1, <2>4 DEF ViewsInv, Views
  <2>6. Agree(e, b)
    BY <2>1, <2>3, <2>5, Elements DEF Lead
  <2>7. ASSUME NEW r \in DOMAIN cache[b].deps
        PROVE  In(cache[b].deps[r], e.schema) = [cache[b].deps[r] EXCEPT !.schema = e.schema]
    <3>1. PICK y : y = cache[b].deps[r]
      OBVIOUS
    <3>2. y = [ns |-> y.ns, schema |-> y.schema, name |-> y.name]
      BY <2>4, <3>1 DEF IsEntry, Ident
    <3>3. PICK z : z = [y EXCEPT !.schema = e.schema]
      OBVIOUS
    <3>4. z = [ns |-> y.ns, schema |-> e.schema, name |-> y.name]
      BY <3>2, <3>3
    <3> QED
      BY <3>1, <3>3, <3>4 DEF In
  <2> QED
    BY <2>6, <2>7 DEF Agree
<1> QED
  BY <1>1, AlwaysViewsInv, PTL

-----------------------------------------------------------------------------
(* What is in the cache when a schema is finished.                         *)

\* The places a call has come to when it goes on.
LEMMA PlacesNext ==
  ASSUME Views, Calls, stack # <<>>, NEW p, NEW a \in Nat \ {0},
         NEW g, g = [schema |-> Current, part |-> p, at |-> a]
  PROVE  /\ \/ Top.part = "visit" /\ p = "apply" /\ a = Top.at
            \/ Top.part = "resolve" /\ p = "visit" /\ a = Top.at + 1
            \/ Top.part = "visit" /\ Top.at > Len(Directives) /\ p = "declare" /\ a = 1
            => Applied(g) \subseteq Applied(Top) /\ Added(g) \subseteq Added(Top)
         /\ Top.part = "apply" /\ p = "resolve" /\ a = Top.at =>
              Applied(g) \subseteq Applied(Top) \cup {a} /\ Added(g) \subseteq Added(Top)
         /\ Top.part = "declare" /\ p = "declare" /\ a = Top.at + 1 =>
              Applied(g) \subseteq Applied(Top) /\ Added(g) \subseteq Added(Top) \cup {Top.at}
<1>1. Current = Top.schema /\ Current \in Schema /\ Top.at \in Nat \ {0}
  BY TopCall DEF Frame
<1>2. /\ DOMAIN world.dirs[Current] = 1 .. Len(world.dirs[Current]) /\ Len(world.dirs[Current]) \in Nat
      /\ DOMAIN world.decls[Current] = 1 .. Len(world.decls[Current]) /\ Len(world.decls[Current]) \in Nat
  BY <1>1, DirectiveTypes DEF Views
<1>3. g.schema = Current /\ g.part = p /\ g.at = a
  OBVIOUS
<1> QED
  BY <1>1, <1>2, <1>3 DEF Applied, Added, Directives

\* The directives and declarations frame g is done with, apart from those of the sets.
OnlyOld(i, g, applied, added) ==
  /\ i \in DOMAIN stack /\ g.schema = stack[i].schema
  /\ Applied(g) \subseteq Applied(stack[i]) \cup applied
  /\ Added(g) \subseteq Added(stack[i]) \cup added

\* A step applies a directive only by Redefine, adds a declaration only by Declare, and
\* finishes a schema only by Return.
LEMMA PlacesStep ==
  ASSUME Views, Calls, [Next]_vars
  PROVE  /\ \A i \in DOMAIN stack' :
              \/ Applied(stack'[i]) = {} /\ Added(stack'[i]) = {}
              \/ OnlyOld(i, stack'[i], {}, {})
              \/ /\ Redefine /\ phase' # "unknown" /\ stack # <<>> /\ i = Len(stack)
                 /\ Len(stack') = Len(stack) /\ OnlyOld(i, stack'[i], {Top.at}, {})
                 /\ stack'[i] = [schema |-> Current, part |-> "resolve", at |-> Top.at]
              \/ /\ Declare /\ phase' # "unknown" /\ stack # <<>> /\ i = Len(stack)
                 /\ OnlyOld(i, stack'[i], {}, {Top.at})
         /\ \A u : Finished(u)' => Finished(u) \/ (Return /\ u = Current)
<1> DEFINE n == Len(stack)
           Stays(i) == \/ Applied(stack'[i]) = {} /\ Added(stack'[i]) = {}
                       \/ OnlyOld(i, stack'[i], {}, {})
<1>1. ASSUME NEW i \in DOMAIN stack, stack'[i] = stack[i]
      PROVE  Stays(i)
  BY <1>1 DEF OnlyOld
<1>2. ASSUME NEW i, NEW s \in Schema, stack'[i] = [schema |-> s, part |-> "visit", at |-> 1]
      PROVE  Stays(i)
  <2>1. DOMAIN world.dirs[s] = 1 .. Len(world.dirs[s]) /\ Len(world.dirs[s]) \in Nat
    BY DirectiveTypes DEF Views
  <2>2. stack'[i].schema = s /\ stack'[i].part = "visit" /\ stack'[i].at = 1
    BY <1>2
  <2>3. Applied(stack'[i]) = {} /\ Added(stack'[i]) = {}
    BY <2>1, <2>2 DEF Applied, Added
  <2> QED
    BY <2>3
<1>3. ASSUME stack' = stack, processed' = processed
      PROVE  (\A i \in DOMAIN stack' : Stays(i)) /\ \A u : Finished(u)' => Finished(u)
  BY <1>1, <1>3 DEF Finished
<1>4. stack # <<>> => /\ n \in DOMAIN stack /\ stack[n] = Top /\ Current = Top.schema /\ Current \in Schema
                      /\ Top.at \in Nat \ {0} /\ Top \in Frame
  BY TopCall DEF Frame
\* The calls but the last one stay as they are.
<1>5. ASSUME stack # <<>>, processed' = processed, NEW p \in {"visit", "apply", "resolve", "declare"}, NEW a \in Nat \ {0},
             stack' = Moved(p, a)
      PROVE  /\ DOMAIN stack' = DOMAIN stack /\ Len(stack') = n /\ n \in DOMAIN stack
             /\ stack'[n] = [schema |-> Current, part |-> p, at |-> a]
             /\ \A i \in DOMAIN stack' : i # n => Stays(i)
             /\ \A u : Finished(u)' => Finished(u)
  <2>1. /\ DOMAIN stack' = DOMAIN stack /\ Len(stack') = n
        /\ stack'[n] = [schema |-> Current, part |-> p, at |-> a]
        /\ \A i \in DOMAIN stack : i # n => stack'[i] = stack[i]
    BY <1>5, MovedCall
  <2>2. \A i \in DOMAIN stack : stack'[i].schema = stack[i].schema
    BY <2>1, <1>4, <1>5
  <2>3. \A u : Finished(u)' => Finished(u)
    BY <2>1, <2>2, <1>5 DEF Finished
  <2> QED
    BY <2>1, <2>3, <1>1, <1>4, <1>5
<1>6. ASSUME stack # <<>>, NEW p, NEW a \in Nat \ {0},
             stack'[n] = [schema |-> Current, part |-> p, at |-> a],
             \/ Top.part = "visit" /\ p = "apply" /\ a = Top.at
             \/ Top.part = "resolve" /\ p = "visit" /\ a = Top.at + 1
             \/ Top.part = "visit" /\ Top.at > Len(Directives) /\ p = "declare" /\ a = 1
      PROVE  Stays(n)
  <2>1. Applied(stack'[n]) \subseteq Applied(Top) /\ Added(stack'[n]) \subseteq Added(Top)
    BY <1>6, PlacesNext
  <2> QED
    BY <2>1, <1>4, <1>6 DEF OnlyOld
<1>7. CASE ProcessSchema
  <2>1. PICK s \in Schema : stack' = <<Called(s)>>
    <3>1. stack' \in Seq(Frame) /\ DOMAIN stack' = {1} /\ stack'[1].part = "visit" /\ stack'[1].at = 1
      BY <1>7, ProcessStep DEF Calls
    <3>2. stack'[1] \in Frame /\ stack'[1].schema \in Schema
      <4>1. stack'[1] \in Frame
        BY <3>1
      <4> QED
        BY <4>1 DEF Frame
    <3>3. Called(stack'[1].schema) = stack'[1]
      BY <3>1, <3>2 DEF Frame, Called
    <3>4. stack' = <<stack'[1]>>
      BY <1>7 DEF ProcessSchema
    <3> QED
      BY <3>2, <3>3, <3>4
  <2>2. \A i \in DOMAIN stack' : stack'[i] = [schema |-> s, part |-> "visit", at |-> 1]
    <3>1. PICK h : h = Called(s)
      OBVIOUS
    <3>2. \A i \in DOMAIN <<h>> : <<h>>[i] = h
      OBVIOUS
    <3> QED
      BY <2>1, <3>1, <3>2 DEF Called
  <2>3. \A i \in DOMAIN stack' : Stays(i)
    BY <2>2, <1>2
  <2> QED
    BY <2>3, <1>7, ProcessStep
<1>8. CASE Visit
  <2>1. stack # <<>> /\ Top.part = "visit" /\ Top.at <= Len(Directives) /\ world' = world /\ order' = order
    BY <1>8 DEF Visit, At
  <2>2. CASE stack' = Moved("apply", Top.at) /\ processed' = processed
    <3>1. Stays(n)
      BY <2>1, <2>2, <1>4, <1>5, <1>6
    <3> QED
      BY <3>1, <2>1, <2>2, <1>4, <1>5
  <2>3. ASSUME NEW b, b = Directives[Top.at].to, b \notin processed, processed' = processed \cup {b},
               stack' = Append(Moved("apply", Top.at), Called(b))
        PROVE  (\A i \in DOMAIN stack' : Stays(i)) /\ \A u : Finished(u)' => Finished(u)
    <3>1. Top.at \in DOMAIN Directives /\ b \in Schema
      <4>1. Top.at \in DOMAIN Directives
        BY <2>1, <1>4, DirectiveTypes DEF Directives, Views
      <4> QED
        BY <4>1, <2>1, <2>3, <1>4, DirectiveTypes DEF Directives, Views
    <3>2. \A u : Finished(u)' <=> Finished(u)
      BY <2>1, <2>3, <3>1, CalledStep
    <3> DEFINE q == Moved("apply", Top.at)
               h == Called(b)
    <3>3. /\ q \in Seq(Frame) /\ Len(q) = n /\ DOMAIN q = DOMAIN stack
          /\ q[n] = [schema |-> Current, part |-> "apply", at |-> Top.at]
          /\ \A i \in DOMAIN stack : i # n => q[i] = stack[i]
      BY <2>1, <1>4, MovedCall
    <3>4. h = [schema |-> b, part |-> "visit", at |-> 1]
      BY DEF Called
    <3> HIDE DEF q, h
    <3>5. /\ DOMAIN Append(q, h) = 1 .. n + 1 /\ DOMAIN q = 1 .. n /\ n \in Nat
          /\ Append(q, h)[n + 1] = h /\ \A i \in 1 .. n : Append(q, h)[i] = q[i]
      BY <3>3
    <3>6. stack' = Append(q, h)
      BY <2>3 DEF q, h
    <3>7. \A i \in DOMAIN stack' : i = n + 1 \/ i \in 1 .. n
      BY <3>5, <3>6
    <3>8. ASSUME NEW i \in DOMAIN stack'
          PROVE  Stays(i)
      <4>1. CASE i = n + 1
        BY <4>1, <3>1, <3>4, <3>5, <3>6, <1>2
      <4>2. CASE i = n
        BY <4>2, <2>1, <3>3, <3>5, <3>6, <1>4, <1>6
      <4>3. CASE i \in 1 .. n /\ i # n
        BY <4>3, <3>3, <3>5, <3>6, <1>1
      <4> QED
        BY <4>1, <4>2, <4>3, <3>7
    <3> QED
      BY <3>2, <3>8
  <2> QED
    BY <1>8, <2>2, <2>3 DEF Visit
<1>9. CASE Redefine
  <2>1. stack # <<>> /\ Top.part = "apply" /\ processed' = processed /\ phase = "work"
    BY <1>9 DEF Redefine, At
  <2>2. CASE phase' = "unknown"
    <3>1. stack' = stack
      BY <1>9, <2>1, <2>2 DEF Redefine
    <3> QED
      BY <3>1, <2>1, <1>3
  <2>3. CASE phase' # "unknown"
    <3>1. stack' = Moved("resolve", Top.at)
      BY <1>9, <2>3 DEF Redefine
    <3>2. stack'[n] = [schema |-> Current, part |-> "resolve", at |-> Top.at]
      BY <3>1, <2>1, <1>4, <1>5
    <3>3. Applied(stack'[n]) \subseteq Applied(Top) \cup {Top.at} /\ Added(stack'[n]) \subseteq Added(Top)
      BY <3>2, <2>1, <1>4, PlacesNext
    <3>4. OnlyOld(n, stack'[n], {Top.at}, {})
      BY <3>2, <3>3, <2>1, <1>4 DEF OnlyOld
    <3> QED
      BY <3>1, <3>2, <3>4, <2>1, <2>3, <1>9, <1>4, <1>5
  <2> QED
    BY <2>2, <2>3
<1>10. CASE \E x \in redo : Resolve(x)
  <2>1. stack' = stack /\ processed' = processed
    BY <1>10 DEF Resolve
  <2> QED
    BY <2>1, <1>3
<1>11. CASE Resolved
  <2>1. /\ stack # <<>> /\ Top.part = "resolve" /\ processed' = processed /\ stack' = Moved("visit", Top.at + 1)
    BY <1>11 DEF Resolved, At
  <2>2. Top.at + 1 \in Nat \ {0}
    BY <2>1, <1>4
  <2>3. Stays(n)
    BY <2>1, <2>2, <1>5, <1>6
  <2> QED
    BY <2>1, <2>2, <2>3, <1>5
<1>12. CASE Imported
  <2>1. /\ stack # <<>> /\ Top.part = "visit" /\ processed' = processed /\ stack' = Moved("declare", 1)
        /\ Top.at > Len(Directives)
    BY <1>12 DEF Imported, At
  <2>2. 1 \in Nat \ {0}
    OBVIOUS
  <2>3. Stays(n)
    BY <2>1, <2>2, <1>5, <1>6
  <2> QED
    BY <2>1, <2>2, <2>3, <1>5
<1>13. CASE Declare
  <2>1. stack # <<>> /\ Top.part = "declare" /\ processed' = processed /\ phase = "work"
    BY <1>13 DEF Declare, At
  <2>2. CASE phase' = "unknown"
    <3>1. stack' = stack
      BY <1>13, <2>1, <2>2 DEF Declare
    <3> QED
      BY <3>1, <2>1, <1>3
  <2>3. CASE phase' # "unknown"
    <3>1. stack' = Moved("declare", Top.at + 1) /\ Top.at + 1 \in Nat \ {0}
      BY <1>13, <2>1, <2>3, <1>4 DEF Declare
    <3>2. stack'[n] = [schema |-> Current, part |-> "declare", at |-> Top.at + 1]
      BY <3>1, <2>1, <1>5
    <3>3. Applied(stack'[n]) \subseteq Applied(Top) /\ Added(stack'[n]) \subseteq Added(Top) \cup {Top.at}
      BY <3>1, <3>2, <2>1, PlacesNext
    <3>4. OnlyOld(n, stack'[n], {}, {Top.at})
      BY <3>2, <3>3, <2>1, <1>4 DEF OnlyOld
    <3> QED
      BY <3>1, <3>4, <2>1, <2>3, <1>13, <1>5
  <2> QED
    BY <2>2, <2>3
<1>14. CASE Return
  <2>1. /\ \A u : Finished(u)' <=> Finished(u) \/ u = Current
        /\ DOMAIN stack' = DOMAIN stack \ {Len(stack)} /\ \A i \in DOMAIN stack' : stack'[i] = stack[i]
    BY <1>14, ReturnStep
  <2>2. \A i \in DOMAIN stack' : Stays(i)
    BY <2>1, <1>1
  <2> QED
    BY <2>1, <2>2, <1>14
<1>15. CASE Finish
  <2>1. stack' = stack /\ processed' = processed
    BY <1>15 DEF Finish
  <2> QED
    BY <2>1, <1>3
<1>16. CASE Terminated \/ UNCHANGED vars
  <2>1. stack' = stack /\ processed' = processed
    BY <1>16 DEF Terminated, vars
  <2> QED
    BY <2>1, <1>3
<1> QED
  BY <1>7, <1>8, <1>9, <1>10, <1>11, <1>12, <1>13, <1>14, <1>15, <1>16 DEF Next, Work

\* Schema s has an entry under the name n.
Given(s, n) == [ns |-> world.ns[s], schema |-> s, name |-> n] \in DOMAIN cache

\* What was applied and added has an entry, and of a finished schema everything has.
Filed ==
  /\ \A i \in DOMAIN stack :
       /\ \A j \in Applied(stack[i]) : \A d \in world.dirs[stack[i].schema][j].decls : Given(stack[i].schema, d.name)
       /\ \A j \in Added(stack[i]) : Given(stack[i].schema, world.decls[stack[i].schema][j].name)
  /\ \A s \in Schema : Finished(s) => \A n \in Declared(world, s) : Given(s, n)

Ended == phase = "done" => stack = <<>> /\ processed = Schema

LEMMA EndedStep ==
  ASSUME Ended, [Next]_vars
  PROVE  Ended'
  BY DEF Ended, Next, Work, vars, Terminated, ProcessSchema, Visit, Redefine, Resolve, Resolved, Imported, Declare,
         Return, Finish, At

LEMMA FiledStep ==
  ASSUME ViewsInv, Filed, [Next]_vars
  PROVE  Filed'
<1>1. Views /\ Calls /\ EntryInv
  BY DEF ViewsInv
<1>2. world' = world /\ Keeps
  BY <1>1, ViewsStep, EntriesStep
<1>3. \A s, n : Given(s, n) => Given(s, n)'
  BY <1>2 DEF Given, Keeps
<1>4. ASSUME NEW i \in DOMAIN stack'
      PROVE  /\ \A j \in Applied(stack'[i]) : \A d \in world.dirs[stack'[i].schema][j].decls :
                  [ns |-> world.ns[stack'[i].schema], schema |-> stack'[i].schema, name |-> d.name] \in DOMAIN cache'
             /\ \A j \in Added(stack'[i]) :
                  [ns |-> world.ns[stack'[i].schema], schema |-> stack'[i].schema,
                   name |-> world.decls[stack'[i].schema][j].name] \in DOMAIN cache'
  <2> DEFINE s == stack'[i].schema
  <2>1. DOMAIN cache \subseteq DOMAIN cache'
    BY <1>2 DEF Keeps
  <2>2. ASSUME i \in DOMAIN stack
        PROVE  /\ \A j \in Applied(stack[i]) : \A d \in world.dirs[stack[i].schema][j].decls :
                    [ns |-> world.ns[stack[i].schema], schema |-> stack[i].schema, name |-> d.name] \in DOMAIN cache'
               /\ \A j \in Added(stack[i]) :
                    [ns |-> world.ns[stack[i].schema], schema |-> stack[i].schema,
                     name |-> world.decls[stack[i].schema][j].name] \in DOMAIN cache'
    BY <2>1, <2>2 DEF Filed, Given
  <2>3. CASE Applied(stack'[i]) = {} /\ Added(stack'[i]) = {}
    BY <2>3
  <2>4. CASE OnlyOld(i, stack'[i], {}, {})
    BY <2>2, <2>4 DEF OnlyOld
  <2>5. CASE /\ Redefine /\ phase' # "unknown" /\ stack # <<>> /\ i = Len(stack) /\ OnlyOld(i, stack'[i], {Top.at}, {})
             /\ stack'[i] = [schema |-> Current, part |-> "resolve", at |-> Top.at]
    <3>1. \A d \in Directives[Top.at].decls : Own(d.name, Current) \in DOMAIN cache'
      BY <2>5, <1>1, RedefineEntries
    <3>2. s = Current
      BY <2>5
    <3>3. \A d \in world.dirs[s][Top.at].decls : [ns |-> world.ns[s], schema |-> s, name |-> d.name] \in DOMAIN cache'
      BY <3>1, <3>2 DEF Own, Directives
    <3> QED
      BY <2>2, <2>5, <3>3 DEF OnlyOld
  <2>6. CASE Declare /\ phase' # "unknown" /\ stack # <<>> /\ i = Len(stack) /\ OnlyOld(i, stack'[i], {}, {Top.at})
    <3>1. Own(Decls[Top.at].name, Current) \in DOMAIN cache'
      BY <2>6, <1>1, DeclareEntries
    <3>2. s = Current
      BY <2>6, <1>1, TopCall DEF OnlyOld
    <3>3. [ns |-> world.ns[s], schema |-> s, name |-> world.decls[s][Top.at].name] \in DOMAIN cache'
      BY <3>1, <3>2 DEF Own, Decls
    <3> QED
      BY <2>2, <2>6, <3>3 DEF OnlyOld
  <2> QED
    BY <1>1, <2>3, <2>4, <2>5, <2>6, PlacesStep
<1>5. ASSUME NEW s \in Schema, Finished(s)', NEW n \in Declared(world, s)
      PROVE  [ns |-> world.ns[s], schema |-> s, name |-> n] \in DOMAIN cache'
  <2>1. CASE Finished(s)
    BY <2>1, <1>2, <1>5 DEF Filed, Given, Keeps
  <2>2. CASE Return /\ s = Current
    <3>1. stack # <<>> /\ Top.part = "declare" /\ Top.at > Len(Decls) /\ cache' = cache
      BY <2>2 DEF Return, At
    <3>2. Len(stack) \in DOMAIN stack /\ Top = stack[Len(stack)] /\ Top.schema = s /\ Top.at \in Nat
      BY <3>1, <2>2, <1>1, TopCall DEF Frame
    <3>3. DOMAIN world.decls[s] = 1 .. Len(world.decls[s]) /\ Len(world.decls[s]) \in Nat
      BY <1>1, DirectiveTypes DEF Views
    <3>4. Applied(Top) = DOMAIN world.dirs[s] /\ Added(Top) = DOMAIN world.decls[s]
      BY <3>1, <3>2, <3>3, <2>2 DEF Applied, Added, Decls
    <3>5. PICK d \in ToSet(world.decls[s]) \cup UNION {world.dirs[s][j].decls : j \in DOMAIN world.dirs[s]} : n = d.name
      BY DEF Declared
    <3>6. CASE d \in ToSet(world.decls[s])
      <4>1. PICK j \in DOMAIN world.decls[s] : d = world.decls[s][j]
        BY <3>6 DEF ToSet
      <4> QED
        BY <4>1, <3>1, <3>2, <3>4, <3>5 DEF Filed, Given
    <3>7. CASE d \in UNION {world.dirs[s][j].decls : j \in DOMAIN world.dirs[s]}
      <4>1. PICK j \in DOMAIN world.dirs[s] : d \in world.dirs[s][j].decls
        BY <3>7
      <4> QED
        BY <4>1, <3>1, <3>2, <3>4, <3>5 DEF Filed, Given
    <3> QED
      BY <3>5, <3>6, <3>7
  <2> QED
    BY <1>1, <1>5, <2>1, <2>2, PlacesStep
<1>6. \A s : Declared(world, s)' = Declared(world, s)
  BY <1>2 DEF Declared
<1> QED
  BY <1>2, <1>4, <1>5, <1>6 DEF Filed, Given, Applied, Added

\* A reference that leads nowhere is to a declaration that was copied from another
\* namespace, or to the base of a redefinition that the schema named has not got.
THEOREM OnlyStrayCopiesEverDangle == Spec => []OnlyStrayCopiesDangle
<1>1. Init => Filed /\ Ended
  <2>1. SUFFICES ASSUME Init
                 PROVE  Filed /\ Ended
    OBVIOUS
  <2>2. DOMAIN stack = {} /\ processed = {} /\ phase = "work"
    BY <2>1 DEF Init
  <2> QED
    BY <2>2 DEF Filed, Ended, Finished
<1>2. ViewsInv /\ Filed /\ Ended /\ [Next]_vars => Filed' /\ Ended'
  BY FiledStep, EndedStep
<1>3. ViewsInv /\ Filed /\ Ended => OnlyStrayCopiesDangle
  <2>1. SUFFICES ASSUME ViewsInv, Filed, Ended, phase = "done",
                        NEW e \in DOMAIN cache, NEW r \in DOMAIN cache[e].deps,
                        NEW d, d = cache[e].deps[r], d \notin DOMAIN cache
                 PROVE  \/ \E c \in DOMAIN cache : c.schema = d.schema /\ c.name = d.name /\ c.ns # d.ns
                        \/ \E s \in Schema : d \in Replaced(s) /\ d.name \notin Declared(world, d.schema)
    BY DEF OnlyStrayCopiesDangle
  <2>2. Entries /\ Leads
    BY <2>1 DEF ViewsInv, EntryInv
  <2>3. d \in Ident /\ d = [ns |-> d.ns, schema |-> d.schema, name |-> d.name] /\ d.schema \in Schema
    BY <2>1, <2>2 DEF Entries, IsEntry, Ident
  <2>4. Finished(d.schema)
    BY <2>1, <2>3 DEF Ended, Finished
  <2>5. CASE d.ns = world.ns[d.schema] /\ d.name \in types[d.schema]
    <3>1. d.name \notin Declared(world, d.schema)
      BY <2>1, <2>3, <2>4, <2>5 DEF Filed, Given
    <3>2. PICK c \in DOMAIN cache : c.schema = d.schema /\ c.name = d.name
      BY <2>2, <2>3, <2>5, <3>1 DEF Entries
    <3>3. c = [ns |-> c.ns, schema |-> c.schema, name |-> c.name]
      BY <2>2 DEF Entries, Ident
    <3> QED
      BY <2>1, <2>3, <3>2, <3>3
  <2>6. CASE \E s \in Schema : d \in Replaced(s)
    <3>1. CASE d.name \in Declared(world, d.schema)
      <4>1. [ns |-> world.ns[d.schema], schema |-> d.schema, name |-> d.name] \in DOMAIN cache
        BY <3>1, <2>1, <2>3, <2>4 DEF Filed, Given
      <4>2. PICK c : c = [ns |-> world.ns[d.schema], schema |-> d.schema, name |-> d.name]
        OBVIOUS
      <4>3. c \in DOMAIN cache /\ c.schema = d.schema /\ c.name = d.name
        BY <4>1, <4>2
      <4>4. c.ns # d.ns
        BY <2>1, <2>3, <4>2, <4>3
      <4> QED
        BY <4>3, <4>4
    <3>2. CASE d.name \notin Declared(world, d.schema)
      BY <3>2, <2>6
    <3> QED
      BY <3>1, <3>2
  <2> QED
    BY <2>1, <2>2, <2>5, <2>6 DEF Leads
<1> QED
  BY <1>1, <1>2, <1>3, AlwaysViewsInv, PTL DEF Spec

\* Of what s sees, nothing that was finished before directive i refers to x any more.
Clean(s, i, x) ==
  /\ \A u \in Before(s, i) : Finished(u)
  /\ \A e \in DOMAIN cache : Visible(s, e) /\ e.schema \in Before(s, i) =>
       \A r \in DOMAIN cache[e].deps : cache[e].deps[r] # x

\* What was replaced is clean, or still to be resolved.
Settled ==
  /\ \A i \in DOMAIN stack : \A j \in Applied(stack[i]) :
       \A s \in {stack[i].schema} : \A x \in ReplacedBy(s, j) :
         \/ Clean(s, j, x)
         \/ i = Len(stack) /\ stack[i].part = "resolve" /\ stack[i].at = j /\ x \in redo
  /\ \A s \in Schema : Finished(s) =>
       \A j \in DOMAIN world.dirs[s] : \A x \in ReplacedBy(s, j) : Clean(s, j, x)

\* Nothing changes of what is finished, and nothing that was hidden comes into sight.
LEMMA SeenBefore ==
  ASSUME ViewsInv, [Next]_vars, NEW s \in Schema, NEW e \in DOMAIN cache', Finished(e.schema), Visible(s, e)'
  PROVE  e \in DOMAIN cache /\ cache'[e] = cache[e] /\ Visible(s, e)
<1>1. Keeps /\ world' = world /\ listing' = listing /\ Views
  BY ViewsStep, EntriesStep DEF ViewsInv
<1>2. listing[s] \in Seq(Schema)
  BY <1>1 DEF Views, Listings
<1>3. PICK i \in 1 .. Len(listing[s]) :
        /\ e = [ns |-> world.ns[listing[s][i]], schema |-> listing[s][i], name |-> e.name]
        /\ e.name \in types'[listing[s][i]]
        /\ \A k \in 1 .. Len(listing[s]) : k < i => e.name \notin types'[listing[s][k]]
  BY <1>1 DEF Visible
<1>4. e.schema = listing[s][i]
  BY <1>3
<1>5. types'[listing[s][i]] = types[listing[s][i]]
  BY <1>1, <1>4 DEF Keeps
<1>6. \A k \in 1 .. Len(listing[s]) : listing[s][k] \in Schema
  BY <1>2
<1>7. \A k \in 1 .. Len(listing[s]) : types[listing[s][k]] \subseteq types'[listing[s][k]]
  BY <1>1, <1>6 DEF Keeps
<1>8. Visible(s, e)
  BY <1>3, <1>5, <1>7 DEF Visible
<1> QED
  BY <1>1, <1>8 DEF Keeps

LEMMA CleanStep ==
  ASSUME ViewsInv, [Next]_vars, NEW s \in Schema, NEW i, NEW x, Clean(s, i, x)
  PROVE  Clean(s, i, x)'
<1>1. world' = world /\ order' = order /\ \A u : Finished(u) => Finished(u)'
  BY ViewsStep, CallsStep DEF ViewsInv
<1>2. Before(s, i)' = Before(s, i)
  BY <1>1 DEF Before
<1>3. ASSUME NEW e \in DOMAIN cache', Visible(s, e)', e.schema \in Before(s, i)
      PROVE  \A r \in DOMAIN cache'[e].deps : cache'[e].deps[r] # x
  <2>1. e \in DOMAIN cache /\ cache'[e] = cache[e] /\ Visible(s, e)
    BY <1>3, SeenBefore DEF Clean
  <2> QED
    BY <2>1, <1>3 DEF Clean
<1>4. \A u \in Before(s, i) : Finished(u)'
  BY <1>1 DEF Clean
<1> QED
  BY <1>2, <1>3, <1>4 DEF Clean

\* What the directives up to the one in work lead to is finished, unless it leads back
\* to the current schema.
LEMMA BeforeFinished ==
  ASSUME Views, Calls, stack # <<>>, Top.part = "resolve"
  PROVE  \A u \in Before(Current, Top.at) : Finished(u)
<1> DEFINE s == Current
           n == Len(stack)
<1>1. /\ s \in Schema /\ n \in DOMAIN stack /\ Top = stack[n] /\ Top.schema = s /\ Top.at \in Nat
      /\ \A i \in DOMAIN stack : i <= n /\ i \in Nat /\ n \in Nat
  BY TopCall DEF Frame
<1>2. /\ Top.at \in DOMAIN world.dirs[s]
      /\ \A j \in Visited(Top) : world.dirs[s][j].to \in processed
  BY <1>1 DEF Calls
<1>3. SUFFICES ASSUME NEW j \in 1 .. Top.at, ~ Contains(order[world.dirs[s][j].to], s)
               PROVE  \A u \in Lead(world.dirs[s][j].to) : Finished(u)
  BY DEF Before, Lead
<1>4. DOMAIN world.dirs[s] = 1 .. Len(world.dirs[s]) /\ Len(world.dirs[s]) \in Nat
  BY <1>1, DirectiveTypes DEF Views
<1> DEFINE v == world.dirs[s][j].to
<1>5. v \in processed /\ v \in Schema /\ s \notin Lead(v)
  <2>1. j \in Visited(Top)
    BY <1>1, <1>2, <1>3, <1>4 DEF Visited
  <2>2. v \in processed /\ v \in Schema
    BY <2>1, <1>2 DEF Calls
  <2>3. order[v] \in Seq(Schema)
    BY <2>2 DEF Views
  <2> QED
    BY <2>2, <2>3, <1>3, Elements DEF Lead
<1> HIDE DEF v
\* What was processed below v has returned, since the calls that have not lead to s.
<1>6. ASSUME NEW w \in Lead(v) \cap processed
      PROVE  Finished(w)
  <2>1. w \in Schema /\ s \notin Lead(w)
    BY <1>5, <1>6 DEF Views, Calls
  <2>2. ASSUME NEW i \in DOMAIN stack, stack[i].schema = w
        PROVE  FALSE
    <3>1. CASE i = n
      BY <3>1, <2>1, <2>2, <1>1 DEF Views
    <3>2. CASE i # n
      <4>1. i < n
        BY <3>2, <1>1
      <4> QED
        BY <4>1, <2>1, <2>2, <1>1 DEF Calls
    <3> QED
      BY <3>1, <3>2
  <2> QED
    BY <2>2 DEF Finished
<1> DEFINE P == {w \in Lead(v) : Finished(w)}
<1>7. P \in SUBSET Schema /\ v \in P
  BY <1>5, <1>6 DEF Views, Finished, Calls
<1>8. ASSUME NEW w \in P, NEW i \in DOMAIN world.dirs[w]
      PROVE  world.dirs[w][i].to \in P
  <2>1. w \in Schema /\ w \in processed /\ Finished(w)
    BY <1>7 DEF Finished
  <2>2. world.dirs[w][i].to \in processed
    BY <2>1 DEF Calls
  <2>3. world.dirs[w][i].to \in Lead(v)
    BY <2>1, <1>5 DEF Views
  <2> QED
    BY <2>2, <2>3, <1>6
<1>9. Lead(v) \subseteq P
  BY <1>5, <1>7, <1>8 DEF Views
<1> QED
  BY <1>9 DEF v

\* A round leaves nothing to be redirected in what was finished: what refers to x
\* is copied, and the copy hides it.
LEMMA ResolvedClean ==
  ASSUME ViewsInv, [Next]_vars, NEW x \in redo, Resolve(x), NEW s, s = Current, NEW k, k = Top.at,
         x \in ReplacedBy(s, k)
  PROVE  Clean(s, k, x)'
<1>1. Views /\ Calls /\ EntryInv /\ Entries /\ Bases /\ Rest
  BY DEF ViewsInv, EntryInv
<1>2. /\ stack # <<>> /\ Top.part = "resolve" /\ world' = world /\ order' = order /\ listing' = listing /\ stack' = stack /\ processed' = processed
      /\ x \in Ident
      /\ types' = [types EXCEPT ![s] = @ \cup {e.name : e \in Foreign(x)}]
  <2>1. listing' = listing
    BY <1>1, ViewsStep
  <2> QED
    BY <1>1, <2>1, ResolveWrites
<1>3. s \in Schema /\ k \in DOMAIN world.dirs[s] /\ ~ Finished(s)
  <2>1. Len(stack) \in DOMAIN stack /\ Top = stack[Len(stack)] /\ Top.schema = s /\ s \in Schema /\ ~ Finished(s)
    BY <1>1, <1>2, TopCall
  <2> QED
    BY <2>1, <1>1, <1>2 DEF Calls
<1>4. x.name \in Declared(world, s)
  <2>1. PICK d \in world.dirs[s][k].decls :
          x = [ns |-> world.ns[s], schema |-> world.dirs[s][k].to, name |-> d.name]
    BY DEF ReplacedBy
  <2>2. x.name = d.name /\ x.schema = world.dirs[s][k].to
    BY <2>1
  <2> QED
    BY <2>2, <1>3 DEF Declared
<1>5. listing[s] \in Seq(Schema) /\ listing[s][1] = s /\ 1 \in 1 .. Len(listing[s])
  <2>1. listing[s] \in Seq(Schema) /\ listing[s] # <<>> /\ listing[s][1] = s
    BY <1>1, <1>3 DEF Views, Listings
  <2> QED
    BY <2>1
<1>6. Before(s, k)' = Before(s, k)
  BY <1>2 DEF Before
<1>7. \A u \in Before(s, k) : Finished(u)
  BY <1>1, <1>2, BeforeFinished
<1>8. s \notin Before(s, k)
  BY <1>3, <1>7
<1>9. ASSUME NEW e \in DOMAIN cache', Visible(s, e)', e.schema \in Before(s, k),
             NEW r \in DOMAIN cache'[e].deps, cache'[e].deps[r] = x
      PROVE  FALSE
  <2>1. e \in DOMAIN cache /\ cache'[e] = cache[e] /\ Visible(s, e) /\ e.schema # s
    BY <1>3, <1>7, <1>8, <1>9, SeenBefore
  \* Nothing of this name is listed before e, so e is not named as s names something.
  <2>2. e.name \notin types'[s]
    <3>1. PICK i \in 1 .. Len(listing[s]) :
            /\ e = [ns |-> world.ns[listing[s][i]], schema |-> listing[s][i], name |-> e.name]
            /\ \A j \in 1 .. Len(listing[s]) : j < i => e.name \notin types'[listing[s][j]]
      BY <1>2, <1>9 DEF Visible
    <3>2. e.schema = listing[s][i]
      BY <3>1
    <3>3. 1 < i
      <4>1. i # 1
        BY <3>2, <2>1, <1>5
      <4> QED
        BY <4>1, <1>5
    <3> QED
      BY <3>1, <3>3, <1>5
  <2>3. types[s] \subseteq types'[s] /\ \A o \in Foreign(x) : o.name \in types'[s]
    BY <1>1, <1>2, <1>3 DEF Entries
  <2>4. cache[e].base # x
    <3>1. SUFFICES ASSUME cache[e].base = x
                   PROVE  FALSE
      OBVIOUS
    <3>2. x # NoIdent
      BY <1>2, NoIdentAssumption
    <3>3. x.name = e.name
      BY <3>1, <3>2, <2>1, <1>1 DEF Bases
    <3>4. x.name \in types[s]
      BY <1>1, <1>3, <1>4 DEF Entries
    <3> QED
      BY <3>3, <3>4, <2>2, <2>3
  <2>5. e \in SchemaSet(s)
    BY <2>1, <1>1, <1>3, SchemaSetVisible
  <2>6. e \in Foreign(x)
    BY <2>1, <2>4, <2>5, <1>9 DEF Foreign, Referring
  <2> QED
    BY <2>2, <2>3, <2>6
<1>10. \A u \in Before(s, k) : Finished(u)'
  BY <1>2, <1>7 DEF Finished
<1> QED
  BY <1>6, <1>9, <1>10 DEF Clean

LEMMA SettledStep ==
  ASSUME ViewsInv, Settled, [Next]_vars
  PROVE  Settled'
<1>1. Views /\ Calls /\ EntryInv
  BY DEF ViewsInv
<1>2. world' = world
  BY <1>1, ViewsStep
<1>3. \A s \in Schema : \A i, x : Clean(s, i, x) => Clean(s, i, x)'
  BY CleanStep
<1>4. ASSUME NEW i \in DOMAIN stack, stack[i].schema \in Schema, NEW j \in Applied(stack[i]),
             NEW x \in ReplacedBy(stack[i].schema, j), NEW s, s = stack[i].schema,
             i \in DOMAIN stack', stack'[i].schema = s
      PROVE  \/ Clean(s, j, x)'
             \/ i = Len(stack)' /\ stack'[i].part = "resolve" /\ stack'[i].at = j /\ x \in redo'
  <2>1. CASE Clean(s, j, x)
    BY <2>1, <1>3, <1>4
  <2>2. CASE i = Len(stack) /\ stack[i].part = "resolve" /\ stack[i].at = j /\ x \in redo
    <3>1. Top = stack[i] /\ Top.part = "resolve" /\ Top.at = j /\ Current = s
      BY <2>2, <1>4 DEF Top, Current
    <3>2. CASE \E y \in redo : Resolve(y)
      <4>1. PICK y \in redo : Resolve(y)
        BY <3>2
      <4>2. CASE y = x
        <5>1. x \in ReplacedBy(s, j) /\ Resolve(x) /\ x \in redo
          BY <4>1, <4>2, <3>1, <2>2, <1>4
        <5> QED
          BY <5>1, <3>1, ResolvedClean
      <4>3. CASE y # x
        <5>1. x \in redo' /\ stack' = stack
          BY <4>1, <4>3, <2>2 DEF Resolve
        <5> QED
          BY <5>1, <2>2
      <4> QED
        BY <4>2, <4>3
    <3>3. CASE Resolved
      BY <3>3, <2>2 DEF Resolved
    <3>4. CASE Terminated \/ UNCHANGED vars
      <4>1. stack' = stack /\ redo' = redo
        BY <3>4 DEF Terminated, vars
      <4> QED
        BY <4>1, <2>2
    <3>5. stack # <<>>
      BY <1>4
    <3> QED
      BY <3>1, <3>2, <3>3, <3>4, <3>5
      DEF Next, Work, At, ProcessSchema, Visit, Redefine, Imported, Declare, Return, Finish
  <2> QED
    BY <2>1, <2>2, <1>4 DEF Settled
<1>5. ASSUME NEW i \in DOMAIN stack', NEW j \in Applied(stack'[i]), NEW s, s = stack'[i].schema,
             NEW x \in ReplacedBy(s, j)
      PROVE  \/ Clean(s, j, x)'
             \/ i = Len(stack)' /\ stack'[i].part = "resolve" /\ stack'[i].at = j /\ x \in redo'
  <2>1. CASE i \in DOMAIN stack /\ s = stack[i].schema /\ j \in Applied(stack[i])
    <3>1. stack[i].schema \in Schema
      BY <2>1, <1>1 DEF Calls
    <3> QED
      BY <2>1, <3>1, <1>4, <1>5
  <2>2. CASE /\ Redefine /\ phase' # "unknown" /\ stack # <<>> /\ i = Len(stack) /\ Len(stack') = Len(stack)
             /\ j = Top.at /\ stack'[i] = [schema |-> Current, part |-> "resolve", at |-> Top.at]
    <3>1. s = Current /\ stack'[i].part = "resolve" /\ stack'[i].at = j
      BY <2>2, <1>5
    <3>2. redo' = {Own(d.name, Directives[Top.at].to) : d \in Directives[Top.at].decls}
      BY <2>2, <1>1, RedefineEntries
    <3>3. x \in redo'
      BY <3>1, <3>2, <2>2, <1>5 DEF ReplacedBy, Own, Directives
    <3> QED
      BY <3>1, <3>3, <2>2
  <2> QED
    BY <1>1, <1>5, <2>1, <2>2, PlacesStep DEF OnlyOld
<1>6. \A s, j : ReplacedBy(s, j)' = ReplacedBy(s, j)
  BY <1>2 DEF ReplacedBy
<1>7. ASSUME NEW s \in Schema, Finished(s)', NEW j \in DOMAIN world.dirs[s], NEW x \in ReplacedBy(s, j)
      PROVE  Clean(s, j, x)'
  <2>1. CASE Finished(s)
    BY <2>1, <1>3, <1>7 DEF Settled
  <2>2. CASE Return /\ s = Current
    <3>1. stack # <<>> /\ Top.part = "declare"
      BY <2>2 DEF Return, At
    <3>2. Len(stack) \in DOMAIN stack /\ Top = stack[Len(stack)] /\ Top.schema = s
      BY <3>1, <2>2, <1>1, TopCall
    <3>3. Applied(Top) = DOMAIN world.dirs[s]
      BY <3>1, <3>2 DEF Applied
    <3>4. Clean(s, j, x)
      BY <3>1, <3>2, <3>3 DEF Settled
    <3> QED
      BY <3>4, <1>3
  <2> QED
    BY <1>1, <1>7, <2>1, <2>2, PlacesStep
<1> QED
  BY <1>2, <1>5, <1>6, <1>7 DEF Settled, Applied

\* When all is done, what a schema sees refers to what it replaced only if it is of a
\* schema that was not processed first, or if something else of its name is listed first.
THEOREM OnlyLateOrHiddenEverStale == Spec => []OnlyLateOrHiddenStale
<1>1. Init => Settled /\ Ended
  <2>1. SUFFICES ASSUME Init
                 PROVE  Settled /\ Ended
    OBVIOUS
  <2>2. DOMAIN stack = {} /\ processed = {} /\ phase = "work"
    BY <2>1 DEF Init
  <2> QED
    BY <2>2 DEF Settled, Ended, Finished
<1>2. ViewsInv /\ Settled /\ Ended /\ [Next]_vars => Settled' /\ Ended'
  BY SettledStep, EndedStep
<1>3. ViewsInv /\ Settled /\ Ended => OnlyLateOrHiddenStale
  <2>1. SUFFICES ASSUME ViewsInv, Settled, Ended, phase = "done",
                        NEW s \in Schema, NEW e \in Seen(s), NEW i \in DOMAIN world.dirs[s],
                        NEW x \in ReplacedBy(s, i), Stale(s, e, x),
                        e.schema \in Before(s, i), e \in SchemaSet(s)
                 PROVE  FALSE
    BY DEF OnlyLateOrHiddenStale
  <2>2. Finished(s)
    BY <2>1 DEF Ended, Finished
  <2>3. Clean(s, i, x)
    BY <2>1, <2>2 DEF Settled
  <2>4. e \in DOMAIN cache
    BY <2>1 DEF Seen
  <2>5. Visible(s, e)
    BY <2>1, SchemaSetVisible DEF ViewsInv
  <2> QED
    BY <2>1, <2>3, <2>4, <2>5 DEF Clean, Stale
<1> QED
  BY <1>1, <1>2, <1>3, AlwaysViewsInv, PTL DEF Spec

=============================================================================
