------------------------ MODULE SubstitutionsProofs ------------------------
(***************************************************************************)
(* Proofs about the Substitutions for every set of declarations: the       *)
(* members a head ends up with are the elements that lead to it, in        *)
(* whatever order they are declared, and the names of these differ but for *)
(* the known deviations.                                                   *)
(***************************************************************************)
EXTENDS Substitutions, NodeListProofs, FiniteSetTheorems

Self(x) == Id(x, "self")
TypeIds == [of : Ident, as : {"self", "type", "nillable", "dynamic"}]

LEMMA IdsDiffer ==
  ASSUME NEW x, NEW y, NEW a, NEW b
  PROVE  Id(x, a) = Id(y, b) <=> x = y /\ a = b
  BY DEF Id

-----------------------------------------------------------------------------
(* The heads an element names.                                             *)

\* What is found in the first k references, for each k, is defined.
LEMMA HeadSteps ==
  ASSUME NEW refs \in Seq(Ref)
  PROVE  \E first :
           /\ Heads(refs) = first[Len(refs)]
           /\ first[0] = <<>>
           /\ \A k \in 1 .. Len(refs) :
                first[k] = IF refs[k].kind = "strong" /\ refs[k].to \in Elements
                           THEN Append(first[k - 1], refs[k].to) ELSE first[k - 1]
<1> DEFINE Next1(k, s) == IF refs[k].kind = "strong" /\ refs[k].to \in Elements
                          THEN Append(s, refs[k].to) ELSE s
           Fits(f, m) == f = [k \in 0 .. m |->
                          IF k = 0 THEN <<>>
                          ELSE IF refs[k].kind = "strong" /\ refs[k].to \in Elements THEN Append(f[k - 1], refs[k].to)
                          ELSE f[k - 1]]
<1>0. \A f, m : Fits(f, m) <=> f = [k \in 0 .. m |-> IF k = 0 THEN <<>> ELSE Next1(k, f[k - 1])]
  OBVIOUS
<1> HIDE DEF Next1, Fits
<1>1. \E f : Fits(f, 0)
  <2> DEFINE g == [k \in 0 .. 0 |-> <<>>]
  <2>1. g = [k \in 0 .. 0 |-> IF k = 0 THEN <<>> ELSE Next1(k, g[k - 1])]
    OBVIOUS
  <2> HIDE DEF g
  <2>2. Fits(g, 0)
    BY <1>0, <2>1
  <2> QED
    BY <2>2
<1>2. ASSUME NEW m \in Nat, \E f : Fits(f, m)
      PROVE  \E f : Fits(f, m + 1)
  <2>1. PICK f : Fits(f, m)
    BY <1>2
  <2> DEFINE g == [k \in 0 .. m + 1 |-> IF k <= m THEN f[k] ELSE Next1(k, f[m])]
  <2>2. \A k \in 0 .. m : f[k] = IF k = 0 THEN <<>> ELSE Next1(k, f[k - 1])
    <3>1. f = [k \in 0 .. m |-> IF k = 0 THEN <<>> ELSE Next1(k, f[k - 1])]
      BY <1>0, <2>1
    <3> QED
      BY <3>1
  <2>3. ASSUME NEW k \in 0 .. m + 1
        PROVE  g[k] = IF k = 0 THEN <<>> ELSE Next1(k, g[k - 1])
    <3>1. CASE k = 0
      BY <3>1, <2>2
    <3>2. CASE k # 0 /\ k <= m
      <4>1. k \in 0 .. m /\ k - 1 \in 0 .. m + 1 /\ k - 1 <= m
        BY <3>2
      <4>2. g[k] = f[k] /\ g[k - 1] = f[k - 1]
        BY <3>2, <4>1
      <4> QED
        BY <4>1, <4>2, <2>2, <3>2
    <3>3. CASE k = m + 1
      BY <3>3
    <3> QED
      BY <3>1, <3>2, <3>3
  <2>4. g = [k \in 0 .. m + 1 |-> IF k = 0 THEN <<>> ELSE Next1(k, g[k - 1])]
    BY <2>3
  <2> HIDE DEF g
  <2>5. Fits(g, m + 1)
    BY <1>0, <2>4
  <2> QED
    BY <2>5
<1>3. \A m \in Nat : \E f : Fits(f, m)
  <2> DEFINE Bad == {m \in Nat : ~ \E f : Fits(f, m)}
  <2>1. SUFFICES ASSUME Bad # {}
                 PROVE  FALSE
    OBVIOUS
  <2>2. PICK m \in Bad : \A k \in Bad : m <= k
    BY <2>1, LeastNumber
  <2>3. m # 0 /\ m - 1 \in Nat /\ m - 1 \notin Bad
    BY <2>2, <1>1
  <2>4. m = (m - 1) + 1
    BY <2>2
  <2> QED
    BY <2>2, <2>3, <2>4, <1>2
<1>4. Len(refs) \in Nat
  OBVIOUS
<1> DEFINE first == CHOOSE f : Fits(f, Len(refs))
<1>5. Heads(refs) = first[Len(refs)]
  BY DEF Heads, Fits
<1>6. Fits(first, Len(refs))
  BY <1>3, <1>4
<1> HIDE DEF first
<1>7. \A k \in 0 .. Len(refs) : first[k] = IF k = 0 THEN <<>> ELSE Next1(k, first[k - 1])
  <2>1. first = [k \in 0 .. Len(refs) |-> IF k = 0 THEN <<>> ELSE Next1(k, first[k - 1])]
    BY <1>0, <1>6
  <2> QED
    BY <2>1
<1>8. first[0] = <<>> /\ \A k \in 1 .. Len(refs) : first[k] = Next1(k, first[k - 1])
  BY <1>4, <1>7
<1> QED
  BY <1>5, <1>8 DEF Next1

\* What is in a sequence with one more member, and in two of them.
LEMMA AppendSet ==
  ASSUME NEW S, NEW s \in Seq(S), NEW x \in S
  PROVE  Append(s, x) \in Seq(S) /\ ToSet(Append(s, x)) = ToSet(s) \cup {x}
<1> DEFINE n == Len(s)
<1>1. /\ n \in Nat /\ DOMAIN s = 1 .. n /\ Append(s, x) \in Seq(S)
      /\ DOMAIN Append(s, x) = 1 .. n + 1
      /\ \A i \in 1 .. n : Append(s, x)[i] = s[i]
      /\ Append(s, x)[n + 1] = x
  OBVIOUS
<1>2. PICK a : a = Append(s, x)
  OBVIOUS
<1>3. n + 1 \in 1 .. n + 1 /\ 1 .. n \subseteq 1 .. n + 1 /\ \A i \in 1 .. n + 1 : i \in 1 .. n \/ i = n + 1
  BY <1>1
<1> HIDE DEF n
<1>4. {a[i] : i \in 1 .. n + 1} = {s[i] : i \in 1 .. n} \cup {x}
  BY <1>1, <1>2, <1>3
<1> QED
  BY <1>1, <1>2, <1>4 DEF ToSet

LEMMA ConcatSet ==
  ASSUME NEW S, NEW s \in Seq(S), NEW t \in Seq(S)
  PROVE  s \o t \in Seq(S) /\ ToSet(s \o t) = ToSet(s) \cup ToSet(t)
<1> DEFINE m == Len(s)
           n == Len(t)
<1>1. /\ m \in Nat /\ DOMAIN s = 1 .. m /\ n \in Nat /\ DOMAIN t = 1 .. n /\ s \o t \in Seq(S)
      /\ DOMAIN (s \o t) = 1 .. m + n
      /\ \A i \in 1 .. m : (s \o t)[i] = s[i]
      /\ \A i \in m + 1 .. m + n : (s \o t)[i] = t[i - m]
  OBVIOUS
<1>2. PICK a : a = s \o t
  OBVIOUS
<1> HIDE DEF m, n
<1>3. \A i \in 1 .. m + n : i \in 1 .. m \/ (i \in m + 1 .. m + n /\ i - m \in 1 .. n)
  BY <1>1
<1>4. \A i \in 1 .. m : i \in 1 .. m + n
  BY <1>1
<1>5. \A i \in 1 .. n : i + m \in m + 1 .. m + n /\ i + m \in 1 .. m + n /\ (i + m) - m = i
  BY <1>1
<1>6. \A i \in 1 .. m + n : a[i] \in {s[k] : k \in 1 .. m} \cup {t[k] : k \in 1 .. n}
  BY <1>1, <1>2, <1>3
<1>7. \A i \in 1 .. m : s[i] \in {a[k] : k \in 1 .. m + n}
  BY <1>1, <1>2, <1>4
<1>8. \A i \in 1 .. n : t[i] \in {a[k] : k \in 1 .. m + n}
  <2>1. \A i \in 1 .. n : a[i + m] = t[i]
    BY <1>1, <1>2, <1>5
  <2> QED
    BY <1>5, <2>1
<1>9. {a[i] : i \in 1 .. m + n} = {s[k] : k \in 1 .. m} \cup {t[k] : k \in 1 .. n}
  BY <1>6, <1>7, <1>8
<1> QED
  BY <1>1, <1>2, <1>9 DEF ToSet

\* The heads are elements, and bases.
LEMMA HeadsFound ==
  ASSUME NEW refs \in Seq(Ref)
  PROVE  Heads(refs) \in Seq(Elements) /\ ToSet(Heads(refs)) \subseteq Bases(refs)
<1>1. PICK first :
        /\ Heads(refs) = first[Len(refs)]
        /\ first[0] = <<>>
        /\ \A k \in 1 .. Len(refs) :
             first[k] = IF refs[k].kind = "strong" /\ refs[k].to \in Elements
                        THEN Append(first[k - 1], refs[k].to) ELSE first[k - 1]
  BY HeadSteps
<1> DEFINE Good(s) == s \in Seq(Elements) /\ ToSet(s) \subseteq Bases(refs)
           Bad == {k \in 0 .. Len(refs) : ~ Good(first[k])}
<1>2. Len(refs) \in Nat /\ DOMAIN refs = 1 .. Len(refs)
  OBVIOUS
<1>3. Good(<<>>)
  BY DEF ToSet
<1>4. ASSUME NEW s, Good(s), NEW k \in 1 .. Len(refs), refs[k].kind = "strong" /\ refs[k].to \in Elements
      PROVE  Good(Append(s, refs[k].to))
  <2>1. refs[k].to \in Bases(refs)
    BY <1>2, <1>4 DEF Bases
  <2>2. Append(s, refs[k].to) \in Seq(Elements) /\ ToSet(Append(s, refs[k].to)) = ToSet(s) \cup {refs[k].to}
    BY <1>4, AppendSet
  <2> QED
    BY <1>4, <2>1, <2>2
<1>5. Bad = {}
  <2>1. SUFFICES ASSUME Bad # {}
                 PROVE  FALSE
    OBVIOUS
  <2>2. PICK k \in Bad : \A j \in Bad : k <= j
    <3>1. Bad \in SUBSET Nat
      BY <1>2
    <3> HIDE DEF Bad
    <3> QED
      BY <2>1, <3>1, LeastNumber
  <2> HIDE DEF Good
  <2>3. k \in 1 .. Len(refs) /\ k - 1 \in 0 .. Len(refs) /\ k - 1 \notin Bad
    BY <1>1, <1>2, <1>3, <2>2
  <2>4. Good(first[k - 1])
    BY <2>3
  <2>5. Good(first[k])
    BY <1>1, <1>4, <2>3, <2>4
  <2> QED
    BY <2>2, <2>5
<1>6. Good(first[Len(refs)])
  BY <1>2, <1>5
<1> QED
  BY <1>1, <1>6

-----------------------------------------------------------------------------
(* All heads of an element.                                                *)

GroupsTyped == \A x \in DOMAIN groups : groups[x] \in Seq(Elements)

Named(x) == IF x \in DOMAIN groups THEN ToSet(groups[x]) ELSE {}
HeadClosed(x, S) == S \in SUBSET Elements /\ Named(x) \subseteq S /\ \A y \in S : Named(y) \subseteq S

\* A head, with all its heads.
Upwards(g) == {g} \cup AllHeads(g)

LEMMA NamedTyped ==
  ASSUME GroupsTyped
  PROVE  \A x : Named(x) \subseteq Elements
<1>1. \A x \in DOMAIN groups : ToSet(groups[x]) \subseteq Elements
  BY DEF GroupsTyped, ToSet
<1> QED
  BY <1>1 DEF Named

\* All heads are the least set that is closed.
LEMMA LeastHeads ==
  ASSUME GroupsTyped, NEW x \in Elements
  PROVE  HeadClosed(x, AllHeads(x)) /\ \A S : HeadClosed(x, S) => AllHeads(x) \subseteq S
<1> DEFINE named == [y \in Elements |-> IF y \in DOMAIN groups THEN ToSet(groups[y]) ELSE {}]
           Closed == {S \in SUBSET Elements : named[x] \subseteq S /\ \A y \in S : named[y] \subseteq S}
           Least == {y \in Elements : \A S \in Closed : y \in S}
<1>1. AllHeads(x) = CHOOSE S \in Closed : \A R \in Closed : S \subseteq R
  BY DEF AllHeads
<1>2. \A y \in Elements : named[y] = Named(y)
  BY DEF Named
<1>3. \A S : S \in Closed <=> HeadClosed(x, S)
  BY <1>2 DEF HeadClosed
<1> HIDE DEF named
<1>4. Least \in Closed
  <2>1. \A y \in Elements : named[y] \subseteq Elements
    BY <1>2, NamedTyped
  <2> QED
    BY <2>1
<1>5. \A R \in Closed : Least \subseteq R
  OBVIOUS
<1>6. AllHeads(x) \in Closed /\ \A R \in Closed : AllHeads(x) \subseteq R
  <2> HIDE DEF Closed, Least
  <2> QED
    BY <1>1, <1>4, <1>5
<1> QED
  BY <1>3, <1>6

\* All heads of an element are those it names, with all their heads.
LEMMA HeadsUnfold ==
  ASSUME GroupsTyped, NEW x \in Elements
  PROVE  AllHeads(x) = UNION {Upwards(g) : g \in Named(x)}
<1> DEFINE U == UNION {Upwards(g) : g \in Named(x)}
<1>1. /\ Named(x) \subseteq Elements
      /\ \A g \in Elements : HeadClosed(g, AllHeads(g))
      /\ \A g \in Elements : \A S : HeadClosed(g, S) => AllHeads(g) \subseteq S
  BY NamedTyped, LeastHeads
<1>2. U \subseteq AllHeads(x)
  <2>1. ASSUME NEW g \in Named(x)
        PROVE  Upwards(g) \subseteq AllHeads(x)
    <3>1. g \in AllHeads(x) /\ HeadClosed(g, AllHeads(x)) /\ g \in Elements
      BY <1>1 DEF HeadClosed
    <3> QED
      BY <1>1, <3>1 DEF Upwards
  <2> QED
    BY <2>1
<1>3. HeadClosed(x, U)
  <2>1. \A g \in Named(x) : Upwards(g) \subseteq Elements /\ \A y \in Upwards(g) : Named(y) \subseteq Upwards(g)
    BY <1>1 DEF Upwards, HeadClosed
  <2>2. \A g \in Named(x) : g \in Upwards(g)
    BY DEF Upwards
  <2> QED
    BY <2>1, <2>2 DEF HeadClosed
<1> QED
  BY <1>1, <1>2, <1>3
-----------------------------------------------------------------------------
(* The names of the members of a type.                                     *)

SettingTyped == \A x \in Ident : setting.ns[x] \in DOMAIN Prefix /\ setting.name[x] \in Seq(STRING)

\* A name with a prefix is longer, and two prefixes do not make one name.
LEMMA PrefixedDiffer ==
  ASSUME NEW n \in Seq(STRING), NEW p, NEW q
  PROVE  <<p>> \o n # n /\ (<<p>> \o n = <<q>> \o n => p = q)
<1>1. <<p>> \in Seq({p, q} \cup STRING) /\ <<q>> \in Seq({p, q} \cup STRING) /\ n \in Seq({p, q} \cup STRING)
  OBVIOUS
<1>2. Len(<<p>> \o n) = 1 + Len(n) /\ Len(n) \in Nat
  BY <1>1
<1>3. (<<p>> \o n)[1] = p /\ (<<q>> \o n)[1] = q
  BY <1>1
<1> QED
  BY <1>2, <1>3

\* Of some indices before j one is the last.
LEMMA LastBefore ==
  ASSUME NEW j \in Nat, NEW T \in SUBSET (1 .. j - 1), T # {}
  PROVE  Max(T) \in T
<1> DEFINE D == {j - i : i \in T}
<1>1. D \in SUBSET Nat /\ D # {}
  OBVIOUS
<1>2. PICK n \in D : \A m \in D : n <= m
  BY <1>1, LeastNumber
<1>3. PICK i \in T : n = j - i
  OBVIOUS
<1>4. \A k \in T : n <= j - k
  BY <1>2
<1>5. \A k \in T : i >= k
  BY <1>3, <1>4
<1>6. \E m \in T : \A k \in T : m >= k
  BY <1>5
<1> QED
  BY <1>6 DEF Max

\* What is not one of two indices makes three.
LEMMA ThreeAlike ==
  ASSUME NEW n \in Nat, NEW S \in SUBSET (1 .. n), NEW i \in S, NEW j \in S, NEW k \in S,
         i # j, k # i, k # j
  PROVE  Cardinality(S) > 2
<1>1. IsFiniteSet({}) /\ Cardinality({}) = 0
  BY FS_EmptySet
<1>2. IsFiniteSet({i}) /\ Cardinality({i}) = 1
  BY FS_Singleton
<1>3. IsFiniteSet({i} \cup {j}) /\ Cardinality({i} \cup {j}) = 2
  BY <1>2, FS_AddElement
<1>4. Cardinality(({i} \cup {j}) \cup {k}) = 3
  BY <1>3, FS_AddElement
<1>5. IsFiniteSet(1 .. n)
  BY FS_Interval
<1>6. IsFiniteSet(S)
  BY <1>5, FS_Subset
<1>7. (({i} \cup {j}) \cup {k}) \subseteq S
  OBVIOUS
<1>8. Cardinality(({i} \cup {j}) \cup {k}) <= Cardinality(S) /\ Cardinality(S) \in Nat
  BY <1>6, <1>7, FS_Subset, FS_CardinalityType
<1> QED
  BY <1>4, <1>8

\* Two members with the name of one element have different names, unless it is one of
\* the deviations.
LEMMA LaterNamed ==
  ASSUME SettingTyped, NEW ms \in Seq(TypeIds), NEW i \in DOMAIN ms, NEW j \in DOMAIN ms, i < j,
         Alike(ms[i], ms[j]), DisplayName(ms, i) = DisplayName(ms, j),
         NEW same, same = {k \in DOMAIN ms : Name(ms[k]) = Name(ms[i])}
  PROVE  \/ Cardinality(same) > 2 /\ \E k, l \in same : k # l /\ Ns(ms[k]) = Ns(ms[l])
         \/ Ns(ms[i]) # Ns(ms[j]) /\ Prefix[Ns(ms[i])] = NoPrefix /\ Prefix[Ns(ms[j])] = NoPrefix
<1> DEFINE Before(k) == {l \in 1 .. k - 1 : Alike(ms[l], ms[k])}
           Renamed(k) == \E l \in k + 1 .. Len(ms) : Alike(ms[k], ms[l]) /\ Ns(ms[k]) # Ns(ms[l])
<1>1. DOMAIN ms = 1 .. Len(ms) /\ Len(ms) \in Nat
  OBVIOUS
<1>2. \A k \in DOMAIN ms : /\ Ns(ms[k]) \in DOMAIN Prefix
                           /\ Name(ms[k]) \in Seq(STRING)
  <2>1. \A k \in DOMAIN ms : ms[k].of \in Ident
    <3>1. \A k \in DOMAIN ms : ms[k] \in TypeIds
      OBVIOUS
    <3> QED
      BY <3>1 DEF TypeIds
  <2> QED
    BY <2>1 DEF SettingTyped, Ns, Name
<1>3. \A k \in DOMAIN ms :
        DisplayName(ms, k) = IF Renamed(k) THEN NsName(ms[k])
                             ELSE IF Before(k) = {} THEN Name(ms[k])
                             ELSE IF Ns(ms[Max(Before(k))]) = Ns(ms[k]) THEN SecondName(ms[k])
                             ELSE NsName(ms[k])
  BY DEF DisplayName
<1>4. i \in same /\ j \in same /\ same \in SUBSET (1 .. Len(ms)) /\ i \in Before(j) /\ i # j /\ i \in Nat /\ j \in Nat
  BY <1>1 DEF Alike
<1>5. \A k \in DOMAIN ms : Before(k) \subseteq 1 .. k - 1 /\ k \in Nat
                           /\ (k \in same => Before(k) = {l \in same : l < k})
  BY <1>1 DEF Alike
<1>6. Name(ms[i]) = Name(ms[j])
  BY DEF Alike
\* If both get the prefix of their namespace, these have none, or are one.
<1>7. ASSUME Ns(ms[i]) # Ns(ms[j]), NsName(ms[i]) = NsName(ms[j])
      PROVE  Prefix[Ns(ms[i])] = NoPrefix /\ Prefix[Ns(ms[j])] = NoPrefix
  <2>1. PICK n \in Seq(STRING) : n = Name(ms[i]) /\ n = Name(ms[j])
    BY <1>2, <1>6
  <2>2. PICK p : p = Prefix[Ns(ms[i])]
    OBVIOUS
  <2>3. PICK q : q = Prefix[Ns(ms[j])]
    OBVIOUS
  <2>4. (IF p = NoPrefix THEN n ELSE <<p>> \o n) = (IF q = NoPrefix THEN n ELSE <<q>> \o n)
    BY <1>7, <2>1, <2>2, <2>3 DEF NsName
  <2>5. <<p>> \o n # n /\ <<q>> \o n # n /\ (<<p>> \o n = <<q>> \o n => p = q)
    BY PrefixedDiffer
  <2>6. p = q /\ p # NoPrefix => Ns(ms[i]) = Ns(ms[j])
    BY <1>2, <2>2, <2>3, PrefixAssumption
  <2>7. p = NoPrefix /\ q = NoPrefix
    BY <1>7, <2>4, <2>5, <2>6
  <2> QED
    BY <2>2, <2>3, <2>7
<1> HIDE DEF Before, Renamed
<1>8. CASE \E k \in same : k # i /\ k # j
  <2>1. Cardinality(same) > 2
    BY <1>1, <1>4, <1>8, ThreeAlike
  <2>2. SUFFICES ASSUME \A k, l \in same : k # l => Ns(ms[k]) # Ns(ms[l])
                 PROVE  Ns(ms[i]) # Ns(ms[j]) /\ NsName(ms[i]) = NsName(ms[j])
    BY <1>7, <2>1
  <2>3. Renamed(i)
    BY <1>1, <1>4, <2>2 DEF Renamed
  <2>4. DisplayName(ms, i) = NsName(ms[i])
    BY <1>3, <2>3
  <2>5. DisplayName(ms, j) = NsName(ms[j])
    <3>1. Before(j) # {} /\ Before(j) \in SUBSET (1 .. j - 1)
      BY <1>4, <1>5
    <3>2. Max(Before(j)) \in Before(j)
      BY <1>4, <3>1, LastBefore
    <3>3. Max(Before(j)) \in same /\ Max(Before(j)) # j
      BY <1>4, <1>5, <3>2
    <3>4. Ns(ms[Max(Before(j))]) # Ns(ms[j])
      BY <1>4, <2>2, <3>3
    <3> QED
      BY <1>3, <3>1, <3>4
  <2> QED
    BY <1>4, <2>2, <2>4, <2>5
<1>9. CASE same = {i, j}
  <2>1. Before(i) = {} /\ Before(j) = {i}
    <3>1. Before(i) = {l \in {i, j} : l < i} /\ Before(j) = {l \in {i, j} : l < j}
      BY <1>4, <1>5, <1>9
    <3>2. i < j /\ ~ (j < i) /\ ~ (i < i) /\ ~ (j < j)
      BY <1>4
    <3> QED
      BY <3>1, <3>2
  <2>2. ~ Renamed(j) /\ (Renamed(i) <=> Ns(ms[i]) # Ns(ms[j]))
    BY <1>1, <1>4, <1>6, <1>9 DEF Renamed, Alike
  <2>3. Max({i}) = i
    <3>1. {i} \in SUBSET (1 .. j - 1)
      BY <1>4
    <3>2. Max({i}) \in {i}
      BY <1>4, <3>1, LastBefore
    <3> QED
      BY <3>2
  <2>4. CASE Ns(ms[i]) = Ns(ms[j])
    <3>1. DisplayName(ms, i) = Name(ms[i]) /\ DisplayName(ms, j) = Append(Name(ms[i]), "2")
      BY <1>3, <1>6, <2>1, <2>2, <2>3, <2>4 DEF SecondName
    <3>2. PICK n \in Seq(STRING) : n = Name(ms[i])
      BY <1>2
    <3>3. Len(Append(n, "2")) = Len(n) + 1 /\ Len(n) \in Nat
      OBVIOUS
    <3>4. n # Append(n, "2")
      BY <3>3
    <3>5. n = Append(n, "2")
      BY <3>1, <3>2
    <3> QED
      BY <3>4, <3>5
  <2>5. CASE Ns(ms[i]) # Ns(ms[j])
    <3>1. DisplayName(ms, i) = NsName(ms[i]) /\ DisplayName(ms, j) = NsName(ms[j])
      BY <1>3, <2>1, <2>2, <2>3, <2>5
    <3> QED
      BY <1>7, <2>5, <3>1
  <2> QED
    BY <2>4, <2>5
<1> QED
  BY <1>4, <1>8, <1>9

-----------------------------------------------------------------------------
(* The invariant.                                                          *)

\* The elements types were made for.
Done == {x \in Elements : Self(x) \in DOMAIN variants /\ variants[Self(x)] # Custom}

VariantOf(h) == variants[Self(h)]

\* The members of a head begin with its own type, unless it is abstract.
First(h) == IF h \in setting.abstract THEN 1 ELSE 2
Places(h) == First(h) .. Len(VariantOf(h).members)
Added(h) == IF VariantOf(h).kind = "dynamic" THEN {VariantOf(h).members[i] : i \in Places(h)} ELSE {}

IsReference(h) ==
  VariantOf(h).kind = "reference" /\ VariantOf(h).type = OwnType(h) /\ h \notin setting.abstract
IsDynamic(h) ==
  /\ VariantOf(h).kind = "dynamic" /\ VariantOf(h) = Dynamic(OwnType(h), VariantOf(h).members)
  /\ VariantOf(h).members \in Seq(TypeIds)
  /\ h \in setting.abstract \/ (Len(VariantOf(h).members) > 1 /\ VariantOf(h).members[1] = OwnType(h))

\* An element can reach a head over several others.
Branches(y) == \E z \in AllHeads(y) \cup {y} : Len(groups[z]) > 1
TwiceOnlyBranching(h) ==
  VariantOf(h).kind = "dynamic" =>
    \A i, j \in Places(h) : VariantOf(h).members[i] = VariantOf(h).members[j] /\ i # j =>
      Branches(VariantOf(h).members[i].of)

NilPlace(x) == IF groups[x] # <<>> THEN Id(x, "dynamic") ELSE Self(x)
NilKept(x) == x \in setting.nillable => NilPlace(x) \in DOMAIN variants /\ KeepsNil(x)

Shaped(h) == (IsReference(h) \/ IsDynamic(h)) /\ TwiceOnlyBranching(h) /\ NilKept(h)

\* The members a head must have, and the one that is in work.
Members(h) == {Self(y) : y \in {y \in Done : h \in AllHeads(y)}}
InWork == IF making = Nothing THEN {} ELSE {Self(Current)}

\* The heads the current element was added to.
Reached == {h \in Done : Self(Current) \in Added(h)}

NilMade(x) ==
  x \in setting.nillable =>
    IF groups[x] # <<>>
    THEN /\ Id(x, "dynamic") \in DOMAIN variants
         /\ variants[Id(x, "dynamic")] = Reference(Id(x, "nillable"), TRUE)
    ELSE making = Reference(Id(x, "nillable"), TRUE)

\* The walk comes to all heads of the current element, and to none twice if there is
\* only one way.
Making ==
  /\ phase = "generate" /\ count < Len(nodes) /\ Current \in Elements \ generated
  /\ making.kind = "reference" /\ making.type = OwnType(Current)
  /\ NilMade(Current)
  /\ heads \in Seq(Elements) /\ ToSet(heads) \subseteq generated
  /\ AllHeads(Current) = Reached \cup UNION {Upwards(g) : g \in ToSet(heads)}
  /\ Branches(Current) \/ (/\ Len(heads) <= 1
                           /\ \A g \in ToSet(heads) \cap Done : Upwards(g) \cap Reached = {})

EntriesInv ==
  /\ SettingTyped /\ GroupsTyped
  /\ DOMAIN groups = DOMAIN cache \cap Elements
  /\ \A x \in DOMAIN groups : ToSet(groups[x]) \subseteq bases[x]
  /\ phase \in {"cache", "list"} => Done = {} /\ making = Nothing
  /\ phase \in {"cache", "list", "circular"} => count = 0
  /\ phase = "finished" => count = Len(nodes) /\ making = Nothing
  /\ \A i \in 1 .. count : nodes[i] \in generated
  /\ generated \cap Elements = {x \in Elements : Self(x) \in DOMAIN variants}
  /\ Done \subseteq types

MembersInv ==
  /\ \A t \in DynamicTypes : \E h \in Done : t = Self(h)
  /\ \A h \in Done : AllHeads(h) \subseteq Done /\ h \notin AllHeads(h)
  /\ \A h \in Done : Shaped(h)
  /\ \A h \in Done : Added(h) \ InWork = Members(h)
  /\ making # Nothing => Making

NamesInv ==
  names = [t \in {} |-> <<>>] \/
  (/\ phase = "finished"
   /\ names = [t \in DynamicTypes |->
                 LET ms == variants[t].members IN [j \in DOMAIN ms |-> DisplayName(ms, j)]])

ElementsInv == (phase = "refused" \/ (TypeOK /\ WalkInv /\ EntriesInv /\ MembersInv)) /\ NamesInv

\* What depends on the declarations only does not change with the types.
LEMMA Lasting ==
  ASSUME UNCHANGED <<groups, cache, setting>>
  PROVE  /\ \A x : AllHeads(x)' = AllHeads(x)
         /\ \A x : OwnType(x)' = OwnType(x)
         /\ \A x : Branches(x)' = Branches(x)
         /\ \A x : First(x)' = First(x)
         /\ \A x : Named(x)' = Named(x)
         /\ \A x : Upwards(x)' = Upwards(x)
         /\ \A x : NilPlace(x)' = NilPlace(x)
<1>1. \A x : AllHeads(x)' = AllHeads(x)
  BY DEF AllHeads
<1>2. \A x : OwnType(x)' = OwnType(x)
  BY DEF OwnType, TypeOf
<1>3. \A x : Branches(x)' = Branches(x)
  BY <1>1 DEF Branches
<1>4. \A x : Upwards(x)' = Upwards(x)
  BY <1>1 DEF Upwards
<1>5. (\A x : First(x)' = First(x)) /\ (\A x : Named(x)' = Named(x)) /\ (\A x : NilPlace(x)' = NilPlace(x))
  BY DEF First, Named, NilPlace
<1> QED
  BY <1>1, <1>2, <1>3, <1>4, <1>5

\* The type of a head that is left as it is stays what it was.
LEMMA ShapedLasts ==
  ASSUME UNCHANGED <<groups, cache, setting>>, NEW h, Shaped(h),
         VariantOf(h)' = VariantOf(h),
         NilPlace(h) \in DOMAIN variants => NilPlace(h) \in DOMAIN variants' /\ variants'[NilPlace(h)] = variants[NilPlace(h)]
  PROVE  Shaped(h)' /\ Added(h)' = Added(h)
<1>1. /\ OwnType(h)' = OwnType(h) /\ First(h)' = First(h) /\ NilPlace(h)' = NilPlace(h)
      /\ \A x : Branches(x)' = Branches(x)
  BY Lasting
<1>2. IsReference(h)' = IsReference(h) /\ IsDynamic(h)' = IsDynamic(h)
  BY <1>1 DEF IsReference, IsDynamic
<1>3. TwiceOnlyBranching(h)' = TwiceOnlyBranching(h) /\ Added(h)' = Added(h)
  BY <1>1 DEF TwiceOnlyBranching, Added, Places
<1>4. NilKept(h) => NilKept(h)'
  BY <1>1 DEF NilKept, KeepsNil, NilPlace, Self
<1> QED
  BY <1>2, <1>3, <1>4 DEF Shaped

\* The type an element stands for is one of the table.
LEMMA OwnTyped ==
  ASSUME TypeOK, NEW x \in DOMAIN cache
  PROVE  OwnType(x) \in TypeIds
<1> DEFINE named == {y \in DOMAIN cache[x] : cache[x][y] = "weak"}
<1>1. x \in Ident /\ named \subseteq Ident
  BY DEF TypeOK
<1>2. TypeOf(x) = IF named # {} THEN Id(CHOOSE y \in named : TRUE, "self") ELSE Id(x, "type")
  BY DEF TypeOf
<1> HIDE DEF named
<1>3. \A y \in Ident : \A a \in {"self", "type", "nillable", "dynamic"} : Id(y, a) \in TypeIds
  BY DEF Id, TypeIds
<1>4. named # {} => (CHOOSE y \in named : TRUE) \in named
  OBVIOUS
<1>5. TypeOf(x) \in TypeIds
  BY <1>1, <1>2, <1>3, <1>4
<1> QED
  BY <1>1, <1>3, <1>5 DEF OwnType

\* The current element is a type that is declared.
LEMMA CurrentTyped ==
  ASSUME TypeOK, WalkInv, EntriesInv, count < Len(nodes)
  PROVE  /\ count \in Nat /\ count + 1 \in DOMAIN nodes /\ count + 1 \in 1 .. Len(nodes)
         /\ Current \in types /\ Current \in Ident /\ Current \in DOMAIN cache
         /\ OwnType(Current) \in TypeIds /\ Self(Current) \in TypeIds
         /\ Current \in Elements => Current \in DOMAIN groups /\ groups[Current] \in Seq(Elements)
                                    /\ ToSet(groups[Current]) \subseteq bases[Current]
                                    /\ Named(Current) = ToSet(groups[Current])
<1>1. count \in Nat /\ count + 1 \in 1 .. Len(nodes) /\ count + 1 \in DOMAIN nodes /\ nodes \in Seq(Ident)
  BY DEF TypeOK
<1>2. Current \in Ident /\ \E i \in DOMAIN nodes : nodes[i] = Current
  BY <1>1 DEF Current
<1>3. Current \in types /\ Current \in DOMAIN cache
  BY <1>2 DEF WalkInv, ListedDone, TypeOK
<1>4. Self(Current) \in TypeIds
  BY <1>2 DEF Self, Id, TypeIds
<1>5. Current \in Elements => Current \in DOMAIN groups /\ groups[Current] \in Seq(Elements)
                              /\ ToSet(groups[Current]) \subseteq bases[Current]
  BY <1>3 DEF EntriesInv, GroupsTyped
<1> QED
  BY <1>1, <1>2, <1>3, <1>4, <1>5, OwnTyped DEF Named

\* What is done was declared.
LEMMA DoneTyped ==
  ASSUME TypeOK, EntriesInv, NEW h \in Done
  PROVE  /\ h \in Elements /\ h \in Ident /\ h \in DOMAIN cache /\ h \in DOMAIN groups
         /\ groups[h] \in Seq(Elements) /\ Named(h) = ToSet(groups[h])
         /\ Self(h) \in DOMAIN variants /\ variants[Self(h)] # Custom /\ Self(h) \in TypeIds
         /\ OwnType(h) \in TypeIds /\ h \in generated /\ h \in types
<1>1. h \in Elements /\ Self(h) \in DOMAIN variants /\ variants[Self(h)] # Custom
  BY DEF Done
<1>2. h \in types /\ h \in DOMAIN cache /\ h \in Ident
  BY DEF EntriesInv, TypeOK
<1>3. h \in DOMAIN groups /\ groups[h] \in Seq(Elements) /\ h \in generated
  BY <1>1, <1>2 DEF EntriesInv, GroupsTyped
<1>4. Self(h) \in TypeIds
  BY <1>2 DEF Self, Id, TypeIds
<1> QED
  BY <1>1, <1>2, <1>3, <1>4, OwnTyped DEF Named

-----------------------------------------------------------------------------
(* The first state, and the declarations.                                  *)

LEMMA ElementsInit == InitElements => ElementsInv
<1> SUFFICES ASSUME InitElements PROVE ElementsInv
  OBVIOUS
<1>1. TypeOK /\ WalkInv
  BY TypeInit, WalkInit DEF InitElements
<1>2. /\ decls \in Schemas /\ setting \in Settings(decls) /\ phase = "cache" /\ making = Nothing /\ count = 0
      /\ DOMAIN groups = {} /\ DOMAIN cache = {} /\ types = {}
      /\ variants = [t \in {Id(x, "self") : x \in generated \cap Elements} |-> Custom]
      /\ names = [t \in {} |-> <<>>]
  BY DEF InitElements, Init
<1>3. SettingTyped
  BY <1>2, SettingAssumption DEF SettingTyped
<1>4. \A x : Self(x) \in DOMAIN variants <=> x \in generated \cap Elements
  BY <1>2, IdsDiffer DEF Self
<1>5. Done = {} /\ DynamicTypes = {}
  <2>1. \A t \in DOMAIN variants : variants[t] = Custom
    BY <1>2
  <2>2. \A t \in DOMAIN variants : variants[t].kind # "dynamic"
    BY <2>1 DEF Custom
  <2> QED
    BY <2>1, <2>2 DEF Done, DynamicTypes
<1>6. EntriesInv
  BY <1>2, <1>3, <1>4, <1>5 DEF EntriesInv, GroupsTyped
<1>7. MembersInv
  BY <1>2, <1>5 DEF MembersInv
<1> QED
  BY <1>1, <1>2, <1>6, <1>7 DEF ElementsInv, NamesInv

LEMMA DeclareStep == TypeOK /\ EntriesInv /\ MembersInv /\ Declare => EntriesInv' /\ MembersInv'
<1> SUFFICES ASSUME TypeOK, EntriesInv, MembersInv, Declare PROVE EntriesInv' /\ MembersInv'
  OBVIOUS
<1>1. /\ phase = "cache" /\ decls \in Seq(Decl) /\ decls # <<>>
      /\ UNCHANGED <<visited, stack, nodes, generated, count, phase, setting, variants, making, heads, names>>
  BY DEF Declare, NewEntry, TypeOK
<1>2. PICK d : d = Head(decls)
  OBVIOUS
<1>3. d.ident \in Ident /\ d.refs \in Seq(Ref)
  BY <1>1, <1>2, FirstDecl
<1>4. PICK hs : hs = Heads(d.refs)
  OBVIOUS
<1>5. hs \in Seq(Elements) /\ ToSet(hs) \subseteq Bases(d.refs)
  BY <1>3, <1>4, HeadsFound
<1>6. PICK bs : bs = Bases(d.refs)
  OBVIOUS
<1>7. /\ DOMAIN cache' = DOMAIN cache \cup {d.ident}
      /\ bases' = [x \in DOMAIN bases \cup {d.ident} |-> IF x = d.ident THEN bs ELSE bases[x]]
      /\ types \subseteq types'
      /\ groups' = IF d.ident \in Elements
                   THEN [x \in DOMAIN groups \cup {d.ident} |-> IF x = d.ident THEN hs ELSE groups[x]]
                   ELSE groups
  BY <1>2, <1>4, <1>6 DEF Declare, NewEntry, With
<1>8. DOMAIN bases = DOMAIN cache
  BY DEF TypeOK
<1>9. GroupsTyped' /\ DOMAIN groups' = DOMAIN cache' \cap Elements
  BY <1>5, <1>7 DEF EntriesInv, GroupsTyped
<1>10. \A x \in DOMAIN groups' : ToSet(groups'[x]) \subseteq bases'[x]
  <2>1. TAKE x \in DOMAIN groups'
  <2>2. CASE x = d.ident
    BY <2>2, <1>5, <1>6, <1>7, <1>9
  <2>3. CASE x # d.ident
    <3>1. x \in DOMAIN groups /\ groups'[x] = groups[x] /\ x \in DOMAIN bases /\ bases'[x] = bases[x]
      BY <2>3, <1>7, <1>8 DEF EntriesInv
    <3> QED
      BY <3>1 DEF EntriesInv
  <2> QED
    BY <2>2, <2>3
<1>11. Done = {} /\ Done' = {} /\ making = Nothing /\ DynamicTypes' = {}
  <2>1. Done = {} /\ Done' = Done /\ making = Nothing /\ DynamicTypes' = DynamicTypes
    BY <1>1 DEF EntriesInv, Done, DynamicTypes
  <2> QED
    BY <2>1 DEF MembersInv
<1>12. EntriesInv'
  BY <1>1, <1>9, <1>10, <1>11 DEF EntriesInv, SettingTyped
<1>13. MembersInv'
  BY <1>1, <1>11 DEF MembersInv
<1> QED
  BY <1>12, <1>13

\* A step that leaves the types and the declarations alone.
LEMMA QuietElements ==
  ASSUME TypeOK, EntriesInv, MembersInv, making = Nothing,
         UNCHANGED <<setting, groups, variants, making, cache>>
  PROVE  MembersInv'
<1>1. Done' = Done /\ DynamicTypes' = DynamicTypes
  BY DEF Done, DynamicTypes
<1>2. \A x : AllHeads(x)' = AllHeads(x)
  BY Lasting
<1>3. ASSUME NEW h \in Done
      PROVE  Shaped(h)' /\ Added(h)' = Added(h)
  <2>1. Shaped(h)
    BY DEF MembersInv
  <2>2. VariantOf(h)' = VariantOf(h)
    BY DEF VariantOf
  <2> QED
    BY <2>1, <2>2, ShapedLasts
<1>4. \A h : Members(h)' = Members(h)
  BY <1>1, <1>2 DEF Members
<1>5. InWork' = {} /\ InWork = {}
  BY DEF InWork
<1> QED
  BY <1>1, <1>2, <1>3, <1>4, <1>5 DEF MembersInv

-----------------------------------------------------------------------------
(* A type is begun.                                                        *)

LEMMA CreateStep == TypeOK /\ WalkInv /\ EntriesInv /\ MembersInv /\ CreateElement => EntriesInv' /\ MembersInv'
<1> SUFFICES ASSUME TypeOK, WalkInv, EntriesInv, MembersInv, CreateElement PROVE EntriesInv' /\ MembersInv'
  OBVIOUS
<1>1. PICK x : x = Current
  OBVIOUS
<1> DEFINE nil == IF x \in setting.nillable THEN {Id(x, "nillable")} ELSE {}
           dyn == IF groups[x] # <<>> THEN {Id(x, "dynamic")} ELSE {}
           declared == Reference(TypeOf(x), FALSE)
           first == IF nil = {} THEN declared ELSE Reference(Id(x, "nillable"), TRUE)
<1>2. /\ phase = "generate" /\ making = Nothing /\ count < Len(nodes) /\ x \in Elements \ generated /\ Available
      /\ UNCHANGED <<vars, setting, groups, names>>
      /\ variants' = [t \in DOMAIN variants \cup nil \cup dyn |->
                        CASE t \in nil -> declared
                          [] t \in dyn -> first
                          [] OTHER -> variants[t]]
      /\ making' = IF dyn = {} THEN first ELSE Reference(Id(x, "dynamic"), FALSE)
      /\ heads' = groups[x]
  BY <1>1 DEF CreateElement
<1>3. /\ UNCHANGED <<decls, cache, types, keys, visited, stack, nodes, generated, bases, count, phase>>
      /\ Current' = Current
  BY <1>2 DEF vars, Current
<1>4. /\ x \in types /\ x \in DOMAIN groups /\ groups[x] \in Seq(Elements) /\ ToSet(groups[x]) \subseteq bases[x]
      /\ Named(x) = ToSet(groups[x])
  BY <1>1, <1>2, CurrentTyped
<1>5. \A t \in nil \cup dyn : t.of = x /\ t.as # "self"
  BY DEF Id
<1>6. \A h : Self(h) \notin nil \cup dyn
  BY <1>5 DEF Self, Id
<1> DEFINE kept == DOMAIN variants \ (nil \cup dyn)
<1>7. \A t \in kept : t \in DOMAIN variants' /\ variants'[t] = variants[t]
  BY <1>2
<1>8. \A h : Self(h) \in DOMAIN variants' <=> Self(h) \in DOMAIN variants
  BY <1>2, <1>6
<1>9. \A h : Self(h) \in DOMAIN variants => variants'[Self(h)] = variants[Self(h)]
  BY <1>6, <1>7
<1>10. Done' = Done
  BY <1>8, <1>9 DEF Done
<1>11. \A t \in nil \cup dyn : t \in DOMAIN variants' /\ variants'[t].kind = "reference"
  BY <1>2 DEF Reference
<1>12. Id(x, "dynamic") \notin nil
  BY DEF Id
<1>13. groups[x] # <<>> => Id(x, "dynamic") \in DOMAIN variants' /\ variants'[Id(x, "dynamic")] = first
  BY <1>2, <1>12
<1>14. /\ making' # Nothing /\ making'.kind = "reference" /\ making'.type = OwnType(x)
       /\ x \in setting.nillable /\ groups[x] = <<>> => making' = Reference(Id(x, "nillable"), TRUE)
       /\ x \in setting.nillable => first = Reference(Id(x, "nillable"), TRUE)
  BY <1>2 DEF Reference, Nothing, OwnType
<1> HIDE DEF nil, dyn, declared, first
<1>15. /\ \A h : AllHeads(h)' = AllHeads(h)
       /\ \A h : OwnType(h)' = OwnType(h)
       /\ \A h : Branches(h)' = Branches(h)
       /\ \A h : Upwards(h)' = Upwards(h)
  BY <1>2, <1>3, Lasting
<1>16. EntriesInv'
  BY <1>2, <1>3, <1>8, <1>10, <1>14 DEF EntriesInv, SettingTyped, GroupsTyped
<1>17. x \notin Done
  <2>1. Self(x) \notin DOMAIN variants
    BY <1>2 DEF EntriesInv
  <2> QED
    BY <2>1 DEF Done
<1>18. ASSUME NEW h \in Done
       PROVE  Shaped(h)' /\ Added(h)' = Added(h)
  <2>1. Shaped(h) /\ VariantOf(h)' = VariantOf(h)
    BY <1>9 DEF MembersInv, VariantOf, Done
  <2>2. h # x
    BY <1>17
  <2>3. NilPlace(h) \notin nil \cup dyn
    BY <1>5, <1>6, <2>2 DEF NilPlace, Id
  <2>4. NilPlace(h) \in DOMAIN variants => NilPlace(h) \in DOMAIN variants' /\ variants'[NilPlace(h)] = variants[NilPlace(h)]
    BY <1>7, <2>3
  <2> QED
    BY <1>2, <1>3, <2>1, <2>4, ShapedLasts
<1>19. \A h \in Done : Self(x) \notin Added(h)
  <2>1. TAKE h \in Done
  <2>2. Added(h) \ {} = Members(h)
    BY <1>2 DEF MembersInv, InWork
  <2>3. Self(x) \notin Members(h)
    BY <1>17, IdsDiffer DEF Members, Self
  <2> QED
    BY <2>2, <2>3
<1>20. Reached' = {}
  BY <1>1, <1>3, <1>10, <1>18, <1>19 DEF Reached, Self
<1>21. \A h \in Done : Added(h)' \ InWork' = Members(h)'
  <2>1. TAKE h \in Done
  <2>2. Members(h)' = Members(h)
    BY <1>10, <1>15 DEF Members
  <2>3. InWork' = {Self(x)}
    BY <1>1, <1>3, <1>14 DEF InWork, Self
  <2>4. Added(h) \ {} = Members(h)
    BY <1>2 DEF MembersInv, InWork
  <2> QED
    BY <1>18, <1>19, <2>2, <2>3, <2>4
<1>22. NilMade(x)'
  BY <1>2, <1>3, <1>13, <1>14 DEF NilMade
<1>23. ToSet(heads') \subseteq generated
  BY <1>1, <1>2, <1>4 DEF Available
<1>24. AllHeads(x) = UNION {Upwards(g) : g \in Named(x)}
  BY <1>2, HeadsUnfold DEF EntriesInv
<1>25. Branches(x) \/ Len(heads') <= 1
  <2>1. Len(groups[x]) \in Nat
    BY <1>4
  <2> QED
    BY <1>2, <2>1 DEF Branches
<1>26. Making'
  <2>1. AllHeads(x)' = Reached' \cup UNION {Upwards(g)' : g \in ToSet(heads')}
    BY <1>2, <1>4, <1>15, <1>20, <1>24
  <2>2. heads' \in Seq(Elements)
    BY <1>2, <1>4
  <2> QED
    BY <1>1, <1>2, <1>3, <1>14, <1>15, <1>20, <1>22, <1>23, <1>25, <2>1, <2>2 DEF Making
<1>27. \A t \in DynamicTypes' : \E h \in Done' : t = Self(h)
  <2>1. TAKE t \in DynamicTypes'
  <2>2. t \in DOMAIN variants' /\ variants'[t].kind = "dynamic"
    BY DEF DynamicTypes
  <2>3. t \notin nil \cup dyn
    BY <1>11, <2>2
  <2>4. t \in DOMAIN variants /\ variants[t].kind = "dynamic"
    BY <1>2, <1>7, <2>2, <2>3
  <2> QED
    BY <1>10, <2>4 DEF MembersInv, DynamicTypes
<1>28. MembersInv'
  BY <1>10, <1>15, <1>18, <1>21, <1>26, <1>27 DEF MembersInv
<1> QED
  BY <1>16, <1>28

-----------------------------------------------------------------------------
(* A member is added to a head.                                            *)

\* The type of a head with one more member.
LEMMA AsHeadShaped ==
  ASSUME UNCHANGED <<groups, cache, setting>>, NEW h, Shaped(h), OwnType(h) \in TypeIds, NEW t \in TypeIds,
         VariantOf(h)' = AsHead(VariantOf(h), t),
         t \in Added(h) => Branches(t.of),
         DOMAIN variants' = DOMAIN variants,
         \A i \in DOMAIN variants : i # Self(h) => variants'[i] = variants[i]
  PROVE  Shaped(h)' /\ Added(h)' = Added(h) \cup {t} /\ VariantOf(h)'.kind = "dynamic"
<1>1. /\ OwnType(h)' = OwnType(h) /\ First(h)' = First(h) /\ NilPlace(h)' = NilPlace(h)
      /\ \A x : Branches(x)' = Branches(x)
  BY Lasting
<1>2. PICK own : own = OwnType(h)
  OBVIOUS
<1>3. PICK v : v = VariantOf(h)
  OBVIOUS
<1>4. PICK w : w = VariantOf(h)'
  OBVIOUS
<1>5. IsReference(h) \/ IsDynamic(h)
  BY DEF Shaped
<1>6. PICK b \in {1, 2} : b = First(h) /\ (b = 1 <=> h \in setting.abstract)
  BY DEF First
\* The members there were, with the type of the head as the first one.
<1>7. PICK ms \in Seq(TypeIds) :
        /\ w = Dynamic(own, Append(ms, t))
        /\ b = 2 => Len(ms) > 0 /\ ms[1] = own
        /\ Added(h) = {ms[i] : i \in b .. Len(ms)}
        /\ \A i, j \in b .. Len(ms) : ms[i] = ms[j] /\ i # j => Branches(ms[i].of)
  <2>1. CASE IsReference(h)
    <3>1. v.kind = "reference" /\ v.type = own /\ b = 2
      BY <2>1, <1>2, <1>3, <1>6 DEF IsReference
    <3>2. w = Dynamic(own, <<own, t>>)
      BY <1>3, <1>4, <3>1 DEF AsHead
    <3>3. PICK ms \in Seq(TypeIds) : Len(ms) = 1 /\ ms[1] = own /\ <<own, t>> = Append(ms, t)
      <4>1. <<own>> \in Seq(TypeIds) /\ Len(<<own>>) = 1 /\ <<own>>[1] = own /\ <<own, t>> = Append(<<own>>, t)
        BY <1>2
      <4> QED
        BY <4>1
    <3>4. Added(h) = {} /\ b .. Len(ms) = {}
      BY <1>3, <3>1, <3>3 DEF Added
    <3>5. w = Dynamic(own, Append(ms, t))
      BY <3>2, <3>3
    <3>6. /\ Added(h) = {ms[i] : i \in b .. Len(ms)}
          /\ \A i, j \in b .. Len(ms) : ms[i] = ms[j] /\ i # j => Branches(ms[i].of)
          /\ Len(ms) > 0 /\ ms[1] = own
      BY <3>3, <3>4
    <3> QED
      BY <3>5, <3>6
  <2>2. CASE IsDynamic(h)
    <3>1. /\ v.kind = "dynamic" /\ v = Dynamic(own, v.members) /\ v.members \in Seq(TypeIds)
          /\ b = 2 => Len(v.members) > 1 /\ v.members[1] = own
      BY <2>2, <1>2, <1>3, <1>6 DEF IsDynamic
    <3>2. PICK ms \in Seq(TypeIds) : ms = v.members
      BY <3>1
    <3>3. w = [v EXCEPT !.members = Append(ms, t)]
      BY <1>3, <1>4, <3>1, <3>2 DEF AsHead
    <3>4. w = Dynamic(own, Append(ms, t))
      <4>1. PICK ns : ns = Append(ms, t)
        OBVIOUS
      <4>2. v = [kind |-> "dynamic", type |-> own, members |-> ms]
        BY <3>1, <3>2 DEF Dynamic
      <4>3. w = [kind |-> "dynamic", type |-> own, members |-> ns]
        BY <3>3, <4>1, <4>2
      <4> QED
        BY <4>1, <4>3 DEF Dynamic
    <3>5. Added(h) = {ms[i] : i \in b .. Len(ms)}
      BY <1>3, <1>6, <3>1, <3>2 DEF Added, Places
    <3>6. \A i, j \in b .. Len(ms) : ms[i] = ms[j] /\ i # j => Branches(ms[i].of)
      BY <1>3, <1>6, <3>1, <3>2 DEF Shaped, TwiceOnlyBranching, Places
    <3> QED
      BY <3>1, <3>2, <3>4, <3>5, <3>6
  <2> QED
    BY <1>5, <2>1, <2>2
<1> DEFINE n == Len(ms)
<1>8. PICK ns \in Seq(TypeIds) : ns = Append(ms, t)
  <2>1. Append(ms, t) \in Seq(TypeIds)
    BY AppendSet
  <2> QED
    BY <2>1
<1>9. /\ n \in Nat /\ Len(ns) = n + 1
      /\ \A i \in 1 .. n : ns[i] = ms[i]
      /\ ns[n + 1] = t
  BY <1>8
<1> HIDE DEF n
<1>10. w.kind = "dynamic" /\ w.members = ns /\ w = Dynamic(own, w.members)
  BY <1>7, <1>8 DEF Dynamic
<1>11. IsDynamic(h)'
  <2>1. b = 2 => Len(ns) > 1 /\ ns[1] = own
    BY <1>7, <1>9 DEF n
  <2> QED
    BY <1>1, <1>2, <1>4, <1>6, <1>10, <2>1 DEF IsDynamic
<1>12. Places(h)' = b .. n + 1
  BY <1>1, <1>4, <1>6, <1>9, <1>10 DEF Places
<1>13. \A i \in b .. n + 1 : i \in b .. n \/ i = n + 1
  BY <1>9
<1>14. /\ \A i \in b .. n : i \in b .. n + 1 /\ i \in 1 .. n
       /\ b = 2 => n > 0
  BY <1>7, <1>9 DEF n
<1>15. n + 1 \in b .. n + 1
  BY <1>9, <1>14
<1>16. Added(h)' = Added(h) \cup {t}
  <2>1. Added(h)' = {ns[i] : i \in b .. n + 1}
    BY <1>4, <1>10, <1>12 DEF Added
  <2>2. Added(h) = {ms[i] : i \in b .. n}
    BY <1>7 DEF n
  <2> QED
    BY <2>1, <2>2, <1>9, <1>13, <1>14, <1>15
<1>17. TwiceOnlyBranching(h)'
  <2>1. ASSUME NEW i \in b .. n + 1, NEW j \in b .. n + 1, ns[i] = ns[j], i # j
        PROVE  Branches(ns[i].of)
    <3>1. CASE i \in b .. n /\ j \in b .. n
      BY <3>1, <2>1, <1>7, <1>9, <1>14 DEF n
    <3>2. CASE i = n + 1 /\ j \in b .. n
      <4>1. ns[i] = t /\ ms[j] = t
        BY <3>2, <2>1, <1>9, <1>14
      <4>2. t \in Added(h)
        BY <3>2, <4>1, <1>7 DEF n
      <4> QED
        BY <4>1, <4>2
    <3>3. CASE j = n + 1 /\ i \in b .. n
      <4>1. ns[i] = t /\ ms[i] = t
        BY <3>3, <2>1, <1>9, <1>14
      <4>2. t \in Added(h)
        BY <3>3, <4>1, <1>7 DEF n
      <4> QED
        BY <4>1, <4>2
    <3> QED
      BY <2>1, <1>13, <3>1, <3>2, <3>3
  <2> QED
    BY <2>1, <1>1, <1>4, <1>10, <1>12 DEF TwiceOnlyBranching
<1>18. NilKept(h)'
  <2>1. NilKept(h)
    BY DEF Shaped
  <2>2. CASE groups[h] = <<>>
    BY <2>1, <2>2, <1>1, <1>4, <1>10 DEF NilKept, KeepsNil, NilPlace, Self, VariantOf
  <2>3. CASE groups[h] # <<>>
    <3>1. NilPlace(h) = Id(h, "dynamic") /\ NilPlace(h) # Self(h)
      BY <2>3, IdsDiffer DEF NilPlace, Self
    <3> QED
      BY <2>1, <2>3, <3>1, <1>1 DEF NilKept, KeepsNil
  <2> QED
    BY <2>2, <2>3
<1> QED
  BY <1>4, <1>10, <1>11, <1>16, <1>17, <1>18 DEF Shaped

LEMMA SubstituteStep == TypeOK /\ WalkInv /\ EntriesInv /\ MembersInv /\ Substitute => EntriesInv' /\ MembersInv'
<1> SUFFICES ASSUME TypeOK, WalkInv, EntriesInv, MembersInv, Substitute PROVE EntriesInv' /\ MembersInv'
  OBVIOUS
<1>1. PICK x : x = Current
  OBVIOUS
<1>2. PICK h : h = Head(heads)
  OBVIOUS
<1>3. /\ phase = "generate" /\ making # Nothing /\ heads # <<>> /\ variants[Self(h)].kind # "custom"
      /\ UNCHANGED <<vars, setting, groups, making, names>>
      /\ variants' = [variants EXCEPT ![Self(h)] = AsHead(variants[Self(h)], Self(x))]
      /\ heads' = groups[h] \o Tail(heads)
  BY <1>1, <1>2 DEF Substitute, InElement, HeadType, Self
<1>4. /\ UNCHANGED <<decls, cache, types, keys, visited, stack, nodes, generated, bases, count, phase>>
      /\ Current' = Current
  BY <1>3 DEF vars, Current
<1>5. /\ count < Len(nodes) /\ x \in Elements \ generated
      /\ making.kind = "reference" /\ making.type = OwnType(x)
      /\ NilMade(x)
      /\ heads \in Seq(Elements) /\ ToSet(heads) \subseteq generated
      /\ AllHeads(x) = Reached \cup UNION {Upwards(g) : g \in ToSet(heads)}
      /\ Branches(x) \/ (/\ Len(heads) <= 1
                         /\ \A g \in ToSet(heads) \cap Done : Upwards(g) \cap Reached = {})
  BY <1>1, <1>3 DEF MembersInv, Making
<1>6. x \in types /\ x \in DOMAIN groups /\ Self(x) \in TypeIds
  BY <1>1, <1>5, CurrentTyped
<1>7. /\ h \in Elements /\ Tail(heads) \in Seq(Elements)
      /\ ToSet(heads) = {h} \cup ToSet(Tail(heads))
      /\ Len(heads) <= 1 => Tail(heads) = <<>>
  <2>1. /\ h \in Elements /\ Tail(heads) \in Seq(Elements) /\ heads = <<h>> \o Tail(heads) /\ <<h>> \in Seq(Elements)
        /\ Len(heads) <= 1 => Tail(heads) = <<>>
    BY <1>2, <1>3, <1>5
  <2>2. ToSet(heads) = ToSet(<<h>>) \cup ToSet(Tail(heads))
    <3>1. PICK s \in Seq(Elements) : s = <<h>>
      BY <2>1
    <3>2. PICK t \in Seq(Elements) : t = Tail(heads)
      BY <2>1
    <3>3. ToSet(s \o t) = ToSet(s) \cup ToSet(t)
      BY ConcatSet
    <3> QED
      BY <2>1, <3>1, <3>2, <3>3
  <2>3. ToSet(<<h>>) = {h}
    BY DEF ToSet
  <2> QED
    BY <2>1, <2>2, <2>3
<1>8. h \in Done
  <2>1. h \in generated
    BY <1>5, <1>7
  <2>2. Self(h) \in DOMAIN variants
    BY <1>7, <2>1 DEF EntriesInv
  <2> QED
    BY <1>3, <1>7, <2>2 DEF Done, Custom
<1>9. /\ h \in DOMAIN groups /\ groups[h] \in Seq(Elements) /\ Named(h) = ToSet(groups[h])
      /\ Self(h) \in DOMAIN variants /\ OwnType(h) \in TypeIds
  BY <1>8, DoneTyped
<1>10. DOMAIN variants' = DOMAIN variants /\ VariantOf(h)' = AsHead(VariantOf(h), Self(x))
       /\ \A t \in DOMAIN variants : t # Self(h) => variants'[t] = variants[t]
  BY <1>3, <1>9 DEF VariantOf
<1>11. /\ \A y : AllHeads(y)' = AllHeads(y)
       /\ \A y : OwnType(y)' = OwnType(y)
       /\ \A y : Branches(y)' = Branches(y)
       /\ \A y : Upwards(y)' = Upwards(y)
  BY <1>3, <1>4, Lasting
<1>12. \A g \in Done : AllHeads(g) \subseteq Done /\ g \notin AllHeads(g) /\ Shaped(g)
  BY DEF MembersInv
<1>13. AllHeads(h) = UNION {Upwards(g) : g \in Named(h)}
  BY <1>7, HeadsUnfold DEF EntriesInv
<1>14. h \in Upwards(h)
  BY DEF Upwards
\* If the element reaches h twice it branches.
<1>15. Self(x) \in Added(h) => Branches(x)
  BY <1>1, <1>5, <1>7, <1>8, <1>14 DEF Reached
<1>16. Self(x).of = x
  BY DEF Self, Id
<1>17. Shaped(h)' /\ Added(h)' = Added(h) \cup {Self(x)} /\ VariantOf(h)'.kind = "dynamic"
  <2> QED
    BY <1>3, <1>4, <1>6, <1>8, <1>9, <1>10, <1>12, <1>15, <1>16, AsHeadShaped
<1>18. ASSUME NEW g \in Done, g # h
       PROVE  Shaped(g)' /\ Added(g)' = Added(g)
  <2>1. Self(g) # Self(h) /\ NilPlace(g) # Self(h)
    BY <1>18, IdsDiffer DEF Self, NilPlace
  <2>2. VariantOf(g)' = VariantOf(g)
    BY <1>10, <2>1 DEF VariantOf, Done
  <2> QED
    BY <1>3, <1>4, <1>10, <1>12, <2>1, <2>2, ShapedLasts
<1>19. Done' = Done
  <2>1. VariantOf(h)' # Custom
    BY <1>17 DEF Custom
  <2>2. \A g : Self(g) = Self(h) => g = h
    BY IdsDiffer DEF Self
  <2> QED
    BY <1>8, <1>10, <2>1, <2>2 DEF Done, VariantOf
<1>20. Reached' = Reached \cup {h}
  <2>1. \A g \in Done : (Self(x) \in Added(g))' <=> Self(x) \in Added(g) \/ g = h
    BY <1>1, <1>4, <1>17, <1>18 DEF Self
  <2> QED
    BY <1>1, <1>4, <1>8, <1>19, <2>1 DEF Reached, Self
<1>21. InWork = {Self(x)} /\ InWork' = {Self(x)}
  BY <1>1, <1>3, <1>4 DEF InWork, Self
<1>22. \A g \in Done : Added(g)' \ InWork' = Members(g)'
  <2>1. TAKE g \in Done
  <2>2. Members(g)' = Members(g) /\ Added(g) \ InWork = Members(g)
    BY <1>11, <1>19 DEF Members, MembersInv
  <2> QED
    BY <1>17, <1>18, <1>21, <2>2
\* The heads of h take its place.
<1>23. heads' \in Seq(Elements) /\ ToSet(heads') = Named(h) \cup ToSet(Tail(heads))
  <2>1. PICK s \in Seq(Elements) : s = groups[h]
    BY <1>9
  <2>2. PICK t \in Seq(Elements) : t = Tail(heads)
    BY <1>7
  <2>3. s \o t \in Seq(Elements) /\ ToSet(s \o t) = ToSet(s) \cup ToSet(t)
    BY ConcatSet
  <2> QED
    BY <1>3, <1>9, <2>1, <2>2, <2>3
<1>24. ToSet(heads') \subseteq generated
  <2>1. Named(h) \subseteq Done
    BY <1>8, <1>12, <1>13 DEF Upwards
  <2>2. Done \subseteq generated
    BY DoneTyped
  <2> QED
    BY <1>5, <1>7, <1>23, <2>1, <2>2
<1>25. AllHeads(x) = Reached' \cup UNION {Upwards(g) : g \in ToSet(heads')}
  <2>1. UNION {Upwards(g) : g \in ToSet(heads)} = Upwards(h) \cup UNION {Upwards(g) : g \in ToSet(Tail(heads))}
    BY <1>7
  <2>2. UNION {Upwards(g) : g \in ToSet(heads')} = AllHeads(h) \cup UNION {Upwards(g) : g \in ToSet(Tail(heads))}
    BY <1>13, <1>23
  <2>3. Upwards(h) = {h} \cup AllHeads(h)
    BY DEF Upwards
  <2> QED
    BY <1>5, <1>20, <2>1, <2>2, <2>3
<1>26. Branches(x) \/ (/\ Len(heads') <= 1
                       /\ \A g \in ToSet(heads') \cap Done : Upwards(g) \cap Reached' = {})
  <2>1. SUFFICES ASSUME ~ Branches(x)
                 PROVE  /\ Len(heads') <= 1
                        /\ \A g \in ToSet(heads') \cap Done : Upwards(g) \cap Reached' = {}
    OBVIOUS
  <2>2. Tail(heads) = <<>> /\ Upwards(h) \cap Reached = {}
    BY <1>5, <1>7, <1>8, <2>1
  <2>3. heads' = groups[h] /\ ToSet(heads') = Named(h)
    <3>1. \A s \in Seq(Elements) : s \o <<>> = s
      OBVIOUS
    <3>2. heads' = groups[h]
      BY <1>3, <1>9, <2>2, <3>1
    <3> QED
      BY <1>9, <3>2
  <2>4. h \in AllHeads(x)
    BY <1>5, <1>7, <1>14
  <2>5. Len(heads') <= 1
    BY <1>9, <2>1, <2>3, <2>4 DEF Branches
  <2>6. ASSUME NEW g \in Named(h)
        PROVE  Upwards(g) \cap Reached' = {}
    <3>1. Upwards(g) \subseteq AllHeads(h)
      BY <1>13
    <3>2. AllHeads(h) \cap Reached = {} /\ h \notin AllHeads(h)
      BY <1>8, <1>12, <2>2 DEF Upwards
    <3> QED
      BY <1>20, <3>1, <3>2
  <2> QED
    BY <2>3, <2>5, <2>6
<1>27. NilMade(x)'
  <2>1. Id(x, "dynamic") # Self(h)
    BY IdsDiffer DEF Self
  <2> QED
    BY <1>3, <1>4, <1>5, <1>10, <2>1 DEF NilMade
<1>28. Making'
  <2>1. AllHeads(x)' = Reached' \cup UNION {Upwards(g)' : g \in ToSet(heads')}
    BY <1>11, <1>25
  <2>2. Branches(x)' \/ (/\ Len(heads') <= 1
                         /\ \A g \in ToSet(heads') \cap Done' : Upwards(g)' \cap Reached' = {})
    BY <1>11, <1>19, <1>26
  <2>3. phase' = "generate" /\ count' < Len(nodes') /\ x \in Elements \ generated'
        /\ making'.kind = "reference" /\ making'.type = OwnType(x)'
    BY <1>3, <1>4, <1>5, <1>11
  <2>4. ToSet(heads') \subseteq generated'
    BY <1>4, <1>24
  <2> QED
    BY <1>1, <1>4, <1>23, <1>27, <2>1, <2>2, <2>3, <2>4 DEF Making
<1>29. \A t \in DynamicTypes' : \E g \in Done' : t = Self(g)
  <2>1. TAKE t \in DynamicTypes'
  <2>2. t \in DOMAIN variants /\ (t = Self(h) \/ (variants[t].kind = "dynamic"))
    BY <1>10 DEF DynamicTypes
  <2> QED
    BY <1>8, <1>19, <2>2 DEF MembersInv, DynamicTypes
<1>30. EntriesInv'
  BY <1>3, <1>4, <1>10, <1>19 DEF EntriesInv, SettingTyped, GroupsTyped
<1>31. \A g \in Done' : AllHeads(g)' \subseteq Done' /\ g \notin AllHeads(g)' /\ Shaped(g)'
  BY <1>11, <1>12, <1>17, <1>18, <1>19
<1>32. MembersInv'
  BY <1>19, <1>22, <1>28, <1>29, <1>31 DEF MembersInv
<1> QED
  BY <1>30, <1>32

-----------------------------------------------------------------------------
(* A type is finished.                                                     *)

LEMMA FinishStep == TypeOK /\ WalkInv /\ EntriesInv /\ MembersInv /\ FinishElement => EntriesInv' /\ MembersInv'
<1> SUFFICES ASSUME TypeOK, WalkInv, EntriesInv, MembersInv, FinishElement PROVE EntriesInv' /\ MembersInv'
  OBVIOUS
<1>1. PICK x : x = Current
  OBVIOUS
<1>2. PICK v : v = IF x \in setting.abstract THEN Dynamic(making.type, <<>>) ELSE making
  OBVIOUS
<1>3. /\ phase = "generate" /\ making # Nothing /\ heads = <<>>
      /\ count < Len(nodes) /\ count' = count + 1 /\ generated' = generated \cup {x}
      /\ UNCHANGED <<decls, cache, types, keys, visited, stack, nodes, bases, phase>>
      /\ UNCHANGED <<setting, groups, heads, names>>
      /\ variants' = [t \in DOMAIN variants \cup {Self(x)} |-> IF t = Self(x) THEN v ELSE variants[t]]
      /\ making' = Nothing
  BY <1>1, <1>2 DEF FinishElement, InElement, GenerateNode, With, Self
<1>4. /\ x \in Elements \ generated /\ making.kind = "reference" /\ making.type = OwnType(x) /\ NilMade(x)
      /\ AllHeads(x) = Reached \cup UNION {Upwards(g) : g \in ToSet(heads)}
  BY <1>1, <1>3 DEF MembersInv, Making
<1>5. AllHeads(x) = Reached /\ Reached \subseteq Done
  <2>1. ToSet(heads) = {}
    BY <1>3 DEF ToSet
  <2> QED
    BY <1>4, <2>1 DEF Reached
<1>6. /\ x \in types /\ x \in DOMAIN groups /\ count \in Nat /\ x = nodes[count + 1]
  BY <1>1, <1>3, <1>4, CurrentTyped DEF Current
<1>7. Self(x) \notin DOMAIN variants /\ x \notin Done
  <2>1. Self(x) \notin DOMAIN variants
    BY <1>4 DEF EntriesInv
  <2> QED
    BY <2>1 DEF Done
<1>8. v # Custom /\ Nothing # making
  BY <1>2, <1>3, <1>4 DEF Custom, Dynamic
<1>9. /\ \A t \in DOMAIN variants : t \in DOMAIN variants' /\ variants'[t] = variants[t]
      /\ Self(x) \in DOMAIN variants' /\ variants'[Self(x)] = v
      /\ DOMAIN variants' = DOMAIN variants \cup {Self(x)}
  BY <1>3, <1>7
<1>10. \A g : Self(g) = Self(x) <=> g = x
  BY IdsDiffer DEF Self
<1>11. Done' = Done \cup {x}
  BY <1>4, <1>7, <1>8, <1>9, <1>10 DEF Done
<1>12. /\ \A y : AllHeads(y)' = AllHeads(y)
       /\ \A y : OwnType(y)' = OwnType(y)
  BY <1>3, Lasting
<1>13. \A g \in Done : AllHeads(g) \subseteq Done /\ g \notin AllHeads(g) /\ Shaped(g)
  BY DEF MembersInv
<1>14. ASSUME NEW g \in Done
       PROVE  Shaped(g)' /\ Added(g)' = Added(g)
  <2>1. VariantOf(g)' = VariantOf(g)
    BY <1>9 DEF VariantOf, Done
  <2> QED
    BY <1>3, <1>9, <1>13, <2>1, ShapedLasts
\* Nobody leads to the element yet.
<1>15. VariantOf(x)' = v
  BY <1>9 DEF VariantOf, Self
<1>16. Added(x)' = {} /\ (v.kind = "dynamic" => v = Dynamic(OwnType(x), <<>>) /\ x \in setting.abstract)
  <2>1. CASE x \in setting.abstract
    <3>1. v = Dynamic(OwnType(x), <<>>)
      BY <2>1, <1>2, <1>4
    <3>2. First(x)' = 1
      BY <2>1, <1>3 DEF First
    <3>3. Places(x)' = 1 .. 0
      BY <1>15, <3>1, <3>2 DEF Places, Dynamic
    <3> QED
      BY <2>1, <1>15, <3>1, <3>3 DEF Added
  <2>2. CASE x \notin setting.abstract
    BY <2>2, <1>2, <1>4, <1>15 DEF Added
  <2> QED
    BY <2>1, <2>2
<1>17. Shaped(x)'
  <2>1. CASE x \in setting.abstract
    <3>1. v = Dynamic(OwnType(x), <<>>) /\ <<>> \in Seq(TypeIds) /\ v.kind = "dynamic" /\ v.members = <<>>
      BY <2>1, <1>2, <1>4 DEF Dynamic
    <3>2. IsDynamic(x)'
      BY <2>1, <1>3, <1>12, <1>15, <3>1 DEF IsDynamic
    <3>3. TwiceOnlyBranching(x)'
      <4>1. First(x)' = 1
        BY <2>1, <1>3 DEF First
      <4>2. Places(x)' = 1 .. 0
        BY <1>15, <3>1, <4>1 DEF Places
      <4> QED
        BY <4>2 DEF TwiceOnlyBranching
    <3>4. NilKept(x)'
      <4>1. CASE groups[x] = <<>>
        BY <4>1, <1>3, <1>9, <1>15, <3>1 DEF NilKept, KeepsNil, NilPlace, Self, VariantOf
      <4>2. CASE groups[x] # <<>>
        BY <4>2, <1>3, <1>4, <1>9 DEF NilKept, KeepsNil, NilPlace, NilMade
      <4> QED
        BY <4>1, <4>2
    <3> QED
      BY <3>2, <3>3, <3>4 DEF Shaped
  <2>2. CASE x \notin setting.abstract
    <3>1. v = making /\ v.kind = "reference" /\ v.type = OwnType(x)
      BY <2>2, <1>2, <1>4
    <3>2. IsReference(x)'
      BY <2>2, <1>3, <1>12, <1>15, <3>1 DEF IsReference
    <3>3. TwiceOnlyBranching(x)'
      BY <1>15, <3>1 DEF TwiceOnlyBranching
    <3>4. NilKept(x)'
      <4>1. CASE groups[x] = <<>>
        BY <4>1, <1>3, <1>4, <1>9, <1>15, <3>1 DEF NilKept, KeepsNil, NilPlace, NilMade, Self
      <4>2. CASE groups[x] # <<>>
        BY <4>2, <1>3, <1>4, <1>9 DEF NilKept, KeepsNil, NilPlace, NilMade
      <4> QED
        BY <4>1, <4>2
    <3> QED
      BY <3>2, <3>3, <3>4 DEF Shaped
  <2> QED
    BY <2>1, <2>2
<1>18. InWork = {Self(x)} /\ InWork' = {}
  BY <1>1, <1>3 DEF InWork, Self
<1>19. ASSUME NEW g \in Done
       PROVE  Added(g)' = Members(g)'
  <2>1. Members(g)' = Members(g) \cup (IF g \in AllHeads(x) THEN {Self(x)} ELSE {})
    <3>1. Members(g)' = {Self(y) : y \in {y \in Done \cup {x} : g \in AllHeads(y)}}
      BY <1>11, <1>12 DEF Members, Self
    <3> QED
      BY <3>1 DEF Members
  <2>2. Added(g) \ {Self(x)} = Members(g)
    BY <1>18 DEF MembersInv
  <2>3. g \in AllHeads(x) <=> Self(x) \in Added(g)
    BY <1>1, <1>5 DEF Reached
  <2> QED
    BY <1>14, <2>1, <2>2, <2>3
<1>20. Members(x)' = {}
  <2>1. \A y \in Done \cup {x} : x \notin AllHeads(y)
    BY <1>5, <1>7, <1>13
  <2> QED
    BY <1>11, <1>12, <2>1 DEF Members
<1>21. \A g \in Done' : Added(g)' \ InWork' = Members(g)'
  BY <1>11, <1>16, <1>18, <1>19, <1>20
<1>22. \A g \in Done' : AllHeads(g)' \subseteq Done' /\ g \notin AllHeads(g)' /\ Shaped(g)'
  BY <1>5, <1>7, <1>11, <1>12, <1>13, <1>14, <1>17
<1>23. \A t \in DynamicTypes' : \E g \in Done' : t = Self(g)
  <2>1. TAKE t \in DynamicTypes'
  <2>2. t = Self(x) \/ t \in DynamicTypes
    BY <1>9 DEF DynamicTypes
  <2> QED
    BY <1>11, <2>2 DEF MembersInv
<1>24. MembersInv'
  BY <1>3, <1>21, <1>22, <1>23 DEF MembersInv
<1>25. \A i \in 1 .. count' : nodes'[i] \in generated'
  <2>1. \A i \in 1 .. count + 1 : i \in 1 .. count \/ i = count + 1
    BY <1>6
  <2> QED
    BY <1>3, <1>6, <2>1 DEF EntriesInv
<1>26. generated' \cap Elements = {y \in Elements : Self(y) \in DOMAIN variants'}
  BY <1>3, <1>4, <1>9, <1>10 DEF EntriesInv
<1>27. EntriesInv'
  BY <1>3, <1>6, <1>11, <1>25, <1>26 DEF EntriesInv, SettingTyped, GroupsTyped, Self
<1> QED
  BY <1>24, <1>27

-----------------------------------------------------------------------------
(* All steps.                                                              *)

\* A step of the interpreter is one of the node list, or leaves that alone.
LEMMA NodesKeep ==
  TypeOK /\ WalkInv /\ [NextElements]_allvars => Refuse \/ (TypeOK' /\ WalkInv')
<1> SUFFICES ASSUME TypeOK, WalkInv, [NextElements]_allvars, ~ Refuse PROVE TypeOK' /\ WalkInv'
  OBVIOUS
<1>1. [Next]_vars
  BY DEF NextElements, WorkElements, Declare, CreateElement, Substitute, FinishElement, GenerateOther, FixNames,
         Idle, Next, Work, allvars
<1> QED
  BY <1>1, TypeStep, WalkStep

\* The other steps.
LEMMA OtherStep ==
  ASSUME TypeOK, WalkInv, EntriesInv, MembersInv,
         \/ (CacheDone \/ Walk \/ (making = Nothing /\ Panic)) /\ UNCHANGED evars
         \/ GenerateOther \/ FixNames
  PROVE  EntriesInv' /\ MembersInv'
<1>1. /\ UNCHANGED <<setting, groups, variants, making, heads, cache, types, bases>>
      /\ making = Nothing
  <2>1. CASE FixNames
    BY <2>1 DEF FixNames, Finish, MembersInv, Making, TypeOK
  <2>2. CASE GenerateOther
    BY <2>2 DEF GenerateOther, GenerateNode, MembersInv, Making, evars
  <2>3. CASE (CacheDone \/ Walk \/ (making = Nothing /\ Panic)) /\ UNCHANGED evars
    BY <2>3 DEF CacheDone, Walk, NextKey, Skip, Descend, Circular, Leave, ListDone, Panic, Walking, evars, EntriesInv
  <2> QED
    BY <2>1, <2>2, <2>3
<1>2. MembersInv'
  BY <1>1, QuietElements
<1>3. Done' = Done
  BY <1>1 DEF Done
<1>4. count \in Nat /\ Len(nodes) \in Nat /\ nodes \in Seq(Ident) /\ count <= Len(nodes)
  BY DEF TypeOK
<1>5. CASE GenerateOther
  <2>1. /\ count < Len(nodes) /\ phase = "generate" /\ phase' = phase /\ nodes' = nodes
        /\ generated' = generated \cup {Current} /\ count' = count + 1
        /\ Current \notin Elements \ generated
    BY <1>5 DEF GenerateOther, GenerateNode
  <2>2. \A i \in 1 .. count + 1 : i \in 1 .. count \/ i = count + 1
    BY <1>4
  <2>3. \A i \in 1 .. count' : nodes'[i] \in generated'
    BY <2>1, <2>2 DEF EntriesInv, Current
  <2>4. generated' \cap Elements = generated \cap Elements
    BY <2>1
  <2> QED
    BY <1>1, <1>2, <1>3, <2>1, <2>3, <2>4 DEF EntriesInv, SettingTyped, GroupsTyped
<1>6. CASE FixNames
  <2>1. phase = "generate" /\ phase' = "finished" /\ count = Len(nodes) /\ UNCHANGED <<nodes, generated, count>>
    BY <1>6 DEF FixNames, Finish
  <2> QED
    BY <1>1, <1>2, <1>3, <2>1 DEF EntriesInv, SettingTyped, GroupsTyped
<1>7. CASE (CacheDone \/ Walk \/ (making = Nothing /\ Panic)) /\ UNCHANGED evars
  <2>1. /\ UNCHANGED <<generated, count>> /\ phase' # "finished" /\ phase # "finished"
        /\ phase' \in {"cache", "list"} => phase \in {"cache", "list"}
        /\ phase' = "circular" => phase = "list"
        /\ nodes' = nodes \/ phase = "list"
    BY <1>7 DEF CacheDone, Walk, NextKey, Skip, Descend, Circular, Leave, ListDone, Panic, Walking
  <2>2. \A i \in 1 .. count' : nodes'[i] \in generated'
    BY <1>4, <2>1 DEF EntriesInv
  <2> QED
    BY <1>1, <1>2, <1>3, <2>1, <2>2 DEF EntriesInv, SettingTyped, GroupsTyped
<1> QED
  BY <1>5, <1>6, <1>7

LEMMA StutterStep == EntriesInv /\ MembersInv /\ UNCHANGED allvars => EntriesInv' /\ MembersInv'
<1> SUFFICES ASSUME EntriesInv, MembersInv, UNCHANGED allvars PROVE EntriesInv' /\ MembersInv'
  OBVIOUS
<1>1. /\ UNCHANGED <<decls, cache, types, keys, visited, stack, nodes, generated, bases, count, phase>>
      /\ UNCHANGED <<setting, groups, variants, making, heads, names>>
  BY DEF allvars, vars, evars
<1>2. EntriesInv'
  BY <1>1 DEF EntriesInv, SettingTyped, GroupsTyped, Done, Self
<1>3. Done' = Done /\ InWork' = InWork /\ DynamicTypes' = DynamicTypes /\ Current' = Current
  BY <1>1 DEF Done, InWork, Current, DynamicTypes
<1>4. Making => Making'
  <2>1. Reached' = Reached
    BY <1>1, <1>3 DEF Reached, Added, Places, First, VariantOf, Self
  <2>2. PICK x : x = Current
    OBVIOUS
  <2>3. NilMade(x)' = NilMade(x)
    BY <1>1 DEF NilMade
  <2>4. /\ OwnType(x)' = OwnType(x) /\ AllHeads(x)' = AllHeads(x) /\ Branches(x)' = Branches(x)
        /\ \A g : Upwards(g)' = Upwards(g)
    BY <1>1, Lasting
  <2> QED
    BY <1>1, <1>3, <2>1, <2>2, <2>3, <2>4 DEF Making
<1>5. ASSUME NEW h \in Done
      PROVE  Shaped(h)' /\ Added(h)' = Added(h) /\ Members(h)' = Members(h) /\ AllHeads(h)' = AllHeads(h)
  <2>1. Shaped(h) /\ VariantOf(h)' = VariantOf(h)
    BY <1>1 DEF MembersInv, VariantOf
  <2>2. \A y : AllHeads(y)' = AllHeads(y)
    BY <1>1, Lasting
  <2>3. Members(h)' = Members(h)
    BY <1>3, <2>2 DEF Members
  <2> QED
    BY <1>1, <2>1, <2>2, <2>3, ShapedLasts
<1>6. MembersInv'
  BY <1>1, <1>4, <1>3, <1>5 DEF MembersInv
<1> QED
  BY <1>2, <1>6

\* The names are given once, at the end.
LEMMA NamesStep == NamesInv /\ [NextElements]_allvars => NamesInv'
<1> SUFFICES ASSUME NamesInv, [NextElements]_allvars PROVE NamesInv'
  OBVIOUS
<1>0. ASSUME UNCHANGED <<setting, variants>>
      PROVE  DynamicTypes' = DynamicTypes /\ \A ms, j : DisplayName(ms, j)' = DisplayName(ms, j)
  BY <1>0 DEF DynamicTypes, DisplayName, NsName, SecondName, Name, Ns, Alike
<1>1. CASE FixNames
  <2>1. /\ phase' = "finished" /\ UNCHANGED <<setting, variants>>
        /\ names' = [t \in DynamicTypes |->
                       LET ms == variants[t].members IN [j \in DOMAIN ms |-> DisplayName(ms, j)]]
    BY <1>1 DEF FixNames, Finish
  <2> QED
    BY <1>0, <2>1 DEF NamesInv
<1>2. CASE UNCHANGED names /\ phase # "finished"
  BY <1>2 DEF NamesInv
<1>3. CASE UNCHANGED allvars
  <2>1. UNCHANGED <<names, phase, setting, variants>>
    BY <1>3 DEF allvars, evars, vars
  <2> QED
    BY <1>0, <2>1 DEF NamesInv
<1>4. FixNames \/ (UNCHANGED names /\ phase # "finished") \/ UNCHANGED allvars
  BY DEF NextElements, WorkElements, Declare, NewEntry, CreateElement, Substitute, FinishElement, GenerateOther,
         GenerateNode, Refuse, InElement, CacheDone, Walk, NextKey, Skip, Descend, Circular, Leave, ListDone, Panic,
         Walking, Idle, evars
<1> QED
  BY <1>1, <1>2, <1>3, <1>4

LEMMA ElementsStep == ElementsInv /\ [NextElements]_allvars => ElementsInv'
<1> SUFFICES ASSUME ElementsInv, [NextElements]_allvars PROVE ElementsInv'
  OBVIOUS
<1>1. NamesInv'
  BY NamesStep DEF ElementsInv
<1>2. CASE phase = "refused"
  <2>1. phase' = "refused"
    BY <1>2 DEF NextElements, WorkElements, Declare, NewEntry, CreateElement, Substitute, FinishElement, GenerateOther,
         GenerateNode, Refuse, InElement, CacheDone, Walk, NextKey, Skip, Descend, Circular, Leave, ListDone, Panic,
         Walking, Idle, FixNames, Finish, allvars, vars
  <2> QED
    BY <1>1, <2>1 DEF ElementsInv
<1>3. CASE Refuse
  BY <1>1, <1>3 DEF Refuse, ElementsInv
<1>4. CASE phase # "refused" /\ ~ Refuse
  <2>1. TypeOK /\ WalkInv /\ EntriesInv /\ MembersInv
    BY <1>4 DEF ElementsInv
  <2>2. TypeOK' /\ WalkInv'
    BY <1>4, <2>1, NodesKeep
  <2>3. CASE UNCHANGED allvars
    BY <1>1, <2>1, <2>2, <2>3, StutterStep DEF ElementsInv
  <2>4. CASE WorkElements
    <3>1. EntriesInv' /\ MembersInv'
      BY <1>4, <2>1, <2>4, DeclareStep, CreateStep, SubstituteStep, FinishStep, OtherStep DEF WorkElements
    <3> QED
      BY <1>1, <2>2, <3>1 DEF ElementsInv
  <2> QED
    BY <2>3, <2>4 DEF NextElements, Idle
<1> QED
  BY <1>2, <1>3, <1>4

-----------------------------------------------------------------------------
(* The theorems.                                                           *)

\* For every set of declarations, in every order and every circle of heads: what the walk has
\* declared, what is registered with each head, and the element it is at, are as the depth-first
\* walk of process_element and of the variant processor leaves them.
THEOREM ElementsInvariant == SpecElements => []ElementsInv
<1>1. InitElements => ElementsInv
  BY ElementsInit
<1>2. ElementsInv /\ [NextElements]_allvars => ElementsInv'
  BY ElementsStep
<1> QED
  BY <1>1, <1>2, PTL DEF SpecElements

\* At the end types were made for those elements that are to have one.
LEMMA MadeAreDone == ASSUME ElementsInv, phase = "finished" PROVE Made = Done
<1>1. TypeOK /\ WalkInv /\ EntriesInv /\ MembersInv /\ count = Len(nodes)
  BY DEF ElementsInv, EntriesInv
<1>2. Done \subseteq Made
  BY <1>1 DEF Done, Made, EntriesInv, Self
<1>3. ASSUME NEW x \in Elements \cap types
      PROVE  Self(x) \in DOMAIN variants
  <2>1. stack = <<>> /\ keys = <<>> /\ DOMAIN keys = {} /\ DOMAIN stack = {}
    BY <1>1 DEF WalkInv, Awaited
  <2>2. Is(x, "done") /\ x \in Ident
    BY <1>1, <2>1 DEF WalkInv, Awaited, TypeOK
  <2>3. PICK i \in DOMAIN nodes : nodes[i] = x
    BY <1>1, <2>2 DEF WalkInv, ListedDone
  <2>4. i \in 1 .. count
    BY <1>1 DEF TypeOK
  <2>5. x \in generated
    BY <1>1, <2>3, <2>4 DEF EntriesInv
  <2> QED
    BY <1>1, <2>5 DEF EntriesInv
<1>4. Made \subseteq Done
  BY <1>3 DEF Made, Done, Self
<1> QED
  BY <1>2, <1>4

\* Every element can be its own type, unless it is abstract, and every element that leads
\* to it, and nothing else, for all declarations in every order.
THEOREM MembersAlwaysComplete == SpecElements => []MembersComplete
<1>1. ElementsInv => MembersComplete
  <2> SUFFICES ASSUME ElementsInv, phase = "finished", NEW h \in Made
               PROVE  HasMembers(h) /\ (h \in setting.nillable => KeepsNil(h))
    BY DEF MembersComplete
  <2>1. TypeOK /\ WalkInv /\ EntriesInv /\ MembersInv /\ making = Nothing
    BY DEF ElementsInv, EntriesInv
  <2>2. Made = Done /\ h \in Done
    BY MadeAreDone
  <2>3. Shaped(h) /\ Added(h) = Members(h)
    BY <2>1, <2>2 DEF MembersInv, InWork
  <2>4. h \in setting.nillable => KeepsNil(h)
    BY <2>3 DEF Shaped, NilKept
  <2>5. PICK v : v = VariantOf(h)
    OBVIOUS
  <2>6. PICK own : own = IF h \in setting.abstract THEN <<>> ELSE <<OwnType(h)>>
    OBVIOUS
  <2> DEFINE below == {x \in Made : h \in AllHeads(x)}
             rest == SubSeq(v.members, Len(own) + 1, Len(v.members))
  <2>7. Members(h) = {Id(x, "self") : x \in below}
    BY <2>2 DEF Members, Self
  <2>8. OwnType(h) \in TypeIds
    BY <2>1, <2>2, DoneTyped
  <2>9. CASE IsReference(h)
    <3>1. v.kind = "reference" /\ v.type = OwnType(h) /\ own # <<>> /\ Added(h) = {}
      BY <2>5, <2>6, <2>9 DEF IsReference, Added
    <3>2. below = {}
      BY <2>3, <2>7, <3>1
    <3> QED
      BY <2>4, <2>5, <2>6, <3>1, <3>2 DEF HasMembers, VariantOf, Self
  <2>10. CASE IsDynamic(h)
    <3>1. /\ v.kind = "dynamic" /\ v.type = OwnType(h) /\ v.members \in Seq(TypeIds)
          /\ own # <<>> => Len(v.members) > 1 /\ v.members[1] = OwnType(h)
          /\ Added(h) = {v.members[i] : i \in First(h) .. Len(v.members)}
          /\ \A i, j \in First(h) .. Len(v.members) : v.members[i] = v.members[j] /\ i # j =>
               Branches(v.members[i].of)
      BY <2>3, <2>5, <2>6, <2>10 DEF IsDynamic, Dynamic, Added, Places, Shaped, TwiceOnlyBranching
    <3>2. PICK ms \in Seq(TypeIds) : ms = v.members
      BY <3>1
    <3>3. PICK o \in {0, 1} : o = Len(own) /\ First(h) = o + 1 /\ (o = 0 <=> own = <<>>)
      BY <2>6 DEF First
    <3>4. Len(ms) \in Nat /\ DOMAIN ms = 1 .. Len(ms) /\ o <= Len(ms)
      BY <3>1, <3>2, <3>3
    <3>5. PICK rs \in Seq(TypeIds) : /\ rs = SubSeq(ms, o + 1, Len(ms)) /\ Len(rs) = Len(ms) - o
                                     /\ DOMAIN rs = 1 .. Len(ms) - o
                                     /\ \A i \in 1 .. Len(ms) - o : rs[i] = ms[i + o]
      <4>1. PICK rs : rs = SubSeq(ms, o + 1, Len(ms))
        OBVIOUS
      <4>2. o \in Nat /\ o + 1 <= Len(ms) + 1
        BY <3>3, <3>4
      <4>3. rs = [i \in 1 .. Len(ms) - o |-> ms[i + o]]
        <5>1. rs = [i \in 1 .. Len(ms) - (o + 1) + 1 |-> ms[i + (o + 1) - 1]]
          BY <3>4, <4>1, <4>2 DEF SubSeq
        <5>2. Len(ms) - (o + 1) + 1 = Len(ms) - o
          BY <3>4, <4>2
        <5>3. \A i \in 1 .. Len(ms) - o : i + (o + 1) - 1 = i + o
          BY <4>2
        <5> QED
          BY <5>1, <5>2, <5>3
      <4>4. Len(ms) - o \in Nat
        BY <3>4, <4>2
      <4>5. \A i \in 1 .. Len(ms) - o : ms[i + o] \in TypeIds
        BY <3>4, <4>2
      <4>6. rs \in Seq(TypeIds) /\ Len(rs) = Len(ms) - o /\ DOMAIN rs = 1 .. Len(ms) - o
        BY <4>3, <4>4, <4>5
      <4>7. \A i \in 1 .. Len(ms) - o : rs[i] = ms[i + o]
        BY <4>3
      <4> QED
        BY <4>1, <4>6, <4>7
    <3>6. IsPrefix(own, ms)
      <4>1. CASE own = <<>>
        BY <4>1, <3>4 DEF IsPrefix
      <4>2. CASE own # <<>>
        BY <4>2, <2>6, <2>8, <3>1, <3>2, <3>4 DEF IsPrefix
      <4> QED
        BY <4>1, <4>2
    <3>7. ToSet(rs) = Added(h)
      <4>1. \A i \in 1 .. Len(ms) - o : i + o \in o + 1 .. Len(ms)
        BY <3>3, <3>4
      <4>2. \A i \in o + 1 .. Len(ms) : i - o \in 1 .. Len(ms) - o /\ (i - o) + o = i
        BY <3>3, <3>4
      <4>3. {rs[i] : i \in 1 .. Len(ms) - o} = {ms[i] : i \in o + 1 .. Len(ms)}
        <5>1. \A i \in 1 .. Len(ms) - o : rs[i] \in {ms[k] : k \in o + 1 .. Len(ms)}
          BY <3>5, <4>1
        <5>2. \A i \in o + 1 .. Len(ms) : rs[i - o] = ms[i]
          BY <3>5, <4>2
        <5>3. \A i \in o + 1 .. Len(ms) : ms[i] \in {rs[k] : k \in 1 .. Len(ms) - o}
          BY <4>2, <5>2
        <5> QED
          BY <5>1, <5>3
      <4> QED
        <5>1. ToSet(rs) = {rs[i] : i \in 1 .. Len(ms) - o}
          BY <3>5 DEF ToSet
        <5>2. Added(h) = {ms[i] : i \in o + 1 .. Len(ms)}
          BY <3>1, <3>2, <3>3
        <5> QED
          BY <4>3, <5>1, <5>2
    <3>8. ASSUME NEW i \in DOMAIN rs, NEW j \in DOMAIN rs, rs[i] = rs[j], i # j
          PROVE  \E x \in AllHeads(rs[i].of) \cup {rs[i].of} : Len(groups[x]) > 1
      <4>1. rs[i] = ms[i + o] /\ rs[j] = ms[j + o] /\ i + o # j + o
            /\ i + o \in o + 1 .. Len(ms) /\ j + o \in o + 1 .. Len(ms)
        <5>1. i \in 1 .. Len(ms) - o /\ j \in 1 .. Len(ms) - o /\ o \in Nat
          BY <3>3, <3>5
        <5>2. rs[i] = ms[i + o] /\ rs[j] = ms[j + o]
          BY <3>5, <5>1
        <5>3. i + o # j + o /\ i + o \in o + 1 .. Len(ms) /\ j + o \in o + 1 .. Len(ms)
          BY <3>4, <3>8, <5>1
        <5> QED
          BY <5>2, <5>3
      <4>2. Branches(rs[i].of)
        BY <3>1, <3>2, <3>3, <3>8, <4>1
      <4> QED
        BY <4>2 DEF Branches
    <3>9. own # <<>> => below # {}
      <4>1. SUFFICES ASSUME own # <<>>
                     PROVE  Added(h) # {}
        BY <2>3, <2>7
      <4>2. 2 \in First(h) .. Len(v.members)
        BY <3>1, <3>2, <3>3, <3>4, <4>1
      <4> QED
        BY <3>1, <4>2
    <3>10. ToSet(rs) = {Id(x, "self") : x \in below}
      BY <2>3, <2>7, <3>7
    <3> HIDE DEF below
    <3>11. HasMembers(h) <=> IF below = {} /\ own # <<>>
                             THEN v.kind = "reference" /\ v.type = OwnType(h)
                             ELSE /\ v.kind = "dynamic" /\ v.type = OwnType(h)
                                  /\ IsPrefix(own, v.members)
                                  /\ ToSet(rs) = {Id(x, "self") : x \in below}
                                  /\ \A i, j \in DOMAIN rs :
                                       rs[i] = rs[j] /\ i # j =>
                                         \E x \in AllHeads(rs[i].of) \cup {rs[i].of} : Len(groups[x]) > 1
      BY <2>5, <2>6, <3>2, <3>3, <3>5 DEF HasMembers, VariantOf, Self, below
    <3> QED
      BY <2>4, <3>1, <3>2, <3>6, <3>8, <3>9, <3>10, <3>11
  <2> QED
    BY <2>3, <2>9, <2>10 DEF Shaped
<1> QED
  BY <1>1, ElementsInvariant, PTL

\* The members of a type have different names but for the known deviations, for all
\* declarations whose namespaces have different prefixes.
THEOREM NamesAlwaysDistinct == SpecElements => []NamesDistinct
<1>1. ElementsInv => NamesDistinct
  <2> SUFFICES ASSUME ElementsInv, NEW t \in DOMAIN names, NEW i \in DOMAIN names[t], NEW j \in DOMAIN names[t],
                      i # j, names[t][i] = names[t][j], Name(variants[t].members[i]) = Name(variants[t].members[j]),
                      NEW same, same = {k \in DOMAIN variants[t].members :
                                          Name(variants[t].members[k]) = Name(variants[t].members[i])}
               PROVE  \/ /\ Cardinality(same) > 2
                         /\ \E k, l \in same : k # l /\ Ns(variants[t].members[k]) = Ns(variants[t].members[l])
                      \/ /\ Ns(variants[t].members[i]) # Ns(variants[t].members[j])
                         /\ Prefix[Ns(variants[t].members[i])] = NoPrefix
                         /\ Prefix[Ns(variants[t].members[j])] = NoPrefix
    BY DEF NamesDistinct
  <2>1. /\ phase = "finished" /\ t \in DynamicTypes
        /\ names[t] = [k \in DOMAIN variants[t].members |-> DisplayName(variants[t].members, k)]
    BY DEF ElementsInv, NamesInv
  <2>2. EntriesInv /\ MembersInv
    BY <2>1 DEF ElementsInv
  <2>3. PICK ms \in Seq(TypeIds) : ms = variants[t].members
    <3>1. PICK h \in Done : t = Self(h)
      BY <2>1, <2>2 DEF MembersInv
    <3>2. IsDynamic(h)
      BY <2>1, <2>2, <3>1 DEF MembersInv, Shaped, IsReference, VariantOf, DynamicTypes
    <3> QED
      BY <3>1, <3>2 DEF IsDynamic, VariantOf
  <2>4. /\ i \in DOMAIN ms /\ j \in DOMAIN ms /\ Alike(ms[i], ms[j]) /\ Alike(ms[j], ms[i])
        /\ DisplayName(ms, i) = DisplayName(ms, j)
        /\ i \in Nat /\ j \in Nat /\ (i < j \/ j < i) /\ SettingTyped
        /\ same = {k \in DOMAIN ms : Name(ms[k]) = Name(ms[i])}
        /\ same = {k \in DOMAIN ms : Name(ms[k]) = Name(ms[j])}
    BY <2>1, <2>2, <2>3 DEF Alike, EntriesInv
  <2>5. \/ Cardinality(same) > 2 /\ \E k, l \in same : k # l /\ Ns(ms[k]) = Ns(ms[l])
        \/ Ns(ms[i]) # Ns(ms[j]) /\ Prefix[Ns(ms[i])] = NoPrefix /\ Prefix[Ns(ms[j])] = NoPrefix
    <3>1. CASE i < j
      BY <3>1, <2>4, LaterNamed
    <3>2. CASE j < i
      BY <3>2, <2>4, LaterNamed
    <3> QED
      BY <2>4, <3>1, <3>2
  <2> QED
    BY <2>3, <2>5
<1> QED
  BY <1>1, ElementsInvariant, PTL
=============================================================================
