-------------------------- MODULE OptimizerProofs --------------------------
(***************************************************************************)
(* Proofs about the Optimizer, for every finite table of types: the map of *)
(* typedefs that passes keep between them leads where the references lead,  *)
(* and no pass makes a type a part of itself.                              *)
(*                                                                         *)
(* The inductive invariant is TypedefsInv: every type has the fields of    *)
(* its kind, has its parts in the table and is no part of itself (IsTable), *)
(* and the map fits the table (MapFits). A pass makes a type of what it was *)
(* made of before, over any number of others (Fine): so nothing comes      *)
(* around that did not before (TableStep). The two passes for which this   *)
(* is not so are proved on their own: convert_dynamic_to_choice adds types  *)
(* (DynamicsGrown), and remove_duplicates makes types refer to others they  *)
(* were not made of (DuplicatesTable).                                     *)
(*                                                                         *)
(* On top of it, PassesInv keeps the groups apart from the other types     *)
(* (Layered): no type but a complex one has a group or a reference to one.  *)
(* Until duplicates are removed no complex type has a reference to a group *)
(* for content (Direct), and resolve_typedefs makes that so again. With the *)
(* order of the passes (InGoodOrder) this is why the ones that unwrap only *)
(* fail where they do.                                                     *)
(*                                                                         *)
(* The recursive functions of the model are all defined because a table    *)
(* does not come around (Recursion).                                       *)
(***************************************************************************)
EXTENDS Optimizer, TLAPS, WellFoundedInduction, FiniteSetTheorems

-----------------------------------------------------------------------------
(* Recursive functions: each one in the model is one of these.             *)

\* What an operator makes of the k-th element of a sequence and of the result so far.
Proceed(f, before, pass) == IF Enabled(f)[pass] THEN Append(before, pass) ELSE before
Apply(p, r, k) ==
  CASE p[1] = "union" -> FlattenUnion(r, p[3][k])
    [] p[1] = "enumeration" -> MergeEnumUnion(r, p[3][k])
    [] p[1] = "dynamic" -> ConvertDynamic(r, p[3][k])
    [] p[1] = "complex" -> FlattenComplexType(r, p[3][k])
    [] p[1] = "choice" -> MergeChoiceCardinality(r, p[3][k])
    [] p[1] = "mixed" -> SimplifyMixedType(r, p[3][k])
    [] p[1] = "count" -> Update(r, p[3][k].min, p[3][k].max)
    [] p[1] = "add" -> AddElement(r, p[4], p[3][k])
    [] p[1] = "plan" -> Proceed(p[4], r, p[3][k])
    [] OTHER -> ExecElement(p[4], p[3][k], r, p[5])

\* The value at i of a recursive function, from its values f.
Body(p, f, i) ==
  CASE p[1] = "follow" -> IF i \in p[2] THEN f[p[3][i]] ELSE i
    [] p[1] = "resolved" ->
         IF IsSimpleReference(p[2][i[1]]) /\ p[2][i[1]].to \notin i[2] \cup {i[1]}
         THEN f[<<p[2][i[1]].to, i[2] \cup {i[1]}>>] ELSE i[1]
    [] p[1] = "leaves" ->
         IF p[2][i].kind = "union"
         THEN FlattenSeq([k \in DOMAIN p[2][i].members |-> f[p[2][i].members[k]]])
         ELSE IF IsSimpleReference(p[2][i]) THEN f[p[2][i].to] ELSE <<i>>
    [] p[1] = "derived" ->
         Distinct(FlattenSeq([k \in DOMAIN p[2][i].derived |->
           IF p[2][GetResolved(p[2], p[2][i].derived[k])].kind = "dynamic"
           THEN f[GetResolved(p[2], p[2][i].derived[k])]
           ELSE <<Element(PropertyName[p[2][i].derived[k]], "element", p[2][i].derived[k], 1, 1)>>]))
    [] p[1] = "flatten" ->
         IF p[2][i].kind \in Groups
         THEN Fold(LAMBDA b, k : ExecElement(p[2][i].elements, k, b, f), Builder(p[2][i]),
                   [k \in DOMAIN p[2][i].elements |-> k])
         ELSE Failed
    [] p[1] = "order" -> IF i = {} THEN <<>> ELSE Append(f[i \ {Max(i)}], Max(i))
    [] p[1] = "firsts" ->
         IF i = 0 THEN <<>>
         ELSE IF \A n \in 1 .. i - 1 : p[3][n] # p[3][i] THEN Append(f[i - 1], p[2][i])
         ELSE f[i - 1]
    [] p[1] = "concat" -> IF i = 1 THEN p[2][i] ELSE f[i - 1] \o p[2][i]
    [] OTHER -> IF i = 0 THEN p[2] ELSE Apply(p, f[i - 1], i)

\* Nothing is below itself.
Grounded(D, kids) == \A S \in SUBSET D : S # {} => \E i \in S : kids[i] \cap S = {}

\* A value only needs those below it.
Depends(p, D, kids) ==
  \A i \in D : \A f, g : (\A j \in kids[i] : f[j] = g[j]) => Body(p, f, i) = Body(p, g, i)

\* A function on a part of the domain, and on all that is below.
Attempt(p, D, kids, f, X) ==
  X \in SUBSET D /\ (\A x \in X : kids[x] \subseteq X) /\ f = [i \in X |-> Body(p, f, i)]
Attempted(p, D, kids, j, v) ==
  \E f, X : Attempt(p, D, kids, f, X) /\ j \in X /\ v = f[j]

\* Two of them agree where both are defined.
LEMMA AttemptsAgree ==
  ASSUME NEW p, NEW D, NEW kids \in [D -> SUBSET D], Grounded(D, kids), Depends(p, D, kids),
         NEW f, NEW X, Attempt(p, D, kids, f, X), NEW g, NEW Y, Attempt(p, D, kids, g, Y),
         NEW j \in X \cap Y
  PROVE  f[j] = g[j]
<1> DEFINE S == {i \in X \cap Y : f[i] # g[i]}
<1>1. SUFFICES ASSUME S # {} PROVE FALSE
  OBVIOUS
<1>2. S \in SUBSET D
  BY DEF Attempt
<1>3. PICK i \in S : kids[i] \cap S = {}
  BY <1>1, <1>2 DEF Grounded
<1>4. \A k \in kids[i] : f[k] = g[k]
  BY <1>3 DEF Attempt
<1>5. Body(p, f, i) = Body(p, g, i)
  BY <1>2, <1>4 DEF Depends
<1>6. f[i] = Body(p, f, i) /\ g[i] = Body(p, g, i)
  BY DEF Attempt
<1> QED
  BY <1>5, <1>6

\* What a recursive definition asks of its function.
Solves(p, D, f) == f = [i \in D |-> Body(p, f, i)]

\* A function that is defined by recursion exists.
LEMMA Recursion ==
  ASSUME NEW p, NEW D, NEW kids \in [D -> SUBSET D], Grounded(D, kids), Depends(p, D, kids)
  PROVE  \E f : Solves(p, D, f)
<1> DEFINE G == {j \in D : \E v : Attempted(p, D, kids, j, v)}
           h == [j \in G |-> CHOOSE v : Attempted(p, D, kids, j, v)]
<1>1. \A j \in G : Attempted(p, D, kids, j, h[j])
  OBVIOUS
<1>2. ASSUME NEW f, NEW X, Attempt(p, D, kids, f, X), NEW j \in X
      PROVE  j \in G /\ h[j] = f[j]
  <2>1. j \in G
    BY <1>2 DEF Attempt, Attempted
  <2>2. PICK g, Y : Attempt(p, D, kids, g, Y) /\ j \in Y /\ h[j] = g[j]
    BY <1>1, <2>1 DEF Attempted
  <2> QED
    BY <1>2, <2>1, <2>2, AttemptsAgree
<1>3. \A j \in G : kids[j] \subseteq G /\ h[j] = Body(p, h, j)
  <2> SUFFICES ASSUME NEW j \in G PROVE kids[j] \subseteq G /\ h[j] = Body(p, h, j)
    OBVIOUS
  <2>1. PICK g, Y : Attempt(p, D, kids, g, Y) /\ j \in Y /\ h[j] = g[j]
    BY <1>1 DEF Attempted
  <2>2. \A k \in kids[j] : k \in G /\ h[k] = g[k]
    BY <1>2, <2>1 DEF Attempt
  <2>3. Body(p, h, j) = Body(p, g, j)
    BY <2>2 DEF Depends
  <2> QED
    BY <2>1, <2>2, <2>3 DEF Attempt
<1>4. Attempt(p, D, kids, h, G)
  BY <1>3 DEF Attempt
<1>5. D \subseteq G
  <2>1. SUFFICES ASSUME D \ G # {} PROVE FALSE
    OBVIOUS
  <2>2. PICK i \in D \ G : kids[i] \cap (D \ G) = {}
    BY <2>1 DEF Grounded
  <2>3. kids[i] \subseteq G
    BY <2>2
  <2> DEFINE X == G \cup {i}
             f == [j \in X |-> IF j = i THEN Body(p, h, i) ELSE h[j]]
  <2>4. \A j \in X : f[j] = Body(p, f, j)
    <3>1. \A j \in X : kids[j] \subseteq G
      BY <1>3, <2>3
    <3>2. \A j \in X : \A k \in kids[j] : f[k] = h[k]
      BY <3>1
    <3>3. \A j \in X : Body(p, f, j) = Body(p, h, j)
      BY <3>2 DEF Depends
    <3> QED
      BY <1>3, <3>3
  <2>5. Attempt(p, D, kids, f, X)
    <3>1. \A x \in X : kids[x] \subseteq X
      BY <1>3, <2>3
    <3>2. f = [j \in X |-> Body(p, f, j)]
      BY <2>4
    <3> HIDE DEF f
    <3> QED
      BY <3>1, <3>2 DEF Attempt
  <2>6. i \in X
    OBVIOUS
  <2> HIDE DEF f, X, G
  <2>7. i \in G
    BY <1>2, <2>5, <2>6
  <2> QED
    BY <2>7
<1>6. G = D
  BY <1>5
<1>7. h = [i \in D |-> Body(p, h, i)]
  BY <1>4, <1>6 DEF Attempt
<1> HIDE DEF h, G
<1> QED
  BY <1>7 DEF Solves

-----------------------------------------------------------------------------
(* Numbers and sequences.                                                  *)

\* A set of numbers that is not empty has a least one.
LEMMA LeastNumber ==
  ASSUME NEW T \in SUBSET Nat, T # {}
  PROVE  \E x \in T : \A y \in T : x <= y
<1>1. IsWellFoundedOn({p \in Nat \X Nat : p[1] < p[2]}, Nat)
  BY NatLessThanWellFounded DEF OpToRel
<1>2. \E x \in T : \A y \in T : ~ (<<y, x>> \in {p \in Nat \X Nat : p[1] < p[2]})
  BY <1>1, WFMin
<1>3. \E x \in T : \A y \in T : ~ (y < x)
  BY <1>2
<1> QED
  BY <1>3

\* The numbers below another one, down to the first.
LEMMA Countdown ==
  ASSUME NEW n \in Nat, NEW first \in Nat
  PROVE  LET kids == [k \in first .. n |-> IF k = first THEN {} ELSE {k - 1}]
         IN kids \in [first .. n -> SUBSET (first .. n)] /\ Grounded(first .. n, kids)
<1> DEFINE kids == [k \in first .. n |-> IF k = first THEN {} ELSE {k - 1}]
<1>1. kids \in [first .. n -> SUBSET (first .. n)]
  OBVIOUS
<1>2. ASSUME NEW S \in SUBSET (first .. n), S # {}
      PROVE  \E i \in S : kids[i] \cap S = {}
  <2>1. PICK i \in S : \A j \in S : i <= j
    BY <1>2, LeastNumber
  <2> QED
    BY <2>1
<1> QED
  BY <1>1, <1>2 DEF Grounded

\* What a fold computes, one element after the other.
IsFold(f, p, n) == f = [k \in 0 .. n |-> IF k = 0 THEN p[2] ELSE Apply(p, f[k - 1], k)]

\* The recursive function of a fold is there.
LEMMA FoldRecursion ==
  ASSUME NEW p, NEW n \in Nat,
         p[1] \notin {"follow", "resolved", "leaves", "derived", "flatten", "order", "firsts", "concat"}
  PROVE  \E f : IsFold(f, p, n)
<1> DEFINE kids == [k \in 0 .. n |-> IF k = 0 THEN {} ELSE {k - 1}]
<1>1. \A f, k : Body(p, f, k) = IF k = 0 THEN p[2] ELSE Apply(p, f[k - 1], k)
  BY DEF Body
<1>2. kids \in [0 .. n -> SUBSET (0 .. n)] /\ Grounded(0 .. n, kids)
  BY Countdown
<1>3. \A k \in 0 .. n : k # 0 => kids[k] = {k - 1}
  OBVIOUS
<1> HIDE DEF kids
<1>4. Depends(p, 0 .. n, kids)
  BY <1>1, <1>3 DEF Depends
<1>5. PICK f : Solves(p, 0 .. n, f)
  BY <1>2, <1>4, Recursion
<1>7. f = [k \in 0 .. n |-> Body(p, f, k)]
  BY <1>5 DEF Solves
<1>6. f = [k \in 0 .. n |-> IF k = 0 THEN p[2] ELSE Apply(p, f[k - 1], k)]
  BY <1>1, <1>7
<1> QED
  BY <1>6 DEF IsFold

-----------------------------------------------------------------------------
(* Chains of types.                                                        *)

Chain(D, S, next) ==
  /\ S \in SUBSET D /\ next \in [S -> D]
  /\ \A T \in SUBSET S : T # {} => \E i \in T : next[i] \notin T

\* A chain that does not come around has an end, within what it does not leave.
LEMMA Follow ==
  ASSUME NEW D, NEW S, NEW next, Chain(D, S, next)
  PROVE  \E f : /\ f = [i \in D |-> f[i]]
                /\ \A i \in D : f[i] = IF i \in S THEN f[next[i]] ELSE i
<1> USE DEF Chain
<1> DEFINE p == <<"follow", S, next>>
           kids == [i \in D |-> IF i \in S THEN {next[i]} ELSE {}]
<1>1. p[1] = "follow" /\ p[2] = S /\ p[3] = next
  OBVIOUS
<1>2. \A f, i : Body(p, f, i) = IF i \in S THEN f[next[i]] ELSE i
  BY <1>1 DEF Body
<1>3. kids \in [D -> SUBSET D]
  OBVIOUS
<1>4. Grounded(D, kids)
  <2> SUFFICES ASSUME NEW T \in SUBSET D, T # {} PROVE \E i \in T : kids[i] \cap T = {}
    BY DEF Grounded
  <2>1. CASE T \subseteq S
    <3>1. PICK i \in T : next[i] \notin T
      BY <2>1
    <3> QED
      BY <2>1, <3>1
  <2>2. CASE ~ (T \subseteq S)
    BY <2>2
  <2> QED
    BY <2>1, <2>2
<1>5. \A i \in S : kids[i] = {next[i]}
  OBVIOUS
<1> HIDE DEF p, kids
<1>6. Depends(p, D, kids)
  BY <1>2, <1>5 DEF Depends
<1>0. PICK f : Solves(p, D, f)
  BY <1>3, <1>4, <1>6, Recursion
<1>7. f = [i \in D |-> Body(p, f, i)]
  BY <1>0 DEF Solves
<1>8. f = [i \in D |-> f[i]] /\ \A i \in D : f[i] = IF i \in S THEN f[next[i]] ELSE i
  BY <1>2, <1>7
<1> QED
  BY <1>8

\* Following a chain leads to where it ends, and stays in what it does not leave.
LEMMA FollowEnds ==
  ASSUME NEW D, NEW S, NEW next, Chain(D, S, next),
         NEW f, \A i \in D : f[i] = IF i \in S THEN f[next[i]] ELSE i,
         NEW X \in SUBSET D, \A x \in X : x \in S => next[x] \in X
  PROVE  \A x \in X : f[x] \in X /\ f[x] \notin S
<1> USE DEF Chain
<1> DEFINE T == {x \in X : f[x] \notin X \/ f[x] \in S}
<1>1. SUFFICES ASSUME T # {} PROVE FALSE
  OBVIOUS
<1>2. T \in SUBSET S
  OBVIOUS
<1>3. PICK i \in T : next[i] \notin T
  <2> HIDE DEF T
  <2> QED
    BY <1>1, <1>2
<1>4. f[i] = f[next[i]] /\ next[i] \in X
  BY <1>2, <1>3
<1> QED
  BY <1>3, <1>4

\* The references of a table are such a chain.
Refs(t) == {i \in DOMAIN t : IsSimpleReference(t[i])}

\* The parts of a type, kind by kind.
LEMMA PartsOf ==
  ASSUME NEW t
  PROVE  /\ t.kind = "reference" => Parts(t) = IF IsSimpleReference(t) THEN {t.to} ELSE {}
         /\ t.kind \in {"enumeration", "complex"} => Parts(t) = {t.base.of} \ {NoIdent}
         /\ t.kind = "union" => Parts(t) = ({t.base.of} \ {NoIdent}) \cup ToSet(t.members)
         /\ t.kind = "simple" => Parts(t) = {t.base}
         /\ t.kind = "dynamic" => Parts(t) = ToSet(t.derived)
         /\ t.kind \in Groups =>
              Parts(t) = {e.to : e \in {x \in ToSet(t.elements) : x.mode = "group"}}
         /\ t.kind = "buildin" => Parts(t) = {}
BY DEF Parts, Groups

\* The part of a simple reference is the type it refers to.
LEMMA PartOfReference ==
  ASSUME NEW t, IsSimpleReference(t)
  PROVE  Parts(t) = {t.to}
BY PartsOf DEF IsSimpleReference

\* The simple references of a table are such a chain: they lead into the table, and
\* end.
LEMMA RefsChain ==
  ASSUME NEW t, IsTable(t)
  PROVE  /\ \A i \in Refs(t) : t[i].to \in DOMAIN t /\ Parts(t[i]) = {t[i].to}
         /\ \A T \in SUBSET Refs(t) : T # {} => \E i \in T : t[i].to \notin T
<1>1. \A i \in Refs(t) : t[i].to \in DOMAIN t /\ Parts(t[i]) = {t[i].to}
  BY PartOfReference DEF Refs, IsTable
<1>2. ASSUME NEW T \in SUBSET Refs(t), T # {}
      PROVE  \E i \in T : t[i].to \notin T
  <2>1. T \in SUBSET DOMAIN t
    BY DEF Refs
  <2>2. PICK i \in T : Parts(t[i]) \cap T = {}
    BY <1>2, <2>1 DEF IsTable
  <2> QED
    BY <1>1, <2>2
<1> QED
  BY <1>1, <1>2

\* get_resolved follows the references to their end: it never comes around.
LEMMA Resolved ==
  ASSUME NEW t, IsTable(t)
  PROVE  \A i \in DOMAIN t :
           GetResolved(t, i) = IF i \in Refs(t) THEN GetResolved(t, t[i].to) ELSE i
<1> DEFINE D == DOMAIN t
           S == Refs(t)
           next == [i \in S |-> t[i].to]
           P == D \X (SUBSET D)
           p == <<"resolved", t>>
           goes(at) == at[1] \in S /\ t[at[1]].to \notin at[2] \cup {at[1]}
           step(at) == <<t[at[1]].to, at[2] \cup {at[1]}>>
           kids == [at \in P |-> IF goes(at) THEN {step(at)} ELSE {}]
<1>1. \A i \in S : t[i].to \in D /\ Parts(t[i]) = {t[i].to}
  BY RefsChain
<1>2. S \in SUBSET D /\ next \in [S -> D]
  BY <1>1 DEF Refs
<1>3. \A T \in SUBSET S : T # {} => \E i \in T : next[i] \notin T
  BY RefsChain
<1>4. \A at \in P : goes(at) => step(at) \in P
  BY <1>1
<1>5. kids \in [P -> SUBSET P]
  BY <1>4
<1>6. Grounded(P, kids)
  <2> SUFFICES ASSUME NEW T \in SUBSET P, T # {} PROVE \E at \in T : kids[at] \cap T = {}
    BY DEF Grounded
  <2> DEFINE F == {at[1] : at \in T}
  <2>1. F \in SUBSET D /\ F # {}
    OBVIOUS
  <2>2. PICK i \in F : Parts(t[i]) \cap F = {}
    BY <2>1 DEF IsTable
  <2>3. PICK at \in T : at[1] = i
    BY <2>2
  <2>4. goes(at) => t[i].to \notin F
    BY <1>1, <2>2, <2>3
  <2>5. goes(at) => step(at) \notin T
    BY <2>3, <2>4
  <2> QED
    BY <2>5
<1>7. p[1] = "resolved" /\ p[2] = t
  OBVIOUS
<1>8. \A f : \A at \in P : Body(p, f, at) = IF goes(at) THEN f[step(at)] ELSE at[1]
  BY <1>7 DEF Body, Refs
<1>9. \A at \in P : goes(at) => kids[at] = {step(at)}
  OBVIOUS
<1> HIDE DEF p, kids
<1>10. Depends(p, P, kids)
  <2>1. ASSUME NEW at \in P, NEW f, NEW g, \A j \in kids[at] : f[j] = g[j]
        PROVE  Body(p, f, at) = Body(p, g, at)
    <3>1. CASE goes(at)
      <4>1. f[step(at)] = g[step(at)]
        BY <1>9, <2>1, <3>1
      <4> QED
        BY <1>8, <3>1, <4>1
    <3>2. CASE ~ goes(at)
      BY <1>8, <3>2
    <3> QED
      BY <3>1, <3>2
  <2> QED
    BY <2>1 DEF Depends
<1>0. PICK f : Solves(p, P, f)
  <2> HIDE DEF P
  <2> QED
    BY <1>5, <1>6, <1>10, Recursion
<1>11. f = [at \in P |-> Body(p, f, at)]
  BY <1>0 DEF Solves
<1> DEFINE walk == CHOOSE w : w = [at \in P |->
             IF IsSimpleReference(t[at[1]]) /\ t[at[1]].to \notin at[2] \cup {at[1]}
             THEN w[<<t[at[1]].to, at[2] \cup {at[1]}>>]
             ELSE at[1]]
<1>12. \A i : GetResolved(t, i) = walk[<<i, {}>>]
  BY DEF GetResolved
<1>13. f = [at \in P |->
             IF IsSimpleReference(t[at[1]]) /\ t[at[1]].to \notin at[2] \cup {at[1]}
             THEN f[<<t[at[1]].to, at[2] \cup {at[1]}>>]
             ELSE at[1]]
  BY <1>8, <1>11 DEF Refs
<1>14. walk = [at \in P |->
             IF IsSimpleReference(t[at[1]]) /\ t[at[1]].to \notin at[2] \cup {at[1]}
             THEN walk[<<t[at[1]].to, at[2] \cup {at[1]}>>]
             ELSE at[1]]
  BY <1>13
<1> HIDE DEF walk
<1>15. \A at \in P : walk[at] = IF goes(at) THEN walk[step(at)] ELSE at[1]
  BY <1>14 DEF Refs
<1>16. PICK h : \A i \in D : h[i] = IF i \in S THEN h[next[i]] ELSE i
  <2>1. Chain(D, S, next)
    BY <1>2, <1>3 DEF Chain
  <2> HIDE DEF S, D, next
  <2> QED
    BY <2>1, Follow
\* What has been seen leads to where the walk is.
<1> DEFINE before(at) == \A j \in at[2] : j \in S /\ t[j].to \in at[2] \cup {at[1]}
<1>17. \A at \in P : before(at) => walk[at] = h[at[1]]
  <2> DEFINE T == {at \in P : before(at) /\ walk[at] # h[at[1]]}
  <2>1. SUFFICES ASSUME T # {} PROVE FALSE
    OBVIOUS
  <2>2. PICK at \in T : kids[at] \cap T = {}
    BY <1>6, <2>1 DEF Grounded
  <2>3. CASE at[1] \in S
    <3>1. goes(at)
      <4>1. SUFFICES ASSUME t[at[1]].to \in at[2] \cup {at[1]} PROVE FALSE
        BY <2>3
      <4> DEFINE U == at[2] \cup {at[1]}
      <4>2. U \in SUBSET S /\ U # {}
        BY <2>3
      <4>3. \A j \in U : t[j].to \in U
        BY <4>1
      <4>4. \A j \in U : next[j] \in U
        BY <4>2, <4>3
      <4> HIDE DEF U, next, S
      <4> QED
        BY <1>3, <4>2, <4>4
    <3>2. step(at) \in P /\ before(step(at)) /\ step(at) \notin T
      <4>1. step(at) \in P
        BY <1>4, <3>1
      <4>2. step(at) \notin T
        BY <1>9, <2>2, <3>1
      <4>3. before(step(at))
        BY <2>3
      <4> QED
        BY <4>1, <4>2, <4>3
    <3>3. walk[step(at)] = h[t[at[1]].to]
      BY <3>2
    <3>4. walk[at] = walk[step(at)]
      BY <1>15, <3>1
    <3>5. h[at[1]] = h[t[at[1]].to]
      BY <1>2, <1>16, <2>3
    <3> QED
      BY <3>3, <3>4, <3>5
  <2>4. CASE at[1] \notin S
    <3>1. walk[at] = at[1]
      BY <1>15, <2>4
    <3>2. h[at[1]] = at[1]
      BY <1>16, <2>4
    <3> QED
      BY <3>1, <3>2
  <2> QED
    BY <2>3, <2>4
<1>18. \A i \in D : GetResolved(t, i) = h[i]
  BY <1>12, <1>17
<1> QED
  BY <1>1, <1>2, <1>16, <1>18

\* get_resolved of a type in the table ends at a type of the table that is no simple
\* reference.
LEMMA ResolvedIn ==
  ASSUME NEW t, IsTable(t)
  PROVE  \A i \in DOMAIN t : /\ GetResolved(t, i) \in DOMAIN t \ Refs(t)
                             /\ GetResolved(t, GetResolved(t, i)) = GetResolved(t, i)
<1> DEFINE next == [i \in Refs(t) |-> t[i].to]
           h == [i \in DOMAIN t |-> GetResolved(t, i)]
<1>1. \A i \in DOMAIN t : h[i] = IF i \in Refs(t) THEN h[next[i]] ELSE i
  BY Resolved, RefsChain
<1>2. \A i \in DOMAIN t : h[i] \in DOMAIN t \ Refs(t)
  <2>1. Chain(DOMAIN t, Refs(t), next)
    BY RefsChain DEF Refs, Chain
  <2>2. \A x \in DOMAIN t : x \in Refs(t) => next[x] \in DOMAIN t
    BY RefsChain
  <2> HIDE DEF h, next
  <2> QED
    BY <1>1, <2>1, <2>2, FollowEnds
<1> QED
  BY <1>1, <1>2

-----------------------------------------------------------------------------
(* Tables that a pass makes of others.                                     *)

\* A set of types with all they are made of, and what is in each one around a type's parts.
Closed(t, X) == X \in SUBSET DOMAIN t /\ \A x \in X : Parts(t[x]) \subseteq X
Reaches(t, i, c) ==
  c \in DOMAIN t /\ \A X : Closed(t, X) /\ Parts(t[i]) \subseteq X => c \in X

\* A type is made of what it was made of before, over any number of others.
Fine(t, u, i) ==
  /\ IsType(u[i])
  /\ u[i].kind = "complex" => u[i].content \in DOMAIN u \cup {NoIdent}
  /\ Parts(u[i]) = {} \/ (i \in DOMAIN t /\ \A c \in Parts(u[i]) : Reaches(t, i, c))

\* A type reaches its parts.
LEMMA ReachesParts ==
  ASSUME NEW t, IsTable(t), NEW i \in DOMAIN t, NEW c \in Parts(t[i])
  PROVE  Reaches(t, i, c)
BY DEF IsTable, Reaches

\* A type that stays as it is, is fine.
LEMMA SameIsFine ==
  ASSUME NEW t, IsTable(t), NEW u, DOMAIN t \subseteq DOMAIN u, NEW i \in DOMAIN t, u[i] = t[i]
  PROVE  Fine(t, u, i)
<1>1. \A c \in Parts(u[i]) : Reaches(t, i, c)
  BY ReachesParts
<1> QED
  BY <1>1 DEF Fine, IsTable

\* Of some types, one has none of the others below it.
LEMMA ReachGrounded ==
  ASSUME NEW t, IsTable(t), NEW S \in SUBSET DOMAIN t, S # {}
  PROVE  \E i \in S : \A c \in S : ~ Reaches(t, i, c)
<1>1. SUFFICES ASSUME \A i \in S : \E c \in S : Reaches(t, i, c) PROVE FALSE
  OBVIOUS
<1> DEFINE Q == {j \in DOMAIN t : j \in S \/ \E c \in S : Reaches(t, j, c)}
<1>2. PICK j \in Q : Parts(t[j]) \cap Q = {}
  <2>1. Q \in SUBSET DOMAIN t /\ Q # {}
    OBVIOUS
  <2> HIDE DEF Q
  <2> QED
    BY <2>1 DEF IsTable
<1>3. PICK c \in S : Reaches(t, j, c)
  BY <1>1
<1> DEFINE X == DOMAIN t \ Q
<1>4. Closed(t, X)
  <2>1. ASSUME NEW x \in X, NEW d \in Parts(t[x]) PROVE d \in X
    <3>1. d \in DOMAIN t
      BY <2>1 DEF IsTable
    <3>2. d \notin S
      BY <2>1, ReachesParts
    <3>3. ASSUME NEW e \in S, Reaches(t, d, e) PROVE FALSE
      <4>1. ASSUME NEW Y, Closed(t, Y), Parts(t[x]) \subseteq Y PROVE e \in Y
        BY <2>1, <3>3, <4>1 DEF Reaches, Closed
      <4>2. Reaches(t, x, e)
        BY <4>1 DEF Reaches
      <4> QED
        BY <4>2
    <3> QED
      BY <3>1, <3>2, <3>3
  <2> HIDE DEF X
  <2>2. X \in SUBSET DOMAIN t
    BY DEF X
  <2> QED
    BY <2>1, <2>2 DEF Closed
<1>5. Parts(t[j]) \subseteq X
  BY <1>2 DEF IsTable
<1>6. c \in X
  BY <1>3, <1>4, <1>5 DEF Reaches
<1> QED
  BY <1>6

\* A table made of fine types is a table again: a ring of new types would be one of old
\* types.
LEMMA TableStep ==
  ASSUME NEW t, IsTable(t), NEW u, DOMAIN t \subseteq DOMAIN u, \A i \in DOMAIN u : Fine(t, u, i)
  PROVE  IsTable(u)
<1>1. \A i \in DOMAIN u : Parts(u[i]) \subseteq DOMAIN t
  BY DEF Fine, Reaches
<1>2. ASSUME NEW S \in SUBSET DOMAIN u, S # {}, \A i \in S : Parts(u[i]) \cap S # {}
      PROVE  FALSE
  <2>1. S \subseteq DOMAIN t /\ \A i \in S : \E c \in S : Reaches(t, i, c)
    BY <1>2 DEF Fine
  <2> QED
    BY <1>2, <2>1, ReachGrounded
<1>3. \A i \in DOMAIN u : /\ IsType(u[i]) /\ Parts(u[i]) \subseteq DOMAIN u
                          /\ u[i].kind = "complex" => u[i].content \in DOMAIN u \cup {NoIdent}
  BY <1>1 DEF Fine
<1>4. \A S \in SUBSET DOMAIN u : S # {} => \E i \in S : Parts(u[i]) \cap S = {}
  BY <1>2
<1> QED
  BY <1>3, <1>4 DEF IsTable

-----------------------------------------------------------------------------
(* The map of typedefs.                                                    *)

MapFits(t, map) ==
  /\ map = [i \in Refs(t) |-> map[i]]
  /\ \A i \in Refs(t) : map[i] \in DOMAIN t /\ GetResolved(t, map[i]) = GetResolved(t, i)
  /\ \A S \in SUBSET Refs(t) : S # {} => \E i \in S : map[i] \notin S

\* A table with the references of another one, that may lead on from where they led.
SameRefs(t, u) ==
  /\ DOMAIN t \subseteq DOMAIN u /\ Refs(u) = Refs(t)
  /\ \A i \in Refs(t) : u[i].to \in DOMAIN t /\ GetResolved(t, u[i].to) = GetResolved(t, i)

\* When the references stay, or skip others, get_resolved is the same.
LEMMA ResolvedKept ==
  ASSUME NEW t, IsTable(t), NEW u, IsTable(u), SameRefs(t, u)
  PROVE  \A i \in DOMAIN t : GetResolved(u, i) = GetResolved(t, i)
<1> DEFINE S == {i \in DOMAIN t : GetResolved(u, i) # GetResolved(t, i)}
<1>1. SUFFICES ASSUME S # {} PROVE FALSE
  OBVIOUS
<1>2. S \in SUBSET DOMAIN u
  BY DEF SameRefs
<1>3. PICK i \in S : Parts(u[i]) \cap S = {}
  <2> HIDE DEF S
  <2> QED
    BY <1>1, <1>2 DEF IsTable
<1>4. i \in DOMAIN t /\ i \in DOMAIN u
  BY <1>2
<1>5. CASE i \in Refs(t)
  <2>1. Parts(u[i]) = {u[i].to} /\ u[i].to \in DOMAIN t
    BY <1>5, RefsChain DEF SameRefs
  <2>2. GetResolved(u, u[i].to) = GetResolved(t, u[i].to)
    BY <1>3, <2>1
  <2>3. GetResolved(u, i) = GetResolved(u, u[i].to)
    BY <1>4, <1>5, Resolved DEF SameRefs
  <2> QED
    BY <1>5, <2>2, <2>3 DEF SameRefs
<1>6. CASE i \notin Refs(t)
  BY <1>4, <1>6, Resolved DEF SameRefs
<1> QED
  BY <1>5, <1>6

\* ... and a map that fitted still fits.
LEMMA MapKept ==
  ASSUME NEW t, IsTable(t), NEW u, IsTable(u), SameRefs(t, u), NEW map, MapFits(t, map)
  PROVE  MapFits(u, map)
<1>1. \A i \in Refs(t) : i \in DOMAIN t
  BY DEF Refs
<1> QED
  BY <1>1, ResolvedKept DEF SameRefs, MapFits

\* TypedefMap::new fits the table it is made of.
LEMMA NewMapFits ==
  ASSUME IsTable(types)
  PROVE  MapFits(types, TypedefMap)
<1>1. TypedefMap = [i \in Refs(types) |-> types[i].to]
  BY DEF TypedefMap, Refs
<1> QED
  BY <1>1, RefsChain, Resolved DEF MapFits, Refs

\* resolve leads where get_resolved leads.
LEMMA ResolveIsResolved ==
  ASSUME NEW t, IsTable(t), DOMAIN t \subseteq Ident, NEW map, MapFits(t, map)
  PROVE  \A i \in DOMAIN t : Resolve(map, i) = GetResolved(t, i)
<1>1. Chain(Ident, Refs(t), map) /\ DOMAIN map = Refs(t)
  BY DEF Chain, MapFits, Refs
<1>2. PICK h : /\ h = [i \in Ident |-> h[i]]
               /\ \A i \in Ident : h[i] = IF i \in Refs(t) THEN h[map[i]] ELSE i
  BY <1>1, Follow
<1>3. h = [i \in Ident |-> IF i \in DOMAIN map THEN h[map[i]] ELSE i]
  BY <1>1, <1>2
<1> DEFINE to == CHOOSE f : f = [i \in Ident |-> IF i \in DOMAIN map THEN f[map[i]] ELSE i]
<1>4. to = [i \in Ident |-> IF i \in DOMAIN map THEN to[map[i]] ELSE i]
  BY <1>3
<1>5. \A i : Resolve(map, i) = to[i]
  BY DEF Resolve
<1> HIDE DEF to
<1>6. \A i \in Ident : to[i] = IF i \in Refs(t) THEN to[map[i]] ELSE i
  BY <1>1, <1>4
<1> DEFINE S == {i \in DOMAIN t : to[i] # GetResolved(t, i)}
<1>7. S = {}
  <2>1. SUFFICES ASSUME S # {} PROVE FALSE
    OBVIOUS
  <2>2. S \subseteq Refs(t)
    BY <1>6, Resolved
  <2>3. PICK i \in S : map[i] \notin S
    <3> HIDE DEF S
    <3> QED
      BY <2>1, <2>2 DEF MapFits
  <2>4. map[i] \in DOMAIN t /\ GetResolved(t, map[i]) = GetResolved(t, i)
    BY <2>2 DEF MapFits
  <2>5. to[i] = to[map[i]]
    BY <1>6, <2>2
  <2> QED
    BY <2>3, <2>4, <2>5
<1> QED
  BY <1>5, <1>7

-----------------------------------------------------------------------------
(* Lists.                                                                  *)

\* What holds for nothing, and for one more, holds up to any number.
LEMMA UpTo ==
  ASSUME NEW n \in Nat, NEW T, 0 \in T, \A k \in 1 .. n : k - 1 \in T => k \in T
  PROVE  \A k \in 0 .. n : k \in T
<1> DEFINE S == {k \in 0 .. n : k \notin T}
<1>1. SUFFICES ASSUME S # {} PROVE FALSE
  OBVIOUS
<1>2. PICK k \in S : \A j \in S : k <= j
  <2>1. S \in SUBSET Nat
    OBVIOUS
  <2> HIDE DEF S
  <2> QED
    BY <1>1, <2>1, LeastNumber
<1>3. k \in 1 .. n /\ k - 1 \in 0 .. n /\ k - 1 \notin S
  BY <1>2
<1> QED
  BY <1>3

\* A list is a sequence of its own items.
LEMMA ListIn ==
  ASSUME NEW s
  PROVE  /\ IsList(s) <=> s \in Seq(ToSet(s))
         /\ \A V : s \in Seq(V) => IsList(s) /\ ToSet(s) \subseteq V
         /\ \A V : IsList(s) /\ ToSet(s) \subseteq V => s \in Seq(V)
<1>1. IsList(s) <=> s \in Seq(ToSet(s))
  BY DEF IsList, ToSet
<1>2. ASSUME NEW V, s \in Seq(V) PROVE s \in Seq(ToSet(s)) /\ ToSet(s) \subseteq V
  <2>1. Len(s) \in Nat /\ DOMAIN s = 1 .. Len(s) /\ s = [k \in 1 .. Len(s) |-> s[k]]
    BY <1>2
  <2>2. \A k \in 1 .. Len(s) : s[k] \in ToSet(s)
    BY <2>1 DEF ToSet
  <2>3. s \in [1 .. Len(s) -> ToSet(s)]
    BY <2>1, <2>2
  <2>4. s \in Seq(ToSet(s))
    BY <2>1, <2>3
  <2>5. ToSet(s) \subseteq V
    BY <1>2 DEF ToSet
  <2> QED
    BY <2>4, <2>5
<1>3. ASSUME NEW V, s \in Seq(ToSet(s)), ToSet(s) \subseteq V PROVE s \in Seq(V)
  BY <1>3
<1> QED
  BY <1>1, <1>2, <1>3

\* A list is a function on 1 .. its length.
LEMMA ListShape ==
  ASSUME NEW s, IsList(s)
  PROVE  Len(s) \in Nat /\ DOMAIN s = 1 .. Len(s) /\ s = [k \in 1 .. Len(s) |-> s[k]]
<1>1. s \in Seq(ToSet(s))
  BY ListIn
<1> QED
  BY <1>1

\* A function on 1 .. n is a list of length n.
LEMMA NewList ==
  ASSUME NEW n \in Nat, NEW s, s = [k \in 1 .. n |-> s[k]]
  PROVE  IsList(s) /\ Len(s) = n
<1>1. \A k \in 1 .. n : s[k] \in ToSet(s)
  BY DEF ToSet
<1>2. s \in [1 .. n -> ToSet(s)]
  BY <1>1
<1>3. s \in Seq(ToSet(s)) /\ Len(s) = n
  BY <1>2
<1> QED
  BY <1>3, ListIn

\* The first members with their keys.
IsFirsts(s, keys, f) ==
  f = [k \in 0 .. Len(s) |->
         IF k = 0 THEN <<>>
         ELSE IF \A n \in 1 .. k - 1 : keys[n] # keys[k] THEN Append(f[k - 1], s[k])
         ELSE f[k - 1]]

\* The recursive function of Firsts is there.
LEMMA FirstsRecursion ==
  ASSUME NEW s, IsList(s), NEW keys
  PROVE  \E f : IsFirsts(s, keys, f)
<1> DEFINE n == Len(s)
           p == <<"firsts", s, keys>>
           kids == [k \in 0 .. n |-> IF k = 0 THEN {} ELSE {k - 1}]
<1>0. n \in Nat
  BY ListShape
<1>1. p[1] = "firsts" /\ p[2] = s /\ p[3] = keys
  OBVIOUS
<1>2. \A f, k : Body(p, f, k) =
        IF k = 0 THEN <<>>
        ELSE IF \A m \in 1 .. k - 1 : keys[m] # keys[k] THEN Append(f[k - 1], s[k])
        ELSE f[k - 1]
  BY <1>1 DEF Body
<1>3. kids \in [0 .. n -> SUBSET (0 .. n)] /\ Grounded(0 .. n, kids)
  BY <1>0, Countdown
<1>4. \A k \in 0 .. n : k # 0 => kids[k] = {k - 1}
  OBVIOUS
<1> HIDE DEF kids, p, n
<1>5. Depends(p, 0 .. n, kids)
  <2>1. ASSUME NEW k \in 0 .. n, NEW f, NEW g, \A j \in kids[k] : f[j] = g[j]
        PROVE  Body(p, f, k) = Body(p, g, k)
    <3>1. CASE k = 0
      BY <1>2, <3>1
    <3>2. CASE k # 0
      <4>1. f[k - 1] = g[k - 1]
        BY <1>4, <2>1, <3>2
      <4> QED
        <5>1. \A h : Body(p, h, k) =
                IF \A m \in 1 .. k - 1 : keys[m] # keys[k] THEN Append(h[k - 1], s[k]) ELSE h[k - 1]
          BY <1>2, <3>2
        <5> QED
          BY <4>1, <5>1
    <3> QED
      BY <3>1, <3>2
  <2> QED
    BY <2>1 DEF Depends
<1>8. PICK f : Solves(p, 0 .. n, f)
  BY <1>3, <1>5, Recursion
<1>6. f = [k \in 0 .. n |-> Body(p, f, k)]
  BY <1>8 DEF Solves
<1>7. f = [k \in 0 .. n |->
             IF k = 0 THEN <<>>
             ELSE IF \A m \in 1 .. k - 1 : keys[m] # keys[k] THEN Append(f[k - 1], s[k])
             ELSE f[k - 1]]
  BY <1>2, <1>6
<1> QED
  BY <1>7 DEF n, IsFirsts

\* What is kept of a list, is a list of items of it.
LEMMA FirstsList ==
  ASSUME NEW s, IsList(s), NEW keys, NEW f, IsFirsts(s, keys, f)
  PROVE  IsList(f[Len(s)]) /\ ToSet(f[Len(s)]) \subseteq ToSet(s)
<1>1. Len(s) \in Nat /\ s \in Seq(ToSet(s))
  BY ListShape, ListIn
<1> DEFINE T == {k \in 0 .. Len(s) : f[k] \in Seq(ToSet(s))}
<1>2. 0 \in T
  BY <1>1 DEF IsFirsts
<1>3. ASSUME NEW k \in 1 .. Len(s), k - 1 \in T PROVE k \in T
  <2>1. f[k - 1] \in Seq(ToSet(s)) /\ s[k] \in ToSet(s) /\ k \in 0 .. Len(s) /\ k # 0
    BY <1>1, <1>3 DEF ToSet
  <2>2. f[k] = Append(f[k - 1], s[k]) \/ f[k] = f[k - 1]
    BY <2>1 DEF IsFirsts
  <2>3. Append(f[k - 1], s[k]) \in Seq(ToSet(s))
    BY <2>1
  <2> QED
    BY <2>1, <2>2, <2>3
<1>4. Len(s) \in T
  <2>1. Len(s) \in 0 .. Len(s)
    BY <1>1
  <2> HIDE DEF T
  <2> QED
    BY <1>1, <1>2, <1>3, <2>1, UpTo
<1> QED
  BY <1>4, ListIn

\* The elements of a list with different names, are a list of elements of it.
LEMMA DistinctList ==
  ASSUME NEW s, IsList(s)
  PROVE  IsList(Distinct(s)) /\ ToSet(Distinct(s)) \subseteq ToSet(s)
<1> DEFINE keys == [k \in 1 .. Len(s) |-> s[k].name]
           F == CHOOSE f : f = [k \in 0 .. Len(s) |->
                  IF k = 0 THEN <<>>
                  ELSE IF \A n \in 1 .. k - 1 : s[n].name # s[k].name THEN Append(f[k - 1], s[k])
                  ELSE f[k - 1]]
<1>1. Len(s) \in Nat
  BY ListShape
<1>2. PICK g : IsFirsts(s, keys, g)
  BY FirstsRecursion
<1>3. \A k \in 0 .. Len(s) : k # 0 =>
        ((\A n \in 1 .. k - 1 : keys[n] # keys[k]) <=> \A n \in 1 .. k - 1 : s[n].name # s[k].name)
  <2> SUFFICES ASSUME NEW k \in 0 .. Len(s), k # 0
               PROVE  \A n \in 1 .. k - 1 : n \in 1 .. Len(s) /\ k \in 1 .. Len(s)
    BY DEF keys
  <2> QED
    BY <1>1
<1>4. g = [k \in 0 .. Len(s) |->
                  IF k = 0 THEN <<>>
                  ELSE IF \A n \in 1 .. k - 1 : s[n].name # s[k].name THEN Append(g[k - 1], s[k])
                  ELSE g[k - 1]]
  BY <1>2, <1>3 DEF IsFirsts
<1>5. F = [k \in 0 .. Len(s) |->
                  IF k = 0 THEN <<>>
                  ELSE IF \A n \in 1 .. k - 1 : s[n].name # s[k].name THEN Append(F[k - 1], s[k])
                  ELSE F[k - 1]]
  BY <1>4
<1>6. Distinct(s) = F[Len(s)]
  BY DEF Distinct, Firsts
<1> HIDE DEF F
<1>7. IsFirsts(s, keys, F)
  BY <1>3, <1>5 DEF IsFirsts
<1> HIDE DEF keys
<1>8. IsList(F[Len(s)]) /\ ToSet(F[Len(s)]) \subseteq ToSet(s)
  BY <1>7, FirstsList
<1> QED
  BY <1>6, <1>8

FirstMembers(map, s) == Firsts(s, LAMBDA m : Resolve(map, m))

\* The members of a union without duplicates are a list of its members.
LEMMA FirstMembersList ==
  ASSUME NEW s, IsList(s), NEW map
  PROVE  IsList(FirstMembers(map, s)) /\ ToSet(FirstMembers(map, s)) \subseteq ToSet(s)
<1> DEFINE keys == [k \in 1 .. Len(s) |-> Resolve(map, s[k])]
           F == CHOOSE f : f = [k \in 0 .. Len(s) |->
                  IF k = 0 THEN <<>>
                  ELSE IF \A n \in 1 .. k - 1 : Resolve(map, s[n]) # Resolve(map, s[k])
                  THEN Append(f[k - 1], s[k]) ELSE f[k - 1]]
<1>1. Len(s) \in Nat
  BY ListShape
<1>2. PICK g : IsFirsts(s, keys, g)
  BY FirstsRecursion
<1>3. \A k \in 0 .. Len(s) : k # 0 =>
        ((\A n \in 1 .. k - 1 : keys[n] # keys[k]) <=>
         \A n \in 1 .. k - 1 : Resolve(map, s[n]) # Resolve(map, s[k]))
  <2> SUFFICES ASSUME NEW k \in 0 .. Len(s), k # 0
               PROVE  \A n \in 1 .. k - 1 : n \in 1 .. Len(s) /\ k \in 1 .. Len(s)
    BY DEF keys
  <2> QED
    BY <1>1
<1>4. g = [k \in 0 .. Len(s) |->
                  IF k = 0 THEN <<>>
                  ELSE IF \A n \in 1 .. k - 1 : Resolve(map, s[n]) # Resolve(map, s[k])
                  THEN Append(g[k - 1], s[k]) ELSE g[k - 1]]
  BY <1>2, <1>3 DEF IsFirsts
<1>5. F = [k \in 0 .. Len(s) |->
                  IF k = 0 THEN <<>>
                  ELSE IF \A n \in 1 .. k - 1 : Resolve(map, s[n]) # Resolve(map, s[k])
                  THEN Append(F[k - 1], s[k]) ELSE F[k - 1]]
  BY <1>4
<1>6. FirstMembers(map, s) = F[Len(s)]
  BY DEF FirstMembers, Firsts
<1> HIDE DEF F
<1>7. IsFirsts(s, keys, F)
  BY <1>3, <1>5 DEF IsFirsts
<1> HIDE DEF keys
<1>8. IsList(F[Len(s)]) /\ ToSet(F[Len(s)]) \subseteq ToSet(s)
  BY <1>7, FirstsList
<1> QED
  BY <1>6, <1>8

\* The members of the sequences in a sequence, one after the other.
LEMMA FlattenList ==
  ASSUME NEW ss, IsList(ss), NEW V, \A k \in DOMAIN ss : IsList(ss[k]) /\ ToSet(ss[k]) \subseteq V
  PROVE  IsList(FlattenSeq(ss)) /\ ToSet(FlattenSeq(ss)) \subseteq V
<1> DEFINE n == Len(ss)
<1>1. n \in Nat /\ DOMAIN ss = 1 .. n
  BY ListShape
<1>2. CASE n = 0
  <2>1. ss = <<>>
    BY <1>1, <1>2, ListShape
  <2>2. FlattenSeq(ss) = <<>>
    BY <1>2, <2>1 DEF FlattenSeq
  <2>3. <<>> \in Seq(V)
    OBVIOUS
  <2> QED
    BY <2>2, <2>3, ListIn
<1>3. CASE n # 0
  <2> DEFINE p == <<"concat", ss>>
             kids == [k \in 1 .. n |-> IF k = 1 THEN {} ELSE {k - 1}]
             F == CHOOSE f : f = [i \in 1 .. Len(ss) |-> IF i = 1 THEN ss[i] ELSE f[i - 1] \o ss[i]]
  <2>1. p[1] = "concat" /\ p[2] = ss
    OBVIOUS
  <2>2. \A f, i : Body(p, f, i) = IF i = 1 THEN ss[i] ELSE f[i - 1] \o ss[i]
    BY <2>1 DEF Body
  <2>3. kids \in [1 .. n -> SUBSET (1 .. n)] /\ Grounded(1 .. n, kids)
    BY <1>1, Countdown
  <2>4. \A k \in 1 .. n : k # 1 => kids[k] = {k - 1}
    OBVIOUS
  <2>0. PICK f : Solves(p, 1 .. n, f)
    <3> HIDE DEF kids, p, n
    <3>1. Depends(p, 1 .. n, kids)
      <4>1. ASSUME NEW k \in 1 .. n, NEW f, NEW g, \A j \in kids[k] : f[j] = g[j]
            PROVE  Body(p, f, k) = Body(p, g, k)
        <5>1. CASE k = 1
          BY <2>2, <5>1
        <5>2. CASE k # 1
          <6>1. f[k - 1] = g[k - 1]
            BY <2>4, <4>1, <5>2
          <6> QED
            BY <2>2, <5>2, <6>1
        <5> QED
          BY <5>1, <5>2
      <4> QED
        BY <4>1 DEF Depends
    <3> QED
      BY <2>3, <3>1, Recursion
  <2>5. f = [i \in 1 .. n |-> Body(p, f, i)]
    BY <2>0 DEF Solves
  <2>6. f = [i \in 1 .. Len(ss) |-> IF i = 1 THEN ss[i] ELSE f[i - 1] \o ss[i]]
    BY <2>2, <2>5
  <2>7. F = [i \in 1 .. Len(ss) |-> IF i = 1 THEN ss[i] ELSE F[i - 1] \o ss[i]]
    BY <2>6
  <2>8. FlattenSeq(ss) = F[n]
    BY <1>3 DEF FlattenSeq
  <2> HIDE DEF F
  <2> DEFINE T == {k \in 0 .. n : k = 0 \/ F[k] \in Seq(V)}
  <2>9. \A k \in 1 .. n : ss[k] \in Seq(V)
    BY <1>1, ListIn
  <2>10. ASSUME NEW k \in 1 .. n, k - 1 \in T PROVE k \in T
    <3>1. CASE k = 1
      BY <2>7, <2>9, <3>1
    <3>2. CASE k # 1
      <4>1. F[k - 1] \in Seq(V) /\ F[k] = F[k - 1] \o ss[k]
        <5>1. k - 1 # 0 /\ k \in 1 .. Len(ss)
          BY <1>1, <3>2
        <5> QED
          BY <2>7, <2>10, <3>2, <5>1
      <4>2. \A q, r \in Seq(V) : q \o r \in Seq(V)
        OBVIOUS
      <4>3. F[k] \in Seq(V)
        <5>1. ss[k] \in Seq(V)
          BY <2>9
        <5> QED
          BY ONLY <4>1, <4>2, <5>1
      <4>4. k \in 0 .. n
        BY <1>1
      <4> QED
        BY <4>3, <4>4
    <3> QED
      BY <3>1, <3>2
  <2>11. n \in T
    <3>1. 0 \in T
      BY <1>1
    <3> HIDE DEF T, n
    <3> QED
      BY <1>1, <2>10, <3>1, UpTo
  <2>12. F[n] \in Seq(V)
    BY <1>3, <2>11
  <2> QED
    BY <2>8, <2>12, ListIn
<1> QED
  BY <1>2, <1>3

\* A finite set of numbers that is not empty has a greatest one.
LEMMA GreatestNumber ==
  ASSUME NEW S \in SUBSET Nat, IsFiniteSet(S)
  PROVE  \A T \in SUBSET S : T # {} => Max(T) \in T /\ \A y \in T : Max(T) >= y
<1> DEFINE bad(T) == T # {} /\ ~ \E x \in T : \A y \in T : x >= y
           C == {Cardinality(T) : T \in {U \in SUBSET S : bad(U)}}
<1>1. \A T \in SUBSET S : IsFiniteSet(T) /\ Cardinality(T) \in Nat
  BY FS_Subset, FS_CardinalityType
<1>2. C = {}
  <2>1. SUFFICES ASSUME C # {} PROVE FALSE
    OBVIOUS
  <2>2. C \in SUBSET Nat
    BY <1>1
  <2>3. PICK n \in C : \A m \in C : n <= m
    <3> HIDE DEF C
    <3> QED
      BY <2>1, <2>2, LeastNumber
  <2>4. PICK T \in SUBSET S : bad(T) /\ n = Cardinality(T)
    OBVIOUS
  <2>5. PICK x \in T : TRUE
    BY <2>4
  <2> DEFINE U == T \ {x}
  <2>6. Cardinality(U) = Cardinality(T) - 1
    BY <1>1, FS_RemoveElement
  <2>7. ~ bad(U)
    <3>1. Cardinality(U) \notin C
      BY <1>1, <2>2, <2>3, <2>4, <2>6
    <3>2. U \in SUBSET S
      OBVIOUS
    <3> HIDE DEF U
    <3> QED
      BY <3>1, <3>2
  <2>8. CASE U = {}
    <3>1. \A y \in T : x >= y
      BY <2>8
    <3> QED
      BY <2>4, <3>1
  <2>9. CASE U # {}
    <3>1. PICK m \in U : \A y \in U : m >= y
      BY <2>7, <2>9
    <3>2. (\A y \in T : m >= y) \/ \A y \in T : x >= y
      BY <3>1
    <3> QED
      BY <2>4, <3>2
  <2> QED
    BY <2>8, <2>9
<1>3. \A T \in SUBSET S : ~ bad(T)
  BY <1>2
<1>4. ASSUME NEW T \in SUBSET S, T # {}
      PROVE  Max(T) \in T /\ \A y \in T : Max(T) >= y
  <2>1. \E x \in T : \A y \in T : x >= y
    BY <1>3, <1>4
  <2> QED
    BY <2>1 DEF Max
<1> QED
  BY <1>4

\* Sequences of a smaller set are sequences of a larger one.
LEMMA SeqMonotone ==
  ASSUME NEW S, NEW T, S \subseteq T, NEW q \in Seq(S)
  PROVE  q \in Seq(T)
OBVIOUS

\* InOrder lists the members of a set, each one once.
LEMMA InOrderList ==
  ASSUME NEW S \in SUBSET Nat, IsFiniteSet(S)
  PROVE  IsList(InOrder(S)) /\ ToSet(InOrder(S)) = S /\ IsInjective(InOrder(S))
<1> DEFINE p == <<"order">>
           kids == [T \in SUBSET S |-> IF T = {} THEN {} ELSE {T \ {Max(T)}}]
           F == CHOOSE f : f = [T \in SUBSET S |-> IF T = {} THEN <<>> ELSE Append(f[T \ {Max(T)}], Max(T))]
<1>1. \A f, T : Body(p, f, T) = IF T = {} THEN <<>> ELSE Append(f[T \ {Max(T)}], Max(T))
  BY DEF Body
<1>2. kids \in [SUBSET S -> SUBSET SUBSET S]
  OBVIOUS
<1>3. \A T \in SUBSET S : T # {} => kids[T] = {T \ {Max(T)}}
  OBVIOUS
<1>4. Grounded(SUBSET S, kids)
  <2> SUFFICES ASSUME NEW W \in SUBSET SUBSET S, W # {} PROVE \E T \in W : kids[T] \cap W = {}
    BY DEF Grounded
  <2> DEFINE C == {Cardinality(T) : T \in W}
  <2>1. \A T \in SUBSET S : IsFiniteSet(T) /\ Cardinality(T) \in Nat
    BY FS_Subset, FS_CardinalityType
  <2>2. PICK n \in C : \A m \in C : n <= m
    <3>1. C \in SUBSET Nat /\ C # {}
      BY <2>1
    <3> HIDE DEF C
    <3> QED
      BY <3>1, LeastNumber
  <2>3. PICK T \in W : n = Cardinality(T)
    OBVIOUS
  <2>4. CASE T = {}
    BY <2>4
  <2>5. CASE T # {}
    <3>1. Cardinality(T \ {Max(T)}) = Cardinality(T) - 1
      BY <2>1, <2>5, GreatestNumber, FS_RemoveElement
    <3>2. T \ {Max(T)} \notin W
      BY <2>1, <2>2, <2>3, <3>1
    <3>3. kids[T] = {T \ {Max(T)}}
      BY <1>3, <2>5
    <3> HIDE DEF kids
    <3> QED
      BY <3>2, <3>3
  <2> QED
    BY <2>4, <2>5
<1> HIDE DEF p, kids
<1>5. Depends(p, SUBSET S, kids)
  <2>1. ASSUME NEW T \in SUBSET S, NEW f, NEW g, \A j \in kids[T] : f[j] = g[j]
        PROVE  Body(p, f, T) = Body(p, g, T)
    <3>1. CASE T = {}
      BY <1>1, <3>1
    <3>2. CASE T # {}
      <4>1. f[T \ {Max(T)}] = g[T \ {Max(T)}]
        BY <1>3, <2>1, <3>2
      <4> QED
        BY <1>1, <3>2, <4>1
    <3> QED
      BY <3>1, <3>2
  <2> QED
    BY <2>1 DEF Depends
<1>0. PICK f : Solves(p, SUBSET S, f)
  BY <1>2, <1>4, <1>5, Recursion
<1>6. f = [T \in SUBSET S |-> Body(p, f, T)]
  BY <1>0 DEF Solves
<1>7. f = [T \in SUBSET S |-> IF T = {} THEN <<>> ELSE Append(f[T \ {Max(T)}], Max(T))]
  BY <1>1, <1>6
<1>8. F = [T \in SUBSET S |-> IF T = {} THEN <<>> ELSE Append(F[T \ {Max(T)}], Max(T))]
  BY <1>7
<1>9. InOrder(S) = F[S]
  BY DEF InOrder
<1> HIDE DEF F
<1> DEFINE W == {T \in SUBSET S : ~ (F[T] \in Seq(T) /\ T \subseteq ToSet(F[T]) /\ IsInjective(F[T]))}
<1>10. W = {}
  <2>1. SUFFICES ASSUME W # {} PROVE FALSE
    OBVIOUS
  <2>2. PICK T \in W : kids[T] \cap W = {}
    BY <1>4, <2>1 DEF Grounded
  <2>3. CASE T = {}
    <3>1. F[T] = <<>>
      BY <1>8, <2>3
    <3>2. <<>> \in Seq(T) /\ IsInjective(<<>>)
      BY DEF IsInjective
    <3> QED
      BY <2>3, <3>1, <3>2
  <2>4. CASE T # {}
    <3> DEFINE m == Max(T)
               U == T \ {m}
    <3>1. m \in T
      BY <2>4, GreatestNumber
    <3>2. F[U] \in Seq(U) /\ U \subseteq ToSet(F[U]) /\ IsInjective(F[U])
      BY <1>3, <2>2, <2>4
    <3>3. F[T] = Append(F[U], m)
      BY <1>8, <2>4
    <3>4. \A k \in DOMAIN F[U] : F[U][k] # m /\ F[U][k] \in T
      BY <3>2
    <3> HIDE DEF m, U
    <3> PICK q : q = F[U]
      OBVIOUS
    <3>5. q \in Seq(T)
      <4>1. U \subseteq T
        BY DEF U
      <4> QED
        BY <3>2, <4>1, SeqMonotone
    <3>6. Append(q, m) \in Seq(T)
      BY <3>1, <3>5
    <3>7. IsInjective(Append(q, m))
      BY <3>2, <3>4, <3>5 DEF IsInjective
    <3>8. T \subseteq ToSet(Append(q, m))
      <4>1. T \subseteq U \cup {m}
        BY DEF U
      <4>2. \A k \in DOMAIN q : k \in DOMAIN Append(q, m) /\ Append(q, m)[k] = q[k]
        BY <3>5
      <4>3. Len(q) + 1 \in DOMAIN Append(q, m) /\ Append(q, m)[Len(q) + 1] = m
        BY <3>5
      <4> QED
        BY <3>2, <4>1, <4>2, <4>3 DEF ToSet
    <3> QED
      BY <3>3, <3>6, <3>7, <3>8
  <2> QED
    BY <2>3, <2>4
<1>11. F[S] \in Seq(S) /\ S \subseteq ToSet(F[S]) /\ IsInjective(F[S])
  BY <1>10
<1> QED
  BY <1>9, <1>11, ListIn

-----------------------------------------------------------------------------
(* What a type of a kind is made of.                                       *)

\* No base is a base, of no type.
LEMMA NoBaseIsBase == IsBase(NoBase) /\ NoBase.of = NoIdent
BY DEF IsBase, NoBase, Base

\* What is a part of a new type, kind by kind: a reference.
LEMMA NewReference ==
  ASSUME NEW to
  PROVE  /\ IsType(Reference(to)) /\ Parts(Reference(to)) = {to} /\ IsSimpleReference(Reference(to))
         /\ Reference(to).kind = "reference" /\ Reference(to).to = to
<1>1. /\ Reference(to).kind = "reference" /\ Reference(to).to = to
      /\ Reference(to).single = TRUE /\ Reference(to).nillable = FALSE
  BY DEF Reference
<1> DEFINE t == Reference(to)
<1>2. IsSimpleReference(t)
  BY <1>1 DEF IsSimpleReference
<1>3. /\ t = [kind |-> t.kind, to |-> t.to, single |-> t.single, nillable |-> t.nillable]
      /\ t.kind = "reference" /\ t.single \in BOOLEAN /\ t.nillable \in BOOLEAN
  BY <1>1 DEF Reference
<1> HIDE DEF t
<1>4. IsType(t)
  BY <1>3 DEF IsType, Groups
<1>5. Parts(t) = {t.to}
  BY <1>2, PartOfReference
<1> QED
  BY <1>1, <1>2, <1>4, <1>5 DEF t

\* An enumeration.
LEMMA NewEnumeration ==
  ASSUME NEW base, IsBase(base), NEW variants
  PROVE  LET t == Enumeration(base, variants)
         IN IsType(t) /\ Parts(t) = {base.of} \ {NoIdent} /\ t.kind = "enumeration"
            /\ t.base = base /\ t.variants = variants
<1>1. /\ Enumeration(base, variants).kind = "enumeration" /\ Enumeration(base, variants).base = base
      /\ Enumeration(base, variants).variants = variants
  BY DEF Enumeration
<1> DEFINE t == Enumeration(base, variants)
<1>2. t = Enumeration(t.base, t.variants) /\ t.kind = "enumeration"
  BY <1>1
<1>3. IsBase(t.base)
  BY <1>1
<1> HIDE DEF t
<1>4. IsType(t)
  BY <1>2, <1>3 DEF IsType, Groups
<1> QED
  BY <1>1, <1>4, PartsOf DEF t

\* A union.
LEMMA NewUnion ==
  ASSUME NEW base, IsBase(base), NEW members, IsList(members), NEW facet
  PROVE  LET t == Union(base, members, facet)
         IN IsType(t) /\ Parts(t) = ({base.of} \ {NoIdent}) \cup ToSet(members) /\ t.kind = "union"
            /\ t.base = base /\ t.members = members
<1>1. /\ Union(base, members, facet).kind = "union" /\ Union(base, members, facet).base = base
      /\ Union(base, members, facet).members = members
      /\ Union(base, members, facet).facet = facet
  BY DEF Union
<1> DEFINE t == Union(base, members, facet)
<1>2. t = Union(t.base, t.members, t.facet) /\ t.kind = "union"
  BY <1>1
<1>3. IsBase(t.base) /\ IsList(t.members)
  BY <1>1
<1> HIDE DEF t
<1>4. IsType(t)
  BY <1>2, <1>3 DEF IsType, Groups
<1> QED
  BY <1>1, <1>4, PartsOf DEF t

\* A group.
LEMMA NewGroup ==
  ASSUME NEW kind \in Groups, NEW mixed, NEW elements, IsList(elements),
         \A e \in ToSet(elements) : IsElement(e)
  PROVE  LET t == Group(kind, mixed, elements)
         IN IsType(t) /\ Parts(t) = {e.to : e \in {x \in ToSet(elements) : x.mode = "group"}}
            /\ t.kind = kind /\ t.elements = elements /\ t.mixed = mixed
<1>1. /\ Group(kind, mixed, elements).kind = kind /\ Group(kind, mixed, elements).mixed = mixed
      /\ Group(kind, mixed, elements).elements = elements
  BY DEF Group
<1> QED
  BY <1>1, PartsOf DEF IsType, Groups

\* A complex type.
LEMMA NewComplex ==
  ASSUME NEW base, IsBase(base), NEW content, NEW min, NEW max, NEW mixed, NEW dynamic,
         NEW t, t = ComplexType(base, content, min, max, mixed, dynamic)
  PROVE  IsType(t) /\ Parts(t) = {base.of} \ {NoIdent} /\ t.kind = "complex" /\ t.base = base
         /\ t.content = content
<1>1. /\ t.kind = "complex" /\ t.base = base /\ t.content = content /\ t.min = min /\ t.max = max
      /\ t.mixed = mixed /\ t.dynamic = dynamic
  BY DEF ComplexType
<1>2. t = ComplexType(t.base, t.content, t.min, t.max, t.mixed, t.dynamic)
  BY <1>1
<1>3. IsType(t)
  BY <1>1, <1>2 DEF IsType, Groups
<1> QED
  BY <1>1, <1>3, PartsOf

\* A type has the fields of its kind.
LEMMA TypeOf ==
  ASSUME NEW t, IsType(t)
  PROVE  /\ t.kind \in {"buildin", "reference", "enumeration", "union", "simple", "dynamic", "complex"} \cup Groups
         /\ t.kind = "enumeration" => t = Enumeration(t.base, t.variants) /\ IsBase(t.base)
         /\ t.kind = "union" =>
              t = Union(t.base, t.members, t.facet) /\ IsBase(t.base) /\ IsList(t.members)
         /\ t.kind = "dynamic" => t = Dynamic(t.of, t.derived) /\ IsList(t.derived)
         /\ t.kind \in Groups =>
              /\ t = Group(t.kind, t.mixed, t.elements) /\ IsList(t.elements)
              /\ \A e \in ToSet(t.elements) : IsElement(e)
         /\ t.kind = "complex" =>
              /\ t = ComplexType(t.base, t.content, t.min, t.max, t.mixed, t.dynamic)
              /\ IsBase(t.base)
         /\ t.kind = "simple" => t = SimpleType(t.base, t.facet, t.list) /\ t.list \in BOOLEAN
         /\ t.kind = "reference" =>
              /\ t = [kind |-> t.kind, to |-> t.to, single |-> t.single, nillable |-> t.nillable]
              /\ t.single \in BOOLEAN /\ t.nillable \in BOOLEAN
<1>1. /\ t.kind = "enumeration" => t = Enumeration(t.base, t.variants) /\ IsBase(t.base)
      /\ t.kind = "union" =>
              t = Union(t.base, t.members, t.facet) /\ IsBase(t.base) /\ IsList(t.members)
  BY DEF IsType, Groups
<1>2. t.kind = "dynamic" => t = Dynamic(t.of, t.derived) /\ IsList(t.derived)
  BY DEF IsType, Groups
<1>3. t.kind \in Groups =>
        /\ t = Group(t.kind, t.mixed, t.elements) /\ IsList(t.elements)
        /\ \A e \in ToSet(t.elements) : IsElement(e)
  BY DEF IsType, Groups
<1>4. t.kind = "complex" =>
        /\ t = ComplexType(t.base, t.content, t.min, t.max, t.mixed, t.dynamic)
        /\ IsBase(t.base)
  BY DEF IsType, Groups
<1>5. t.kind = "simple" => t = SimpleType(t.base, t.facet, t.list) /\ t.list \in BOOLEAN
  BY DEF IsType, Groups
<1>6. t.kind = "reference" =>
        /\ t = [kind |-> t.kind, to |-> t.to, single |-> t.single, nillable |-> t.nillable]
        /\ t.single \in BOOLEAN /\ t.nillable \in BOOLEAN
  BY DEF IsType, Groups
<1>7. t.kind \in {"buildin", "reference", "enumeration", "union", "simple", "dynamic", "complex"} \cup Groups
  BY DEF IsType, Groups
<1> QED
  BY <1>1, <1>2, <1>3, <1>4, <1>5, <1>6, <1>7

-----------------------------------------------------------------------------
(* Tables in which some types have changed.                                *)

\* P are the groups and the references to groups: no other type is made of them.
Layered(t, P) ==
  /\ P \subseteq DOMAIN t
  /\ \A i \in DOMAIN t :
       /\ t[i].kind \in Groups => i \in P
       /\ i \in P => t[i].kind \in Groups \/ (IsSimpleReference(t[i]) /\ t[i].to \in P)
       /\ i \notin P => Parts(t[i]) \cap P = {}

\* No complex type has a reference to a group for content.
Direct(t, P) ==
  \A i \in DOMAIN t : t[i].kind = "complex" /\ t[i].content \in P => t[t[i].content].kind \in Groups

\* A pass keeps groups apart from other types, and contents that are no references.
Layers(t, u) ==
  \A P : Layered(t, P) => \E Q : Layered(u, Q) /\ (Direct(t, P) => Direct(u, Q))

\* A table that stays keeps groups apart.
LEMMA LayersSelf == \A t : Layers(t, t)
BY DEF Layers

\* So do two steps that keep them apart.
LEMMA LayersTwice ==
  ASSUME NEW s, NEW t, Layers(s, t), NEW u, Layers(t, u)
  PROVE  Layers(s, u)
<1> SUFFICES ASSUME NEW P, Layered(s, P)
             PROVE  \E R : Layered(u, R) /\ (Direct(s, P) => Direct(u, R))
  BY DEF Layers
<1>1. PICK Q : Layered(t, Q) /\ (Direct(s, P) => Direct(t, Q))
  BY DEF Layers
<1>2. PICK R : Layered(u, R) /\ (Direct(t, Q) => Direct(u, R))
  BY <1>1 DEF Layers
<1> QED
  BY <1>1, <1>2

\* The types that are not in P do not lead there.
LEMMA Below ==
  ASSUME NEW t, IsTable(t), NEW P, Layered(t, P), NEW i \in DOMAIN t, i \notin P, NEW c, Reaches(t, i, c)
  PROVE  c \notin P
<1> DEFINE X == DOMAIN t \ P
<1>1. \A j \in X : Parts(t[j]) \subseteq X
  BY DEF Layered, IsTable
<1>2. Closed(t, X) /\ Parts(t[i]) \subseteq X
  BY <1>1 DEF Closed
<1>3. c \in X
  BY <1>2 DEF Reaches
<1> QED
  BY <1>3

\* A type that changes, but not between references, groups and others.
SameLayer(a, b) ==
  /\ a.kind \in Groups <=> b.kind \in Groups
  /\ IsSimpleReference(a) \/ IsSimpleReference(b) => a = b
  /\ b.kind = "complex" => a.kind = "complex" /\ a.content = b.content

\* A table of fine types, none of which becomes a group or a reference, or has another
\* content, keeps groups apart.
LEMMA LayersStep ==
  ASSUME NEW t, IsTable(t), NEW u, DOMAIN u = DOMAIN t,
         \A i \in DOMAIN t : Fine(t, u, i) /\ SameLayer(t[i], u[i])
  PROVE  Layers(t, u)
<1> SUFFICES ASSUME NEW P, Layered(t, P)
             PROVE  Layered(u, P) /\ (Direct(t, P) => Direct(u, P))
  BY DEF Layers
<1>1. ASSUME NEW i \in DOMAIN t
      PROVE  /\ u[i].kind \in Groups => i \in P
             /\ i \in P => u[i].kind \in Groups \/ (IsSimpleReference(u[i]) /\ u[i].to \in P)
  BY DEF Layered, SameLayer
<1>2. ASSUME NEW i \in DOMAIN t, i \notin P PROVE Parts(u[i]) \cap P = {}
  <2>1. \A c \in Parts(u[i]) : Reaches(t, i, c)
    BY DEF Fine
  <2> QED
    BY <1>2, <2>1, Below
<1>3. Layered(u, P)
  BY <1>1, <1>2 DEF Layered
<1>4. ASSUME Direct(t, P), NEW i \in DOMAIN u, u[i].kind = "complex", u[i].content \in P
      PROVE  u[u[i].content].kind \in Groups
  <2>1. t[i].kind = "complex" /\ t[i].content = u[i].content
    BY <1>4 DEF SameLayer
  <2>2. t[t[i].content].kind \in Groups /\ t[i].content \in DOMAIN t
    BY <1>4, <2>1 DEF Direct, Layered
  <2> QED
    BY <2>1, <2>2 DEF SameLayer
<1> QED
  BY <1>3, <1>4 DEF Direct

\* What is kept by a pass that keeps the map of typedefs: the references stay as they are.
Grown(t, u) ==
  /\ DOMAIN t \subseteq DOMAIN u /\ DOMAIN u \subseteq Ident /\ IsTable(u)
  /\ Refs(u) = Refs(t) /\ \A i \in Refs(t) : u[i] = t[i]
  /\ \A i \in DOMAIN u : u[i].kind = "dynamic" => i \in DOMAIN t /\ t[i].kind = "dynamic"
  /\ Layers(t, u)
Kept(t, u) == Grown(t, u) /\ DOMAIN u = DOMAIN t

\* All but one type are the same.
OneChanged(t, u, i) == DOMAIN u = DOMAIN t /\ \A j \in DOMAIN t : j # i => u[j] = t[j]

\* A change of one type to a fine one leaves a table.
LEMMA OneStep ==
  ASSUME NEW t, IsTable(t), NEW u, NEW i \in DOMAIN t, OneChanged(t, u, i), Fine(t, u, i)
  PROVE  IsTable(u)
<1>1. \A j \in DOMAIN u : Fine(t, u, j)
  BY SameIsFine DEF OneChanged
<1> QED
  BY <1>1, TableStep DEF OneChanged

\* So are groups apart, if the type does not become one, nor a reference.
LEMMA OneLayer ==
  ASSUME NEW t, IsTable(t), NEW u, NEW i \in DOMAIN t, OneChanged(t, u, i), Fine(t, u, i),
         SameLayer(t[i], u[i])
  PROVE  Layers(t, u)
<1>1. \A j \in DOMAIN t : Fine(t, u, j) /\ SameLayer(t[j], u[j])
  BY SameIsFine DEF OneChanged, SameLayer
<1> QED
  BY <1>1, LayersStep DEF OneChanged

\* ... and, when it is neither a reference nor a dynamic type, the references as they
\* were.
LEMMA KeptStep ==
  ASSUME NEW s, NEW t, Kept(s, t), NEW u, NEW i \in DOMAIN t, OneChanged(t, u, i), IsTable(u), Layers(t, u),
         t[i].kind \notin {"reference", "dynamic"}, u[i].kind \notin {"reference", "dynamic"}
  PROVE  Kept(s, u)
<1>1. i \notin Refs(t) /\ i \notin Refs(u)
  BY DEF Refs, IsSimpleReference
<1>2. Refs(u) = Refs(t)
  BY <1>1 DEF Refs, OneChanged
<1>3. \A j \in Refs(t) : u[j] = t[j]
  BY <1>1 DEF Refs, OneChanged
<1>4. \A j \in DOMAIN u : u[j].kind = "dynamic" => t[j].kind = "dynamic"
  BY DEF OneChanged
<1>5. Layers(s, u)
  BY LayersTwice DEF Kept, Grown
<1> QED
  BY <1>2, <1>3, <1>4, <1>5 DEF Kept, Grown, OneChanged

\* Without a change the references are as they were.
LEMMA KeptSelf ==
  ASSUME NEW t, IsTable(t), DOMAIN t \subseteq Ident
  PROVE  Kept(t, t)
BY LayersSelf DEF Kept, Grown

-----------------------------------------------------------------------------
(* Unions.                                                                 *)

\* The recursive function of Leaves is there (flatten_union_impl ends).
LEMMA LeavesRecursion ==
  ASSUME NEW t, IsTable(t)
  PROVE  \A i \in DOMAIN t :
           Leaves(t, i) =
             IF t[i].kind = "union"
             THEN FlattenSeq([k \in DOMAIN t[i].members |-> Leaves(t, t[i].members[k])])
             ELSE IF IsSimpleReference(t[i]) THEN Leaves(t, t[i].to)
             ELSE <<i>>
<1> DEFINE D == DOMAIN t
           p == <<"leaves", t>>
           kids == [i \in D |-> Parts(t[i])]
           F == CHOOSE f : f = [i \in DOMAIN t |->
                  IF t[i].kind = "union"
                  THEN FlattenSeq([k \in DOMAIN t[i].members |-> f[t[i].members[k]]])
                  ELSE IF IsSimpleReference(t[i]) THEN f[t[i].to]
                  ELSE <<i>>]
<1>1. p[1] = "leaves" /\ p[2] = t
  OBVIOUS
<1>2. \A f, i : Body(p, f, i) =
        IF t[i].kind = "union"
        THEN FlattenSeq([k \in DOMAIN t[i].members |-> f[t[i].members[k]]])
        ELSE IF IsSimpleReference(t[i]) THEN f[t[i].to]
        ELSE <<i>>
  BY <1>1 DEF Body
<1>3. kids \in [D -> SUBSET D] /\ Grounded(D, kids)
  BY DEF IsTable, Grounded
<1>4. \A i \in D : kids[i] = Parts(t[i])
  OBVIOUS
<1> HIDE DEF p, kids
<1>5. Depends(p, D, kids)
  <2>1. ASSUME NEW i \in D, NEW f, NEW g, \A j \in kids[i] : f[j] = g[j]
        PROVE  Body(p, f, i) = Body(p, g, i)
    <3>1. CASE t[i].kind = "union"
      <4>1. \A k \in DOMAIN t[i].members : t[i].members[k] \in kids[i]
        BY <1>4, <3>1, PartsOf DEF ToSet
      <4>2. [k \in DOMAIN t[i].members |-> f[t[i].members[k]]]
              = [k \in DOMAIN t[i].members |-> g[t[i].members[k]]]
        BY <2>1, <4>1
      <4>3. Body(p, f, i) = FlattenSeq([k \in DOMAIN t[i].members |-> f[t[i].members[k]]])
        BY <1>2, <3>1
      <4>4. Body(p, g, i) = FlattenSeq([k \in DOMAIN t[i].members |-> g[t[i].members[k]]])
        BY <1>2, <3>1
      <4> QED
        BY <4>2, <4>3, <4>4
    <3>2. CASE t[i].kind # "union" /\ IsSimpleReference(t[i])
      <4>1. f[t[i].to] = g[t[i].to]
        BY <1>4, <2>1, <3>2, PartOfReference
      <4> QED
        BY <1>2, <3>2, <4>1
    <3>3. CASE t[i].kind # "union" /\ ~ IsSimpleReference(t[i])
      BY <1>2, <3>3
    <3> QED
      BY <3>1, <3>2, <3>3
  <2> QED
    BY <2>1 DEF Depends
<1>0. PICK f : Solves(p, D, f)
  BY <1>3, <1>5, Recursion
<1>6. f = [i \in D |-> Body(p, f, i)]
  BY <1>0 DEF Solves
<1>7. f = [i \in DOMAIN t |->
                  IF t[i].kind = "union"
                  THEN FlattenSeq([k \in DOMAIN t[i].members |-> f[t[i].members[k]]])
                  ELSE IF IsSimpleReference(t[i]) THEN f[t[i].to]
                  ELSE <<i>>]
  BY <1>2, <1>6
<1>8. F = [i \in DOMAIN t |->
                  IF t[i].kind = "union"
                  THEN FlattenSeq([k \in DOMAIN t[i].members |-> F[t[i].members[k]]])
                  ELSE IF IsSimpleReference(t[i]) THEN F[t[i].to]
                  ELSE <<i>>]
  BY <1>7
<1>9. \A i : Leaves(t, i) = F[i]
  BY DEF Leaves
<1> HIDE DEF F
<1> SUFFICES ASSUME NEW i \in DOMAIN t
             PROVE  F[i] = IF t[i].kind = "union"
                           THEN FlattenSeq([k \in DOMAIN t[i].members |-> Leaves(t, t[i].members[k])])
                           ELSE IF IsSimpleReference(t[i]) THEN F[t[i].to]
                           ELSE <<i>>
  BY <1>9
<1>10. [k \in DOMAIN t[i].members |-> Leaves(t, t[i].members[k])]
         = [k \in DOMAIN t[i].members |-> F[t[i].members[k]]]
  BY <1>9
<1> QED
  BY <1>8, <1>10

\* The leaves of a union are below it.
LEMMA LeavesIn ==
  ASSUME NEW t, IsTable(t)
  PROVE  \A i \in DOMAIN t :
           /\ IsList(Leaves(t, i)) /\ ToSet(Leaves(t, i)) \subseteq DOMAIN t
           /\ t[i].kind = "union" => \A c \in ToSet(Leaves(t, i)) : Reaches(t, i, c)
<1> DEFINE good(i) == /\ IsList(Leaves(t, i))
                      /\ \A X : Closed(t, X) /\ i \in X => ToSet(Leaves(t, i)) \subseteq X
           S == {i \in DOMAIN t : ~ good(i)}
<1>1. ASSUME NEW i \in DOMAIN t, t[i].kind = "union", \A c \in Parts(t[i]) : good(c)
      PROVE  /\ IsList(Leaves(t, i))
             /\ \A X : Closed(t, X) /\ Parts(t[i]) \subseteq X => ToSet(Leaves(t, i)) \subseteq X
  <2> DEFINE m == t[i].members
             ss == [k \in DOMAIN m |-> Leaves(t, m[k])]
  <2>1. IsType(t[i]) /\ IsList(m) /\ ToSet(m) \subseteq Parts(t[i])
    BY <1>1, TypeOf, PartsOf DEF IsTable
  <2>2. \A k \in DOMAIN m : m[k] \in ToSet(m)
    BY DEF ToSet
  <2>3. DOMAIN m = 1 .. Len(m) /\ Len(m) \in Nat
    BY <2>1, ListShape
  <2>4. Leaves(t, i) = FlattenSeq(ss)
    BY <1>1, LeavesRecursion
  <2>5. IsList(ss) /\ DOMAIN ss = DOMAIN m /\ \A k \in DOMAIN m : ss[k] = Leaves(t, m[k])
    <3>1. ss = [k \in 1 .. Len(m) |-> ss[k]]
      BY <2>3
    <3> QED
      BY <2>3, <3>1, NewList
  <2> HIDE DEF m, ss
  <2>6. \A k \in DOMAIN ss : IsList(ss[k])
    BY <1>1, <2>1, <2>2, <2>5
  <2>7. ASSUME NEW X, Closed(t, X), Parts(t[i]) \subseteq X
        PROVE  IsList(FlattenSeq(ss)) /\ ToSet(FlattenSeq(ss)) \subseteq X
    <3>1. \A k \in DOMAIN ss : ToSet(ss[k]) \subseteq X
      BY <1>1, <2>1, <2>2, <2>5, <2>7
    <3> QED
      BY <2>5, <2>6, <3>1, FlattenList
  <2>8. Closed(t, DOMAIN t) /\ Parts(t[i]) \subseteq DOMAIN t
    BY DEF Closed, IsTable
  <2> QED
    BY <2>4, <2>7, <2>8
<1>2. S = {}
  <2>1. SUFFICES ASSUME S # {} PROVE FALSE
    OBVIOUS
  <2>2. PICK i \in S : Parts(t[i]) \cap S = {}
    <3>1. S \in SUBSET DOMAIN t
      OBVIOUS
    <3> HIDE DEF S
    <3> QED
      BY <2>1, <3>1 DEF IsTable
  <2>3. i \in DOMAIN t /\ \A c \in Parts(t[i]) : good(c)
    BY <2>2 DEF IsTable
  <2>4. CASE t[i].kind = "union"
    BY <1>1, <2>3, <2>4 DEF Closed
  <2>5. CASE t[i].kind # "union" /\ IsSimpleReference(t[i])
    <3>1. Leaves(t, i) = Leaves(t, t[i].to)
      BY <2>3, <2>5, LeavesRecursion
    <3>2. t[i].to \in Parts(t[i])
      BY <2>5, PartOfReference
    <3> QED
      BY <2>3, <3>1, <3>2 DEF Closed
  <2>6. CASE t[i].kind # "union" /\ ~ IsSimpleReference(t[i])
    <3>1. Leaves(t, i) = <<i>>
      BY <2>3, <2>6, LeavesRecursion
    <3>2. <<i>> \in Seq({i})
      OBVIOUS
    <3>3. IsList(<<i>>) /\ ToSet(<<i>>) \subseteq {i}
      BY <3>2, ListIn
    <3> QED
      BY <3>1, <3>3
  <2> QED
    BY <2>4, <2>5, <2>6
<1>3. \A i \in DOMAIN t : good(i)
  BY <1>2
<1> SUFFICES ASSUME NEW i \in DOMAIN t
             PROVE  /\ IsList(Leaves(t, i)) /\ ToSet(Leaves(t, i)) \subseteq DOMAIN t
                    /\ t[i].kind = "union" => \A c \in ToSet(Leaves(t, i)) : Reaches(t, i, c)
  OBVIOUS
<1>4. Closed(t, DOMAIN t)
  BY DEF Closed, IsTable
<1>5. IsList(Leaves(t, i)) /\ ToSet(Leaves(t, i)) \subseteq DOMAIN t
  BY <1>3, <1>4
<1>6. ASSUME t[i].kind = "union", NEW c \in ToSet(Leaves(t, i)) PROVE Reaches(t, i, c)
  <2>1. \A d \in Parts(t[i]) : good(d)
    BY <1>3 DEF IsTable
  <2> QED
    BY <1>1, <1>5, <1>6, <2>1 DEF Reaches
<1> QED
  BY <1>5, <1>6

\* flatten_union leaves a table.
LEMMA FlattenUnionStep ==
  ASSUME NEW t, IsTable(t), NEW i \in DOMAIN t, t[i].kind = "union"
  PROVE  LET u == FlattenUnion(t, i)
         IN OneChanged(t, u, i) /\ IsTable(u) /\ Layers(t, u) /\ u[i].kind = "union"
<1>1. IsType(t[i]) /\ IsBase(t[i].base) /\ Parts(t[i]) = ({t[i].base.of} \ {NoIdent}) \cup ToSet(t[i].members)
  BY TypeOf, PartsOf DEF IsTable
<1> DEFINE new == Union(t[i].base, Leaves(t, i), "any")
           u == [t EXCEPT ![i] = new]
<1>2. IsList(Leaves(t, i)) /\ \A c \in ToSet(Leaves(t, i)) : Reaches(t, i, c)
  BY LeavesIn
<1>3. IsType(new) /\ Parts(new) = ({t[i].base.of} \ {NoIdent}) \cup ToSet(Leaves(t, i)) /\ new.kind = "union"
  BY <1>1, <1>2, NewUnion
<1> HIDE DEF new
<1>4. u[i] = new /\ OneChanged(t, u, i)
  BY DEF OneChanged
<1> HIDE DEF u
<1>5. \A c \in Parts(new) : Reaches(t, i, c)
  BY <1>1, <1>2, <1>3, ReachesParts
<1>6. Fine(t, u, i)
  BY <1>3, <1>4, <1>5 DEF Fine
<1>7. IsTable(u)
  BY <1>4, <1>6, OneStep
<1>8. OneChanged(t, t, i) /\ Layers(t, t)
  BY LayersSelf DEF OneChanged
<1>9. Layers(t, u)
  <2>1. SameLayer(t[i], u[i])
    BY <1>3, <1>4 DEF SameLayer, IsSimpleReference, Groups
  <2> QED
    BY <1>4, <1>6, <2>1, OneLayer
<1>10. FlattenUnion(t, i) \in {t, u}
  BY DEF FlattenUnion, u, new
<1> QED
  BY <1>3, <1>4, <1>7, <1>8, <1>9, <1>10

\* merge_enum_union leaves a table.
LEMMA MergeEnumUnionStep ==
  ASSUME NEW t, IsTable(t), NEW i \in DOMAIN t, t[i].kind \in {"union", "enumeration"}
  PROVE  LET u == MergeEnumUnion(t, i)
         IN OneChanged(t, u, i) /\ IsTable(u) /\ Layers(t, u) /\ u[i].kind \in {"union", "enumeration"}
<1> DEFINE leaves == Leaves(t, i)
           variants(j) == IF t[j].kind = "enumeration" THEN t[j].variants
                          ELSE <<Variant(PropertyName[j], j)>>
           merged == Distinct(FlattenSeq([k \in DOMAIN leaves |-> variants(leaves[k])]))
           union == Union(NoBase, leaves, "any")
           enum == Enumeration(NoBase, merged)
           u == [t EXCEPT ![i] = union]
           v == [t EXCEPT ![i] = enum]
<1>1. IsList(leaves) /\ (t[i].kind = "union" => \A c \in ToSet(leaves) : Reaches(t, i, c))
  BY LeavesIn
<1>2. IsType(union) /\ Parts(union) = ToSet(leaves) /\ union.kind = "union"
  BY <1>1, NewUnion, NoBaseIsBase
<1>3. IsType(enum) /\ Parts(enum) = {} /\ enum.kind = "enumeration"
  BY NewEnumeration, NoBaseIsBase
<1>4. MergeEnumUnion(t, i) =
        IF \E k \in DOMAIN leaves : t[leaves[k]].kind = "enumeration" THEN v
        ELSE IF leaves # <<>> THEN u ELSE t
  BY DEF MergeEnumUnion
<1> HIDE DEF union, enum
<1>5. u[i] = union /\ OneChanged(t, u, i) /\ v[i] = enum /\ OneChanged(t, v, i)
  BY DEF OneChanged
<1> HIDE DEF u, v
<1>6. IsTable(v) /\ Layers(t, v)
  <2>1. Fine(t, v, i)
    BY <1>3, <1>5 DEF Fine
  <2>2. SameLayer(t[i], v[i])
    BY <1>3, <1>5 DEF SameLayer, IsSimpleReference, Groups
  <2> QED
    BY <1>5, <2>1, <2>2, OneStep, OneLayer
<1>7. t[i].kind = "union" => IsTable(u) /\ Layers(t, u)
  <2>1. t[i].kind = "union" => Fine(t, u, i)
    BY <1>1, <1>2, <1>5 DEF Fine
  <2>2. SameLayer(t[i], u[i])
    BY <1>2, <1>5 DEF SameLayer, IsSimpleReference, Groups
  <2> QED
    BY <1>5, <2>1, <2>2, OneStep, OneLayer
<1>8. t[i].kind = "enumeration" => \E k \in DOMAIN leaves : t[leaves[k]].kind = "enumeration"
  <2>1. t[i].kind = "enumeration" => leaves = <<i>>
    BY LeavesRecursion DEF IsSimpleReference
  <2>2. 1 \in DOMAIN <<i>> /\ <<i>>[1] = i
    OBVIOUS
  <2> QED
    BY <2>1, <2>2
<1>9. OneChanged(t, t, i) /\ Layers(t, t)
  BY LayersSelf DEF OneChanged
<1> QED
  BY <1>2, <1>3, <1>4, <1>5, <1>6, <1>7, <1>8, <1>9

-----------------------------------------------------------------------------
(* Folds, one element after the other.                                     *)

UnionFolded(base, seq) == Fold(FlattenUnion, base, seq)
UnionSteps(f, base, seq) ==
  /\ f[0] = base /\ \A k \in 1 .. Len(seq) : f[k] = FlattenUnion(f[k - 1], seq[k])
  /\ UnionFolded(base, seq) = f[Len(seq)]

\* The folds of the passes as functions of the number of steps: flatten_unions.
LEMMA UnionFold ==
  ASSUME NEW base, NEW seq, Len(seq) \in Nat
  PROVE  \E f : UnionSteps(f, base, seq)
<1> DEFINE p == <<"union", base, seq>>
           F == CHOOSE f : f = [k \in 0 .. Len(seq) |->
                  IF k = 0 THEN base ELSE Given(f[k - 1], LAMBDA r : FlattenUnion(r, seq[k]))]
<1>1. p[1] = "union" /\ p[2] = base /\ p[3] = seq
  OBVIOUS
<1>2. \A r, k : Apply(p, r, k) = FlattenUnion(r, seq[k])
  BY <1>1 DEF Apply
<1>3. \A r, k : Given(r, LAMBDA x : FlattenUnion(x, seq[k])) = FlattenUnion(r, seq[k])
  BY DEF Given
<1> HIDE DEF p
<1>10. PICK f : IsFold(f, p, Len(seq))
  BY <1>1, FoldRecursion
<1>4. f = [k \in 0 .. Len(seq) |-> IF k = 0 THEN p[2] ELSE Apply(p, f[k - 1], k)]
  BY <1>10 DEF IsFold
<1>5. f = [k \in 0 .. Len(seq) |->
             IF k = 0 THEN base ELSE Given(f[k - 1], LAMBDA r : FlattenUnion(r, seq[k]))]
  BY <1>1, <1>2, <1>3, <1>4
<1>6. F = [k \in 0 .. Len(seq) |->
             IF k = 0 THEN base ELSE Given(F[k - 1], LAMBDA r : FlattenUnion(r, seq[k]))]
  BY <1>5
<1>7. UnionFolded(base, seq) = F[Len(seq)]
  BY DEF UnionFolded, Fold
<1> HIDE DEF F
<1>8. F = [k \in 0 .. Len(seq) |-> IF k = 0 THEN base ELSE FlattenUnion(F[k - 1], seq[k])]
  BY <1>3, <1>6
<1>9. F[0] = base /\ \A k \in 1 .. Len(seq) : F[k] = FlattenUnion(F[k - 1], seq[k])
  BY <1>8
<1> QED
  BY <1>7, <1>9 DEF UnionSteps

EnumUnionFolded(base, seq) == Fold(MergeEnumUnion, base, seq)
EnumUnionSteps(f, base, seq) ==
  /\ f[0] = base /\ \A k \in 1 .. Len(seq) : f[k] = MergeEnumUnion(f[k - 1], seq[k])
  /\ EnumUnionFolded(base, seq) = f[Len(seq)]

\* merge_enum_unions.
LEMMA EnumUnionFold ==
  ASSUME NEW base, NEW seq, Len(seq) \in Nat
  PROVE  \E f : EnumUnionSteps(f, base, seq)
<1> DEFINE p == <<"enumeration", base, seq>>
           F == CHOOSE f : f = [k \in 0 .. Len(seq) |->
                  IF k = 0 THEN base ELSE Given(f[k - 1], LAMBDA r : MergeEnumUnion(r, seq[k]))]
<1>1. p[1] = "enumeration" /\ p[2] = base /\ p[3] = seq
  OBVIOUS
<1>2. \A r, k : Apply(p, r, k) = MergeEnumUnion(r, seq[k])
  BY <1>1 DEF Apply
<1>3. \A r, k : Given(r, LAMBDA x : MergeEnumUnion(x, seq[k])) = MergeEnumUnion(r, seq[k])
  BY DEF Given
<1> HIDE DEF p
<1>10. PICK f : IsFold(f, p, Len(seq))
  BY <1>1, FoldRecursion
<1>4. f = [k \in 0 .. Len(seq) |-> IF k = 0 THEN p[2] ELSE Apply(p, f[k - 1], k)]
  BY <1>10 DEF IsFold
<1>5. f = [k \in 0 .. Len(seq) |->
             IF k = 0 THEN base ELSE Given(f[k - 1], LAMBDA r : MergeEnumUnion(r, seq[k]))]
  BY <1>1, <1>2, <1>3, <1>4
<1>6. F = [k \in 0 .. Len(seq) |->
             IF k = 0 THEN base ELSE Given(F[k - 1], LAMBDA r : MergeEnumUnion(r, seq[k]))]
  BY <1>5
<1>7. EnumUnionFolded(base, seq) = F[Len(seq)]
  BY DEF EnumUnionFolded, Fold
<1> HIDE DEF F
<1>8. F = [k \in 0 .. Len(seq) |-> IF k = 0 THEN base ELSE MergeEnumUnion(F[k - 1], seq[k])]
  BY <1>3, <1>6
<1>9. F[0] = base /\ \A k \in 1 .. Len(seq) : F[k] = MergeEnumUnion(F[k - 1], seq[k])
  BY <1>8
<1> QED
  BY <1>7, <1>9 DEF EnumUnionSteps

DynamicFolded(base, seq) == Fold(ConvertDynamic, base, seq)
DynamicSteps(f, base, seq) ==
  /\ f[0] = base /\ \A k \in 1 .. Len(seq) : f[k] = ConvertDynamic(f[k - 1], seq[k])
  /\ DynamicFolded(base, seq) = f[Len(seq)]

\* convert_dynamic_to_choice.
LEMMA DynamicFold ==
  ASSUME NEW base, NEW seq, Len(seq) \in Nat
  PROVE  \E f : DynamicSteps(f, base, seq)
<1> DEFINE p == <<"dynamic", base, seq>>
           F == CHOOSE f : f = [k \in 0 .. Len(seq) |->
                  IF k = 0 THEN base ELSE Given(f[k - 1], LAMBDA r : ConvertDynamic(r, seq[k]))]
<1>1. p[1] = "dynamic" /\ p[2] = base /\ p[3] = seq
  OBVIOUS
<1>2. \A r, k : Apply(p, r, k) = ConvertDynamic(r, seq[k])
  BY <1>1 DEF Apply
<1>3. \A r, k : Given(r, LAMBDA x : ConvertDynamic(x, seq[k])) = ConvertDynamic(r, seq[k])
  BY DEF Given
<1> HIDE DEF p
<1>10. PICK f : IsFold(f, p, Len(seq))
  BY <1>1, FoldRecursion
<1>4. f = [k \in 0 .. Len(seq) |-> IF k = 0 THEN p[2] ELSE Apply(p, f[k - 1], k)]
  BY <1>10 DEF IsFold
<1>5. f = [k \in 0 .. Len(seq) |->
             IF k = 0 THEN base ELSE Given(f[k - 1], LAMBDA r : ConvertDynamic(r, seq[k]))]
  BY <1>1, <1>2, <1>3, <1>4
<1>6. F = [k \in 0 .. Len(seq) |->
             IF k = 0 THEN base ELSE Given(F[k - 1], LAMBDA r : ConvertDynamic(r, seq[k]))]
  BY <1>5
<1>7. DynamicFolded(base, seq) = F[Len(seq)]
  BY DEF DynamicFolded, Fold
<1> HIDE DEF F
<1>8. F = [k \in 0 .. Len(seq) |-> IF k = 0 THEN base ELSE ConvertDynamic(F[k - 1], seq[k])]
  BY <1>3, <1>6
<1>9. F[0] = base /\ \A k \in 1 .. Len(seq) : F[k] = ConvertDynamic(F[k - 1], seq[k])
  BY <1>8
<1> QED
  BY <1>7, <1>9 DEF DynamicSteps

ComplexFolded(base, seq) == Fold(FlattenComplexType, base, seq)
ComplexSteps(f, base, seq) ==
  /\ f[0] = base /\ \A k \in 1 .. Len(seq) : f[k] = FlattenComplexType(f[k - 1], seq[k])
  /\ ComplexFolded(base, seq) = f[Len(seq)]

\* flatten_complex_types.
LEMMA ComplexFold ==
  ASSUME NEW base, NEW seq, Len(seq) \in Nat
  PROVE  \E f : ComplexSteps(f, base, seq)
<1> DEFINE p == <<"complex", base, seq>>
           F == CHOOSE f : f = [k \in 0 .. Len(seq) |->
                  IF k = 0 THEN base ELSE Given(f[k - 1], LAMBDA r : FlattenComplexType(r, seq[k]))]
<1>1. p[1] = "complex" /\ p[2] = base /\ p[3] = seq
  OBVIOUS
<1>2. \A r, k : Apply(p, r, k) = FlattenComplexType(r, seq[k])
  BY <1>1 DEF Apply
<1>3. \A r, k : Given(r, LAMBDA x : FlattenComplexType(x, seq[k])) = FlattenComplexType(r, seq[k])
  BY DEF Given
<1> HIDE DEF p
<1>10. PICK f : IsFold(f, p, Len(seq))
  BY <1>1, FoldRecursion
<1>4. f = [k \in 0 .. Len(seq) |-> IF k = 0 THEN p[2] ELSE Apply(p, f[k - 1], k)]
  BY <1>10 DEF IsFold
<1>5. f = [k \in 0 .. Len(seq) |->
             IF k = 0 THEN base ELSE Given(f[k - 1], LAMBDA r : FlattenComplexType(r, seq[k]))]
  BY <1>1, <1>2, <1>3, <1>4
<1>6. F = [k \in 0 .. Len(seq) |->
             IF k = 0 THEN base ELSE Given(F[k - 1], LAMBDA r : FlattenComplexType(r, seq[k]))]
  BY <1>5
<1>7. ComplexFolded(base, seq) = F[Len(seq)]
  BY DEF ComplexFolded, Fold
<1> HIDE DEF F
<1>8. F = [k \in 0 .. Len(seq) |-> IF k = 0 THEN base ELSE FlattenComplexType(F[k - 1], seq[k])]
  BY <1>3, <1>6
<1>9. F[0] = base /\ \A k \in 1 .. Len(seq) : F[k] = FlattenComplexType(F[k - 1], seq[k])
  BY <1>8
<1> QED
  BY <1>7, <1>9 DEF ComplexSteps

ChoiceFolded(base, seq) == Fold(MergeChoiceCardinality, base, seq)
ChoiceSteps(f, base, seq) ==
  /\ f[0] = base /\ \A k \in 1 .. Len(seq) : f[k] = MergeChoiceCardinality(f[k - 1], seq[k])
  /\ ChoiceFolded(base, seq) = f[Len(seq)]

\* merge_choice_cardinalities.
LEMMA ChoiceFold ==
  ASSUME NEW base, NEW seq, Len(seq) \in Nat
  PROVE  \E f : ChoiceSteps(f, base, seq)
<1> DEFINE p == <<"choice", base, seq>>
           F == CHOOSE f : f = [k \in 0 .. Len(seq) |->
                  IF k = 0 THEN base ELSE Given(f[k - 1], LAMBDA r : MergeChoiceCardinality(r, seq[k]))]
<1>1. p[1] = "choice" /\ p[2] = base /\ p[3] = seq
  OBVIOUS
<1>2. \A r, k : Apply(p, r, k) = MergeChoiceCardinality(r, seq[k])
  BY <1>1 DEF Apply
<1>3. \A r, k : Given(r, LAMBDA x : MergeChoiceCardinality(x, seq[k])) = MergeChoiceCardinality(r, seq[k])
  BY DEF Given
<1> HIDE DEF p
<1>10. PICK f : IsFold(f, p, Len(seq))
  BY <1>1, FoldRecursion
<1>4. f = [k \in 0 .. Len(seq) |-> IF k = 0 THEN p[2] ELSE Apply(p, f[k - 1], k)]
  BY <1>10 DEF IsFold
<1>5. f = [k \in 0 .. Len(seq) |->
             IF k = 0 THEN base ELSE Given(f[k - 1], LAMBDA r : MergeChoiceCardinality(r, seq[k]))]
  BY <1>1, <1>2, <1>3, <1>4
<1>6. F = [k \in 0 .. Len(seq) |->
             IF k = 0 THEN base ELSE Given(F[k - 1], LAMBDA r : MergeChoiceCardinality(r, seq[k]))]
  BY <1>5
<1>7. ChoiceFolded(base, seq) = F[Len(seq)]
  BY DEF ChoiceFolded, Fold
<1> HIDE DEF F
<1>8. F = [k \in 0 .. Len(seq) |-> IF k = 0 THEN base ELSE MergeChoiceCardinality(F[k - 1], seq[k])]
  BY <1>3, <1>6
<1>9. F[0] = base /\ \A k \in 1 .. Len(seq) : F[k] = MergeChoiceCardinality(F[k - 1], seq[k])
  BY <1>8
<1> QED
  BY <1>7, <1>9 DEF ChoiceSteps

MixedFolded(base, seq) == Fold(SimplifyMixedType, base, seq)
MixedSteps(f, base, seq) ==
  /\ f[0] = base /\ \A k \in 1 .. Len(seq) : f[k] = SimplifyMixedType(f[k - 1], seq[k])
  /\ MixedFolded(base, seq) = f[Len(seq)]

\* simplify_mixed_types.
LEMMA MixedFold ==
  ASSUME NEW base, NEW seq, Len(seq) \in Nat
  PROVE  \E f : MixedSteps(f, base, seq)
<1> DEFINE p == <<"mixed", base, seq>>
           F == CHOOSE f : f = [k \in 0 .. Len(seq) |->
                  IF k = 0 THEN base ELSE Given(f[k - 1], LAMBDA r : SimplifyMixedType(r, seq[k]))]
<1>1. p[1] = "mixed" /\ p[2] = base /\ p[3] = seq
  OBVIOUS
<1>2. \A r, k : Apply(p, r, k) = SimplifyMixedType(r, seq[k])
  BY <1>1 DEF Apply
<1>3. \A r, k : Given(r, LAMBDA x : SimplifyMixedType(x, seq[k])) = SimplifyMixedType(r, seq[k])
  BY DEF Given
<1> HIDE DEF p
<1>10. PICK f : IsFold(f, p, Len(seq))
  BY <1>1, FoldRecursion
<1>4. f = [k \in 0 .. Len(seq) |-> IF k = 0 THEN p[2] ELSE Apply(p, f[k - 1], k)]
  BY <1>10 DEF IsFold
<1>5. f = [k \in 0 .. Len(seq) |->
             IF k = 0 THEN base ELSE Given(f[k - 1], LAMBDA r : SimplifyMixedType(r, seq[k]))]
  BY <1>1, <1>2, <1>3, <1>4
<1>6. F = [k \in 0 .. Len(seq) |->
             IF k = 0 THEN base ELSE Given(F[k - 1], LAMBDA r : SimplifyMixedType(r, seq[k]))]
  BY <1>5
<1>7. MixedFolded(base, seq) = F[Len(seq)]
  BY DEF MixedFolded, Fold
<1> HIDE DEF F
<1>8. F = [k \in 0 .. Len(seq) |-> IF k = 0 THEN base ELSE SimplifyMixedType(F[k - 1], seq[k])]
  BY <1>3, <1>6
<1>9. F[0] = base /\ \A k \in 1 .. Len(seq) : F[k] = SimplifyMixedType(F[k - 1], seq[k])
  BY <1>8
<1> QED
  BY <1>7, <1>9 DEF MixedSteps

CountFolded(base, seq) == Fold(LAMBDA r, x : Update(r, x.min, x.max), base, seq)
CountSteps(f, base, seq) ==
  /\ f[0] = base /\ \A k \in 1 .. Len(seq) : f[k] = Update(f[k - 1], seq[k].min, seq[k].max)
  /\ CountFolded(base, seq) = f[Len(seq)]

\* Info::update for each element of a choice.
LEMMA CountFold ==
  ASSUME NEW base, NEW seq, Len(seq) \in Nat
  PROVE  \E f : CountSteps(f, base, seq)
<1> DEFINE p == <<"count", base, seq>>
           F == CHOOSE f : f = [k \in 0 .. Len(seq) |->
                  IF k = 0 THEN base ELSE Given(f[k - 1], LAMBDA r : Update(r, seq[k].min, seq[k].max))]
<1>1. p[1] = "count" /\ p[2] = base /\ p[3] = seq
  OBVIOUS
<1>2. \A r, k : Apply(p, r, k) = Update(r, seq[k].min, seq[k].max)
  BY <1>1 DEF Apply
<1>3. \A r, k : Given(r, LAMBDA x : Update(x, seq[k].min, seq[k].max)) = Update(r, seq[k].min, seq[k].max)
  BY DEF Given
<1> HIDE DEF p
<1>10. PICK f : IsFold(f, p, Len(seq))
  BY <1>1, FoldRecursion
<1>4. f = [k \in 0 .. Len(seq) |-> IF k = 0 THEN p[2] ELSE Apply(p, f[k - 1], k)]
  BY <1>10 DEF IsFold
<1>5. f = [k \in 0 .. Len(seq) |->
             IF k = 0 THEN base ELSE Given(f[k - 1], LAMBDA r : Update(r, seq[k].min, seq[k].max))]
  BY <1>1, <1>2, <1>3, <1>4
<1>6. F = [k \in 0 .. Len(seq) |->
             IF k = 0 THEN base ELSE Given(F[k - 1], LAMBDA r : Update(r, seq[k].min, seq[k].max))]
  BY <1>5
<1>7. CountFolded(base, seq) = F[Len(seq)]
  BY DEF CountFolded, Fold
<1> HIDE DEF F
<1>8. F = [k \in 0 .. Len(seq) |-> IF k = 0 THEN base ELSE Update(F[k - 1], seq[k].min, seq[k].max)]
  BY <1>3, <1>6
<1>9. F[0] = base /\ \A k \in 1 .. Len(seq) : F[k] = Update(F[k - 1], seq[k].min, seq[k].max)
  BY <1>8
<1> QED
  BY <1>7, <1>9 DEF CountSteps

AddFolded(base, seq, alike) == Fold(LAMBDA r, x : AddElement(r, alike, x), base, seq)
AddSteps(f, base, seq, alike) ==
  /\ f[0] = base /\ \A k \in 1 .. Len(seq) : f[k] = AddElement(f[k - 1], alike, seq[k])
  /\ AddFolded(base, seq, alike) = f[Len(seq)]

\* add_element for each element of a group.
LEMMA AddFold ==
  ASSUME NEW base, NEW seq, Len(seq) \in Nat, NEW alike
  PROVE  \E f : AddSteps(f, base, seq, alike)
<1> DEFINE p == <<"add", base, seq, alike>>
           F == CHOOSE f : f = [k \in 0 .. Len(seq) |->
                  IF k = 0 THEN base ELSE Given(f[k - 1], LAMBDA r : AddElement(r, alike, seq[k]))]
<1>1. p[1] = "add" /\ p[2] = base /\ p[3] = seq /\ p[4] = alike
  OBVIOUS
<1>2. \A r, k : Apply(p, r, k) = AddElement(r, alike, seq[k])
  BY <1>1 DEF Apply
<1>3. \A r, k : Given(r, LAMBDA x : AddElement(x, alike, seq[k])) = AddElement(r, alike, seq[k])
  BY DEF Given
<1> HIDE DEF p
<1>10. PICK f : IsFold(f, p, Len(seq))
  BY <1>1, FoldRecursion
<1>4. f = [k \in 0 .. Len(seq) |-> IF k = 0 THEN p[2] ELSE Apply(p, f[k - 1], k)]
  BY <1>10 DEF IsFold
<1>5. f = [k \in 0 .. Len(seq) |->
             IF k = 0 THEN base ELSE Given(f[k - 1], LAMBDA r : AddElement(r, alike, seq[k]))]
  <2>1. \A k \in 0 .. Len(seq) :
          f[k] = IF k = 0 THEN base ELSE AddElement(f[k - 1], alike, seq[k])
    BY <1>1, <1>2, <1>4
  <2>2. \A k \in 0 .. Len(seq) :
          f[k] = IF k = 0 THEN base ELSE Given(f[k - 1], LAMBDA r : AddElement(r, alike, seq[k]))
    BY <1>3, <2>1
  <2>3. f = [k \in 0 .. Len(seq) |-> f[k]]
    BY <1>4
  <2> QED
    BY <2>2, <2>3
<1>6. F = [k \in 0 .. Len(seq) |->
             IF k = 0 THEN base ELSE Given(F[k - 1], LAMBDA r : AddElement(r, alike, seq[k]))]
  BY <1>5
<1>7. AddFolded(base, seq, alike) = F[Len(seq)]
  BY DEF AddFolded, Fold
<1> HIDE DEF F
<1>8. F = [k \in 0 .. Len(seq) |-> IF k = 0 THEN base ELSE AddElement(F[k - 1], alike, seq[k])]
  BY <1>3, <1>6
<1>9. F[0] = base /\ \A k \in 1 .. Len(seq) : F[k] = AddElement(F[k - 1], alike, seq[k])
  BY <1>8
<1> QED
  BY <1>7, <1>9 DEF AddSteps

ExecFolded(base, seq, elements, exec) == Fold(LAMBDA r, x : ExecElement(elements, x, r, exec), base, seq)
ExecSteps(f, base, seq, elements, exec) ==
  /\ f[0] = base /\ \A k \in 1 .. Len(seq) : f[k] = ExecElement(elements, seq[k], f[k - 1], exec)
  /\ ExecFolded(base, seq, elements, exec) = f[Len(seq)]

\* The loop of exec over the elements of a group.
LEMMA ExecFold ==
  ASSUME NEW base, NEW seq, Len(seq) \in Nat, NEW elements, NEW exec
  PROVE  \E f : ExecSteps(f, base, seq, elements, exec)
<1> DEFINE p == <<"exec", base, seq, elements, exec>>
           F == CHOOSE f : f = [k \in 0 .. Len(seq) |->
                  IF k = 0 THEN base ELSE Given(f[k - 1], LAMBDA r : ExecElement(elements, seq[k], r, exec))]
<1>1. p[1] = "exec" /\ p[2] = base /\ p[3] = seq /\ p[4] = elements /\ p[5] = exec
  OBVIOUS
<1>2. \A r, k : Apply(p, r, k) = ExecElement(elements, seq[k], r, exec)
  BY <1>1 DEF Apply
<1>3. \A r, k : Given(r, LAMBDA x : ExecElement(elements, seq[k], x, exec)) = ExecElement(elements, seq[k], r, exec)
  BY DEF Given
<1> HIDE DEF p
<1>10. PICK f : IsFold(f, p, Len(seq))
  BY <1>1, FoldRecursion
<1>4. f = [k \in 0 .. Len(seq) |-> IF k = 0 THEN p[2] ELSE Apply(p, f[k - 1], k)]
  BY <1>10 DEF IsFold
<1>5. f = [k \in 0 .. Len(seq) |->
             IF k = 0 THEN base ELSE Given(f[k - 1], LAMBDA r : ExecElement(elements, seq[k], r, exec))]
  <2>1. \A k \in 0 .. Len(seq) :
          f[k] = IF k = 0 THEN base ELSE ExecElement(elements, seq[k], f[k - 1], exec)
    BY <1>1, <1>2, <1>4
  <2>2. \A k \in 0 .. Len(seq) :
          f[k] = IF k = 0 THEN base ELSE Given(f[k - 1], LAMBDA r : ExecElement(elements, seq[k], r, exec))
    BY <1>3, <2>1
  <2>3. f = [k \in 0 .. Len(seq) |-> f[k]]
    BY <1>4
  <2> QED
    BY <2>2, <2>3
<1>6. F = [k \in 0 .. Len(seq) |->
             IF k = 0 THEN base ELSE Given(F[k - 1], LAMBDA r : ExecElement(elements, seq[k], r, exec))]
  BY <1>5
<1>7. ExecFolded(base, seq, elements, exec) = F[Len(seq)]
  BY DEF ExecFolded, Fold
<1> HIDE DEF F
<1>8. F = [k \in 0 .. Len(seq) |-> IF k = 0 THEN base ELSE ExecElement(elements, seq[k], F[k - 1], exec)]
  BY <1>3, <1>6
<1>9. F[0] = base /\ \A k \in 1 .. Len(seq) : F[k] = ExecElement(elements, seq[k], F[k - 1], exec)
  BY <1>8
<1> QED
  BY <1>7, <1>9 DEF ExecSteps

-----------------------------------------------------------------------------
(* The passes over unions keep the references.                             *)

\* flatten_unions leaves the references as they are.
LEMMA UnionsKept ==
  ASSUME NEW t, IsTable(t), DOMAIN t \subseteq Ident, NEW s, IsList(s),
         \A i \in ToSet(s) : i \in DOMAIN t /\ t[i].kind = "union"
  PROVE  Kept(t, UnionFolded(t, s))
<1>1. Len(s) \in Nat /\ DOMAIN s = 1 .. Len(s)
  BY ListShape
<1>0. PICK f : UnionSteps(f, t, s)
  BY <1>1, UnionFold
<1>2. /\ f[0] = t /\ \A k \in 1 .. Len(s) : f[k] = FlattenUnion(f[k - 1], s[k])
      /\ UnionFolded(t, s) = f[Len(s)]
  BY <1>0 DEF UnionSteps
<1> DEFINE T == {k \in 0 .. Len(s) : Kept(t, f[k]) /\ \A i \in ToSet(s) : f[k][i].kind = "union"}
<1>3. 0 \in T
  BY <1>1, <1>2, KeptSelf
<1>4. ASSUME NEW k \in 1 .. Len(s), k - 1 \in T PROVE k \in T
  <2>1. s[k] \in ToSet(s)
    BY <1>1 DEF ToSet
  <2> PICK v : v = f[k - 1]
    OBVIOUS
  <2> PICK u : u = f[k]
    OBVIOUS
  <2>2. Kept(t, v) /\ (\A i \in ToSet(s) : v[i].kind = "union") /\ u = FlattenUnion(v, s[k])
    BY <1>2, <1>4
  <2>3. IsTable(v) /\ s[k] \in DOMAIN v /\ v[s[k]].kind = "union" /\ ToSet(s) \subseteq DOMAIN v
    BY <2>1, <2>2 DEF Kept, Grown
  <2>4. OneChanged(v, u, s[k]) /\ IsTable(u) /\ Layers(v, u) /\ u[s[k]].kind = "union"
    BY <2>2, <2>3, FlattenUnionStep
  <2>5. Kept(t, u)
    BY <2>2, <2>3, <2>4, KeptStep
  <2>6. \A i \in ToSet(s) : u[i].kind = "union"
    BY <2>2, <2>3, <2>4 DEF OneChanged
  <2> QED
    BY <1>1, <2>5, <2>6
<1>5. Len(s) \in T
  <2>1. Len(s) \in 0 .. Len(s)
    BY <1>1
  <2> HIDE DEF T
  <2> QED
    BY <1>1, <1>3, <1>4, <2>1, UpTo
<1> QED
  BY <1>2, <1>5

\* So does merge_enum_unions.
LEMMA EnumUnionsKept ==
  ASSUME NEW t, IsTable(t), DOMAIN t \subseteq Ident, NEW s, IsList(s),
         \A i \in ToSet(s) : i \in DOMAIN t /\ t[i].kind = "union"
  PROVE  Kept(t, EnumUnionFolded(t, s))
<1>1. Len(s) \in Nat /\ DOMAIN s = 1 .. Len(s)
  BY ListShape
<1>0. PICK f : EnumUnionSteps(f, t, s)
  BY <1>1, EnumUnionFold
<1>2. /\ f[0] = t /\ \A k \in 1 .. Len(s) : f[k] = MergeEnumUnion(f[k - 1], s[k])
      /\ EnumUnionFolded(t, s) = f[Len(s)]
  BY <1>0 DEF EnumUnionSteps
<1> DEFINE T == {k \in 0 .. Len(s) :
                   Kept(t, f[k]) /\ \A i \in ToSet(s) : f[k][i].kind \in {"union", "enumeration"}}
<1>3. 0 \in T
  BY <1>1, <1>2, KeptSelf
<1>4. ASSUME NEW k \in 1 .. Len(s), k - 1 \in T PROVE k \in T
  <2>1. s[k] \in ToSet(s)
    BY <1>1 DEF ToSet
  <2> PICK v : v = f[k - 1]
    OBVIOUS
  <2> PICK u : u = f[k]
    OBVIOUS
  <2>2. /\ Kept(t, v) /\ \A i \in ToSet(s) : v[i].kind \in {"union", "enumeration"}
        /\ u = MergeEnumUnion(v, s[k])
    BY <1>2, <1>4
  <2>3. /\ IsTable(v) /\ s[k] \in DOMAIN v /\ v[s[k]].kind \in {"union", "enumeration"}
        /\ ToSet(s) \subseteq DOMAIN v
    BY <2>1, <2>2 DEF Kept, Grown
  <2>4. OneChanged(v, u, s[k]) /\ IsTable(u) /\ Layers(v, u) /\ u[s[k]].kind \in {"union", "enumeration"}
    BY <2>2, <2>3, MergeEnumUnionStep
  <2>5. Kept(t, u)
    BY <2>2, <2>3, <2>4, KeptStep
  <2>6. \A i \in ToSet(s) : u[i].kind \in {"union", "enumeration"}
    BY <2>2, <2>3, <2>4 DEF OneChanged
  <2> QED
    BY <1>1, <2>5, <2>6
<1>5. Len(s) \in T
  <2>1. Len(s) \in 0 .. Len(s)
    BY <1>1
  <2> HIDE DEF T
  <2> QED
    BY <1>1, <1>3, <1>4, <2>1, UpTo
<1> QED
  BY <1>2, <1>5

-----------------------------------------------------------------------------
(* convert_dynamic_to_choice                                               *)

\* What a type resolves to is below every type it is a part of.
LEMMA ResolvedBelow ==
  ASSUME NEW t, IsTable(t), NEW X, Closed(t, X), NEW d \in X
  PROVE  GetResolved(t, d) \in X
<1> DEFINE S == {i \in X : GetResolved(t, i) \notin X}
<1>1. SUFFICES ASSUME S # {} PROVE FALSE
  OBVIOUS
<1>2. S \in SUBSET DOMAIN t
  BY DEF Closed
<1>3. PICK i \in S : Parts(t[i]) \cap S = {}
  <2> HIDE DEF S
  <2> QED
    BY <1>1, <1>2 DEF IsTable
<1>4. CASE i \in Refs(t)
  <2>0. Parts(t[i]) = {t[i].to}
    BY <1>4, RefsChain
  <2>1. Parts(t[i]) = {t[i].to} /\ t[i].to \in X
    BY <2>0 DEF Closed
  <2>2. GetResolved(t, i) = GetResolved(t, t[i].to)
    BY <1>2, <1>4, Resolved
  <2> QED
    BY <1>3, <2>1, <2>2
<1>5. CASE i \notin Refs(t)
  BY <1>2, <1>5, Resolved
<1> QED
  BY <1>4, <1>5

\* A type reaches what its parts resolve to.
LEMMA ResolvedReached ==
  ASSUME NEW t, IsTable(t), NEW i \in DOMAIN t, NEW d \in Parts(t[i])
  PROVE  Reaches(t, i, GetResolved(t, d))
<1>1. d \in DOMAIN t
  BY DEF IsTable
<1>2. GetResolved(t, d) \in DOMAIN t
  BY <1>1, ResolvedIn
<1>3. ASSUME NEW X, Closed(t, X), Parts(t[i]) \subseteq X PROVE GetResolved(t, d) \in X
  BY <1>3, ResolvedBelow
<1> QED
  BY <1>2, <1>3 DEF Reaches

DynamicOnes(t) == {i \in DOMAIN t : t[i].kind = "dynamic"}
DerivedFrom(t, of, d) ==
  IF t[GetResolved(t, d)].kind = "dynamic" THEN of[GetResolved(t, d)]
  ELSE <<Element(PropertyName[d], "element", d, 1, 1)>>

\* The recursive function of DerivedElements is there (add_elements ends).
LEMMA DerivedRecursion ==
  ASSUME NEW t, IsTable(t)
  PROVE  \E f : /\ \A i \in DynamicOnes(t) : f[i] =
                     Distinct(FlattenSeq([k \in DOMAIN t[i].derived |-> DerivedFrom(t, f, t[i].derived[k])]))
                /\ \A i : DerivedElements(t, i) = f[i]
<1> DEFINE D == DynamicOnes(t)
           p == <<"derived", t>>
           kids == [i \in D |-> {GetResolved(t, d) : d \in ToSet(t[i].derived)} \cap D]
           F == CHOOSE f : f = [i \in {j \in DOMAIN t : t[j].kind = "dynamic"} |->
                  Distinct(FlattenSeq([k \in DOMAIN t[i].derived |->
                    IF t[GetResolved(t, t[i].derived[k])].kind = "dynamic"
                    THEN f[GetResolved(t, t[i].derived[k])]
                    ELSE <<Element(PropertyName[t[i].derived[k]], "element", t[i].derived[k], 1, 1)>>]))]
<1>1. p[1] = "derived" /\ p[2] = t
  OBVIOUS
<1>2. ASSUME NEW f, NEW i PROVE Body(p, f, i) =
        Distinct(FlattenSeq([k \in DOMAIN t[i].derived |->
           IF t[GetResolved(t, t[i].derived[k])].kind = "dynamic"
           THEN f[GetResolved(t, t[i].derived[k])]
           ELSE <<Element(PropertyName[t[i].derived[k]], "element", t[i].derived[k], 1, 1)>>]))
  BY <1>1 DEF Body
<1>3. kids \in [D -> SUBSET D]
  OBVIOUS
<1>4. Grounded(D, kids)
  <2> SUFFICES ASSUME NEW S \in SUBSET D, S # {} PROVE \E i \in S : kids[i] \cap S = {}
    BY DEF Grounded
  <2>1. S \in SUBSET DOMAIN t
    BY DEF DynamicOnes
  <2>2. PICK i \in S : \A c \in S : ~ Reaches(t, i, c)
    BY <2>1, ReachGrounded
  <2>3. i \in DOMAIN t /\ t[i].kind = "dynamic"
    BY DEF DynamicOnes
  <2>4. \A d \in ToSet(t[i].derived) : Reaches(t, i, GetResolved(t, d))
    BY <2>3, PartsOf, ResolvedReached
  <2> QED
    BY <2>2, <2>4
<1>5. \A i \in D : kids[i] = {GetResolved(t, d) : d \in ToSet(t[i].derived)} \cap D
  OBVIOUS
<1>6. \A i \in D : \A k \in DOMAIN t[i].derived :
        t[i].derived[k] \in ToSet(t[i].derived) /\ GetResolved(t, t[i].derived[k]) \in DOMAIN t
  <2> SUFFICES ASSUME NEW i \in D, NEW k \in DOMAIN t[i].derived
               PROVE  t[i].derived[k] \in ToSet(t[i].derived) /\ GetResolved(t, t[i].derived[k]) \in DOMAIN t
    OBVIOUS
  <2>1. t[i].derived[k] \in ToSet(t[i].derived) /\ i \in DOMAIN t /\ t[i].kind = "dynamic"
    BY DEF ToSet, DynamicOnes
  <2>2. t[i].derived[k] \in DOMAIN t
    BY <2>1, PartsOf DEF IsTable
  <2> QED
    BY <2>1, <2>2, ResolvedIn
<1> HIDE DEF p, kids
<1>7. Depends(p, D, kids)
  <2>1. ASSUME NEW i \in D, NEW f, NEW g, \A j \in kids[i] : f[j] = g[j]
        PROVE  Body(p, f, i) = Body(p, g, i)
    <3>1. \A k \in DOMAIN t[i].derived : t[GetResolved(t, t[i].derived[k])].kind = "dynamic" =>
            GetResolved(t, t[i].derived[k]) \in kids[i]
      BY <1>5, <1>6 DEF DynamicOnes
    <3>2. [k \in DOMAIN t[i].derived |->
             IF t[GetResolved(t, t[i].derived[k])].kind = "dynamic"
             THEN f[GetResolved(t, t[i].derived[k])]
             ELSE <<Element(PropertyName[t[i].derived[k]], "element", t[i].derived[k], 1, 1)>>]
          = [k \in DOMAIN t[i].derived |->
             IF t[GetResolved(t, t[i].derived[k])].kind = "dynamic"
             THEN g[GetResolved(t, t[i].derived[k])]
             ELSE <<Element(PropertyName[t[i].derived[k]], "element", t[i].derived[k], 1, 1)>>]
      BY <2>1, <3>1
    <3>3. Body(p, f, i) = Distinct(FlattenSeq([k \in DOMAIN t[i].derived |->
             IF t[GetResolved(t, t[i].derived[k])].kind = "dynamic"
             THEN f[GetResolved(t, t[i].derived[k])]
             ELSE <<Element(PropertyName[t[i].derived[k]], "element", t[i].derived[k], 1, 1)>>]))
      BY <1>2
    <3>4. Body(p, g, i) = Distinct(FlattenSeq([k \in DOMAIN t[i].derived |->
             IF t[GetResolved(t, t[i].derived[k])].kind = "dynamic"
             THEN g[GetResolved(t, t[i].derived[k])]
             ELSE <<Element(PropertyName[t[i].derived[k]], "element", t[i].derived[k], 1, 1)>>]))
      BY <1>2
    <3> QED
      BY <3>2, <3>3, <3>4
  <2> QED
    BY <2>1 DEF Depends
<1>0. PICK f : Solves(p, D, f)
  BY <1>3, <1>4, <1>7, Recursion
<1>8. f = [i \in D |-> Body(p, f, i)]
  BY <1>0 DEF Solves
<1>9. f = [i \in {j \in DOMAIN t : t[j].kind = "dynamic"} |->
                  Distinct(FlattenSeq([k \in DOMAIN t[i].derived |->
                    IF t[GetResolved(t, t[i].derived[k])].kind = "dynamic"
                    THEN f[GetResolved(t, t[i].derived[k])]
                    ELSE <<Element(PropertyName[t[i].derived[k]], "element", t[i].derived[k], 1, 1)>>]))]
  BY <1>2, <1>8 DEF DynamicOnes
<1>10. F = [i \in {j \in DOMAIN t : t[j].kind = "dynamic"} |->
                  Distinct(FlattenSeq([k \in DOMAIN t[i].derived |->
                    IF t[GetResolved(t, t[i].derived[k])].kind = "dynamic"
                    THEN F[GetResolved(t, t[i].derived[k])]
                    ELSE <<Element(PropertyName[t[i].derived[k]], "element", t[i].derived[k], 1, 1)>>]))]
  BY <1>9
<1>11. \A i : DerivedElements(t, i) = F[i]
  BY DEF DerivedElements
<1> HIDE DEF F
<1>12. ASSUME NEW i \in DynamicOnes(t)
       PROVE F[i] = Distinct(FlattenSeq([k \in DOMAIN t[i].derived |-> DerivedFrom(t, F, t[i].derived[k])]))
  <2>1. i \in {j \in DOMAIN t : t[j].kind = "dynamic"}
    BY DEF DynamicOnes
  <2>2. F[i] = Distinct(FlattenSeq([k \in DOMAIN t[i].derived |->
                    IF t[GetResolved(t, t[i].derived[k])].kind = "dynamic"
                    THEN F[GetResolved(t, t[i].derived[k])]
                    ELSE <<Element(PropertyName[t[i].derived[k]], "element", t[i].derived[k], 1, 1)>>]))
    BY <1>10, <2>1
  <2> QED
    BY <2>2 DEF DerivedFrom
<1> QED
  BY <1>11, <1>12

\* A new element is one.
LEMMA NewElement ==
  ASSUME NEW name, NEW mode, NEW to, NEW min, NEW max
  PROVE  LET e == Element(name, mode, to, min, max)
         IN IsElement(e) /\ e.mode = mode /\ e.to = to /\ e.name = name
BY DEF Element, IsElement

\* The elements for a dynamic type are no groups.
PlainElements(es) == IsList(es) /\ \A e \in ToSet(es) : IsElement(e) /\ e.mode # "group"

\* The elements made of derived types refer to no groups.
LEMMA DerivedPlain ==
  ASSUME NEW t, IsTable(t), NEW i \in DOMAIN t, t[i].kind = "dynamic"
  PROVE  PlainElements(DerivedElements(t, i))
<1>1. PICK f : /\ \A j \in DynamicOnes(t) : f[j] =
                    Distinct(FlattenSeq([k \in DOMAIN t[j].derived |-> DerivedFrom(t, f, t[j].derived[k])]))
               /\ \A j : DerivedElements(t, j) = f[j]
  BY DerivedRecursion
<1> DEFINE V == {Element(PropertyName[d], "element", d, 1, 1) : d \in DOMAIN t}
           good(j) == IsList(f[j]) /\ ToSet(f[j]) \subseteq V
           S == {j \in DynamicOnes(t) : ~ good(j)}
<1>2. S = {}
  <2>1. SUFFICES ASSUME S # {} PROVE FALSE
    OBVIOUS
  <2>2. PICK j \in S : \A c \in S : ~ Reaches(t, j, c)
    <3>1. S \in SUBSET DOMAIN t
      BY DEF DynamicOnes
    <3> HIDE DEF S
    <3> QED
      BY <2>1, <3>1, ReachGrounded
  <2> DEFINE d == t[j].derived
             ss == [k \in DOMAIN d |-> DerivedFrom(t, f, d[k])]
  <2>3. j \in DOMAIN t /\ t[j].kind = "dynamic" /\ j \in DynamicOnes(t)
    BY DEF DynamicOnes
  <2>4. IsList(d) /\ \A k \in DOMAIN d : d[k] \in Parts(t[j]) /\ d[k] \in DOMAIN t
    BY <2>3, TypeOf, PartsOf DEF IsTable, ToSet
  <2>5. Len(d) \in Nat /\ DOMAIN d = 1 .. Len(d)
    BY <2>4, ListShape
  <2>6. IsList(ss) /\ DOMAIN ss = DOMAIN d /\ \A k \in DOMAIN d : ss[k] = DerivedFrom(t, f, d[k])
    <3>1. ss = [k \in 1 .. Len(d) |-> ss[k]]
      BY <2>5
    <3> QED
      BY <2>5, <3>1, NewList
  <2>7. f[j] = Distinct(FlattenSeq(ss))
    BY <1>1, <2>3
  <2> HIDE DEF d, ss
  <2>8. ASSUME NEW k \in DOMAIN d PROVE IsList(ss[k]) /\ ToSet(ss[k]) \subseteq V
    <3>1. Reaches(t, j, GetResolved(t, d[k])) /\ GetResolved(t, d[k]) \in DOMAIN t
      BY <2>3, <2>4, ResolvedReached, ResolvedIn
    <3>2. CASE t[GetResolved(t, d[k])].kind = "dynamic"
      <4>1. good(GetResolved(t, d[k]))
        BY <2>2, <3>1, <3>2 DEF DynamicOnes
      <4> QED
        BY <2>6, <3>2, <4>1 DEF DerivedFrom
    <3>3. CASE t[GetResolved(t, d[k])].kind # "dynamic"
      <4>1. ss[k] = <<Element(PropertyName[d[k]], "element", d[k], 1, 1)>>
        BY <2>6, <3>3 DEF DerivedFrom
      <4>2. Element(PropertyName[d[k]], "element", d[k], 1, 1) \in V
        BY <2>4
      <4> HIDE DEF V
      <4>3. \A x \in V : <<x>> \in Seq(V)
        OBVIOUS
      <4> QED
        BY <4>1, <4>2, <4>3, ListIn
    <3> QED
      BY <3>2, <3>3
  <2>9. good(j)
    <3>1. IsList(FlattenSeq(ss)) /\ ToSet(FlattenSeq(ss)) \subseteq V
      <4> HIDE DEF V
      <4> QED
        BY <2>6, <2>8, FlattenList
    <3> QED
      BY <2>7, <3>1, DistinctList
  <2> QED
    BY <2>9
<1>3. good(i)
  BY <1>2 DEF DynamicOnes
<1>4. \A e \in V : IsElement(e) /\ e.mode # "group"
  BY NewElement
<1> HIDE DEF V
<1> QED
  BY <1>1, <1>3, <1>4 DEF PlainElements

\* A group of elements that are no groups has no parts.
LEMMA PlainGroup ==
  ASSUME NEW kind \in Groups, NEW mixed, NEW es, PlainElements(es)
  PROVE  LET t == Group(kind, mixed, es)
         IN IsType(t) /\ Parts(t) = {} /\ t.kind = kind /\ t.elements = es
<1>1. IsList(es) /\ \A e \in ToSet(es) : IsElement(e)
  BY DEF PlainElements
<1>2. {e.to : e \in {x \in ToSet(es) : x.mode = "group"}} = {}
  BY DEF PlainElements
<1> QED
  BY <1>1, <1>2, NewGroup

\* One dynamic type is replaced by a complex type, and a new type of its content.
LEMMA ConvertDynamicStep ==
  ASSUME NEW t, IsTable(t), NEW i \in DOMAIN t, t[i].kind = "dynamic", ContentOf[i] # i,
         ContentOf[i] \in DOMAIN t => t[ContentOf[i]].kind \in Groups
  PROVE  /\ IsTable(ConvertDynamic(t, i))
         /\ DOMAIN ConvertDynamic(t, i) = DOMAIN t \cup {ContentOf[i]}
         /\ \A j \in DOMAIN t \ {i, ContentOf[i]} : ConvertDynamic(t, i)[j] = t[j]
         /\ ConvertDynamic(t, i)[i].kind = "complex"
         /\ ConvertDynamic(t, i)[ContentOf[i]].kind \in Groups
         /\ Layers(t, ConvertDynamic(t, i))
<1> PICK u : u = ConvertDynamic(t, i)
  OBVIOUS
<1> DEFINE elements == DerivedElements(t, i)
           kind == IF elements = <<>> THEN "sequence" ELSE "choice"
<1> DEFINE content == ContentOf[i]
           group == Group(kind, FALSE, elements)
           complex == ComplexType(NoBase, content, 1, 1, FALSE, TRUE)
<1>1. kind \in Groups
  BY DEF Groups
<1>2. IsType(group) /\ Parts(group) = {} /\ group.kind \in Groups
  <2>1. \A k, no : k \in Groups =>
          /\ IsType(Group(k, no, elements)) /\ Parts(Group(k, no, elements)) = {}
          /\ Group(k, no, elements).kind \in Groups
    BY DerivedPlain, PlainGroup
  <2> HIDE DEF kind, elements
  <2> QED
    BY Zenon, <1>1, <2>1
<1>3. IsType(complex) /\ Parts(complex) = {} /\ complex.kind = "complex" /\ complex.content = content
  <2>1. \A no, yes :
          LET x == ComplexType(NoBase, content, 1, 1, no, yes)
          IN IsType(x) /\ Parts(x) = {} /\ x.kind = "complex" /\ x.content = content
    BY NewComplex, NoBaseIsBase
  <2> QED
    BY Zenon, <2>1
<1> HIDE DEF complex
<1>0. content # i /\ (content \in DOMAIN t => t[content].kind \in Groups)
  OBVIOUS
<1>4. u = [j \in DOMAIN t \cup {content} |->
             CASE j = content -> group [] j = i -> complex [] OTHER -> t[j]]
  BY DEF ConvertDynamic, complex
<1> HIDE DEF group, content
<1>5. /\ DOMAIN u = DOMAIN t \cup {content} /\ u[content] = group /\ u[i] = complex
      /\ \A j \in DOMAIN t : j \notin {i, content} => u[j] = t[j]
  BY <1>0, <1>4
<1>6. \A j \in DOMAIN u : Fine(t, u, j)
  <2>1. Fine(t, u, content)
    BY <1>2, <1>5 DEF Fine, Groups
  <2>2. Fine(t, u, i)
    BY <1>3, <1>5 DEF Fine
  <2>3. ASSUME NEW j \in DOMAIN t, j \notin {i, content} PROVE Fine(t, u, j)
    BY <1>5, <2>3, SameIsFine
  <2> QED
    BY <1>5, <2>1, <2>2, <2>3
<1>7. IsTable(u)
  BY <1>5, <1>6, TableStep
<1>8. ASSUME NEW P, Layered(t, P) PROVE Layered(u, P \cup {content}) /\ (Direct(t, P) => Direct(u, P \cup {content}))
  <2> DEFINE Q == P \cup {content}
  <2>1. content \in DOMAIN t => content \in P
    BY <1>0, <1>8 DEF Layered
  <2>2. i \notin P
    BY <1>8 DEF Layered, IsSimpleReference, Groups
  <2>3. Q \subseteq DOMAIN u
    BY <1>5, <1>8 DEF Layered
  <2>4. ASSUME NEW j \in DOMAIN u, j # content, j # i PROVE j \in DOMAIN t /\ u[j] = t[j]
    BY <1>5, <2>4
  <2>5. ASSUME NEW j \in DOMAIN u
        PROVE  /\ u[j].kind \in Groups => j \in Q
               /\ j \in Q => u[j].kind \in Groups \/ (IsSimpleReference(u[j]) /\ u[j].to \in Q)
               /\ j \notin Q => Parts(u[j]) \cap Q = {}
    <3>1. CASE j = content
      BY <1>2, <1>5, <3>1
    <3>2. CASE j = i
      BY <1>0, <1>3, <1>5, <2>2, <3>2 DEF Groups
    <3>3. CASE j # content /\ j # i
      <4>1. j \in DOMAIN t /\ u[j] = t[j] /\ Parts(t[j]) \subseteq DOMAIN t
        BY <2>4, <3>3 DEF IsTable
      <4>2. (t[j].kind \in Groups => j \in P) /\ (j \notin P => Parts(t[j]) \cap P = {})
        BY <1>8, <4>1 DEF Layered
      <4>3. j \in P => t[j].kind \in Groups \/ (IsSimpleReference(t[j]) /\ t[j].to \in P)
        BY <1>8, <4>1 DEF Layered
      <4> QED
        BY <2>1, <3>3, <4>1, <4>2, <4>3
    <3> QED
      BY <3>1, <3>2, <3>3
  <2>6. ASSUME NEW j \in DOMAIN u, u[j].kind = "complex", u[j].content \in Q, Direct(t, P)
        PROVE  u[u[j].content].kind \in Groups
    <3>1. CASE u[j].content = content
      BY <1>2, <1>5, <3>1
    <3>2. CASE u[j].content # content
      <4>1. j # content /\ j # i
        BY <1>2, <1>3, <1>5, <2>6, <3>2 DEF Groups
      <4>2. j \in DOMAIN t /\ u[j] = t[j] /\ t[j].content \in P
        BY <2>4, <2>6, <3>2, <4>1
      <4>3. t[t[j].content].kind \in Groups /\ t[j].content \in DOMAIN t
        BY <1>8, <2>6, <4>2 DEF Direct, Layered
      <4>4. t[j].content # i
        BY <4>3 DEF Groups
      <4> QED
        BY <1>5, <3>2, <4>2, <4>3, <4>4
    <3> QED
      BY <3>1, <3>2
  <2> QED
    BY <2>3, <2>5, <2>6 DEF Layered, Direct
<1>9. Layers(t, u)
  BY <1>8 DEF Layers
<1> QED
  BY <1>2, <1>3, <1>5, <1>7, <1>9 DEF content

\* convert_dynamic_to_choice leaves a table with all dynamic types replaced, and the
\* references as they are.
LEMMA DynamicsGrown ==
  ASSUME NEW t, IsTable(t), DOMAIN t \subseteq Ident, NEW s, IsList(s), IsInjective(s),
         ToSet(s) = DynamicOnes(t),
         \A i \in DynamicOnes(t) : ContentOf[i] \in Ident \ DOMAIN t
  PROVE  Grown(t, DynamicFolded(t, s)) /\ DynamicOnes(DynamicFolded(t, s)) = {}
<1>1. Len(s) \in Nat /\ DOMAIN s = 1 .. Len(s)
  BY ListShape
<1>0. PICK f : DynamicSteps(f, t, s)
  BY <1>1, DynamicFold
<1>2. /\ f[0] = t /\ \A k \in 1 .. Len(s) : f[k] = ConvertDynamic(f[k - 1], s[k])
      /\ DynamicFolded(t, s) = f[Len(s)]
  BY <1>0 DEF DynamicSteps
<1> DEFINE after(k) == {s[j] : j \in k + 1 .. Len(s)}
           new(u) == \A j \in DOMAIN u \ DOMAIN t : u[j].kind \in Groups
           T == {k \in 0 .. Len(s) : Grown(t, f[k]) /\ DynamicOnes(f[k]) = after(k) /\ new(f[k])}
<1>3. 0 \in T
  <2>1. after(0) = ToSet(s)
    BY <1>1 DEF ToSet
  <2> QED
    BY <1>1, <1>2, <2>1, KeptSelf DEF Kept
<1>4. ASSUME NEW k \in 1 .. Len(s), k - 1 \in T PROVE k \in T
  <2> PICK v : v = f[k - 1]
    OBVIOUS
  <2> PICK u : u = f[k]
    OBVIOUS
  <2> PICK i : i = s[k]
    OBVIOUS
  <2> PICK c : c = ContentOf[i]
    OBVIOUS
  <2>1. Grown(t, v) /\ DynamicOnes(v) = after(k - 1) /\ new(v) /\ u = ConvertDynamic(v, i)
    BY <1>2, <1>4
  <2>2. i \in after(k - 1)
    BY <1>1
  <2>3. i \in DOMAIN t /\ i \in DOMAIN v /\ v[i].kind = "dynamic" /\ c \in Ident \ DOMAIN t /\ IsTable(v)
    BY <2>1, <2>2 DEF Grown, DynamicOnes
  <2>4. /\ IsTable(u) /\ DOMAIN u = DOMAIN v \cup {c}
        /\ \A j \in DOMAIN v \ {i, c} : u[j] = v[j]
        /\ u[i].kind = "complex" /\ u[c].kind \in Groups /\ Layers(v, u)
    <3>1. c # i /\ (c \in DOMAIN v => v[c].kind \in Groups)
      BY <2>1, <2>3
    <3>2. ContentOf[i] # i /\ (ContentOf[i] \in DOMAIN v => v[ContentOf[i]].kind \in Groups)
      BY <3>1
    <3>3. /\ IsTable(u) /\ DOMAIN u = DOMAIN v \cup {ContentOf[i]}
          /\ \A j \in DOMAIN v \ {i, ContentOf[i]} : u[j] = v[j]
          /\ u[i].kind = "complex" /\ u[ContentOf[i]].kind \in Groups /\ Layers(v, u)
      BY ONLY <2>1, <2>3, <3>2, ConvertDynamicStep
    <3> QED
      BY <3>3
  <2>5. Refs(u) = Refs(v)
    <3>1. i \notin Refs(u) /\ i \notin Refs(v) /\ c \notin Refs(u)
      BY <2>3, <2>4 DEF Refs, IsSimpleReference, Groups
    <3>2. c \notin Refs(v)
      BY <2>1, <2>3 DEF Grown, Refs
    <3> QED
      BY <2>4, <3>1, <3>2 DEF Refs
  <2>6. \A j \in Refs(v) : u[j] = v[j]
    <3>1. i \notin Refs(v) /\ c \notin Refs(v)
      BY <2>1, <2>3 DEF Grown, Refs, IsSimpleReference
    <3> QED
      BY <2>4, <3>1 DEF Refs
  <2>7. DynamicOnes(u) = DynamicOnes(v) \ {i}
    <3>1. c \notin DynamicOnes(u) /\ i \notin DynamicOnes(u)
      BY <2>4 DEF DynamicOnes, Groups
    <3>2. c \notin DynamicOnes(v)
      BY <2>1, <2>3 DEF DynamicOnes, Grown
    <3> QED
      BY <2>4, <3>1, <3>2 DEF DynamicOnes
  <2>8. after(k - 1) \ {i} = after(k)
    <3>1. k - 1 + 1 = k /\ \A j \in k .. Len(s) : j = k \/ j \in k + 1 .. Len(s)
      OBVIOUS
    <3>2. \A j \in k + 1 .. Len(s) : s[j] # s[k] /\ j \in k .. Len(s)
      BY <1>1 DEF IsInjective
    <3> QED
      BY <3>1, <3>2
  <2>9. Grown(t, u)
    <3>1. \A j \in DOMAIN u : u[j].kind = "dynamic" => j \in DOMAIN v /\ v[j].kind = "dynamic"
      BY <2>7 DEF DynamicOnes
    <3>2. Layers(t, u)
      BY <2>1, <2>4, LayersTwice DEF Grown
    <3> QED
      BY <2>1, <2>3, <2>4, <2>5, <2>6, <3>1, <3>2 DEF Grown
  <2>10. new(u)
    BY <2>1, <2>3, <2>4 DEF Grown
  <2>11. k \in 0 .. Len(s)
    BY <1>1
  <2> HIDE DEF after, new
  <2> QED
    BY <2>1, <2>7, <2>8, <2>9, <2>10, <2>11
<1>5. Len(s) \in T
  <2>1. Len(s) \in 0 .. Len(s)
    BY <1>1
  <2> HIDE DEF T
  <2> QED
    BY <1>1, <1>3, <1>4, <2>1, UpTo
<1>6. after(Len(s)) = {}
  BY <1>1
<1> QED
  BY <1>2, <1>5, <1>6

-----------------------------------------------------------------------------
(* flatten_complex_types: what a Builder collects.                         *)

IsBuilder(b) ==
  /\ b = [ok |-> b.ok, new |-> b.new, old |-> b.old, mode |-> b.mode, min |-> b.min,
          max |-> b.max, mixed |-> b.mixed, elements |-> b.elements]
  /\ b.ok = TRUE /\ b.new \in BOOLEAN /\ b.mode \in Groups \cup {"mixed"}
  /\ IsList(b.elements) /\ \A e \in ToSet(b.elements) : IsElement(e)

\* A Builder that has the elements of nested groups instead of these.
Collected(b) == b = Failed \/ (IsBuilder(b) /\ PlainElements(b.elements))

\* A Builder after the first k elements of a group.
Collecting(b, elements, k) ==
  \/ b = Failed
  \/ /\ IsBuilder(b)
     /\ b.new => PlainElements(b.elements)
     /\ ~ b.new => b.elements = elements /\ \A n \in 1 .. k : elements[n].mode # "group"

\* A Builder that differs in its bounds only.
Bounded(b, c) == IsBuilder(c) /\ c.elements = b.elements /\ c.new = b.new /\ c.mode = b.mode

\* Fields of a builder set: its occurrence.
LEMMA BoundsSet ==
  ASSUME NEW b, IsBuilder(b), NEW min, NEW max, NEW c, c = [b EXCEPT !.min = min, !.max = max]
  PROVE  Bounded(b, c)
<1>1. c = [ok |-> b.ok, new |-> b.new, old |-> b.old, mode |-> b.mode, min |-> min,
           max |-> max, mixed |-> b.mixed, elements |-> b.elements]
  BY DEF IsBuilder
<1>2. /\ c.ok = b.ok /\ c.new = b.new /\ c.old = b.old /\ c.mode = b.mode /\ c.min = min
      /\ c.max = max /\ c.mixed = b.mixed /\ c.elements = b.elements
  BY <1>1
<1>3. IsBuilder(c)
  BY <1>1, <1>2 DEF IsBuilder
<1> QED
  BY <1>2, <1>3 DEF Bounded

\* Info::update only changes the occurrence.
LEMMA Updated ==
  ASSUME NEW b, IsBuilder(b), NEW min, NEW max
  PROVE  Bounded(b, Update(b, min, max))
<1>1. \E x, y : Update(b, min, max) = [b EXCEPT !.min = x, !.max = y]
  <2>1. CASE b.old = "choice"
    <3>1. Update(b, min, max) = [b EXCEPT !.min = Least(b.min, min), !.max = Greatest(b.max, max)]
      BY <2>1 DEF Update
    <3> QED
      BY <3>1
  <2>2. CASE b.old # "choice"
    <3>1. Update(b, min, max) = [b EXCEPT !.min = Plus(b.min, min), !.max = Plus(b.max, max)]
      BY <2>2 DEF Update
    <3> QED
      BY <3>1
  <2> QED
    BY <2>1, <2>2
<1> PICK c : c = Update(b, min, max)
  OBVIOUS
<1>2. PICK x, y : c = [b EXCEPT !.min = x, !.max = y]
  BY <1>1
<1>3. Bounded(b, c)
  BY <1>2, BoundsSet
<1> QED
  BY <1>3

\* An element with other bounds.
SameElement(e, x) == IsElement(x) /\ x.mode = e.mode /\ x.name = e.name /\ x.to = e.to

\* An element whose occurrence changes is the same otherwise.
LEMMA BoundedElement ==
  ASSUME NEW e, IsElement(e), NEW min, NEW max, NEW x, x = [e EXCEPT !.min = min, !.max = max]
  PROVE  SameElement(e, x)
<1>1. x = Element(e.name, e.mode, e.to, min, max)
  BY DEF IsElement, Element
<1> QED
  BY <1>1, NewElement DEF SameElement

\* ... as one that occurs once at most.
LEMMA OnceElement ==
  ASSUME NEW e, IsElement(e)
  PROVE  SameElement(e, Once(e))
<1> PICK x : x = Once(e)
  OBVIOUS
<1>1. \A m : \A y : y = [e EXCEPT !.min = m, !.max = m] => SameElement(e, y)
  BY BoundedElement
<1>2. x = [e EXCEPT !.min = 1, !.max = 1]
  BY DEF Once
<1>3. SameElement(e, x)
  BY <1>1, <1>2
<1> QED
  BY <1>3

\* Elements with other bounds, and with one more.
LEMMA PlainOnce ==
  ASSUME NEW es, PlainElements(es)
  PROVE  PlainElements([k \in DOMAIN es |-> Once(es[k])])
<1> PICK s : s = [k \in DOMAIN es |-> Once(es[k])]
  OBVIOUS
<1>1. Len(es) \in Nat /\ DOMAIN es = 1 .. Len(es) /\ \A k \in DOMAIN es : es[k] \in ToSet(es)
  BY ListShape DEF PlainElements, ToSet
<1>2. IsList(s)
  <2>1. s = [k \in 1 .. Len(es) |-> s[k]]
    BY <1>1
  <2> QED
    BY <1>1, <2>1, NewList
<1>3. \A e \in ToSet(es) : IsElement(Once(e)) /\ Once(e).mode = e.mode
  BY OnceElement DEF SameElement, PlainElements
<1>4. \A e \in ToSet(s) : IsElement(e) /\ e.mode # "group"
  BY <1>1, <1>3 DEF ToSet, PlainElements
<1> QED
  BY <1>2, <1>4 DEF PlainElements

\* An element that refers to no group is added.
LEMMA PlainAppend ==
  ASSUME NEW es, PlainElements(es), NEW e, IsElement(e), e.mode # "group"
  PROVE  PlainElements(Append(es, e))
<1> DEFINE V == ToSet(es) \cup {e}
<1>1. es \in Seq(V)
  BY ListIn DEF PlainElements
<1>2. \A q \in Seq(V) : Append(q, e) \in Seq(V)
  OBVIOUS
<1>3. Append(es, e) \in Seq(V)
  BY <1>1, <1>2
<1>4. IsList(Append(es, e)) /\ ToSet(Append(es, e)) \subseteq V
  <2> HIDE DEF V
  <2> QED
    BY <1>3, ListIn
<1> QED
  BY <1>4 DEF PlainElements

\* The occurrence of one element is added to.
LEMMA PlainCounted ==
  ASSUME NEW es, PlainElements(es), NEW k, NEW min, NEW max
  PROVE  PlainElements([es EXCEPT ![k].min = Plus(@, min), ![k].max = Plus(@, max)])
<1> PICK s : s = [es EXCEPT ![k].min = Plus(@, min), ![k].max = Plus(@, max)]
  OBVIOUS
<1>1. Len(es) \in Nat /\ DOMAIN es = 1 .. Len(es) /\ \A n \in DOMAIN es : es[n] \in ToSet(es)
  BY ListShape DEF PlainElements, ToSet
<1>2. s = [n \in 1 .. Len(es) |-> s[n]] /\ DOMAIN s = DOMAIN es
  BY <1>1
<1>3. IsList(s)
  BY <1>1, <1>2, NewList
<1>4. \A n \in DOMAIN es : n # k => s[n] = es[n]
  OBVIOUS
<1>5. k \in DOMAIN es => s[k] = [es[k] EXCEPT !.min = Plus(es[k].min, min), !.max = Plus(es[k].max, max)]
  <2> SUFFICES ASSUME k \in DOMAIN es
               PROVE  s[k] = [es[k] EXCEPT !.min = Plus(es[k].min, min), !.max = Plus(es[k].max, max)]
    OBVIOUS
  <2>1. IsElement(es[k])
    BY <1>1 DEF PlainElements
  <2> QED
    BY <2>1 DEF IsElement, Element
<1>6. \A n \in DOMAIN es : IsElement(s[n]) /\ s[n].mode # "group"
  <2>1. \A n \in DOMAIN es : IsElement(es[n]) /\ es[n].mode # "group"
    BY <1>1 DEF PlainElements
  <2>2. k \in DOMAIN es => SameElement(es[k], s[k])
    BY <1>5, <2>1, BoundedElement
  <2> QED
    BY <1>4, <2>1, <2>2 DEF SameElement
<1> QED
  BY <1>2, <1>3, <1>6 DEF PlainElements, ToSet

\* The elements before one of a list.
LEMMA PlainBefore ==
  ASSUME NEW es, IsList(es), \A e \in ToSet(es) : IsElement(e), NEW k \in 1 .. Len(es),
         \A n \in 1 .. k - 1 : es[n].mode # "group"
  PROVE  PlainElements(SubSeq(es, 1, k - 1))
<1> PICK s : s = SubSeq(es, 1, k - 1)
  OBVIOUS
<1>1. Len(es) \in Nat /\ DOMAIN es = 1 .. Len(es) /\ \A n \in DOMAIN es : es[n] \in ToSet(es)
  BY ListShape DEF ToSet
<1>2. es \in Seq(ToSet(es))
  BY ListIn
<1>3. /\ k - 1 \in Nat /\ DOMAIN s = 1 .. k - 1 /\ s = [n \in 1 .. k - 1 |-> s[n]]
      /\ \A n \in 1 .. k - 1 : s[n] = es[n] /\ n \in DOMAIN es
  BY <1>1, <1>2
<1>4. IsList(s)
  BY <1>3, NewList
<1>5. \A e \in ToSet(s) : IsElement(e) /\ e.mode # "group"
  <2>1. \A n \in 1 .. k - 1 : IsElement(s[n]) /\ s[n].mode # "group"
    BY <1>1, <1>3
  <2>2. ToSet(s) = {s[n] : n \in 1 .. k - 1}
    BY <1>3 DEF ToSet
  <2> QED
    BY <2>1, <2>2
<1> QED
  BY <1>4, <1>5 DEF PlainElements

\* A Builder that has its own elements, none of them a group.
IsPlain(b) == IsBuilder(b) /\ b.new = TRUE /\ PlainElements(b.elements)

\* Info::update keeps plain elements.
LEMMA PlainUpdated ==
  ASSUME NEW b, IsPlain(b), NEW min, NEW max
  PROVE  IsPlain(Update(b, min, max))
BY Updated DEF IsPlain, Bounded

\* A Builder with other elements.
LEMMA ElementsSet ==
  ASSUME NEW b, IsPlain(b), NEW es, PlainElements(es), NEW c, c = [b EXCEPT !.elements = es]
  PROVE  IsPlain(c)
<1>0. IsBuilder(b)
  BY DEF IsPlain
<1>1. c = [ok |-> b.ok, new |-> b.new, old |-> b.old, mode |-> b.mode, min |-> b.min,
           max |-> b.max, mixed |-> b.mixed, elements |-> es]
  BY <1>0 DEF IsBuilder
<1>2. /\ c.ok = b.ok /\ c.new = b.new /\ c.old = b.old /\ c.mode = b.mode /\ c.min = b.min
      /\ c.max = b.max /\ c.mixed = b.mixed /\ c.elements = es
  BY <1>1
<1>3. IsBuilder(c)
  BY <1>0, <1>1, <1>2 DEF IsBuilder, PlainElements
<1> QED
  BY <1>2, <1>3 DEF IsPlain

\* add_element keeps plain elements, or fails.
LEMMA AddedPlain ==
  ASSUME NEW b, b = Failed \/ IsPlain(b), NEW alike \in BOOLEAN, NEW e, IsElement(e), e.mode # "group"
  PROVE  AddElement(b, alike, e) = Failed \/ IsPlain(AddElement(b, alike, e))
<1>1. CASE b = Failed
  <2>1. ~ b.ok
    BY <1>1 DEF Failed
  <2> QED
    BY <1>1, <2>1 DEF AddElement
<1>2. CASE IsPlain(b)
  <2> DEFINE same == {n \in DOMAIN b.elements : b.elements[n].name = e.name}
             k == Min(same)
             more == [b.elements EXCEPT ![k].min = Plus(@, e.min), ![k].max = Plus(@, e.max)]
             updated == IF alike /\ b.mode = "mixed" THEN Update(b, e.min, e.max) ELSE b
             added == IF alike /\ b.mode = "mixed" THEN Once(e) ELSE e
             longer == [updated EXCEPT !.elements = Append(@, added)]
             counted == [b EXCEPT !.elements = more]
  <2>1. b.ok = TRUE /\ b.new = TRUE
    BY <1>2 DEF IsPlain, IsBuilder
  <2>2. AddElement(b, alike, e) \in {longer, Failed, counted, updated}
    BY <2>1 DEF AddElement
  <2>3. IsPlain(updated)
    BY <1>2, PlainUpdated
  <2>4. IsElement(added) /\ added.mode # "group"
    BY OnceElement DEF SameElement
  <2> HIDE DEF updated, added, k
  <2>5. IsPlain(longer)
    <3>1. PlainElements(Append(updated.elements, added))
      BY <2>3, <2>4, PlainAppend DEF IsPlain
    <3>2. longer = [updated EXCEPT !.elements = Append(updated.elements, added)]
      BY <2>3 DEF IsPlain, IsBuilder
    <3> HIDE DEF longer
    <3> QED
      BY <2>3, <3>1, <3>2, ElementsSet
  <2>6. IsPlain(counted)
    <3>1. PlainElements(more)
      BY <1>2, PlainCounted DEF IsPlain
    <3> HIDE DEF more
    <3> QED
      BY <1>2, <3>1, ElementsSet
  <2> QED
    BY <2>2, <2>3, <2>5, <2>6
<1> QED
  BY <1>1, <1>2

\* The same from the occurrences of the elements.
LEMMA CountedBounds ==
  ASSUME NEW b, IsBuilder(b), NEW c, Bounded(b, c), NEW s, IsList(s)
  PROVE  Bounded(b, CountFolded(c, s))
<1>1. Len(s) \in Nat
  BY ListShape
<1>0. PICK f : CountSteps(f, c, s)
  BY <1>1, CountFold
<1>2. /\ f[0] = c /\ \A k \in 1 .. Len(s) : f[k] = Update(f[k - 1], s[k].min, s[k].max)
      /\ CountFolded(c, s) = f[Len(s)]
  BY <1>0 DEF CountSteps
<1> DEFINE T == {k \in 0 .. Len(s) : Bounded(b, f[k])}
<1>3. 0 \in T
  BY <1>1, <1>2
<1>4. ASSUME NEW k \in 1 .. Len(s), k - 1 \in T PROVE k \in T
  <2>1. Bounded(b, f[k - 1])
    BY <1>4
  <2>2. Bounded(f[k - 1], f[k])
    BY <1>2, <2>1, Updated DEF Bounded
  <2>3. Bounded(b, f[k])
    BY <2>1, <2>2 DEF Bounded
  <2> QED
    BY <1>1, <2>3
<1>5. Len(s) \in T
  <2>1. Len(s) \in 0 .. Len(s)
    BY <1>1
  <2> HIDE DEF T
  <2> QED
    BY <1>1, <1>3, <1>4, <2>1, UpTo
<1> QED
  BY <1>2, <1>5

\* A Builder with other elements of its own.
LEMMA FieldsSet ==
  ASSUME NEW b, IsBuilder(b), NEW yes, NEW es
  PROVE  [b EXCEPT !.new = yes, !.elements = es]
              = [ok |-> b.ok, new |-> yes, old |-> b.old, mode |-> b.mode, min |-> b.min,
                 max |-> b.max, mixed |-> b.mixed, elements |-> es]
<1>1. PICK d : d = [b EXCEPT !.new = yes, !.elements = es]
  OBVIOUS
<1>2. d = [ok |-> b.ok, new |-> yes, old |-> b.old, mode |-> b.mode, min |-> b.min,
                 max |-> b.max, mixed |-> b.mixed, elements |-> es]
  BY <1>1 DEF IsBuilder
<1> QED
  BY <1>1, <1>2

\* Elements made optional for a choice stay plain.
LEMMA IntoMixedPlain ==
  ASSUME NEW b, IsBuilder(b), PlainElements(b.elements)
  PROVE  /\ IsBuilder(IntoMixed(b)) /\ PlainElements(IntoMixed(b).elements)
         /\ b.new => IntoMixed(b).new
<1> DEFINE zero == [b EXCEPT !.min = 0, !.max = 0]
           count == IF b.mode = "choice" THEN b ELSE zero
           counted == CountFolded(count, b.elements)
           once == [k \in DOMAIN counted.elements |-> Once(counted.elements[k])]
           m == [counted EXCEPT !.mode = "mixed", !.new = TRUE, !.elements = once]
<1>1. IntoMixed(b) = IF b.mode = "mixed" THEN b ELSE m
  BY DEF IntoMixed, CountFolded
<1>2. Bounded(b, b)
  BY DEF Bounded
<1>3. Bounded(b, zero)
  <2>1. \A z : \A y : y = [b EXCEPT !.min = z, !.max = z] => Bounded(b, y)
    BY BoundsSet
  <2> QED
    BY Zenon, <2>1
<1>4. Bounded(b, count)
  BY <1>2, <1>3
<1> HIDE DEF count
<1>5. Bounded(b, counted)
  BY <1>4, CountedBounds DEF PlainElements
<1> HIDE DEF counted
<1>6. IsBuilder(counted) /\ PlainElements(counted.elements)
  BY <1>5 DEF Bounded
<1>7. PlainElements(once)
  BY <1>6, PlainOnce
<1> HIDE DEF once
<1>8. /\ m = [ok |-> counted.ok, new |-> TRUE, old |-> counted.old, mode |-> "mixed",
              min |-> counted.min, max |-> counted.max, mixed |-> counted.mixed, elements |-> once]
  <2>1. ASSUME NEW mode, NEW yes, NEW es, NEW c,
               c = [counted EXCEPT !.mode = mode, !.new = yes, !.elements = es]
        PROVE  c = [ok |-> counted.ok, new |-> yes, old |-> counted.old, mode |-> mode, min |-> counted.min,
                 max |-> counted.max, mixed |-> counted.mixed, elements |-> es]
    BY <1>6, <2>1 DEF IsBuilder
  <2> QED
    BY Zenon, <2>1
<1>9. /\ m.ok = counted.ok /\ m.new = TRUE /\ m.old = counted.old /\ m.mode = "mixed"
      /\ m.min = counted.min /\ m.max = counted.max /\ m.mixed = counted.mixed /\ m.elements = once
  BY <1>8
<1>10. IsBuilder(m)
  BY <1>6, <1>7, <1>8, <1>9 DEF IsBuilder, PlainElements
<1> HIDE DEF m
<1> QED
  BY <1>1, <1>7, <1>9, <1>10

\* add_element for every element of an inner group.
LEMMA AddedAll ==
  ASSUME NEW b, IsPlain(b), NEW alike \in BOOLEAN, NEW s, PlainElements(s)
  PROVE  AddFolded(b, s, alike) = Failed \/ IsPlain(AddFolded(b, s, alike))
<1>1. Len(s) \in Nat /\ DOMAIN s = 1 .. Len(s) /\ \A k \in DOMAIN s : s[k] \in ToSet(s)
  BY ListShape DEF PlainElements, ToSet
<1>0. PICK f : AddSteps(f, b, s, alike)
  BY <1>1, AddFold
<1>2. /\ f[0] = b /\ \A k \in 1 .. Len(s) : f[k] = AddElement(f[k - 1], alike, s[k])
      /\ AddFolded(b, s, alike) = f[Len(s)]
  BY <1>0 DEF AddSteps
<1> DEFINE T == {k \in 0 .. Len(s) : f[k] = Failed \/ IsPlain(f[k])}
<1>3. 0 \in T
  BY <1>1, <1>2
<1>4. ASSUME NEW k \in 1 .. Len(s), k - 1 \in T PROVE k \in T
  <2>1. IsElement(s[k]) /\ s[k].mode # "group"
    BY <1>1 DEF PlainElements
  <2>2. f[k - 1] = Failed \/ IsPlain(f[k - 1])
    BY <1>4
  <2>3. f[k] = AddElement(f[k - 1], alike, s[k])
    BY <1>2
  <2>4. f[k] = Failed \/ IsPlain(f[k])
    BY <2>1, <2>2, <2>3, AddedPlain
  <2> QED
    BY <1>1, <2>4
<1>5. Len(s) \in T
  <2>1. Len(s) \in 0 .. Len(s)
    BY <1>1
  <2> HIDE DEF T
  <2> QED
    BY <1>1, <1>3, <1>4, <2>1, UpTo
<1> QED
  BY <1>2, <1>5

\* merge_sequence and its kin keep plain elements, or fail.
LEMMA MergedElements ==
  ASSUME NEW b, IsPlain(b), NEW alike \in BOOLEAN, NEW e, NEW inner, IsBuilder(inner),
         PlainElements(inner.elements)
  PROVE  MergeElements(b, alike, e, inner) = Failed \/ IsPlain(MergeElements(b, alike, e, inner))
<1> DEFINE counted == IF alike THEN b ELSE Update(b, inner.min * e.min, Times(inner.max, e.max))
           each(x) == IF alike THEN [x EXCEPT !.min = @ * e.min, !.max = Times(@, e.max)] ELSE Once(x)
           base == [counted EXCEPT !.mixed = @ \/ inner.mixed]
           s == [k \in DOMAIN inner.elements |-> each(inner.elements[k])]
<1>1. MergeElements(b, alike, e, inner) = AddFolded(base, s, alike)
  BY DEF MergeElements, AddFolded
<1>2. IsPlain(counted)
  BY PlainUpdated
<1>3. PlainElements(s)
  <2> DEFINE es == inner.elements
  <2>1. Len(es) \in Nat /\ DOMAIN es = 1 .. Len(es) /\ \A k \in DOMAIN es : es[k] \in ToSet(es)
    BY ListShape DEF PlainElements, ToSet
  <2>2. ASSUME NEW x \in ToSet(es) PROVE IsElement(each(x)) /\ each(x).mode # "group"
    <3>1. IsElement(x) /\ x.mode # "group"
      BY DEF PlainElements
    <3>2. [x EXCEPT !.min = @ * e.min, !.max = Times(@, e.max)]
            = [x EXCEPT !.min = x.min * e.min, !.max = Times(x.max, e.max)]
      OBVIOUS
    <3>3. SameElement(x, [x EXCEPT !.min = x.min * e.min, !.max = Times(x.max, e.max)])
      BY <3>1, BoundedElement
    <3>4. SameElement(x, Once(x))
      BY <3>1, OnceElement
    <3> QED
      BY <3>1, <3>2, <3>3, <3>4 DEF SameElement
  <2> HIDE DEF each
  <2>3. \A k \in DOMAIN es : IsElement(each(es[k])) /\ each(es[k]).mode # "group"
    BY <2>1, <2>2
  <2> HIDE DEF es
  <2>4. s = [k \in DOMAIN es |-> each(es[k])]
    BY DEF es
  <2> HIDE DEF s
  <2>5. s = [k \in 1 .. Len(es) |-> s[k]] /\ DOMAIN s = DOMAIN es /\ \A k \in DOMAIN es : s[k] = each(es[k])
    BY <2>1, <2>4
  <2>6. IsList(s)
    BY <2>1, <2>5, NewList
  <2>7. ToSet(s) = {s[k] : k \in DOMAIN es}
    BY <2>5 DEF ToSet
  <2>8. \A x \in ToSet(s) : IsElement(x) /\ x.mode # "group"
    BY <2>3, <2>5, <2>7
  <2> QED
    BY <2>6, <2>8 DEF PlainElements
<1> HIDE DEF counted, s
<1>4. IsPlain(base)
  <2>0. IsBuilder(counted) /\ counted.new = TRUE /\ PlainElements(counted.elements)
    BY <1>2 DEF IsPlain
  <2>1. PICK m : base = [counted EXCEPT !.mixed = m]
    OBVIOUS
  <2>2. base = [ok |-> counted.ok, new |-> counted.new, old |-> counted.old, mode |-> counted.mode,
              min |-> counted.min, max |-> counted.max, mixed |-> m, elements |-> counted.elements]
    BY <2>0, <2>1 DEF IsBuilder
  <2> HIDE DEF base
  <2>3. /\ base.ok = counted.ok /\ base.new = counted.new /\ base.old = counted.old
        /\ base.mode = counted.mode /\ base.min = counted.min /\ base.max = counted.max
        /\ base.mixed = m /\ base.elements = counted.elements
    BY <2>2
  <2>4. IsBuilder(base)
    BY <2>0, <2>2, <2>3 DEF IsBuilder
  <2> QED
    BY <2>0, <2>3, <2>4 DEF IsPlain
<1> HIDE DEF base
<1> QED
  BY <1>1, <1>3, <1>4, AddedAll

\* Merging an inner group leaves plain elements, or fails.
LEMMA Merged ==
  ASSUME NEW b, IsBuilder(b), NEW before, ~ b.new => PlainElements(before), b.new => PlainElements(b.elements),
         NEW e, NEW inner, IsBuilder(inner), PlainElements(inner.elements)
  PROVE  Merge(b, before, e, inner) = Failed \/ IsPlain(Merge(b, before, e, inner))
<1> DEFINE fresh == [b EXCEPT !.new = TRUE, !.elements = before]
           start == IF b.new THEN b ELSE fresh
           alike == SameKind(start, inner, e)
           both == IF alike THEN <<start, inner>> ELSE <<IntoMixed(start), IntoMixed(inner)>>
<1>1. IsPlain(start)
  <2>1. fresh = [ok |-> b.ok, new |-> TRUE, old |-> b.old, mode |-> b.mode,
              min |-> b.min, max |-> b.max, mixed |-> b.mixed, elements |-> before]
    <3>1. \A yes, es :
            [b EXCEPT !.new = yes, !.elements = es]
              = [ok |-> b.ok, new |-> yes, old |-> b.old, mode |-> b.mode, min |-> b.min,
                 max |-> b.max, mixed |-> b.mixed, elements |-> es]
      BY FieldsSet
    <3> QED
      BY Zenon, <3>1
  <2>2. /\ fresh.ok = b.ok /\ fresh.new = TRUE /\ fresh.old = b.old /\ fresh.mode = b.mode
        /\ fresh.min = b.min /\ fresh.max = b.max /\ fresh.mixed = b.mixed /\ fresh.elements = before
    BY <2>1
  <2>3. ~ b.new => IsBuilder(fresh)
    BY <2>1, <2>2 DEF IsBuilder, PlainElements
  <2>4. ~ b.new => IsPlain(fresh)
    BY <2>2, <2>3 DEF IsPlain
  <2> HIDE DEF fresh
  <2>5. b.new \in BOOLEAN
    BY DEF IsBuilder
  <2>6. CASE b.new = TRUE
    BY <2>6 DEF IsPlain
  <2>7. CASE b.new = FALSE
    BY <2>4, <2>7
  <2> QED
    BY <2>5, <2>6, <2>7
<1>2. Merge(b, before, e, inner) = MergeElements(both[1], alike, e, both[2])
  BY DEF Merge, Given
<1> HIDE DEF start
<1>3. alike \in BOOLEAN
  BY DEF SameKind
<1>4. IsPlain(both[1]) /\ IsBuilder(both[2]) /\ PlainElements(both[2].elements)
  <2>1. IsPlain(IntoMixed(start))
    <3>1. IsBuilder(start) /\ start.new = TRUE /\ PlainElements(start.elements)
      BY <1>1 DEF IsPlain
    <3>2. IsBuilder(IntoMixed(start)) /\ PlainElements(IntoMixed(start).elements) /\ IntoMixed(start).new
      BY <3>1, IntoMixedPlain
    <3> QED
      BY <3>2 DEF IsPlain, IsBuilder
  <2>2. IsBuilder(IntoMixed(inner)) /\ PlainElements(IntoMixed(inner).elements)
    BY IntoMixedPlain
  <2>3. CASE alike
    BY <1>1, <2>3
  <2>4. CASE ~ alike
    BY <2>1, <2>2, <2>4
  <2> QED
    BY <2>3, <2>4
<1> HIDE DEF both, alike
<1> QED
  BY <1>2, <1>3, <1>4, MergedElements

\* One step of exec keeps that what is collected is plain.
LEMMA Executed ==
  ASSUME NEW es, IsList(es), \A e \in ToSet(es) : IsElement(e), NEW k \in 1 .. Len(es),
         NEW b, Collecting(b, es, k - 1), NEW exec,
         es[k].mode = "group" => Collected(exec[es[k].to])
  PROVE  Collecting(ExecElement(es, k, b, exec), es, k)
<1>1. Len(es) \in Nat /\ DOMAIN es = 1 .. Len(es) /\ \A n \in DOMAIN es : es[n] \in ToSet(es)
  BY ListShape DEF ToSet
<1>2. IsElement(es[k])
  BY <1>1
<1> DEFINE inner == exec[es[k].to]
           before == SubSeq(es, 1, k - 1)
<1>3. ExecElement(es, k, b, exec) =
        IF ~ b.ok THEN b
        ELSE IF es[k].mode = "group"
             THEN IF inner.ok THEN Merge(b, before, es[k], inner) ELSE Failed
        ELSE AddElement(b, TRUE, es[k])
  <2>1. CASE ~ b.ok
    BY <2>1 DEF ExecElement
  <2>2. CASE b.ok /\ es[k].mode # "group"
    BY <2>2 DEF ExecElement
  <2>3. CASE b.ok /\ es[k].mode = "group"
    <3>1. ExecElement(es, k, b, exec)
            = CHOOSE r \in {IF y.ok THEN Merge(b, before, es[k], y) ELSE Failed : y \in {inner}} : TRUE
      BY <2>3 DEF ExecElement, Given
    <3> HIDE DEF before, inner
    <3>2. {IF y.ok THEN Merge(b, before, es[k], y) ELSE Failed : y \in {inner}}
            = {IF inner.ok THEN Merge(b, before, es[k], inner) ELSE Failed}
      OBVIOUS
    <3>3. \A v : (CHOOSE r \in {v} : TRUE) = v
      OBVIOUS
    <3> QED
      BY <2>3, <3>1, <3>2, <3>3
  <2> QED
    BY <2>1, <2>2, <2>3
<1>4. CASE b = Failed
  <2>1. ~ b.ok
    BY <1>4 DEF Failed
  <2> QED
    BY <1>3, <1>4, <2>1 DEF Collecting
<1>5. CASE b # Failed
  <2>1. /\ IsBuilder(b) /\ b.ok = TRUE /\ b.new \in BOOLEAN
        /\ b.new => PlainElements(b.elements)
        /\ ~ b.new => b.elements = es /\ \A n \in 1 .. k - 1 : es[n].mode # "group"
    BY <1>5 DEF Collecting, IsBuilder
  <2>2. \A r : r = Failed \/ IsPlain(r) => Collecting(r, es, k)
    BY DEF Collecting, IsPlain
  <2>3. CASE es[k].mode = "group"
    <3>1. ASSUME inner.ok PROVE Merge(b, before, es[k], inner) = Failed \/ IsPlain(Merge(b, before, es[k], inner))
      <4>1. IsBuilder(inner) /\ PlainElements(inner.elements)
        <5>1. inner # Failed
          BY <3>1 DEF Failed
        <5> QED
          BY <2>3, <5>1 DEF Collected
      <4>2. ~ b.new => PlainElements(before)
        BY <2>1, PlainBefore
      <4> HIDE DEF before, inner
      <4> QED
        BY <2>1, <4>1, <4>2, Merged
    <3> HIDE DEF before, inner
    <3>2. ExecElement(es, k, b, exec) = IF inner.ok THEN Merge(b, before, es[k], inner) ELSE Failed
      BY <1>3, <2>1, <2>3
    <3> QED
      BY <2>2, <3>1, <3>2
  <2>4. CASE es[k].mode # "group"
    <3>1. ExecElement(es, k, b, exec) = AddElement(b, TRUE, es[k])
      BY <1>3, <2>1, <2>4
    <3>2. CASE b.new = FALSE
      <4>1. AddElement(b, TRUE, es[k]) = b
        BY <2>1, <3>2 DEF AddElement
      <4>2. \A n \in 1 .. k : n = k \/ n \in 1 .. k - 1
        BY <1>1
      <4> QED
        BY <2>1, <2>4, <3>1, <3>2, <4>1, <4>2 DEF Collecting
    <3>3. CASE b.new = TRUE
      <4>1. IsPlain(b)
        BY <2>1, <3>3 DEF IsPlain
      <4>2. \A yes \in BOOLEAN : AddElement(b, yes, es[k]) = Failed \/ IsPlain(AddElement(b, yes, es[k]))
        BY <1>2, <2>4, <4>1, AddedPlain
      <4> QED
        BY Zenon, <2>2, <3>1, <4>2
    <3> QED
      BY <2>1, <3>2, <3>3
  <2> QED
    BY <2>3, <2>4
<1> QED
  BY <1>4, <1>5

\* A step of exec needs only the group its element refers to.
LEMMA ExecAgrees ==
  ASSUME NEW es, NEW k, NEW b, NEW f, NEW g, es[k].mode = "group" => f[es[k].to] = g[es[k].to]
  PROVE  ExecElement(es, k, b, f) = ExecElement(es, k, b, g)
<1>1. CASE ~ b.ok
  BY <1>1 DEF ExecElement
<1>2. CASE b.ok /\ es[k].mode # "group"
  BY <1>2 DEF ExecElement
<1>3. CASE b.ok /\ es[k].mode = "group"
  <2> DEFINE merge(y) == IF y.ok THEN Merge(b, SubSeq(es, 1, k - 1), es[k], y) ELSE Failed
  <2>1. ExecElement(es, k, b, f) = CHOOSE r \in {merge(y) : y \in {f[es[k].to]}} : TRUE
    BY <1>3 DEF ExecElement, Given
  <2>2. ExecElement(es, k, b, g) = CHOOSE r \in {merge(y) : y \in {g[es[k].to]}} : TRUE
    BY <1>3 DEF ExecElement, Given
  <2> HIDE DEF merge
  <2> QED
    BY <1>3, <2>1, <2>2
<1> QED
  BY <1>1, <1>2, <1>3

\* ... and so does the loop.
LEMMA FoldsAgree ==
  ASSUME NEW es, IsList(es), NEW base, NEW f, NEW g,
         \A e \in ToSet(es) : e.mode = "group" => f[e.to] = g[e.to],
         NEW idx, idx = [k \in DOMAIN es |-> k]
  PROVE  ExecFolded(base, idx, es, f) = ExecFolded(base, idx, es, g)
<1>1. Len(es) \in Nat /\ DOMAIN es = 1 .. Len(es) /\ \A k \in DOMAIN es : es[k] \in ToSet(es)
  BY ListShape DEF ToSet
<1>2. Len(idx) = Len(es) /\ \A k \in 1 .. Len(es) : idx[k] = k
  <2>1. idx = [k \in 1 .. Len(es) |-> idx[k]] /\ \A k \in 1 .. Len(es) : idx[k] = k
    BY <1>1
  <2> QED
    BY <1>1, <2>1, NewList
<1>0. Len(idx) \in Nat
  BY <1>1, <1>2
<1>3. PICK a : ExecSteps(a, base, idx, es, f)
  BY <1>0, ExecFold
<1>4. PICK b : ExecSteps(b, base, idx, es, g)
  BY <1>0, ExecFold
<1> DEFINE T == {k \in 0 .. Len(es) : a[k] = b[k]}
<1>5. 0 \in T
  BY <1>1, <1>3, <1>4 DEF ExecSteps
<1>6. ASSUME NEW k \in 1 .. Len(es), k - 1 \in T PROVE k \in T
  <2>1. a[k] = ExecElement(es, k, a[k - 1], f) /\ b[k] = ExecElement(es, k, b[k - 1], g)
    BY <1>2, <1>3, <1>4 DEF ExecSteps
  <2>2. a[k - 1] = b[k - 1]
    BY <1>6
  <2>3. ExecElement(es, k, a[k - 1], f) = ExecElement(es, k, a[k - 1], g)
    BY <1>1, ExecAgrees
  <2>4. a[k] = b[k]
    BY <2>1, <2>2, <2>3
  <2> QED
    BY <1>1, <2>4
<1>7. Len(es) \in T
  <2>1. Len(es) \in 0 .. Len(es)
    BY <1>1
  <2> HIDE DEF T
  <2> QED
    BY <1>1, <1>5, <1>6, <2>1, UpTo
<1> QED
  BY <1>2, <1>3, <1>4, <1>7 DEF ExecSteps

GroupParts(es) == {e.to : e \in {x \in ToSet(es) : x.mode = "group"}}

\* The recursive function of Flatten is there (exec ends).
LEMMA FlattenRecursion ==
  ASSUME NEW t, IsTable(t)
  PROVE  \E f : /\ \A i \in DOMAIN t : f[i] =
                     IF t[i].kind \in Groups
                     THEN ExecFolded(Builder(t[i]), [k \in DOMAIN t[i].elements |-> k], t[i].elements, f)
                     ELSE Failed
                /\ \A i : Flatten(t, i) = f[i]
<1> DEFINE D == DOMAIN t
           p == <<"flatten", t>>
           kids == [i \in D |-> Parts(t[i])]
           F == CHOOSE f : f = [i \in DOMAIN t |->
                  IF t[i].kind \in Groups
                  THEN Fold(LAMBDA b, k : ExecElement(t[i].elements, k, b, f), Builder(t[i]),
                            [k \in DOMAIN t[i].elements |-> k])
                  ELSE Failed]
<1>1. p[1] = "flatten" /\ p[2] = t
  OBVIOUS
<1>2. ASSUME NEW f, NEW i PROVE Body(p, f, i) =
        IF t[i].kind \in Groups
        THEN ExecFolded(Builder(t[i]), [k \in DOMAIN t[i].elements |-> k], t[i].elements, f)
        ELSE Failed
  <2>1. Body(p, f, i) =
         IF p[2][i].kind \in Groups
         THEN ExecFolded(Builder(p[2][i]), [k \in DOMAIN p[2][i].elements |-> k], p[2][i].elements, f)
         ELSE Failed
    BY <1>1 DEF Body, ExecFolded
  <2> HIDE DEF p
  <2> QED
    BY <1>1, <2>1
<1>3. kids \in [D -> SUBSET D] /\ Grounded(D, kids)
  BY DEF IsTable, Grounded
<1>4. \A i \in D : kids[i] = Parts(t[i])
  OBVIOUS
<1> HIDE DEF p, kids
<1>5. Depends(p, D, kids)
  <2>1. ASSUME NEW i \in D, NEW f, NEW g, \A j \in kids[i] : f[j] = g[j]
        PROVE  Body(p, f, i) = Body(p, g, i)
    <3>1. CASE t[i].kind \in Groups
      <4>1. IsList(t[i].elements)
        BY <3>1, TypeOf DEF IsTable
      <4>2. \A e \in ToSet(t[i].elements) : e.mode = "group" => f[e.to] = g[e.to]
        <5>1. Parts(t[i]) = {e.to : e \in {x \in ToSet(t[i].elements) : x.mode = "group"}}
          BY <3>1, PartsOf
        <5> QED
          BY <1>4, <2>1, <5>1
      <4> PICK idx : idx = [k \in DOMAIN t[i].elements |-> k]
        OBVIOUS
      <4>3. ExecFolded(Builder(t[i]), idx, t[i].elements, f) = ExecFolded(Builder(t[i]), idx, t[i].elements, g)
        BY <4>1, <4>2, FoldsAgree
      <4>4. Body(p, f, i) = ExecFolded(Builder(t[i]), idx, t[i].elements, f)
        BY <1>2, <3>1
      <4>5. Body(p, g, i) = ExecFolded(Builder(t[i]), idx, t[i].elements, g)
        BY <1>2, <3>1
      <4> QED
        BY <4>3, <4>4, <4>5
    <3>2. CASE t[i].kind \notin Groups
      BY <1>2, <3>2
    <3> QED
      BY <3>1, <3>2
  <2> QED
    BY <2>1 DEF Depends
<1>0. PICK f : Solves(p, D, f)
  BY <1>3, <1>5, Recursion
<1>6. f = [i \in D |-> Body(p, f, i)]
  BY <1>0 DEF Solves
<1>7. f = [i \in DOMAIN t |->
                  IF t[i].kind \in Groups
                  THEN Fold(LAMBDA b, k : ExecElement(t[i].elements, k, b, f), Builder(t[i]),
                            [k \in DOMAIN t[i].elements |-> k])
                  ELSE Failed]
  <2>1. \A i \in DOMAIN t : f[i] =
        IF t[i].kind \in Groups
        THEN ExecFolded(Builder(t[i]), [k \in DOMAIN t[i].elements |-> k], t[i].elements, f)
        ELSE Failed
    BY <1>2, <1>6
  <2>2. f = [i \in DOMAIN t |-> f[i]]
    BY <1>6
  <2>3. f = [i \in DOMAIN t |->
        IF t[i].kind \in Groups
        THEN ExecFolded(Builder(t[i]), [k \in DOMAIN t[i].elements |-> k], t[i].elements, f)
        ELSE Failed]
    BY <2>1, <2>2
  <2> QED
    BY <2>3 DEF ExecFolded
<1>8. F = [i \in DOMAIN t |->
                  IF t[i].kind \in Groups
                  THEN Fold(LAMBDA b, k : ExecElement(t[i].elements, k, b, F), Builder(t[i]),
                            [k \in DOMAIN t[i].elements |-> k])
                  ELSE Failed]
  BY <1>7
<1>9. \A i : Flatten(t, i) = F[i]
  BY DEF Flatten
<1>10. F = [i \in DOMAIN t |->
        IF t[i].kind \in Groups
        THEN ExecFolded(Builder(t[i]), [k \in DOMAIN t[i].elements |-> k], t[i].elements, F)
        ELSE Failed]
  BY <1>8 DEF ExecFolded
<1> HIDE DEF F
<1>11. \A i \in DOMAIN t : F[i] =
        IF t[i].kind \in Groups
        THEN ExecFolded(Builder(t[i]), [k \in DOMAIN t[i].elements |-> k], t[i].elements, F)
        ELSE Failed
  BY <1>10
<1> QED
  BY <1>9, <1>11

\* What exec makes of a group has plain elements, and no type but a group can be
\* flattened.
LEMMA FlattenCollected ==
  ASSUME NEW t, IsTable(t)
  PROVE  \A i \in DOMAIN t : Collected(Flatten(t, i)) /\ (t[i].kind \notin Groups => Flatten(t, i) = Failed)
<1>1. PICK f : /\ \A i \in DOMAIN t : f[i] =
                     IF t[i].kind \in Groups
                     THEN ExecFolded(Builder(t[i]), [k \in DOMAIN t[i].elements |-> k], t[i].elements, f)
                     ELSE Failed
               /\ \A i : Flatten(t, i) = f[i]
  BY FlattenRecursion
<1>2. ASSUME NEW i \in DOMAIN t, t[i].kind \in Groups, \A j \in Parts(t[i]) : Collected(f[j])
      PROVE  Collected(f[i])
  <2> PICK es : es = t[i].elements
    OBVIOUS
  <2> PICK idx : idx = [k \in DOMAIN es |-> k]
    OBVIOUS
  <2> PICK base : base = Builder(t[i])
    OBVIOUS
  <2>1. IsList(es) /\ \A e \in ToSet(es) : IsElement(e)
    BY <1>2, TypeOf DEF IsTable
  <2>2. \A e \in ToSet(es) : e.mode = "group" => Collected(f[e.to])
    <3>1. Parts(t[i]) = {e.to : e \in {x \in ToSet(t[i].elements) : x.mode = "group"}}
      BY <1>2, PartsOf
    <3> QED
      BY <1>2, <3>1
  <2>3. f[i] = ExecFolded(base, idx, es, f)
    BY <1>1, <1>2
  <2>4. Len(es) \in Nat /\ DOMAIN es = 1 .. Len(es) /\ \A k \in DOMAIN es : es[k] \in ToSet(es)
    BY <2>1, ListShape DEF ToSet
  <2>5. Len(idx) = Len(es) /\ \A k \in 1 .. Len(es) : idx[k] = k
    <3>1. idx = [k \in 1 .. Len(es) |-> idx[k]] /\ \A k \in 1 .. Len(es) : idx[k] = k
      BY <2>4
    <3> QED
      BY <2>4, <3>1, NewList
  <2>0. Len(idx) \in Nat
    BY <2>4, <2>5
  <2>6. PICK a : ExecSteps(a, base, idx, es, f)
    BY <2>0, ExecFold
  <2>7. IsBuilder(base) /\ base.new = FALSE /\ base.elements = es
    <3> PICK no : no = FALSE
      OBVIOUS
    <3> PICK yes : yes = TRUE
      OBVIOUS
    <3>1. base = [ok |-> yes, new |-> no, old |-> t[i].kind, mode |-> t[i].kind, min |-> 1, max |-> 1,
                  mixed |-> t[i].mixed, elements |-> es]
      BY DEF Builder
    <3>2. /\ base.ok = yes /\ base.new = no /\ base.old = t[i].kind /\ base.mode = t[i].kind
          /\ base.min = 1 /\ base.max = 1 /\ base.mixed = t[i].mixed /\ base.elements = es
      BY <3>1
    <3>3. base.mode \in Groups \cup {"mixed"} /\ base.new \in BOOLEAN /\ base.ok = TRUE
      BY <1>2, <3>2
    <3> QED
      BY <2>1, <3>1, <3>2, <3>3 DEF IsBuilder
  <2> DEFINE T == {k \in 0 .. Len(es) : Collecting(a[k], es, k)}
  <2>8. 0 \in T
    BY <2>4, <2>6, <2>7 DEF Collecting, ExecSteps
  <2>9. ASSUME NEW k \in 1 .. Len(es), k - 1 \in T PROVE k \in T
    <3>1. a[k] = ExecElement(es, k, a[k - 1], f)
      BY <2>5, <2>6 DEF ExecSteps
    <3>2. Collecting(a[k - 1], es, k - 1)
      BY <2>9
    <3>3. es[k].mode = "group" => Collected(f[es[k].to])
      BY <2>2, <2>4
    <3>4. Collecting(a[k], es, k)
      BY <2>1, <3>1, <3>2, <3>3, Executed
    <3> QED
      BY <2>4, <3>4
  <2>10. Len(es) \in T
    <3>1. Len(es) \in 0 .. Len(es)
      BY <2>4
    <3> HIDE DEF T
    <3> QED
      BY <2>4, <2>8, <2>9, <3>1, UpTo
  <2>11. Collecting(f[i], es, Len(es))
    BY <2>3, <2>5, <2>6, <2>10 DEF ExecSteps
  <2>12. (\A n \in 1 .. Len(es) : es[n].mode # "group") => PlainElements(es)
    <3>1. ToSet(es) = {es[n] : n \in 1 .. Len(es)}
      BY <2>4 DEF ToSet
    <3> QED
      BY <2>1, <3>1 DEF PlainElements
  <2> QED
    BY <2>11, <2>12 DEF Collecting, Collected
<1> DEFINE S == {i \in DOMAIN t : ~ Collected(f[i])}
<1>3. S = {}
  <2>1. SUFFICES ASSUME S # {} PROVE FALSE
    OBVIOUS
  <2>2. PICK i \in S : Parts(t[i]) \cap S = {}
    <3>1. S \in SUBSET DOMAIN t
      OBVIOUS
    <3> HIDE DEF S
    <3> QED
      BY <2>1, <3>1 DEF IsTable
  <2>3. \A j \in Parts(t[i]) : Collected(f[j])
    BY <2>2 DEF IsTable
  <2>4. t[i].kind \notin Groups => f[i] = Failed
    BY <1>1
  <2> QED
    BY <1>2, <2>3, <2>4 DEF Collected
<1> QED
  BY <1>1, <1>3

-----------------------------------------------------------------------------
(* Passes that change a complex type and the group that is its content.    *)

ContentStep(t, u, i) ==
  /\ IsTable(u) /\ DOMAIN u = DOMAIN t
  /\ \A j \in DOMAIN t \ {i, t[i].content} : u[j] = t[j]
  /\ u[i].kind = "complex" /\ u[i].content = t[i].content
  /\ \/ u[t[i].content] = t[t[i].content]
     \/ t[t[i].content].kind \in Groups /\ u[t[i].content].kind \in Groups
  /\ Layers(t, u)

\* Complex types that have their content.
Contents(t, S) == \A i \in S : /\ i \in DOMAIN t /\ t[i].kind = "complex"
                               /\ t[i].content \in DOMAIN t

\* Groups are no types of another kind.
LEMMA GroupsAre == \A k \in Groups : k \notin {"complex", "reference", "dynamic", "buildin", "union", "enumeration", "simple"}
BY DEF Groups

\* Steps of the passes over complex types: no change.
LEMMA NoChange ==
  ASSUME NEW t, IsTable(t), NEW i \in DOMAIN t, t[i].kind = "complex"
  PROVE  ContentStep(t, t, i)
BY LayersSelf DEF ContentStep

\* The content is replaced, and the complex type has another occurrence.
Replacing(t, u, i, kind, mixed, es, min, max, text) ==
  /\ DOMAIN u = DOMAIN t /\ \A j \in DOMAIN t \ {i, t[i].content} : u[j] = t[j]
  /\ u[t[i].content] = Group(kind, mixed, es)
  /\ u[i] = ComplexType(t[i].base, t[i].content, min, max, text, t[i].dynamic)

\* A change of the occurrence, and of the elements of the content to others with the
\* same groups.
LEMMA ContentChanged ==
  ASSUME NEW t, IsTable(t), NEW i \in DOMAIN t, t[i].kind = "complex", t[i].content \in DOMAIN t,
         t[t[i].content].kind \in Groups,
         NEW kind \in Groups, NEW mixed, NEW es, IsList(es),
         \A e \in ToSet(es) : IsElement(e) /\ (e.mode = "group" => e.to \in Parts(t[t[i].content])),
         NEW min, NEW max, NEW text, NEW u, Replacing(t, u, i, kind, mixed, es, min, max, text)
  PROVE  ContentStep(t, u, i)
<1> PICK c : c = t[i].content
  OBVIOUS
<1> USE DEF Replacing
<1>1. c \in DOMAIN t /\ t[c].kind \in Groups /\ c # i
  BY GroupsAre
<1>2. /\ IsType(u[c]) /\ u[c].kind = kind
      /\ Parts(u[c]) = {e.to : e \in {x \in ToSet(es) : x.mode = "group"}}
  BY NewGroup
<1>3. IsType(u[i]) /\ Parts(u[i]) = {t[i].base.of} \ {NoIdent} /\ u[i].kind = "complex" /\ u[i].content = c
  <2>1. IsBase(t[i].base)
    BY TypeOf DEF IsTable
  <2> QED
    BY <2>1, NewComplex
<1>4. Parts(t[i]) = {t[i].base.of} \ {NoIdent}
  BY PartsOf
<1>5. Fine(t, u, c)
  <2>1. \A d \in Parts(u[c]) : d \in Parts(t[c])
    BY <1>2
  <2>2. \A d \in Parts(u[c]) : Reaches(t, c, d)
    BY <1>1, <2>1, ReachesParts
  <2> QED
    BY <1>1, <1>2, <2>2, GroupsAre DEF Fine
<1>6. Fine(t, u, i)
  <2>1. \A d \in Parts(u[i]) : Reaches(t, i, d)
    BY <1>3, <1>4, ReachesParts
  <2> QED
    BY <1>1, <1>3, <2>1 DEF Fine
<1>7. \A j \in DOMAIN u : Fine(t, u, j)
  BY <1>5, <1>6, SameIsFine
<1>8. IsTable(u)
  BY <1>7, TableStep
<1>9. ASSUME NEW j \in DOMAIN t PROVE SameLayer(t[j], u[j])
  <2>1. CASE j \notin {i, c}
    BY <2>1 DEF SameLayer
  <2>2. CASE j = i
    BY <1>1, <1>3, <2>2, GroupsAre DEF SameLayer, IsSimpleReference
  <2>3. CASE j = c
    BY <1>1, <1>2, <2>3, GroupsAre DEF SameLayer, IsSimpleReference
  <2> QED
    BY <2>1, <2>2, <2>3
<1>10. Layers(t, u)
  BY <1>7, <1>9, LayersStep
<1> QED
  BY <1>1, <1>2, <1>3, <1>8, <1>10 DEF ContentStep

\* Such a step leaves the references as they are, and each content in the table.
LEMMA ContentKept ==
  ASSUME NEW s, NEW t, Kept(s, t), NEW i \in DOMAIN t, t[i].kind = "complex", NEW u, ContentStep(t, u, i)
  PROVE  Kept(s, u) /\ \A S : Contents(t, S) => Contents(u, S)
<1> PICK c : c = t[i].content
  OBVIOUS
<1>1. /\ IsTable(u) /\ DOMAIN u = DOMAIN t /\ \A j \in DOMAIN t \ {i, c} : u[j] = t[j]
      /\ u[i].kind = "complex" /\ u[i].content = t[i].content
      /\ \/ u[c] = t[c]
         \/ t[c].kind \in Groups /\ u[c].kind \in Groups
      /\ Layers(t, u)
  BY DEF ContentStep
<1>2. \A j \in DOMAIN t : \/ u[j] = t[j]
                          \/ /\ t[j].kind \notin {"reference", "dynamic"}
                             /\ u[j].kind \notin {"reference", "dynamic"}
  BY <1>1, GroupsAre
<1>3. Refs(u) = Refs(t) /\ \A j \in Refs(t) : u[j] = t[j]
  BY <1>1, <1>2 DEF Refs, IsSimpleReference
<1>4. \A j \in DOMAIN u : u[j].kind = "dynamic" => t[j].kind = "dynamic"
  BY <1>1, <1>2
<1>5. Kept(s, u)
  <2>1. Layers(s, u)
    BY <1>1, LayersTwice DEF Kept, Grown
  <2> QED
    BY <1>1, <1>3, <1>4, <2>1 DEF Kept, Grown
<1>6. \A j \in DOMAIN t : t[j].kind = "complex" => u[j].kind = "complex" /\ u[j].content = t[j].content
  BY <1>1, GroupsAre
<1>7. \A S : Contents(t, S) => Contents(u, S)
  BY <1>1, <1>6 DEF Contents
<1> QED
  BY <1>5, <1>7

\* A complex type with another occurrence, or not mixed.
WithBounds(t, u, min, max) == u = [t EXCEPT !.min = min, !.max = max]
WithMixed(t, u, no) == u = [t EXCEPT !.mixed = no]
WithElements(t, u, es) == u = [t EXCEPT !.elements = es]

\* Fields of types set: the occurrence of the content.
LEMMA OccurrenceSet ==
  ASSUME NEW t, IsType(t), t.kind = "complex", NEW min, NEW max, NEW u, WithBounds(t, u, min, max)
  PROVE  u = ComplexType(t.base, t.content, min, max, t.mixed, t.dynamic)
<1>1. t = ComplexType(t.base, t.content, t.min, t.max, t.mixed, t.dynamic)
  BY TypeOf
<1>2. t = [kind |-> t.kind, base |-> t.base, content |-> t.content, min |-> t.min, max |-> t.max,
           mixed |-> t.mixed, dynamic |-> t.dynamic]
  BY <1>1 DEF ComplexType
<1>3. u = [kind |-> t.kind, base |-> t.base, content |-> t.content, min |-> min, max |-> max,
           mixed |-> t.mixed, dynamic |-> t.dynamic]
  BY <1>2 DEF WithBounds, WithMixed, WithElements
<1> QED
  BY <1>3 DEF ComplexType

\* Whether a complex type is mixed.
LEMMA MixedSet ==
  ASSUME NEW t, IsType(t), t.kind = "complex", NEW no, NEW u, WithMixed(t, u, no)
  PROVE  u = ComplexType(t.base, t.content, t.min, t.max, no, t.dynamic)
<1>1. t = ComplexType(t.base, t.content, t.min, t.max, t.mixed, t.dynamic)
  BY TypeOf
<1>2. t = [kind |-> t.kind, base |-> t.base, content |-> t.content, min |-> t.min, max |-> t.max,
           mixed |-> t.mixed, dynamic |-> t.dynamic]
  BY <1>1 DEF ComplexType
<1>3. u = [kind |-> t.kind, base |-> t.base, content |-> t.content, min |-> t.min, max |-> t.max,
           mixed |-> no, dynamic |-> t.dynamic]
  BY <1>2 DEF WithBounds, WithMixed, WithElements
<1> QED
  BY <1>3 DEF ComplexType

\* The elements of a group.
LEMMA GroupSet ==
  ASSUME NEW t, IsType(t), t.kind \in Groups, NEW es, NEW u, WithElements(t, u, es)
  PROVE  u = Group(t.kind, t.mixed, es)
<1>1. t = Group(t.kind, t.mixed, t.elements)
  BY TypeOf
<1>2. t = [kind |-> t.kind, mixed |-> t.mixed, elements |-> t.elements]
  BY <1>1 DEF Group
<1>3. u = [kind |-> t.kind, mixed |-> t.mixed, elements |-> es]
  BY <1>2 DEF WithBounds, WithMixed, WithElements
<1> QED
  BY <1>3 DEF Group

\* flatten_complex_type is such a step.
LEMMA FlattenComplexStep ==
  ASSUME NEW t, IsTable(t), NEW i \in DOMAIN t, t[i].kind = "complex", t[i].content \in DOMAIN t
  PROVE  ContentStep(t, FlattenComplexType(t, i), i)
<1> PICK c : c = t[i].content
  OBVIOUS
<1> PICK b : b = Flatten(t, c)
  OBVIOUS
<1>1. FlattenComplexType(t, i) = Replaced(t, i, b)
  <2>1. \A x : Given(x, LAMBDA y : Replaced(t, i, y)) = Replaced(t, i, x)
    BY DEF Given
  <2>2. FlattenComplexType(t, i) = Given(b, LAMBDA y : Replaced(t, i, y))
    BY DEF FlattenComplexType
  <2> QED
    BY Zenon, <2>1, <2>2
<1>2. Collected(b) /\ (t[c].kind \notin Groups => b = Failed)
  BY FlattenCollected
<1>3. CASE ~ b.ok \/ ~ b.new
  BY <1>1, <1>3, NoChange DEF Replaced
<1>4. CASE b.ok /\ b.new
  <2>1. b # Failed
    BY <1>4 DEF Failed
  <2>2. t[c].kind \in Groups /\ IsBuilder(b) /\ PlainElements(b.elements)
    BY <1>2, <2>1 DEF Collected
  <2> DEFINE kind == IF b.mode = "mixed" THEN "choice" ELSE b.mode
             count == IF b.mode = "mixed" THEN b ELSE [min |-> 1, max |-> 1]
             g == Group(kind, b.mixed, b.elements)
             u == [t EXCEPT ![c] = g, ![i].min = @ * count.min, ![i].max = Times(@, count.max)]
  <2>3. FlattenComplexType(t, i) = u
    BY <1>1, <1>4 DEF Replaced
  <2>4. kind \in Groups
    BY <2>2 DEF IsBuilder, Groups
  <2>5. c \in DOMAIN t /\ c # i
    BY <2>2, GroupsAre
  <2> HIDE DEF g, count
  <2>6. PICK x, y : u = [t EXCEPT ![c] = g, ![i].min = x, ![i].max = y]
    <3>1. u = [t EXCEPT ![c] = g, ![i].min = t[i].min * count.min, ![i].max = Times(t[i].max, count.max)]
      BY <2>5
    <3> QED
      BY <3>1
  <2>7. /\ DOMAIN u = DOMAIN t /\ \A j \in DOMAIN t \ {i, c} : u[j] = t[j]
        /\ u[c] = g /\ u[i] = [t[i] EXCEPT !.min = x, !.max = y]
    BY <2>5, <2>6
  <2> HIDE DEF u
  <2>8. u[i] = ComplexType(t[i].base, c, x, y, t[i].mixed, t[i].dynamic)
    <3>1. IsType(t[i])
      BY DEF IsTable
    <3>2. WithBounds(t[i], u[i], x, y)
      BY <2>7 DEF WithBounds
    <3> QED
      BY <2>7, <3>1, <3>2, OccurrenceSet
  <2>9. IsList(b.elements) /\ \A e \in ToSet(b.elements) : IsElement(e) /\ e.mode # "group"
    BY <2>2 DEF PlainElements
  <2>10. ContentStep(t, u, i)
    <3> HIDE DEF kind
    <3>1. u[c] = Group(kind, b.mixed, b.elements)
      BY <2>7 DEF g
    <3>2. Replacing(t, u, i, kind, b.mixed, b.elements, x, y, t[i].mixed)
      BY <2>7, <2>8, <3>1 DEF Replacing
    <3> QED
      BY <2>2, <2>4, <2>5, <2>9, <3>2, ContentChanged
  <2> QED
    BY <2>3, <2>10
<1> QED
  BY <1>3, <1>4

\* ... and so flatten_complex_types leaves the references as they are.
LEMMA ComplexesKept ==
  ASSUME NEW t, IsTable(t), DOMAIN t \subseteq Ident, NEW s, IsList(s), Contents(t, ToSet(s))
  PROVE  Kept(t, ComplexFolded(t, s))
<1>1. Len(s) \in Nat /\ DOMAIN s = 1 .. Len(s)
  BY ListShape
<1>0. PICK f : ComplexSteps(f, t, s)
  BY <1>1, ComplexFold
<1>2. /\ f[0] = t /\ \A k \in 1 .. Len(s) : f[k] = FlattenComplexType(f[k - 1], s[k])
      /\ ComplexFolded(t, s) = f[Len(s)]
  BY <1>0 DEF ComplexSteps
<1> DEFINE T == {k \in 0 .. Len(s) : Kept(t, f[k]) /\ Contents(f[k], ToSet(s))}
<1>3. 0 \in T
  BY <1>1, <1>2, KeptSelf
<1>4. ASSUME NEW k \in 1 .. Len(s), k - 1 \in T PROVE k \in T
  <2>1. s[k] \in ToSet(s)
    BY <1>1 DEF ToSet
  <2> PICK v : v = f[k - 1]
    OBVIOUS
  <2> PICK u : u = f[k]
    OBVIOUS
  <2> PICK i : i = s[k]
    OBVIOUS
  <2>2. Kept(t, v) /\ Contents(v, ToSet(s)) /\ u = FlattenComplexType(v, i)
    BY <1>2, <1>4
  <2>3. IsTable(v) /\ i \in DOMAIN v /\ v[i].kind = "complex" /\ v[i].content \in DOMAIN v
    BY <2>1, <2>2 DEF Kept, Grown, Contents
  <2>4. ContentStep(v, u, i)
    BY <2>2, <2>3, FlattenComplexStep
  <2>5. Kept(t, u) /\ Contents(u, ToSet(s))
    BY <2>2, <2>3, <2>4, ContentKept
  <2> QED
    BY <1>1, <2>5
<1>5. Len(s) \in T
  <2>1. Len(s) \in 0 .. Len(s)
    BY <1>1
  <2> HIDE DEF T
  <2> QED
    BY <1>1, <1>3, <1>4, <2>1, UpTo
<1> QED
  BY <1>2, <1>5

-----------------------------------------------------------------------------
(* merge_choice_cardinalities, simplify_mixed_types                        *)

AllAtMostOnce(es) == \A e \in ToSet(es) : AtMostOnce(e)

\* Elements of a group, or others that are no groups. None comes to be there more than once.
FromGroup(es, r) ==
  /\ IsList(r) /\ \A e \in ToSet(r) : IsElement(e) /\ (e.mode = "group" => e.to \in GroupParts(es))
  /\ AllAtMostOnce(es) => AllAtMostOnce(r)

\* Elements of a group with no other groups among them: the same ones.
LEMMA SameFromGroup ==
  ASSUME NEW es, IsList(es), \A e \in ToSet(es) : IsElement(e)
  PROVE  FromGroup(es, es)
BY DEF FromGroup, GroupParts

\* An element that is set to once is there at most once.
LEMMA OnceIsOnce ==
  ASSUME NEW e, IsElement(e)
  PROVE  AtMostOnce(Once(e))
<1> PICK x : x = [e EXCEPT !.min = 1, !.max = 1]
  OBVIOUS
<1>1. x.min = 1 /\ x.max = 1
  BY DEF IsElement, Element
<1>2. x = Once(e)
  BY DEF Once
<1>3. AtMostOnce(x)
  BY <1>1 DEF AtMostOnce
<1> QED
  BY <1>2, <1>3

\* Each one once at most.
LEMMA OnceFromGroup ==
  ASSUME NEW es, IsList(es), \A e \in ToSet(es) : IsElement(e)
  PROVE  FromGroup(es, [k \in DOMAIN es |-> Once(es[k])])
<1> PICK s : s = [k \in DOMAIN es |-> Once(es[k])]
  OBVIOUS
<1>1. Len(es) \in Nat /\ DOMAIN es = 1 .. Len(es) /\ \A k \in DOMAIN es : es[k] \in ToSet(es)
  BY ListShape DEF ToSet
<1>2. IsList(s)
  <2>1. s = [k \in 1 .. Len(es) |-> s[k]]
    BY <1>1
  <2> QED
    BY <1>1, <2>1, NewList
<1>3. \A k \in DOMAIN es : SameElement(es[k], s[k]) /\ AtMostOnce(s[k])
  BY <1>1, OnceElement, OnceIsOnce
<1>4. ToSet(s) = {s[k] : k \in DOMAIN es}
  BY DEF ToSet
<1>5. \A k \in DOMAIN es : IsElement(s[k]) /\ (s[k].mode = "group" => s[k].to \in GroupParts(es))
  BY <1>1, <1>3 DEF SameElement, GroupParts
<1>6. AllAtMostOnce(s)
  BY <1>3, <1>4 DEF AllAtMostOnce
<1> QED
  BY <1>2, <1>4, <1>5, <1>6 DEF FromGroup

\* A Builder's elements come from a group of the table.
LEMMA ContentFromGroup ==
  ASSUME NEW t, IsTable(t), NEW i \in DOMAIN t, t[i].kind = "complex", t[i].content \in DOMAIN t,
         t[t[i].content].kind \in Groups, NEW es, FromGroup(t[t[i].content].elements, es),
         NEW min, NEW max, NEW text, NEW u,
         Replacing(t, u, i, t[t[i].content].kind, t[t[i].content].mixed, es, min, max, text)
  PROVE  ContentStep(t, u, i)
<1>1. Parts(t[t[i].content]) = GroupParts(t[t[i].content].elements)
  BY PartsOf DEF GroupParts
<1> QED
  BY <1>1, ContentChanged DEF FromGroup

\* The passes that can fail keep the kinds and the contents of the types.
SameKinds(t, u) ==
  \A i \in DOMAIN t :
    u[i].kind = t[i].kind /\ (t[i].kind = "complex" => u[i].content = t[i].content)

\* The content and its complex type are replaced by types of their kinds.
LEMMA ReplacedKinds ==
  ASSUME NEW t, NEW i \in DOMAIN t, t[i].kind = "complex", t[i].content \in DOMAIN t,
         t[t[i].content].kind \in Groups, NEW es, NEW min, NEW max, NEW text, NEW u,
         Replacing(t, u, i, t[t[i].content].kind, t[t[i].content].mixed, es, min, max, text)
  PROVE  SameKinds(t, u)
<1> PICK c : c = t[i].content
  OBVIOUS
<1>1. \A j \in DOMAIN t : j \notin {i, c} => u[j] = t[j]
  BY DEF Replacing
<1>2. u[c].kind = t[c].kind /\ t[c].kind \in Groups
  BY DEF Replacing, Group
<1>3. u[i].kind = "complex" /\ u[i].content = c
  BY DEF Replacing, ComplexType
<1> QED
  BY <1>1, <1>2, <1>3, GroupsAre DEF SameKinds

LeastMin(es) == Fold(LAMBDA m, e : Least(m, e.min), 1, es)
GreatestMax(es) == Fold(LAMBDA m, e : Greatest(m, e.max), 1, es)

\* Where a pass that can fail is: it has failed, or it has kept what is to be kept.
Passed(t, S, r) ==
  r = Bad \/ ( /\ r = Good(r.types) /\ Kept(t, r.types) /\ Contents(r.types, S)
               /\ SameKinds(t, r.types))

\* A pass goes on with a step of the above kind.
LEMMA PassedOn ==
  ASSUME NEW t, NEW S, NEW r, r = Good(r.types), Kept(t, r.types), Contents(r.types, S),
         SameKinds(t, r.types), NEW i \in S, NEW u, ContentStep(r.types, u, i), SameKinds(r.types, u)
  PROVE  Passed(t, S, Good(u))
<1> PICK v : v = r.types
  OBVIOUS
<1>1. i \in DOMAIN v /\ v[i].kind = "complex"
  BY DEF Contents
<1>2. Kept(t, u) /\ Contents(u, S)
  BY <1>1, ContentKept
<1>3. Good(u).types = u
  BY DEF Good
<1>4. SameKinds(t, u)
  BY DEF SameKinds, Kept
<1> QED
  BY <1>2, <1>3, <1>4 DEF Passed

\* merge_choice_cardinality is such a step, or reports that it could not be.
LEMMA MergeChoiceStep ==
  ASSUME NEW t, NEW S, NEW r, Passed(t, S, r), NEW i \in S
  PROVE  /\ Passed(t, S, MergeChoiceCardinality(r, i))
         /\ r.ok /\ t[t[i].content].kind = "choice" => MergeChoiceCardinality(r, i).ok
<1> PICK v : v = r.types
  OBVIOUS
<1> PICK c : c = v[i].content
  OBVIOUS
<1> DEFINE es == v[c].elements
           once == [k \in DOMAIN es |-> Once(es[k])]
           u == [v EXCEPT ![c].elements = once, ![i].min = Least(LeastMin(es), @),
                          ![i].max = Greatest(GreatestMax(es), @)]
<1>1. MergeChoiceCardinality(r, i) = IF ~ r.ok \/ v[c].kind # "choice" THEN Bad ELSE Good(u)
  BY DEF MergeChoiceCardinality, LeastMin, GreatestMax
<1>2. CASE ~ r.ok \/ v[c].kind # "choice"
  <2>1. ASSUME r.ok PROVE t[t[i].content].kind # "choice"
    <3>1. SameKinds(t, v) /\ Kept(t, v) /\ Contents(v, S)
      BY <2>1 DEF Passed, Bad
    <3>2. i \in DOMAIN t /\ t[i].kind = "complex" /\ c = t[i].content /\ c \in DOMAIN t
      BY <3>1 DEF SameKinds, Kept, Contents
    <3> QED
      BY <1>2, <2>1, <3>1, <3>2 DEF SameKinds
  <2> QED
    BY <1>1, <1>2, <2>1 DEF Passed
<1>3. CASE r.ok /\ v[c].kind = "choice"
  <2>1. r # Bad
    BY <1>3 DEF Bad
  <2>2. r = Good(v) /\ Kept(t, v) /\ Contents(v, S) /\ SameKinds(t, v)
    BY <2>1 DEF Passed
  <2>3. /\ IsTable(v) /\ i \in DOMAIN v /\ v[i].kind = "complex" /\ c \in DOMAIN v
        /\ v[c].kind \in Groups /\ c # i
    BY <1>3, <2>2 DEF Kept, Grown, Contents, Groups
  <2>4. IsType(v[i]) /\ IsType(v[c])
    BY <2>3 DEF IsTable
  <2>5. IsList(es) /\ \A e \in ToSet(es) : IsElement(e)
    BY <2>3, <2>4, TypeOf
  <2>6. FromGroup(es, once)
    BY <2>5, OnceFromGroup
  <2> HIDE DEF once
  <2>7. PICK x, y : u = [v EXCEPT ![c].elements = once, ![i].min = x, ![i].max = y]
    <3>1. u = [v EXCEPT ![c].elements = once, ![i].min = Least(LeastMin(es), v[i].min),
                        ![i].max = Greatest(GreatestMax(es), v[i].max)]
      BY <2>3
    <3> QED
      BY <3>1
  <2> HIDE DEF u
  <2>8. /\ DOMAIN u = DOMAIN v /\ \A j \in DOMAIN v \ {i, c} : u[j] = v[j]
        /\ u[c] = [v[c] EXCEPT !.elements = once] /\ u[i] = [v[i] EXCEPT !.min = x, !.max = y]
    BY <2>3, <2>7
  <2>9. u[c] = Group(v[c].kind, v[c].mixed, once)
    <3>1. WithElements(v[c], u[c], once)
      BY <2>8 DEF WithElements
    <3> QED
      BY <2>3, <2>4, <3>1, GroupSet
  <2>10. u[i] = ComplexType(v[i].base, c, x, y, v[i].mixed, v[i].dynamic)
    <3>1. WithBounds(v[i], u[i], x, y)
      BY <2>8 DEF WithBounds
    <3> QED
      BY <2>3, <2>4, <3>1, OccurrenceSet
  <2>11. Replacing(v, u, i, v[c].kind, v[c].mixed, once, x, y, v[i].mixed)
    BY <2>8, <2>9, <2>10 DEF Replacing
  <2>12. ContentStep(v, u, i)
    BY <2>3, <2>6, <2>11, ContentFromGroup
  <2>13. Passed(t, S, Good(u)) /\ Good(u).ok
    <3>1. SameKinds(v, u)
      BY <2>3, <2>11, ReplacedKinds
    <3> QED
      BY <2>2, <2>12, <3>1, PassedOn DEF Good
  <2> QED
    BY <1>1, <1>3, <2>13
<1> QED
  BY <1>2, <1>3

\* ... and so is the pass.
LEMMA ChoicesPassed ==
  ASSUME NEW t, IsTable(t), DOMAIN t \subseteq Ident, NEW s, IsList(s), Contents(t, ToSet(s))
  PROVE  /\ Passed(t, ToSet(s), ChoiceFolded(Good(t), s))
         /\ (\A i \in ToSet(s) : t[t[i].content].kind = "choice") => ChoiceFolded(Good(t), s).ok
<1>1. Len(s) \in Nat /\ DOMAIN s = 1 .. Len(s)
  BY ListShape
<1>0. PICK f : ChoiceSteps(f, Good(t), s)
  BY <1>1, ChoiceFold
<1>2. /\ f[0] = Good(t) /\ \A k \in 1 .. Len(s) : f[k] = MergeChoiceCardinality(f[k - 1], s[k])
      /\ ChoiceFolded(Good(t), s) = f[Len(s)]
  BY <1>0 DEF ChoiceSteps
<1> DEFINE direct == \A i \in ToSet(s) : t[t[i].content].kind = "choice"
           T == {k \in 0 .. Len(s) : Passed(t, ToSet(s), f[k]) /\ (direct => f[k].ok)}
<1>3. 0 \in T
  <2>1. Good(t).types = t /\ Good(t).ok /\ SameKinds(t, t)
    BY DEF Good, SameKinds
  <2> QED
    BY <1>1, <1>2, <2>1, KeptSelf DEF Passed
<1>4. ASSUME NEW k \in 1 .. Len(s), k - 1 \in T PROVE k \in T
  <2>1. s[k] \in ToSet(s)
    BY <1>1 DEF ToSet
  <2>2. /\ Passed(t, ToSet(s), f[k - 1]) /\ (direct => f[k - 1].ok)
        /\ f[k] = MergeChoiceCardinality(f[k - 1], s[k])
    BY <1>2, <1>4
  <2>3. Passed(t, ToSet(s), f[k]) /\ (direct => f[k].ok)
    BY <2>1, <2>2, MergeChoiceStep
  <2> QED
    BY <1>1, <2>3
<1>5. Len(s) \in T
  <2>1. Len(s) \in 0 .. Len(s)
    BY <1>1
  <2> HIDE DEF T
  <2> QED
    BY <1>1, <1>3, <1>4, <2>1, UpTo
<1> QED
  BY <1>2, <1>5

-----------------------------------------------------------------------------
TextElement(name) == [Text(name) EXCEPT !.min = 0]

\* The elements made for the text of mixed types refer to no group.
LEMMA TextElements ==
  /\ \A name : IsElement(TextElement(name)) /\ TextElement(name).mode # "group" /\ AtMostOnce(TextElement(name))
  /\ \A name : IsElement(Text(name)) /\ Text(name).mode # "group" /\ AtMostOnce(Text(name))
<1>1. \A name, mode : LET e == Element(name, mode, NoIdent, 1, 1) IN IsElement(e) /\ e.mode = mode
  BY NewElement
<1>0. \A name : Text(name).min = 1 /\ Text(name).max = 1
  BY DEF Text, Element
<1>2. \A name : IsElement(Text(name)) /\ Text(name).mode = "text"
  BY Zenon, <1>1 DEF Text
<1>3. ASSUME NEW name
      PROVE  IsElement(TextElement(name)) /\ TextElement(name).mode = "text" /\ AtMostOnce(TextElement(name))
  <2> PICK e : e = Text(name)
    OBVIOUS
  <2>1. IsElement(e) /\ e.mode = "text" /\ e.max = 1
    BY <1>0, <1>2
  <2>2. TextElement(name) = [e EXCEPT !.min = 0]
    BY DEF TextElement
  <2>3. \A m : [e EXCEPT !.min = m] = Element(e.name, e.mode, e.to, m, e.max)
    BY <2>1 DEF IsElement, Element
  <2>4. \A m : LET x == Element(e.name, e.mode, e.to, m, e.max) IN IsElement(x) /\ x.mode = e.mode
    BY NewElement
  <2> PICK x : x = Element(e.name, e.mode, e.to, 0, e.max)
    OBVIOUS
  <2>5. x.min = 0 /\ x.max = 1
    BY <2>1 DEF Element
  <2>6. TextElement(name) = x
    BY <2>2, <2>3
  <2>7. AtMostOnce(TextElement(name))
    BY <2>5, <2>6 DEF AtMostOnce
  <2> QED
    BY <2>1, <2>2, <2>3, <2>4, <2>7
<1>4. \A name : AtMostOnce(Text(name))
  BY <1>0 DEF AtMostOnce
<1> QED
  BY <1>2, <1>3, <1>4

\* Two lists of them, one after the other.
LEMMA AddedFromGroup ==
  ASSUME NEW es, NEW a, FromGroup(es, a), NEW b, FromGroup(es, b)
  PROVE  FromGroup(es, a \o b)
<1> DEFINE V == ToSet(a) \cup ToSet(b)
<1>1. a \in Seq(V) /\ b \in Seq(V)
  BY ListIn DEF FromGroup
<1>2. \A q, r \in Seq(V) : q \o r \in Seq(V)
  OBVIOUS
<1>3. a \o b \in Seq(V)
  BY <1>1, <1>2
<1>4. IsList(a \o b) /\ ToSet(a \o b) \subseteq V
  <2> HIDE DEF V
  <2> QED
    BY <1>3, ListIn
<1> QED
  BY <1>4 DEF FromGroup, AllAtMostOnce

\* A new element that refers to no group.
LEMMA OneFromGroup ==
  ASSUME NEW es, NEW e, IsElement(e), e.mode # "group", AtMostOnce(e)
  PROVE  FromGroup(es, <<e>>)
<1>1. <<e>> \in Seq({e})
  OBVIOUS
<1>2. IsList(<<e>>) /\ ToSet(<<e>>) \subseteq {e}
  BY <1>1, ListIn
<1> QED
  BY <1>2 DEF FromGroup, AllAtMostOnce

\* The text after each of the elements.
TextBetween(es) ==
  FlattenSeq([k \in DOMAIN es |-> <<es[k], TextElement("text_after_" \o es[k].name)>>])

\* Elements with text between them.
LEMMA BetweenFromGroup ==
  ASSUME NEW es, IsList(es), \A e \in ToSet(es) : IsElement(e)
  PROVE  FromGroup(es, TextBetween(es))
<1> DEFINE after(e) == TextElement("text_after_" \o e.name)
           ss == [k \in DOMAIN es |-> <<es[k], after(es[k])>>]
           V == ToSet(es) \cup {after(e) : e \in ToSet(es)}
<1>1. Len(es) \in Nat /\ DOMAIN es = 1 .. Len(es) /\ \A k \in DOMAIN es : es[k] \in ToSet(es)
  BY ListShape DEF ToSet
<1>2. TextBetween(es) = FlattenSeq(ss)
  BY DEF TextBetween
<1>3. \A e \in ToSet(es) : IsElement(after(e)) /\ after(e).mode # "group" /\ AtMostOnce(after(e))
  BY TextElements
<1> HIDE DEF after
<1>4. IsList(ss) /\ DOMAIN ss = DOMAIN es
  <2>1. ss = [k \in 1 .. Len(es) |-> ss[k]]
    BY <1>1
  <2> QED
    BY <1>1, <2>1, NewList
<1>5. \A k \in DOMAIN ss : IsList(ss[k]) /\ ToSet(ss[k]) \subseteq V
  <2> SUFFICES ASSUME NEW k \in DOMAIN es PROVE IsList(ss[k]) /\ ToSet(ss[k]) \subseteq V
    BY <1>4
  <2>1. es[k] \in V /\ after(es[k]) \in V
    BY <1>1
  <2>2. ss[k] = <<es[k], after(es[k])>>
    OBVIOUS
  <2> HIDE DEF ss, V
  <2>3. ss[k] \in Seq(V)
    BY <2>1, <2>2
  <2> QED
    BY <2>3, ListIn
<1> HIDE DEF ss, V
<1>6. IsList(FlattenSeq(ss)) /\ ToSet(FlattenSeq(ss)) \subseteq V
  BY <1>4, <1>5, FlattenList
<1>7. \A e \in V : IsElement(e) /\ (e.mode = "group" => e.to \in GroupParts(es))
  BY <1>3 DEF V, GroupParts
<1>8. AllAtMostOnce(es) => \A e \in V : AtMostOnce(e)
  BY <1>3 DEF V, AllAtMostOnce
<1> QED
  BY <1>2, <1>6, <1>7, <1>8 DEF FromGroup, AllAtMostOnce

\* What simplify_mixed_types asks of the types it takes stays true for the others.
Simplifiable(t, i) ==
  LET c == t[i].content
  IN \/ t[c].kind = "choice" /\ t[i].max = Unbounded
     \/ t[c].kind = "sequence" /\ AllAtMostOnce(t[c].elements)
SameBounds(t, u) ==
  /\ \A i \in DOMAIN t : t[i].kind = "complex" => u[i].max = t[i].max
  /\ \A i \in DOMAIN t :
       t[i].kind \in Groups => (AllAtMostOnce(t[i].elements) => AllAtMostOnce(u[i].elements))

\* ... and, when the bounds stay, by some that simplify_mixed_types still takes.
LEMMA ReplacedBounds ==
  ASSUME NEW t, NEW i \in DOMAIN t, t[i].kind = "complex", t[i].content \in DOMAIN t,
         t[t[i].content].kind \in Groups, NEW es, FromGroup(t[t[i].content].elements, es),
         NEW kind, NEW mixed, NEW min, NEW text, NEW u,
         Replacing(t, u, i, kind, mixed, es, min, t[i].max, text)
  PROVE  SameBounds(t, u)
<1> PICK c : c = t[i].content
  OBVIOUS
<1>1. \A j \in DOMAIN t : j \notin {i, c} => u[j] = t[j]
  BY DEF Replacing
<1>2. u[c].elements = es /\ t[c].kind \in Groups /\ c # i
  BY GroupsAre DEF Replacing, Group
<1>3. u[i].max = t[i].max
  BY DEF Replacing, ComplexType
<1>4. AllAtMostOnce(t[c].elements) => AllAtMostOnce(u[c].elements)
  BY <1>2 DEF FromGroup
<1>5. t[i].kind \notin Groups /\ t[c].kind # "complex"
  BY <1>2, GroupsAre
<1> QED
  BY <1>1, <1>3, <1>4, <1>5 DEF SameBounds

\* Two such steps are one.
LEMMA BoundsTwice ==
  ASSUME NEW s, NEW t, DOMAIN t = DOMAIN s, SameKinds(s, t), SameBounds(s, t), NEW u, SameBounds(t, u)
  PROVE  SameBounds(s, u)
BY DEF SameKinds, SameBounds

\* What simplify_mixed_type takes, it takes after another type as well.
LEMMA SimpleKept ==
  ASSUME NEW t, NEW u, SameKinds(t, u), SameBounds(t, u), NEW i \in DOMAIN t,
         t[i].kind = "complex", t[i].content \in DOMAIN t, Simplifiable(t, i)
  PROVE  Simplifiable(u, i)
BY DEF Simplifiable, SameKinds, SameBounds, Groups

\* simplify_mixed_type is such a step, or reports that it could not be.
LEMMA SimplifyMixedStep ==
  ASSUME NEW t, NEW S, NEW r, Passed(t, S, r), NEW i \in S
  PROVE  /\ Passed(t, S, SimplifyMixedType(r, i))
         /\ r.ok /\ SameBounds(t, r.types) /\ Simplifiable(t, i) =>
              /\ SimplifyMixedType(r, i).ok /\ SameBounds(t, SimplifyMixedType(r, i).types)
<1> DEFINE v == r.types
           c == v[i].content
           es == v[c].elements
           simple(x) == Good([v EXCEPT ![c].elements = x, ![i].mixed = FALSE])
           more == Append(es, Text("text"))
           text == <<TextElement("text_before")>> \o TextBetween(es)
<1>1. ASSUME r.ok
      PROVE  \/ SimplifyMixedType(r, i) = Bad /\ ~ Simplifiable(v, i)
             \/ /\ v[c].kind \in Groups
                /\ SimplifyMixedType(r, i) \in {simple(es), simple(more), simple(text)}
  <2>1. CASE v[c].kind = "choice" /\ v[i].max = Unbounded
    <3>1. SimplifyMixedType(r, i)
            = simple(IF \E k \in DOMAIN es : es[k].mode = "text" THEN es ELSE more)
      BY <1>1, <2>1 DEF SimplifyMixedType
    <3> HIDE DEF simple, more
    <3> QED
      BY <2>1, <3>1 DEF Groups
  <2>2. CASE v[c].kind = "sequence"
    <3>1. SimplifyMixedType(r, i)
            = IF \A k \in DOMAIN es : AtMostOnce(es[k]) THEN simple(text) ELSE Bad
      BY Zenon, <1>1, <2>2 DEF SimplifyMixedType, TextBetween, TextElement
    <3>2. Simplifiable(v, i) => \A k \in DOMAIN es : AtMostOnce(es[k])
      BY <2>2 DEF Simplifiable, AllAtMostOnce, ToSet
    <3> HIDE DEF simple, text
    <3> QED
      BY <2>2, <3>1, <3>2 DEF Groups
  <2>3. CASE ~ (v[c].kind = "choice" /\ v[i].max = Unbounded) /\ v[c].kind # "sequence"
    <3>1. SimplifyMixedType(r, i) = Bad
      BY <1>1, <2>3 DEF SimplifyMixedType
    <3>2. ~ Simplifiable(v, i)
      BY <2>3 DEF Simplifiable
    <3> QED
      BY <3>1, <3>2
  <2> QED
    BY <2>1, <2>2, <2>3
<1> HIDE DEF v, c, es
<1>2. v = r.types /\ c = v[i].content /\ es = v[c].elements
  BY DEF v, c, es
<1> USE <1>2
<1>3. CASE ~ r.ok
  <2>1. SimplifyMixedType(r, i) = Bad
    BY <1>3 DEF SimplifyMixedType
  <2> QED
    BY <1>3, <2>1 DEF Passed
<1>4. CASE r.ok
  <2>1. r # Bad
    BY <1>4 DEF Bad
  <2>2. r = Good(v) /\ Kept(t, v) /\ Contents(v, S) /\ SameKinds(t, v)
    BY <2>1 DEF Passed
  <2>3. IsTable(v) /\ i \in DOMAIN v /\ v[i].kind = "complex" /\ c \in DOMAIN v
    BY <2>2 DEF Kept, Grown, Contents
  <2>4. \A u : SameBounds(v, u) => (SameBounds(t, v) => SameBounds(t, u))
    <3>1. DOMAIN v = DOMAIN t
      BY <2>2 DEF Kept
    <3> QED
      BY <2>2, <3>1, BoundsTwice
  <2>5. ASSUME v[c].kind \in Groups, NEW x, FromGroup(es, x)
        PROVE  /\ Passed(t, S, simple(x)) /\ simple(x).ok
               /\ SameBounds(t, v) => SameBounds(t, simple(x).types)
    <3> PICK no : no = FALSE
      OBVIOUS
    <3> PICK u : u = [v EXCEPT ![c].elements = x, ![i].mixed = no]
      OBVIOUS
    <3>1. IsType(v[i]) /\ IsType(v[c]) /\ c # i
      BY <2>3, <2>5, GroupsAre DEF IsTable
    <3>2. /\ DOMAIN u = DOMAIN v /\ \A j \in DOMAIN v \ {i, c} : u[j] = v[j]
          /\ u[c] = [v[c] EXCEPT !.elements = x] /\ u[i] = [v[i] EXCEPT !.mixed = no]
      BY <2>3, <3>1
    <3>3. u[c] = Group(v[c].kind, v[c].mixed, x)
      <4>1. WithElements(v[c], u[c], x)
        BY <3>2 DEF WithElements
      <4> QED
        BY <2>5, <3>1, <4>1, GroupSet
    <3>4. u[i] = ComplexType(v[i].base, c, v[i].min, v[i].max, no, v[i].dynamic)
      <4>1. WithMixed(v[i], u[i], no)
        BY <3>2 DEF WithMixed
      <4> QED
        BY <2>3, <3>1, <4>1, MixedSet
    <3>5. Replacing(v, u, i, v[c].kind, v[c].mixed, x, v[i].min, v[i].max, no)
      BY <3>2, <3>3, <3>4 DEF Replacing
    <3>6. ContentStep(v, u, i)
      BY <2>3, <2>5, <3>5, ContentFromGroup
    <3>7. SameKinds(v, u) /\ SameBounds(v, u)
      BY <2>3, <2>5, <3>5, ReplacedKinds, ReplacedBounds
    <3>8. Passed(t, S, Good(u)) /\ Good(u).ok /\ Good(u).types = u
      BY <2>2, <3>6, <3>7, PassedOn DEF Good
    <3>9. SameBounds(t, v) => SameBounds(t, u)
      BY <2>4, <3>7
    <3> HIDE DEF simple
    <3>10. simple(x) = Good(u)
      BY DEF simple
    <3> QED
      BY <3>8, <3>9, <3>10
  <2>6. ASSUME v[c].kind \in Groups PROVE FromGroup(es, es) /\ FromGroup(es, more) /\ FromGroup(es, text)
    <3>1. IsList(es) /\ \A e \in ToSet(es) : IsElement(e)
      BY <2>3, <2>6, TypeOf DEF IsTable
    <3>2. FromGroup(es, es)
      BY <3>1, SameFromGroup
    <3>3. FromGroup(es, <<Text("text")>>) /\ FromGroup(es, <<TextElement("text_before")>>)
      <4>1. \A name : FromGroup(es, <<Text(name)>>) /\ FromGroup(es, <<TextElement(name)>>)
        BY TextElements, OneFromGroup
      <4> QED
        BY Zenon, <4>1
    <3>4. more = es \o <<Text("text")>>
      <4>1. es \in Seq(ToSet(es))
        BY <3>1, ListIn
      <4>2. \A V : \A q \in Seq(V) : \A e : Append(q, e) = q \o <<e>>
        OBVIOUS
      <4> QED
        BY <4>1, <4>2
    <3>5. FromGroup(es, more)
      BY <3>2, <3>3, <3>4, AddedFromGroup
    <3>6. FromGroup(es, TextBetween(es))
      BY <3>1, BetweenFromGroup
    <3> QED
      BY <3>2, <3>3, <3>5, <3>6, AddedFromGroup
  <2>7. i \in DOMAIN t /\ t[i].kind = "complex" /\ t[i].content \in DOMAIN t
    BY <2>2 DEF SameKinds, Kept, Contents
  <2>8. SameBounds(t, v) /\ Simplifiable(t, i) => Simplifiable(v, i)
    BY <2>2, <2>7, SimpleKept
  <2> HIDE DEF simple, more, text
  <2> QED
    BY <1>4, <1>1, <2>5, <2>6, <2>8 DEF Passed
<1> QED
  BY <1>3, <1>4

\* ... and so is the pass.
LEMMA MixedPassed ==
  ASSUME NEW t, IsTable(t), DOMAIN t \subseteq Ident, NEW s, IsList(s), Contents(t, ToSet(s))
  PROVE  /\ Passed(t, ToSet(s), MixedFolded(Good(t), s))
         /\ (\A i \in ToSet(s) : Simplifiable(t, i)) => MixedFolded(Good(t), s).ok
<1>1. Len(s) \in Nat /\ DOMAIN s = 1 .. Len(s)
  BY ListShape
<1>0. PICK f : MixedSteps(f, Good(t), s)
  BY <1>1, MixedFold
<1>2. /\ f[0] = Good(t) /\ \A k \in 1 .. Len(s) : f[k] = SimplifyMixedType(f[k - 1], s[k])
      /\ MixedFolded(Good(t), s) = f[Len(s)]
  BY <1>0 DEF MixedSteps
<1> DEFINE simple == \A i \in ToSet(s) : Simplifiable(t, i)
           T == {k \in 0 .. Len(s) : /\ Passed(t, ToSet(s), f[k])
                                     /\ simple => f[k].ok /\ SameBounds(t, f[k].types)}
<1>3. 0 \in T
  <2>1. Good(t).types = t /\ Good(t).ok /\ SameKinds(t, t) /\ SameBounds(t, t)
    BY DEF Good, SameKinds, SameBounds
  <2> QED
    BY <1>1, <1>2, <2>1, KeptSelf DEF Passed
<1>4. ASSUME NEW k \in 1 .. Len(s), k - 1 \in T PROVE k \in T
  <2>1. s[k] \in ToSet(s)
    BY <1>1 DEF ToSet
  <2>2. /\ Passed(t, ToSet(s), f[k - 1]) /\ f[k] = SimplifyMixedType(f[k - 1], s[k])
        /\ simple => f[k - 1].ok /\ SameBounds(t, f[k - 1].types)
    BY <1>2, <1>4
  <2>3. /\ Passed(t, ToSet(s), f[k])
        /\ simple => f[k].ok /\ SameBounds(t, f[k].types)
    BY <2>1, <2>2, SimplifyMixedStep
  <2> QED
    BY <1>1, <2>3
<1>5. Len(s) \in T
  <2>1. Len(s) \in 0 .. Len(s)
    BY <1>1
  <2> HIDE DEF T
  <2> QED
    BY <1>1, <1>3, <1>4, <2>1, UpTo
<1> QED
  BY <1>2, <1>5

-----------------------------------------------------------------------------
(* The invariant.                                                          *)

\* A table, and a map that fits it if there is one.
Sound(t, map) ==
  /\ DOMAIN t \subseteq Ident /\ IsTable(t)
  /\ \A i \in DynamicOnes(t) : ContentOf[i] \in Ident \ DOMAIN t
  /\ map # NoTypedefs => MapFits(t, map)
TypedefsInv == Sound(types, typedefs)

\* References that stay are as the map knew them.
LEMMA ReferencesKept ==
  ASSUME NEW t, IsTable(t), NEW u, DOMAIN t \subseteq DOMAIN u, Refs(u) = Refs(t),
         \A i \in Refs(t) : u[i] = t[i]
  PROVE  SameRefs(t, u)
BY RefsChain, Resolved DEF SameRefs, Refs

\* What a pass has to keep of a table for the map to be sound after it: one that adds
\* types.
LEMMA GrownSound ==
  ASSUME NEW t, NEW map, Sound(t, map), NEW u, Grown(t, u), DynamicOnes(u) = {}
  PROVE  Sound(u, map)
<1>1. SameRefs(t, u)
  BY ReferencesKept DEF Grown, Sound
<1> QED
  BY <1>1, MapKept DEF Grown, Sound

\* One that does not.
LEMMA KeptSound ==
  ASSUME NEW t, NEW map, Sound(t, map), NEW u, Kept(t, u)
  PROVE  Sound(u, map)
<1>1. SameRefs(t, u)
  BY ReferencesKept DEF Kept, Grown, Sound
<1>2. DynamicOnes(u) \subseteq DynamicOnes(t)
  BY DEF Kept, Grown, DynamicOnes
<1> QED
  BY <1>1, <1>2, MapKept DEF Kept, Grown, Sound

\* Types replaced by fine ones of other kinds than references, all at once.
LEMMA ManyChanged ==
  ASSUME NEW t, IsTable(t), DOMAIN t \subseteq Ident, NEW u, DOMAIN u = DOMAIN t,
         \A j \in DOMAIN t : \/ u[j] = t[j]
                             \/ /\ Fine(t, u, j) /\ SameLayer(t[j], u[j])
                                /\ t[j].kind \notin {"reference", "dynamic"}
                                /\ u[j].kind \notin {"reference", "dynamic"}
  PROVE  Kept(t, u)
<1>1. \A j \in DOMAIN u : Fine(t, u, j)
  BY SameIsFine
<1>2. IsTable(u)
  BY <1>1, TableStep
<1>3. Refs(u) = Refs(t) /\ \A j \in Refs(t) : u[j] = t[j]
  BY DEF Refs, IsSimpleReference
<1>4. \A j \in DOMAIN t : Fine(t, u, j) /\ SameLayer(t[j], u[j])
  BY <1>1 DEF SameLayer
<1>5. Layers(t, u)
  BY <1>4, LayersStep
<1> QED
  BY <1>2, <1>3, <1>5 DEF Kept, Grown

-----------------------------------------------------------------------------
(* Types that become references to others they were made of.               *)

Referring(t, target) == [i \in DOMAIN t |-> IF i \in DOMAIN target THEN Reference(target[i]) ELSE t[i]]
MapAfter(map, target) == IF DOMAIN target = {} THEN map ELSE NoTypedefs

\* Types replaced by references, and the map with them, when the new table does not
\* come around.
LEMMA ReferringSound ==
  ASSUME NEW t, NEW map, Sound(t, map), NEW target, DOMAIN target \subseteq DOMAIN t,
         IsTable(Referring(t, target))
  PROVE  Sound(Referring(t, target), MapAfter(map, target))
<1> PICK u : u = Referring(t, target)
  OBVIOUS
<1>1. DOMAIN u = DOMAIN t /\ \A i \in DOMAIN t : u[i] = IF i \in DOMAIN target THEN Reference(target[i]) ELSE t[i]
  BY DEF Referring
<1>2. DynamicOnes(u) \subseteq DynamicOnes(t)
  BY <1>1, NewReference DEF DynamicOnes
<1>3. DOMAIN target = {} => Sound(u, map)
  <2> SUFFICES ASSUME DOMAIN target = {} PROVE Sound(u, map)
    OBVIOUS
  <2>1. \A i \in DOMAIN t : u[i] = t[i]
    BY <1>1
  <2>2. Kept(t, u)
    BY <1>1, <2>1, ManyChanged DEF Sound
  <2> QED
    BY <2>2, KeptSound
<1> QED
  BY <1>1, <1>2, <1>3 DEF Sound, MapAfter

\* ... as it is, when they refer to types that they reach.
LEMMA ReachingReferences ==
  ASSUME NEW t, NEW map, Sound(t, map), NEW target, DOMAIN target \subseteq DOMAIN t,
         \A i \in DOMAIN target : Reaches(t, i, target[i]) /\ t[i].kind \notin Groups \cup {"reference"}
  PROVE  Sound(Referring(t, target), MapAfter(map, target)) /\ Layers(t, Referring(t, target))
<1> PICK u : u = Referring(t, target)
  OBVIOUS
<1>0. IsTable(t)
  BY DEF Sound
<1>1. DOMAIN u = DOMAIN t /\ \A i \in DOMAIN t : u[i] = IF i \in DOMAIN target THEN Reference(target[i]) ELSE t[i]
  BY DEF Referring
<1>2. ASSUME NEW i \in DOMAIN t PROVE Fine(t, u, i)
  <2>1. CASE i \in DOMAIN target
    BY <1>1, <2>1, NewReference DEF Fine
  <2>2. CASE i \notin DOMAIN target
    BY <1>0, <1>1, <2>2, SameIsFine
  <2> QED
    BY <2>1, <2>2
<1>3. IsTable(u)
  BY <1>0, <1>1, <1>2, TableStep
<1>4. ASSUME NEW P, Layered(t, P) PROVE Layered(u, P) /\ (Direct(t, P) => Direct(u, P))
  <2>1. \A i \in DOMAIN target : i \in DOMAIN t /\ i \notin P
    BY <1>4 DEF Layered, IsSimpleReference
  <2>2. \A i \in DOMAIN target : target[i] \notin P
    BY <1>0, <1>4, <2>1, Below
  <2>3. ASSUME NEW i \in DOMAIN u
        PROVE  /\ u[i].kind \in Groups => i \in P
               /\ i \in P => u[i].kind \in Groups \/ (IsSimpleReference(u[i]) /\ u[i].to \in P)
               /\ i \notin P => Parts(u[i]) \cap P = {}
    <3>1. CASE i \in DOMAIN target
      <4>1. u[i] = Reference(target[i]) /\ i \notin P /\ target[i] \notin P
        BY <1>1, <2>1, <2>2, <3>1
      <4>2. u[i].kind = "reference" /\ Parts(u[i]) = {target[i]}
        BY <4>1, NewReference
      <4> QED
        BY <4>1, <4>2, GroupsAre
    <3>2. CASE i \notin DOMAIN target
      BY <1>1, <1>4, <3>2 DEF Layered
    <3> QED
      BY <3>1, <3>2
  <2>4. ASSUME NEW i \in DOMAIN u, u[i].kind = "complex", u[i].content \in P, Direct(t, P)
        PROVE  u[u[i].content].kind \in Groups
    <3>1. u[i] = t[i]
      BY <1>1, <2>4, NewReference
    <3>2. t[t[i].content].kind \in Groups /\ t[i].content \in DOMAIN t /\ t[i].content \notin DOMAIN target
      BY <1>1, <1>4, <2>1, <2>4, <3>1 DEF Direct, Layered
    <3> QED
      BY <1>1, <3>1, <3>2
  <2> QED
    BY <1>1, <1>4, <2>3, <2>4 DEF Layered, Direct
<1>5. Layers(t, u)
  BY <1>4 DEF Layers
<1> QED
  BY <1>3, <1>5, ReferringSound

\* remove_empty_enums refers to the base of an enumeration, a part of it.
LEMMA EmptyEnumsStep ==
  ASSUME TypedefsInv, RemoveEmptyEnums
  PROVE  TypedefsInv' /\ Layers(types, types')
<1> DEFINE empty == {i \in OfKind("enumeration") : types[i].variants = <<>> /\ types[i].base.of # NoIdent}
           target == [i \in empty |-> types[i].base.of]
<1>1. types' = Referring(types, target) /\ typedefs' = MapAfter(typedefs, target)
  BY DEF RemoveEmptyEnums, ToReferences, Referring, MapAfter
<1>2. DOMAIN target \subseteq DOMAIN types
  BY DEF OfKind
<1>3. ASSUME NEW i \in DOMAIN target
      PROVE  Reaches(types, i, target[i]) /\ types[i].kind \notin Groups \cup {"reference"}
  <2>1. i \in DOMAIN types /\ types[i].kind = "enumeration" /\ types[i].base.of # NoIdent
    BY DEF OfKind
  <2>2. target[i] \in Parts(types[i])
    BY <2>1, PartsOf
  <2> QED
    BY <2>1, <2>2, ReachesParts, GroupsAre DEF TypedefsInv, Sound
<1> HIDE DEF target
<1>4. Sound(Referring(types, target), MapAfter(typedefs, target)) /\ Layers(types, Referring(types, target))
  BY <1>2, <1>3, ReachingReferences DEF TypedefsInv
<1> QED
  BY <1>1, <1>4 DEF TypedefsInv

\* remove_empty_unions refers to the one member of a union, or to its base.
LEMMA EmptyUnionsStep ==
  ASSUME TypedefsInv, RemoveEmptyUnions
  PROVE  TypedefsInv' /\ Layers(types, types')
<1> DEFINE to(i) == IF types[i].members = <<>> THEN types[i].base.of ELSE types[i].members[1]
           empty == {i \in OfKind("union") : Len(types[i].members) <= 1 /\ to(i) # NoIdent}
           target == [i \in empty |-> to(i)]
<1>1. types' = Referring(types, target) /\ typedefs' = MapAfter(typedefs, target)
  BY DEF RemoveEmptyUnions, ToReferences, Referring, MapAfter
<1>2. DOMAIN target \subseteq DOMAIN types
  BY DEF OfKind
<1>3. ASSUME NEW i \in DOMAIN target
      PROVE  Reaches(types, i, target[i]) /\ types[i].kind \notin Groups \cup {"reference"}
  <2>1. i \in DOMAIN types /\ types[i].kind = "union" /\ to(i) # NoIdent /\ target[i] = to(i)
    BY DEF OfKind
  <2>2. IsList(types[i].members) /\ Parts(types[i]) = ({types[i].base.of} \ {NoIdent}) \cup ToSet(types[i].members)
    BY <2>1, PartsOf, TypeOf DEF TypedefsInv, Sound, IsTable
  <2>3. types[i].members # <<>> => types[i].members[1] \in ToSet(types[i].members)
    <3>1. types[i].members \in Seq(ToSet(types[i].members))
      BY <2>2, ListIn
    <3>2. \A V : \A q \in Seq(V) : q # <<>> => q[1] \in V
      OBVIOUS
    <3> QED
      BY <3>1, <3>2
  <2>4. target[i] \in Parts(types[i])
    BY <2>1, <2>2, <2>3
  <2> QED
    BY <2>1, <2>4, ReachesParts, GroupsAre DEF TypedefsInv, Sound
<1> HIDE DEF target
<1>4. Sound(Referring(types, target), MapAfter(typedefs, target)) /\ Layers(types, Referring(types, target))
  BY <1>2, <1>3, ReachingReferences DEF TypedefsInv
<1> QED
  BY <1>1, <1>4 DEF TypedefsInv

\* get_unrestricted follows the restrictions to a type that is no restriction of its kind.
LEMMA UnrestrictedReached ==
  ASSUME TypedefsInv
  PROVE  \A i \in DOMAIN types : GetUnrestricted(i) # i => Reaches(types, i, GetUnrestricted(i))
<1> PICK bases : bases = BaseMap
  OBVIOUS
<1> DEFINE S == {i \in DOMAIN bases : bases[i].by = "restriction"}
           next == [i \in S |-> bases[i].of]
           to == CHOOSE f : f = [i \in Ident |->
                   IF i \in DOMAIN bases /\ bases[i].by = "restriction" THEN f[bases[i].of] ELSE i]
<1>0. IsTable(types) /\ DOMAIN types \subseteq Ident
  BY DEF TypedefsInv, Sound
<1>1. \A i \in DOMAIN bases : i \in DOMAIN types /\ bases[i].of \in Parts(types[i])
  <2> SUFFICES ASSUME NEW i \in DOMAIN bases PROVE i \in DOMAIN types /\ bases[i].of \in Parts(types[i])
    OBVIOUS
  <2>1. /\ i \in DOMAIN types
        /\ bases[i] = IF types[i].kind = "simple" THEN Base("restriction", types[i].base) ELSE types[i].base
        /\ \/ types[i].kind = "simple"
           \/ types[i].kind \in {"enumeration", "union", "complex"} /\ types[i].base.of # NoIdent
    BY DEF BaseMap
  <2>2. \A by : Base(by, types[i].base).of = types[i].base
    BY DEF Base
  <2>3. CASE types[i].kind = "simple"
    <3>1. Parts(types[i]) = {types[i].base}
      BY <2>3, PartsOf
    <3>2. bases[i].of = types[i].base
      BY Zenon, <2>1, <2>2, <2>3
    <3> QED
      BY <2>1, <3>1, <3>2
  <2>4. CASE types[i].kind \in {"enumeration", "complex"}
    BY <2>1, <2>4, PartsOf
  <2>5. CASE types[i].kind = "union"
    BY <2>1, <2>5, PartsOf
  <2> QED
    BY <2>1, <2>3, <2>4, <2>5
<1>2. \A i \in S : i \in DOMAIN types /\ next[i] \in Parts(types[i]) /\ next[i] = bases[i].of
  BY <1>1
<1>3. Chain(Ident, S, next)
  <2>1. S \subseteq DOMAIN types /\ S \in SUBSET Ident
    BY <1>0, <1>2
  <2>2. next \in [S -> Ident]
    BY <1>0, <1>2 DEF IsTable
  <2>3. ASSUME NEW T \in SUBSET S, T # {} PROVE \E i \in T : next[i] \notin T
    <3>1. T \in SUBSET DOMAIN types
      BY <2>1
    <3>2. PICK i \in T : Parts(types[i]) \cap T = {}
      BY <1>0, <2>3, <3>1 DEF IsTable
    <3> QED
      BY <1>2, <3>2
  <2> QED
    BY <2>1, <2>2, <2>3 DEF Chain
<1>4. PICK f : /\ f = [i \in Ident |-> f[i]]
               /\ \A i \in Ident : f[i] = IF i \in S THEN f[next[i]] ELSE i
  <2> HIDE DEF S, next
  <2> QED
    BY <1>3, Follow
<1>5. f = [i \in Ident |-> IF i \in DOMAIN bases /\ bases[i].by = "restriction" THEN f[bases[i].of] ELSE i]
  BY <1>2, <1>4
<1>6. to = [i \in Ident |-> IF i \in DOMAIN bases /\ bases[i].by = "restriction" THEN to[bases[i].of] ELSE i]
  BY <1>5
<1>7. \A i : GetUnrestricted(i) = to[i]
  BY DEF GetUnrestricted
<1> HIDE DEF to
<1>8. \A i \in Ident : to[i] = IF i \in S THEN to[next[i]] ELSE i
  BY <1>2, <1>6
<1>9. ASSUME NEW i \in DOMAIN types, to[i] # i PROVE Reaches(types, i, to[i])
  <2>1. i \in S /\ to[i] = to[next[i]] /\ next[i] \in Parts(types[i])
    BY <1>0, <1>2, <1>8, <1>9
  <2>2. ASSUME NEW X, Closed(types, X), Parts(types[i]) \subseteq X PROVE to[i] \in X
    <3>1. X \in SUBSET Ident /\ next[i] \in X /\ \A x \in X : x \in S => next[x] \in X
      BY <1>0, <1>2, <2>1, <2>2 DEF Closed
    <3> HIDE DEF S, next
    <3>2. to[next[i]] \in X
      BY <1>3, <1>8, <3>1, FollowEnds
    <3> QED
      BY <2>1, <3>2
  <2>3. to[i] \in DOMAIN types
    <3>1. Closed(types, DOMAIN types) /\ Parts(types[i]) \subseteq DOMAIN types
      BY <1>0 DEF Closed, IsTable
    <3> QED
      BY <2>2, <3>1
  <2> QED
    BY <2>2, <2>3 DEF Reaches
<1> QED
  BY <1>7, <1>9

\* use_unrestricted_base_type refers to a base of a base.
LEMMA UnrestrictedStep ==
  ASSUME TypedefsInv, UseUnrestrictedBaseType
  PROVE  TypedefsInv' /\ Layers(types, types')
<1> DEFINE wanted == {i \in DOMAIN types :
                      /\ types[i].kind \in DOMAIN UnrestrictedFlags
                      /\ UnrestrictedFlags[types[i].kind] \in flags
                      /\ types[i].kind = "simple" => ~types[i].list}
           target == [i \in {j \in wanted : GetUnrestricted(j) # j} |-> GetUnrestricted(i)]
<1>1. types' = Referring(types, target) /\ typedefs' = MapAfter(typedefs, target)
  BY DEF UseUnrestrictedBaseType, ToReferences, Referring, MapAfter
<1>2. \A i \in DOMAIN target : /\ i \in DOMAIN types /\ GetUnrestricted(i) # i /\ target[i] = GetUnrestricted(i)
                              /\ types[i].kind \notin Groups \cup {"reference"}
  BY GroupsAre DEF UnrestrictedFlags
<1> HIDE DEF target
<1>3. Sound(Referring(types, target), MapAfter(typedefs, target)) /\ Layers(types, Referring(types, target))
  BY <1>2, UnrestrictedReached, ReachingReferences DEF TypedefsInv
<1> QED
  BY <1>1, <1>3 DEF TypedefsInv

-----------------------------------------------------------------------------
(* Types whose identifiers are replaced.                                   *)

MappedTo(to, t) == Mapped(t, LAMBDA i : to[i])
SomeTo(to, i) == IF i = NoIdent THEN NoIdent ELSE to[i]
BaseTo(to, b) == [b EXCEPT !.of = SomeTo(to, b.of)]
ListTo(to, s) == [k \in DOMAIN s |-> to[s[k]]]
EachTo(to, s) == [k \in DOMAIN s |-> [s[k] EXCEPT !.to = SomeTo(to, s[k].to)]]

\* Identifiers of a type replaced, kind by kind.
LEMMA MappedToIs ==
  ASSUME NEW t, NEW to
  PROVE  /\ t.kind = "reference" => MappedTo(to, t) = [t EXCEPT !.to = to[t.to]]
         /\ t.kind = "enumeration" =>
              MappedTo(to, t) = [t EXCEPT !.base = BaseTo(to, t.base), !.variants = EachTo(to, t.variants)]
         /\ t.kind = "union" =>
              MappedTo(to, t) = [t EXCEPT !.base = BaseTo(to, t.base), !.members = ListTo(to, t.members)]
         /\ t.kind = "simple" => MappedTo(to, t) = [t EXCEPT !.base = to[t.base]]
         /\ t.kind = "dynamic" =>
              MappedTo(to, t) = [t EXCEPT !.of = SomeTo(to, t.of), !.derived = ListTo(to, t.derived)]
         /\ t.kind \in Groups => MappedTo(to, t) = [t EXCEPT !.elements = EachTo(to, t.elements)]
         /\ t.kind = "complex" =>
              MappedTo(to, t) = [t EXCEPT !.base = BaseTo(to, t.base), !.content = SomeTo(to, t.content)]
         /\ t.kind = "buildin" => MappedTo(to, t) = t
<1>1. t.kind = "reference" => MappedTo(to, t) = [t EXCEPT !.to = to[t.to]]
  BY DEF MappedTo, Mapped, Groups
<1>2. t.kind = "enumeration" =>
        MappedTo(to, t) = [t EXCEPT !.base = BaseTo(to, t.base), !.variants = EachTo(to, t.variants)]
  BY DEF MappedTo, Mapped, Groups, BaseTo, EachTo, SomeTo
<1>3. t.kind = "union" =>
        MappedTo(to, t) = [t EXCEPT !.base = BaseTo(to, t.base), !.members = ListTo(to, t.members)]
  BY DEF MappedTo, Mapped, Groups, BaseTo, ListTo, SomeTo
<1>4. t.kind = "simple" => MappedTo(to, t) = [t EXCEPT !.base = to[t.base]]
  BY DEF MappedTo, Mapped, Groups
<1>5. t.kind = "dynamic" =>
        MappedTo(to, t) = [t EXCEPT !.of = SomeTo(to, t.of), !.derived = ListTo(to, t.derived)]
  BY DEF MappedTo, Mapped, Groups, ListTo, SomeTo
<1>6. t.kind \in Groups => MappedTo(to, t) = [t EXCEPT !.elements = EachTo(to, t.elements)]
  BY DEF MappedTo, Mapped, Groups, EachTo, SomeTo
<1>7. t.kind = "complex" =>
        MappedTo(to, t) = [t EXCEPT !.base = BaseTo(to, t.base), !.content = SomeTo(to, t.content)]
  BY DEF MappedTo, Mapped, Groups, BaseTo, SomeTo
<1>8. t.kind = "buildin" => MappedTo(to, t) = t
  BY DEF MappedTo, Mapped, Groups
<1> QED
  BY <1>1, <1>2, <1>3, <1>4, <1>5, <1>6, <1>7, <1>8

\* Those of a base.
LEMMA BaseToIs ==
  ASSUME NEW to, NEW b, IsBase(b)
  PROVE  IsBase(BaseTo(to, b)) /\ BaseTo(to, b).of = SomeTo(to, b.of)
<1>1. b = [by |-> b.by, of |-> b.of]
  BY DEF IsBase, Base
<1>2. BaseTo(to, b) = [by |-> b.by, of |-> SomeTo(to, b.of)]
  BY <1>1 DEF BaseTo
<1>3. BaseTo(to, b).by = b.by /\ BaseTo(to, b).of = SomeTo(to, b.of)
  BY <1>2
<1> QED
  BY <1>2, <1>3 DEF IsBase, Base

\* Those in a list.
LEMMA ListToIs ==
  ASSUME NEW to, NEW s, IsList(s)
  PROVE  IsList(ListTo(to, s)) /\ ToSet(ListTo(to, s)) = {to[c] : c \in ToSet(s)}
<1> DEFINE r == ListTo(to, s)
<1>1. Len(s) \in Nat /\ DOMAIN s = 1 .. Len(s)
  BY ListShape
<1>2. DOMAIN r = DOMAIN s /\ \A k \in DOMAIN s : r[k] = to[s[k]]
  BY DEF ListTo
<1>3. r = [k \in 1 .. Len(s) |-> r[k]]
  BY <1>1 DEF ListTo
<1> HIDE DEF r
<1>4. IsList(r)
  BY <1>1, <1>3, NewList
<1>5. ToSet(r) = {r[k] : k \in DOMAIN r} /\ ToSet(s) = {s[k] : k \in DOMAIN s}
  BY DEF ToSet
<1>6. ToSet(r) = {to[c] : c \in ToSet(s)}
  BY <1>2, <1>5
<1> QED
  BY <1>4, <1>6 DEF r

\* Those in the elements of a group.
LEMMA EachToIs ==
  ASSUME NEW to, NEW s, IsList(s), \A e \in ToSet(s) : IsElement(e)
  PROVE  /\ IsList(EachTo(to, s)) /\ \A e \in ToSet(EachTo(to, s)) : IsElement(e)
         /\ (\A c \in GroupParts(s) : c # NoIdent) =>
              GroupParts(EachTo(to, s)) = {to[c] : c \in GroupParts(s)}
<1> DEFINE r == EachTo(to, s)
<1>1. Len(s) \in Nat /\ DOMAIN s = 1 .. Len(s)
  BY ListShape
<1>2. DOMAIN r = DOMAIN s /\ \A k \in DOMAIN s : r[k] = [s[k] EXCEPT !.to = SomeTo(to, s[k].to)]
  BY DEF EachTo
<1>3. r = [k \in 1 .. Len(s) |-> r[k]]
  BY <1>1 DEF EachTo
<1> HIDE DEF r
<1>4. IsList(r)
  BY <1>1, <1>3, NewList
<1>5. ToSet(r) = {r[k] : k \in DOMAIN r} /\ ToSet(s) = {s[k] : k \in DOMAIN s}
  BY DEF ToSet
<1>6. \A k \in DOMAIN s : IsElement(r[k]) /\ r[k].mode = s[k].mode /\ r[k].to = SomeTo(to, s[k].to)
  <2> SUFFICES ASSUME NEW k \in DOMAIN s
               PROVE  IsElement(r[k]) /\ r[k].mode = s[k].mode /\ r[k].to = SomeTo(to, s[k].to)
    OBVIOUS
  <2> DEFINE e == s[k]
             new == SomeTo(to, e.to)
  <2>1. IsElement(e)
    BY <1>5
  <2>2. r[k] = [e EXCEPT !.to = new]
    BY <1>2
  <2> HIDE DEF e, new
  <2>3. e = [name |-> e.name, mode |-> e.mode, to |-> e.to, min |-> e.min, max |-> e.max]
    BY <2>1 DEF IsElement, Element
  <2>4. r[k] = [name |-> e.name, mode |-> e.mode, to |-> new, min |-> e.min, max |-> e.max]
    BY <2>2, <2>3
  <2>5. r[k] = Element(e.name, e.mode, new, e.min, e.max)
    BY <2>4 DEF Element
  <2>6. IsElement(r[k]) /\ r[k].mode = e.mode /\ r[k].to = new
    BY <2>5, NewElement
  <2> QED
    BY <2>6 DEF e, new
<1>7. \A e \in ToSet(r) : IsElement(e)
  BY <1>2, <1>5, <1>6
<1>8. ASSUME \A c \in GroupParts(s) : c # NoIdent
      PROVE  GroupParts(r) = {to[c] : c \in GroupParts(s)}
  <2>1. \A d \in GroupParts(r) : \E k \in DOMAIN s : s[k].mode = "group" /\ d = SomeTo(to, s[k].to)
    BY <1>2, <1>5, <1>6 DEF GroupParts
  <2>2. \A k \in DOMAIN s : s[k].mode = "group" => SomeTo(to, s[k].to) \in GroupParts(r)
    <3> TAKE k \in DOMAIN s
    <3> HAVE s[k].mode = "group"
    <3>1. r[k] \in ToSet(r) /\ r[k].mode = "group" /\ r[k].to = SomeTo(to, s[k].to)
      BY <1>2, <1>5, <1>6
    <3> QED
      BY <3>1 DEF GroupParts
  <2>3. \A c \in GroupParts(s) : \E k \in DOMAIN s : s[k].mode = "group" /\ c = s[k].to
    BY <1>5 DEF GroupParts
  <2>4. \A k \in DOMAIN s : s[k].mode = "group" => s[k].to \in GroupParts(s)
    BY <1>5 DEF GroupParts
  <2>5. \A k \in DOMAIN s : s[k].mode = "group" => SomeTo(to, s[k].to) = to[s[k].to]
    BY <2>4, <1>8 DEF SomeTo
  <2> QED
    BY <2>1, <2>2, <2>3, <2>4, <2>5
<1> QED
  BY <1>4, <1>7, <1>8 DEF r

\* A type with its identifiers replaced has its parts replaced.
LEMMA MappedToParts ==
  ASSUME NEW t, IsType(t), NEW to, \A c \in Parts(t) : c # NoIdent /\ to[c] # NoIdent
  PROVE  /\ IsType(MappedTo(to, t)) /\ MappedTo(to, t).kind = t.kind
         /\ Parts(MappedTo(to, t)) = {to[c] : c \in Parts(t)}
         /\ t.kind = "complex" => MappedTo(to, t).content = SomeTo(to, t.content)
         /\ t.kind = "reference" =>
              /\ MappedTo(to, t).single = t.single /\ MappedTo(to, t).nillable = t.nillable
              /\ MappedTo(to, t).to = to[t.to]
<1> DEFINE u == MappedTo(to, t)
<1>1. /\ t.kind = "reference" => u = [t EXCEPT !.to = to[t.to]]
      /\ t.kind = "enumeration" =>
           u = [t EXCEPT !.base = BaseTo(to, t.base), !.variants = EachTo(to, t.variants)]
      /\ t.kind = "union" =>
           u = [t EXCEPT !.base = BaseTo(to, t.base), !.members = ListTo(to, t.members)]
      /\ t.kind = "simple" => u = [t EXCEPT !.base = to[t.base]]
      /\ t.kind = "dynamic" =>
           u = [t EXCEPT !.of = SomeTo(to, t.of), !.derived = ListTo(to, t.derived)]
      /\ t.kind \in Groups => WithElements(t, u, EachTo(to, t.elements))
      /\ t.kind = "complex" =>
           u = [t EXCEPT !.base = BaseTo(to, t.base), !.content = SomeTo(to, t.content)]
      /\ t.kind = "buildin" => u = t
  BY MappedToIs DEF WithElements
<1> HIDE DEF u
<1>2. \A b : b # NoIdent => SomeTo(to, b) = to[b]
  BY DEF SomeTo
<1>3. SomeTo(to, NoIdent) = NoIdent
  BY DEF SomeTo
<1>4. ASSUME IsBase(t.base), t.base.of # NoIdent => t.base.of \in Parts(t)
      PROVE  /\ IsBase(BaseTo(to, t.base))
             /\ {BaseTo(to, t.base).of} \ {NoIdent} = {to[c] : c \in {t.base.of} \ {NoIdent}}
  <2>1. IsBase(BaseTo(to, t.base)) /\ BaseTo(to, t.base).of = SomeTo(to, t.base.of)
    BY <1>4, BaseToIs
  <2>2. CASE t.base.of = NoIdent
    BY <2>1, <2>2, <1>3
  <2>3. CASE t.base.of # NoIdent
    BY <2>1, <2>3, <1>2, <1>4
  <2> QED
    BY <2>2, <2>3
<1>5. CASE t.kind = "reference"
  <2>1. u = [t EXCEPT !.to = to[t.to]]
    BY <1>1, <1>5
  <2>2. /\ t = [kind |-> t.kind, to |-> t.to, single |-> t.single, nillable |-> t.nillable]
        /\ t.single \in BOOLEAN /\ t.nillable \in BOOLEAN
    BY <1>5, TypeOf
  <2>3. u = [kind |-> t.kind, to |-> to[t.to], single |-> t.single, nillable |-> t.nillable]
    BY <2>1, <2>2
  <2>4. u.kind = t.kind /\ u.to = to[t.to] /\ u.single = t.single /\ u.nillable = t.nillable
    BY <2>3
  <2>5. u = [kind |-> u.kind, to |-> u.to, single |-> u.single, nillable |-> u.nillable]
    BY <2>3, <2>4
  <2>6. IsType(u)
    BY <1>5, <2>2, <2>4, <2>5 DEF IsType, Groups
  <2>7. IsSimpleReference(u) <=> IsSimpleReference(t)
    BY <2>4 DEF IsSimpleReference
  <2>8. Parts(u) = {to[c] : c \in Parts(t)}
    BY <1>5, <2>4, <2>7, PartsOf
  <2> QED
    BY <1>5, <2>4, <2>6, <2>8 DEF u
<1>6. CASE t.kind = "enumeration"
  <2> DEFINE v == EachTo(to, t.variants)
             b == BaseTo(to, t.base)
  <2>1. u = [t EXCEPT !.base = b, !.variants = v]
    BY <1>1, <1>6
  <2>2. t = Enumeration(t.base, t.variants) /\ IsBase(t.base)
    BY <1>6, TypeOf
  <2>3. Parts(t) = {t.base.of} \ {NoIdent}
    BY <1>6, PartsOf
  <2>4. IsBase(b) /\ {b.of} \ {NoIdent} = {to[c] : c \in {t.base.of} \ {NoIdent}}
    BY <1>4, <2>2, <2>3
  <2> HIDE DEF v, b
  <2>5. t = [kind |-> t.kind, base |-> t.base, variants |-> t.variants]
    BY <2>2 DEF Enumeration
  <2>6. u = [kind |-> t.kind, base |-> b, variants |-> v]
    BY <2>1, <2>5
  <2>7. u = Enumeration(b, v)
    BY <1>6, <2>6 DEF Enumeration
  <2>8. IsType(u) /\ u.kind = "enumeration" /\ Parts(u) = {b.of} \ {NoIdent}
    <3>1. IsType(Enumeration(b, v)) /\ Parts(Enumeration(b, v)) = {b.of} \ {NoIdent} /\ Enumeration(b, v).kind = "enumeration"
      BY <2>4, NewEnumeration
    <3> QED
      BY <3>1, <2>7
  <2> QED
    BY <1>6, <2>3, <2>4, <2>8 DEF u
<1>7. CASE t.kind = "union"
  <2> DEFINE m == ListTo(to, t.members)
             b == BaseTo(to, t.base)
  <2>1. u = [t EXCEPT !.base = b, !.members = m]
    BY <1>1, <1>7
  <2>2. t = Union(t.base, t.members, t.facet) /\ IsBase(t.base) /\ IsList(t.members)
    BY <1>7, TypeOf
  <2>3. Parts(t) = ({t.base.of} \ {NoIdent}) \cup ToSet(t.members)
    BY <1>7, PartsOf
  <2>4. IsBase(b) /\ {b.of} \ {NoIdent} = {to[c] : c \in {t.base.of} \ {NoIdent}}
    BY <1>4, <2>2, <2>3
  <2>5. IsList(m) /\ ToSet(m) = {to[c] : c \in ToSet(t.members)}
    BY <2>2, ListToIs
  <2> HIDE DEF m, b
  <2>6. t = [kind |-> t.kind, base |-> t.base, members |-> t.members, facet |-> t.facet]
    BY <2>2 DEF Union
  <2>7. u = [kind |-> t.kind, base |-> b, members |-> m, facet |-> t.facet]
    BY <2>1, <2>6
  <2>8. u = Union(b, m, t.facet)
    BY <1>7, <2>7 DEF Union
  <2>9. IsType(u) /\ u.kind = "union" /\ Parts(u) = ({b.of} \ {NoIdent}) \cup ToSet(m)
    <3>1. /\ IsType(Union(b, m, t.facet)) /\ Union(b, m, t.facet).kind = "union"
          /\ Parts(Union(b, m, t.facet)) = ({b.of} \ {NoIdent}) \cup ToSet(m)
      BY <2>4, <2>5, NewUnion
    <3> QED
      BY <3>1, <2>8
  <2>10. Parts(u) = {to[c] : c \in Parts(t)}
    BY <2>3, <2>4, <2>5, <2>9
  <2> QED
    BY <1>7, <2>9, <2>10 DEF u
<1>8. CASE t.kind = "simple"
  <2>1. u = [t EXCEPT !.base = to[t.base]]
    BY <1>1, <1>8
  <2>2. t = SimpleType(t.base, t.facet, t.list) /\ t.list \in BOOLEAN
    BY <1>8, TypeOf
  <2>3. t = [kind |-> t.kind, base |-> t.base, facet |-> t.facet, list |-> t.list]
    BY <1>8, <2>2 DEF SimpleType
  <2>4. u = [kind |-> t.kind, base |-> to[t.base], facet |-> t.facet, list |-> t.list]
    BY <2>1, <2>3
  <2>5. u.kind = "simple" /\ u.base = to[t.base] /\ u.facet = t.facet /\ u.list = t.list
    BY <1>8, <2>4
  <2>6. u = SimpleType(u.base, u.facet, u.list)
    BY <1>8, <2>4, <2>5 DEF SimpleType
  <2>7. IsType(u)
    BY <2>2, <2>5, <2>6 DEF IsType, Groups
  <2>8. Parts(u) = {to[c] : c \in Parts(t)}
    BY <1>8, <2>5, PartsOf
  <2> QED
    BY <1>8, <2>5, <2>7, <2>8 DEF u
<1>9. CASE t.kind = "dynamic"
  <2> DEFINE d == ListTo(to, t.derived)
             of == SomeTo(to, t.of)
  <2>1. u = [t EXCEPT !.of = of, !.derived = d]
    BY <1>1, <1>9
  <2>2. t = Dynamic(t.of, t.derived) /\ IsList(t.derived)
    BY <1>9, TypeOf
  <2>3. IsList(d) /\ ToSet(d) = {to[c] : c \in ToSet(t.derived)}
    BY <2>2, ListToIs
  <2> HIDE DEF d, of
  <2>4. t = [kind |-> t.kind, of |-> t.of, derived |-> t.derived]
    BY <2>2 DEF Dynamic
  <2>5. u = [kind |-> t.kind, of |-> of, derived |-> d]
    BY <2>1, <2>4
  <2>6. u.kind = "dynamic" /\ u.of = of /\ u.derived = d
    BY <1>9, <2>5
  <2>7. u = Dynamic(u.of, u.derived)
    BY <1>9, <2>5, <2>6 DEF Dynamic
  <2>8. IsType(u)
    BY <2>3, <2>6, <2>7 DEF IsType, Groups
  <2>9. Parts(u) = {to[c] : c \in Parts(t)}
    BY <1>9, <2>3, <2>6, PartsOf
  <2> QED
    BY <1>9, <2>6, <2>8, <2>9 DEF u
<1>10. CASE t.kind \in Groups
  <2> DEFINE r == EachTo(to, t.elements)
  <2>1. IsList(t.elements) /\ \A e \in ToSet(t.elements) : IsElement(e)
    BY <1>10, TypeOf
  <2>2. Parts(t) = GroupParts(t.elements)
    BY <1>10, PartsOf DEF GroupParts
  <2>3. IsList(r) /\ (\A e \in ToSet(r) : IsElement(e)) /\ GroupParts(r) = {to[c] : c \in Parts(t)}
    BY <2>1, <2>2, EachToIs
  <2>4. WithElements(t, u, r)
    BY <1>1, <1>10
  <2> HIDE DEF r
  <2>5. u = Group(t.kind, t.mixed, r)
    BY <1>10, <2>4, GroupSet
  <2>6. IsType(u) /\ u.kind = t.kind /\ Parts(u) = GroupParts(r)
    <3>1. /\ IsType(Group(t.kind, t.mixed, r)) /\ Group(t.kind, t.mixed, r).kind = t.kind
          /\ Parts(Group(t.kind, t.mixed, r)) = {e.to : e \in {x \in ToSet(r) : x.mode = "group"}}
      BY <1>10, <2>3, NewGroup
    <3> QED
      BY <3>1, <2>5 DEF GroupParts
  <2> QED
    BY <1>10, <2>3, <2>6, GroupsAre DEF u
<1>11. CASE t.kind = "complex"
  <2> DEFINE b == BaseTo(to, t.base)
             c == SomeTo(to, t.content)
  <2>1. u = [t EXCEPT !.base = b, !.content = c]
    BY <1>1, <1>11
  <2>2. t = ComplexType(t.base, t.content, t.min, t.max, t.mixed, t.dynamic) /\ IsBase(t.base)
    BY <1>11, TypeOf
  <2>3. Parts(t) = {t.base.of} \ {NoIdent}
    BY <1>11, PartsOf
  <2>4. IsBase(b) /\ {b.of} \ {NoIdent} = {to[d] : d \in {t.base.of} \ {NoIdent}}
    BY <1>4, <2>2, <2>3
  <2> HIDE DEF b, c
  <2>5. t = [kind |-> t.kind, base |-> t.base, content |-> t.content, min |-> t.min, max |-> t.max,
             mixed |-> t.mixed, dynamic |-> t.dynamic]
    BY <2>2 DEF ComplexType
  <2>6. u = [kind |-> t.kind, base |-> b, content |-> c, min |-> t.min, max |-> t.max,
             mixed |-> t.mixed, dynamic |-> t.dynamic]
    BY <2>1, <2>5
  <2>7. u = ComplexType(b, c, t.min, t.max, t.mixed, t.dynamic)
    BY <1>11, <2>6 DEF ComplexType
  <2>8. IsType(u) /\ Parts(u) = {b.of} \ {NoIdent} /\ u.kind = "complex" /\ u.content = c
    BY <2>4, <2>7, NewComplex
  <2> QED
    BY <1>11, <2>3, <2>4, <2>8 DEF u, c
<1>12. CASE t.kind = "buildin"
  <2>1. Parts(t) = {} /\ u = t
    BY <1>1, <1>12, PartsOf
  <2> QED
    BY <1>12, <2>1 DEF u
<1> QED
  BY <1>5, <1>6, <1>7, <1>8, <1>9, <1>10, <1>11, <1>12, TypeOf

\* The identifiers in a type.
Mentioned(t) ==
  {t.to, t.base, t.base.of, t.of, t.content} \cup ToSet(t.members) \cup ToSet(t.derived)
  \cup {e.to : e \in ToSet(t.variants) \cup ToSet(t.elements)}

MappedBy(map, t) == Mapped(t, LAMBDA i : Resolve(map, i))
MappedIn(table, t) == Mapped(t, LAMBDA i : GetResolved(table, i))

\* Every way to replace identifiers is a function on those of one type.
LEMMA MappedByIsTo ==
  ASSUME NEW map, NEW t, IsType(t), NEW to, \A i \in Mentioned(t) : to[i] = Resolve(map, i)
  PROVE  MappedBy(map, t) = MappedTo(to, t)
<1>1. /\ to[t.to] = Resolve(map, t.to) /\ to[t.base] = Resolve(map, t.base)
      /\ to[t.base.of] = Resolve(map, t.base.of)
      /\ to[t.of] = Resolve(map, t.of) /\ to[t.content] = Resolve(map, t.content)
  BY DEF Mentioned
<1>2. [k \in DOMAIN t.members |-> to[t.members[k]]] = [k \in DOMAIN t.members |-> Resolve(map, t.members[k])]
  <2>1. \A k \in DOMAIN t.members : t.members[k] \in Mentioned(t)
    BY DEF Mentioned, ToSet
  <2> QED
    BY <2>1
<1>3. [k \in DOMAIN t.derived |-> to[t.derived[k]]] = [k \in DOMAIN t.derived |-> Resolve(map, t.derived[k])]
  <2>1. \A k \in DOMAIN t.derived : t.derived[k] \in Mentioned(t)
    BY DEF Mentioned, ToSet
  <2> QED
    BY <2>1
<1>4. [k \in DOMAIN t.variants |-> [t.variants[k] EXCEPT !.to = IF t.variants[k].to = NoIdent THEN NoIdent ELSE to[t.variants[k].to]]]
      = [k \in DOMAIN t.variants |-> [t.variants[k] EXCEPT !.to = IF t.variants[k].to = NoIdent THEN NoIdent ELSE Resolve(map, t.variants[k].to)]]
  <2>1. \A k \in DOMAIN t.variants : t.variants[k].to \in Mentioned(t)
    BY DEF Mentioned, ToSet
  <2> QED
    BY <2>1
<1>5. [k \in DOMAIN t.elements |-> [t.elements[k] EXCEPT !.to = IF t.elements[k].to = NoIdent THEN NoIdent ELSE to[t.elements[k].to]]]
      = [k \in DOMAIN t.elements |-> [t.elements[k] EXCEPT !.to = IF t.elements[k].to = NoIdent THEN NoIdent ELSE Resolve(map, t.elements[k].to)]]
  <2>1. \A k \in DOMAIN t.elements : t.elements[k].to \in Mentioned(t)
    BY DEF Mentioned, ToSet
  <2> QED
    BY <2>1
<1> QED
  BY <1>1, <1>2, <1>3, <1>4, <1>5 DEF MappedBy, MappedTo, Mapped

\* A type with its identifiers resolved in the table is one with them replaced.
LEMMA MappedInIsTo ==
  ASSUME NEW table, NEW t, IsType(t), NEW to, \A i \in Mentioned(t) : to[i] = GetResolved(table, i)
  PROVE  MappedIn(table, t) = MappedTo(to, t)
<1>1. /\ to[t.to] = GetResolved(table, t.to) /\ to[t.base] = GetResolved(table, t.base)
      /\ to[t.base.of] = GetResolved(table, t.base.of)
      /\ to[t.of] = GetResolved(table, t.of) /\ to[t.content] = GetResolved(table, t.content)
  BY DEF Mentioned
<1>2. [k \in DOMAIN t.members |-> to[t.members[k]]] = [k \in DOMAIN t.members |-> GetResolved(table, t.members[k])]
  <2>1. \A k \in DOMAIN t.members : t.members[k] \in Mentioned(t)
    BY DEF Mentioned, ToSet
  <2> QED
    BY <2>1
<1>3. [k \in DOMAIN t.derived |-> to[t.derived[k]]] = [k \in DOMAIN t.derived |-> GetResolved(table, t.derived[k])]
  <2>1. \A k \in DOMAIN t.derived : t.derived[k] \in Mentioned(t)
    BY DEF Mentioned, ToSet
  <2> QED
    BY <2>1
<1>4. [k \in DOMAIN t.variants |-> [t.variants[k] EXCEPT !.to = IF t.variants[k].to = NoIdent THEN NoIdent ELSE to[t.variants[k].to]]]
      = [k \in DOMAIN t.variants |-> [t.variants[k] EXCEPT !.to = IF t.variants[k].to = NoIdent THEN NoIdent ELSE GetResolved(table, t.variants[k].to)]]
  <2>1. \A k \in DOMAIN t.variants : t.variants[k].to \in Mentioned(t)
    BY DEF Mentioned, ToSet
  <2> QED
    BY <2>1
<1>5. [k \in DOMAIN t.elements |-> [t.elements[k] EXCEPT !.to = IF t.elements[k].to = NoIdent THEN NoIdent ELSE to[t.elements[k].to]]]
      = [k \in DOMAIN t.elements |-> [t.elements[k] EXCEPT !.to = IF t.elements[k].to = NoIdent THEN NoIdent ELSE GetResolved(table, t.elements[k].to)]]
  <2>1. \A k \in DOMAIN t.elements : t.elements[k].to \in Mentioned(t)
    BY DEF Mentioned, ToSet
  <2> QED
    BY <2>1
<1> QED
  BY <1>1, <1>2, <1>3, <1>4, <1>5 DEF MappedIn, MappedTo, Mapped

\* The parts of a type are among the identifiers it mentions.
LEMMA PartsMentioned ==
  ASSUME NEW t, IsType(t)
  PROVE  Parts(t) \subseteq Mentioned(t)
<1>1. t.kind = "reference" => Parts(t) \subseteq {t.to}
  BY PartsOf
<1>2. t.kind \in Groups => Parts(t) \subseteq {e.to : e \in ToSet(t.elements)}
  BY PartsOf
<1> QED
  BY <1>1, <1>2, PartsOf, TypeOf DEF Mentioned

\* A type with its identifiers resolved has its parts resolved.
LEMMA MappedByParts ==
  ASSUME NEW t, IsType(t), NEW map, \A c \in Parts(t) : c # NoIdent /\ Resolve(map, c) # NoIdent
  PROVE  /\ IsType(MappedBy(map, t)) /\ MappedBy(map, t).kind = t.kind
         /\ Parts(MappedBy(map, t)) = {Resolve(map, c) : c \in Parts(t)}
         /\ t.kind = "complex" =>
              MappedBy(map, t).content = IF t.content = NoIdent THEN NoIdent ELSE Resolve(map, t.content)
         /\ t.kind = "reference" =>
              /\ MappedBy(map, t).single = t.single /\ MappedBy(map, t).nillable = t.nillable
              /\ MappedBy(map, t).to = Resolve(map, t.to)
<1> DEFINE to == [i \in Mentioned(t) |-> Resolve(map, i)]
<1>1. \A i \in Mentioned(t) : to[i] = Resolve(map, i)
  OBVIOUS
<1> HIDE DEF to
<1>2. MappedBy(map, t) = MappedTo(to, t)
  BY <1>1, MappedByIsTo
<1>3. \A c \in Parts(t) : to[c] = Resolve(map, c)
  BY <1>1, PartsMentioned
<1>4. to[t.content] = Resolve(map, t.content) /\ to[t.to] = Resolve(map, t.to)
  BY <1>1 DEF Mentioned
<1>5. \A c \in Parts(t) : c # NoIdent /\ to[c] # NoIdent
  BY <1>3
<1>6. /\ IsType(MappedTo(to, t)) /\ MappedTo(to, t).kind = t.kind
      /\ Parts(MappedTo(to, t)) = {to[c] : c \in Parts(t)}
      /\ t.kind = "complex" => MappedTo(to, t).content = SomeTo(to, t.content)
      /\ t.kind = "reference" =>
           /\ MappedTo(to, t).single = t.single /\ MappedTo(to, t).nillable = t.nillable
           /\ MappedTo(to, t).to = to[t.to]
  BY <1>5, MappedToParts
<1>7. {to[c] : c \in Parts(t)} = {Resolve(map, c) : c \in Parts(t)}
  BY <1>3
<1>8. SomeTo(to, t.content) = IF t.content = NoIdent THEN NoIdent ELSE Resolve(map, t.content)
  BY <1>4 DEF SomeTo
<1> QED
  BY <1>2, <1>4, <1>6, <1>7, <1>8

\* Types that are equal have the same parts, once these are resolved.
LEMMA SameParts ==
  ASSUME NEW table, NEW s, IsType(s), NEW t, IsType(t), MappedIn(table, s) = MappedIn(table, t),
         \A c \in Parts(s) \cup Parts(t) : c # NoIdent /\ GetResolved(table, c) # NoIdent
  PROVE  {GetResolved(table, c) : c \in Parts(s)} = {GetResolved(table, c) : c \in Parts(t)}
<1>1. ASSUME NEW r, IsType(r), \A c \in Parts(r) : c # NoIdent /\ GetResolved(table, c) # NoIdent
      PROVE  Parts(MappedIn(table, r)) = {GetResolved(table, c) : c \in Parts(r)}
  <2> DEFINE to == [i \in Mentioned(r) |-> GetResolved(table, i)]
  <2>1. \A i \in Mentioned(r) : to[i] = GetResolved(table, i)
    OBVIOUS
  <2> HIDE DEF to
  <2>2. MappedIn(table, r) = MappedTo(to, r)
    BY <1>1, <2>1, MappedInIsTo
  <2>3. \A c \in Parts(r) : to[c] = GetResolved(table, c)
    BY <1>1, <2>1, PartsMentioned
  <2>4. \A c \in Parts(r) : c # NoIdent /\ to[c] # NoIdent
    BY <1>1, <2>3
  <2>5. Parts(MappedTo(to, r)) = {to[c] : c \in Parts(r)}
    BY <1>1, <2>4, MappedToParts
  <2> QED
    BY <2>2, <2>3, <2>5
<1> QED
  BY <1>1

-----------------------------------------------------------------------------
(* The passes that keep the references.                                    *)

NamedVariants(variants) == SelectSeq(variants, LAMBDA v : v.name # "")

\* remove_empty_enum_variants keeps the base of an enumeration.
LEMMA EmptyVariantsStep ==
  ASSUME TypedefsInv, RemoveEmptyEnumVariants
  PROVE  TypedefsInv' /\ Layers(types, types')
<1>0. IsTable(types) /\ DOMAIN types \subseteq Ident
  BY DEF TypedefsInv, Sound
<1>1. /\ DOMAIN types' = DOMAIN types
      /\ \A i \in DOMAIN types :
           IF types[i].kind = "enumeration"
           THEN types'[i] = [types[i] EXCEPT !.variants = NamedVariants(types[i].variants)]
           ELSE types'[i] = types[i]
  BY DEF RemoveEmptyEnumVariants, NamedVariants
<1>2. ASSUME NEW i \in DOMAIN types, types[i].kind = "enumeration"
      PROVE  /\ Fine(types, types', i) /\ types'[i].kind = "enumeration"
  <2> DEFINE t == types[i]
             u == types'[i]
             v == NamedVariants(t.variants)
  <2>1. u = [t EXCEPT !.variants = v]
    BY <1>1, <1>2
  <2>2. IsType(t) /\ t.kind = "enumeration"
    BY <1>0, <1>2 DEF IsTable
  <2> HIDE DEF t, u, v
  <2>3. t = Enumeration(t.base, t.variants) /\ IsBase(t.base)
    BY <2>2, TypeOf
  <2>4. t = [kind |-> "enumeration", base |-> t.base, variants |-> t.variants]
    BY <2>3 DEF Enumeration
  <2>5. u = [kind |-> "enumeration", base |-> t.base, variants |-> v]
    BY <2>1, <2>4
  <2>6. u = Enumeration(t.base, v)
    BY <2>5 DEF Enumeration
  <2>7. /\ IsType(Enumeration(t.base, v)) /\ Parts(Enumeration(t.base, v)) = {t.base.of} \ {NoIdent}
        /\ Enumeration(t.base, v).kind = "enumeration"
    BY <2>3, NewEnumeration
  <2>8. Parts(u) = Parts(t)
    BY <2>2, <2>6, <2>7, PartsOf
  <2>9. IsType(u) /\ u.kind = "enumeration"
    BY <2>6, <2>7
  <2>10. \A c \in Parts(u) : Reaches(types, i, c)
    BY <1>0, <2>8, ReachesParts DEF t
  <2> QED
    BY <2>9, <2>10 DEF Fine, u
<1>3. Kept(types, types')
  <2>1. \A i \in DOMAIN types : types[i].kind = "enumeration" => SameLayer(types[i], types'[i])
    BY <1>2, GroupsAre DEF SameLayer, IsSimpleReference
  <2> QED
    BY <1>0, <1>1, <1>2, <2>1, ManyChanged
<1>4. Sound(types', typedefs) /\ Layers(types, types')
  BY <1>3, KeptSound DEF TypedefsInv, Kept, Grown
<1> QED
  BY <1>4 DEF TypedefsInv, RemoveEmptyEnumVariants

\* remove_duplicate_union_variants keeps members of a union.
LEMMA DuplicateVariantsStep ==
  ASSUME TypedefsInv, RemoveDuplicateUnionVariants
  PROVE  TypedefsInv' /\ Layers(types, types')
<1>0. IsTable(types) /\ DOMAIN types \subseteq Ident
  BY DEF TypedefsInv, Sound
<1>1. /\ DOMAIN types' = DOMAIN types
      /\ \A i \in DOMAIN types :
           IF types[i].kind = "union"
           THEN types'[i] = [types[i] EXCEPT !.members = FirstMembers(Typedefs, types[i].members)]
           ELSE types'[i] = types[i]
  BY DEF RemoveDuplicateUnionVariants, FirstMembers
<1>2. ASSUME NEW i \in DOMAIN types, types[i].kind = "union"
      PROVE  /\ Fine(types, types', i) /\ types'[i].kind = "union"
  <2> DEFINE t == types[i]
             u == types'[i]
             m == FirstMembers(Typedefs, t.members)
  <2>1. u = [t EXCEPT !.members = m]
    BY <1>1, <1>2
  <2>2. IsType(t) /\ t.kind = "union"
    BY <1>0, <1>2 DEF IsTable
  <2>3. t = Union(t.base, t.members, t.facet) /\ IsBase(t.base) /\ IsList(t.members)
    BY <2>2, TypeOf
  <2>4. IsList(m) /\ ToSet(m) \subseteq ToSet(t.members)
    BY <2>3, FirstMembersList
  <2> HIDE DEF t, u, m
  <2>5. t = [kind |-> "union", base |-> t.base, members |-> t.members, facet |-> t.facet]
    BY <2>3 DEF Union
  <2>6. u = [kind |-> "union", base |-> t.base, members |-> m, facet |-> t.facet]
    BY <2>1, <2>5
  <2>7. u = Union(t.base, m, t.facet)
    BY <2>6 DEF Union
  <2>8. /\ IsType(Union(t.base, m, t.facet)) /\ Union(t.base, m, t.facet).kind = "union"
        /\ Parts(Union(t.base, m, t.facet)) = ({t.base.of} \ {NoIdent}) \cup ToSet(m)
    BY <2>3, <2>4, NewUnion
  <2>9. Parts(u) \subseteq Parts(t)
    BY <2>2, <2>4, <2>7, <2>8, PartsOf
  <2>10. IsType(u) /\ u.kind = "union"
    BY <2>7, <2>8
  <2>11. \A c \in Parts(u) : Reaches(types, i, c)
    BY <1>0, <2>9, ReachesParts DEF t
  <2> QED
    BY <2>10, <2>11 DEF Fine, u
<1>3. Kept(types, types')
  <2>1. \A i \in DOMAIN types : types[i].kind = "union" => SameLayer(types[i], types'[i])
    BY <1>2, GroupsAre DEF SameLayer, IsSimpleReference
  <2> QED
    BY <1>0, <1>1, <1>2, <2>1, ManyChanged
<1>4. Sound(types, Typedefs)
  BY <1>0, NewMapFits DEF TypedefsInv, Sound, Typedefs
<1>5. Sound(types', Typedefs)
  BY <1>3, <1>4, KeptSound
<1> QED
  BY <1>3, <1>5 DEF TypedefsInv, RemoveDuplicateUnionVariants, Kept, Grown

\* What a pass goes through is a list of the types there are.
LEMMA OnesInOrder ==
  ASSUME TypedefsInv, NEW S \in SUBSET DOMAIN types
  PROVE  IsList(InOrder(S)) /\ ToSet(InOrder(S)) = S /\ IsInjective(InOrder(S))
<1>1. S \subseteq Ident
  BY DEF TypedefsInv, Sound
<1>2. S \in SUBSET Nat /\ IsFiniteSet(S)
  BY <1>1, IdentAssumption, FS_Subset
<1> QED
  BY <1>2, InOrderList

\* The passes over unions.
LEMMA FlattenUnionsStep ==
  ASSUME TypedefsInv, FlattenUnions
  PROVE  TypedefsInv' /\ Layers(types, types')
<1> DEFINE s == InOrder(OfKind("union"))
<1>1. OfKind("union") \in SUBSET DOMAIN types
  BY DEF OfKind
<1>2. types' = UnionFolded(types, s) /\ typedefs' = typedefs
  BY DEF FlattenUnions, UnionFolded
<1>3. IsList(s) /\ \A i \in ToSet(s) : i \in DOMAIN types /\ types[i].kind = "union"
  BY <1>1, OnesInOrder DEF OfKind
<1> HIDE DEF s
<1>4. Kept(types, UnionFolded(types, s))
  BY <1>3, UnionsKept DEF TypedefsInv, Sound
<1> QED
  BY <1>2, <1>4, KeptSound DEF TypedefsInv, Kept, Grown

\* ... and the one that makes enumerations of some.
LEMMA MergeUnionsStep ==
  ASSUME TypedefsInv, MergeEnumUnions
  PROVE  TypedefsInv' /\ Layers(types, types')
<1> DEFINE s == InOrder(OfKind("union"))
<1>1. OfKind("union") \in SUBSET DOMAIN types
  BY DEF OfKind
<1>2. types' = EnumUnionFolded(types, s) /\ typedefs' = typedefs
  BY DEF MergeEnumUnions, EnumUnionFolded
<1>3. IsList(s) /\ \A i \in ToSet(s) : i \in DOMAIN types /\ types[i].kind = "union"
  BY <1>1, OnesInOrder DEF OfKind
<1> HIDE DEF s
<1>4. Kept(types, EnumUnionFolded(types, s))
  BY <1>3, EnumUnionsKept DEF TypedefsInv, Sound
<1> QED
  BY <1>2, <1>4, KeptSound DEF TypedefsInv, Kept, Grown

\* The pass over dynamic types.
LEMMA ConvertDynamicsStep ==
  ASSUME TypedefsInv, ConvertDynamicToChoice
  PROVE  TypedefsInv' /\ Layers(types, types')
<1> DEFINE s == InOrder(OfKind("dynamic"))
<1>1. OfKind("dynamic") \in SUBSET DOMAIN types /\ OfKind("dynamic") = DynamicOnes(types)
  BY DEF OfKind, DynamicOnes
<1>2. types' = DynamicFolded(types, s) /\ typedefs' = typedefs
  BY DEF ConvertDynamicToChoice, DynamicFolded
<1>3. IsList(s) /\ IsInjective(s) /\ ToSet(s) = DynamicOnes(types)
  BY <1>1, OnesInOrder
<1> HIDE DEF s
<1>4. Grown(types, DynamicFolded(types, s)) /\ DynamicOnes(DynamicFolded(types, s)) = {}
  BY <1>3, DynamicsGrown DEF TypedefsInv, Sound
<1> QED
  BY <1>2, <1>4, GrownSound DEF TypedefsInv, Grown

\* A complex type with a group for content has its content in the table.
LEMMA ContentIsThere ==
  ASSUME TypedefsInv, NEW kinds, NEW S,
         \A i \in S : i \in DOMAIN types /\ HasContent(types, types[i], kinds)
  PROVE  Contents(types, S)
BY DEF TypedefsInv, Sound, IsTable, HasContent, Contents

\* The passes over complex types.
LEMMA FlattenComplexTypesStep ==
  ASSUME TypedefsInv, FlattenComplexTypes
  PROVE  TypedefsInv' /\ Layers(types, types')
<1> DEFINE complex == {i \in DOMAIN types : HasContent(types, types[i], Groups)}
           s == InOrder(complex)
<1>1. types' = ComplexFolded(types, s) /\ typedefs' = typedefs
  BY DEF FlattenComplexTypes, ComplexFolded
<1>2. IsList(s) /\ ToSet(s) = complex
  BY OnesInOrder
<1>3. Contents(types, ToSet(s))
  BY <1>2, ContentIsThere
<1> HIDE DEF s
<1>4. Kept(types, ComplexFolded(types, s))
  BY <1>2, <1>3, ComplexesKept DEF TypedefsInv, Sound
<1> QED
  BY <1>1, <1>4, KeptSound DEF TypedefsInv, Kept, Grown

\* What leads to a group is a group or a reference to one.
LEMMA GroupsResolved ==
  ASSUME NEW t, IsTable(t), NEW P, Layered(t, P)
  PROVE  \A c \in DOMAIN t : GetResolved(t, c) \in P <=> c \in P
<1>1. \A i \in Refs(t) : i \in DOMAIN t /\ t[i].to \in DOMAIN t /\ Parts(t[i]) = {t[i].to}
  BY RefsChain DEF Refs
<1>2. \A i \in DOMAIN t : GetResolved(t, i) = IF i \in Refs(t) THEN GetResolved(t, t[i].to) ELSE i
  BY Resolved
<1>3. ASSUME NEW c \in DOMAIN t, c \notin P PROVE GetResolved(t, c) \notin P
  <2>1. CASE c \in Refs(t)
    <3>1. Reaches(t, c, GetResolved(t, t[c].to))
      BY <1>1, <2>1, ResolvedReached
    <3> QED
      BY <1>2, <1>3, <2>1, <3>1, Below
  <2>2. CASE c \notin Refs(t)
    BY <1>2, <1>3, <2>2
  <2> QED
    BY <2>1, <2>2
<1>4. {c \in P : GetResolved(t, c) \notin P} = {}
  <2> DEFINE S == {c \in P : GetResolved(t, c) \notin P}
  <2> SUFFICES ASSUME S # {} PROVE FALSE
    OBVIOUS
  <2>1. S \in SUBSET DOMAIN t
    BY DEF Layered
  <2>2. PICK i \in S : Parts(t[i]) \cap S = {}
    BY <2>1 DEF IsTable
  <2>3. i \in P /\ i \in DOMAIN t /\ GetResolved(t, i) \notin P
    BY <2>1
  <2>4. i \in Refs(t)
    BY <1>2, <2>3
  <2>5. t[i].kind = "reference" /\ t[i].kind \notin Groups
    BY <2>4 DEF Refs, IsSimpleReference, Groups
  <2>6. t[i].to \in P
    BY <2>3, <2>5 DEF Layered
  <2>7. t[i].to \in S
    BY <1>2, <2>3, <2>4, <2>6
  <2> QED
    BY <1>1, <2>2, <2>4, <2>7
<1> QED
  BY <1>3, <1>4

\* The content of a complex type is what the passes unwrap, if it is no reference.
LEMMA DirectContent ==
  ASSUME TypedefsInv, NEW P, Layered(types, P), Direct(types, P),
         NEW kinds \in SUBSET Groups, NEW i \in DOMAIN types, HasContent(types, types[i], kinds)
  PROVE  ContentMeta(types, types[i]) = types[i].content
<1> DEFINE c == types[i].content
<1>1. IsTable(types) /\ types[i].kind = "complex" /\ c # NoIdent
  BY DEF TypedefsInv, Sound, HasContent
<1>2. c \in DOMAIN types
  BY <1>1 DEF IsTable
<1>3. ContentMeta(types, types[i]) = GetResolved(types, c)
  BY <1>1 DEF ContentMeta
<1>4. GetResolved(types, c) \in DOMAIN types /\ types[GetResolved(types, c)].kind \in Groups
  BY <1>1, <1>2, <1>3, ResolvedIn DEF HasContent
<1>5. c \in P
  BY <1>1, <1>2, <1>4, GroupsResolved DEF Layered
<1>6. types[c].kind \in Groups
  BY <1>1, <1>2, <1>5 DEF Direct
<1>7. c \notin Refs(types)
  BY <1>6, GroupsAre DEF Refs, IsSimpleReference
<1> QED
  BY <1>1, <1>2, <1>3, <1>7, Resolved

\* A pass that fails leaves everything as it is.
LEMMA PassedStep ==
  ASSUME TypedefsInv, NEW S, NEW r, Passed(types, S, r), EndsWith(r)
  PROVE  TypedefsInv' /\ Layers(types, types') /\ IF r.ok THEN Leave ELSE Panic
<1>0. IF r.ok THEN Leave ELSE Panic
  BY DEF EndsWith
<1>1. CASE r = Bad
  <2>1. ~ r.ok
    BY <1>1 DEF Bad
  <2> QED
    BY <2>1, LayersSelf DEF EndsWith, Panic, TypedefsInv
<1>2. CASE r = Good(r.types) /\ Kept(types, r.types)
  <2>1. r.ok
    BY <1>2 DEF Good
  <2>2. types' = r.types /\ typedefs' = typedefs
    BY <2>1 DEF EndsWith
  <2> QED
    BY <1>0, <1>2, <2>2, KeptSound DEF TypedefsInv, Kept, Grown
<1> QED
  BY <1>0, <1>1, <1>2 DEF Passed

\* The pass can only fail if a complex type has a reference for content.
FailsIndirectly ==
  /\ Leave \/ Panic
  /\ \A P : Layered(types, P) /\ Direct(types, P) => Leave

\* ... which may report that a choice has been merged twice,
LEMMA MergeChoicesStep ==
  ASSUME TypedefsInv, MergeChoiceCardinalities
  PROVE  TypedefsInv' /\ Layers(types, types') /\ FailsIndirectly
<1> DEFINE choices == {i \in DOMAIN types : HasContent(types, types[i], {"choice"})}
           s == InOrder(choices)
<1>1. EndsWith(ChoiceFolded(Good(types), s))
  BY DEF MergeChoiceCardinalities, ChoiceFolded
<1>2. IsList(s) /\ ToSet(s) = choices
  BY OnesInOrder
<1>3. Contents(types, ToSet(s))
  BY <1>2, ContentIsThere
<1> HIDE DEF s
<1>4. /\ Passed(types, ToSet(s), ChoiceFolded(Good(types), s))
      /\ (\A i \in ToSet(s) : types[types[i].content].kind = "choice") => ChoiceFolded(Good(types), s).ok
  BY <1>2, <1>3, ChoicesPassed DEF TypedefsInv, Sound
<1>5. ASSUME NEW P, Layered(types, P), Direct(types, P), NEW i \in ToSet(s)
      PROVE  types[types[i].content].kind = "choice"
  <2>1. i \in DOMAIN types /\ HasContent(types, types[i], {"choice"}) /\ {"choice"} \in SUBSET Groups
    BY <1>2 DEF Groups
  <2>2. ContentMeta(types, types[i]) = types[i].content
    BY <1>5, <2>1, DirectContent
  <2> QED
    BY <2>1, <2>2 DEF HasContent
<1>6. /\ TypedefsInv' /\ Layers(types, types')
      /\ IF ChoiceFolded(Good(types), s).ok THEN Leave ELSE Panic
  BY <1>1, <1>4, PassedStep
<1> QED
  BY <1>4, <1>5, <1>6 DEF FailsIndirectly

SuitableMixed(i) ==
  /\ HasContent(types, types[i], {"sequence", "choice"})
  /\ types[i].mixed
  /\ LET c == types[ContentMeta(types, types[i])]
     IN IF c.kind = "sequence"
        THEN \A k \in DOMAIN c.elements : AtMostOnce(c.elements[k])
        ELSE types[i].max = Unbounded

\* ... or that the content of a mixed type occurs more than once.
LEMMA SimplifyMixedsStep ==
  ASSUME TypedefsInv, SimplifyMixedTypes
  PROVE  TypedefsInv' /\ Layers(types, types') /\ FailsIndirectly
<1> DEFINE mixed == {i \in DOMAIN types : SuitableMixed(i)}
<1>1. PICK order \in SetToSeqs(mixed) : EndsWith(MixedFolded(Good(types), order))
  BY DEF SimplifyMixedTypes, MixedFolded, SuitableMixed
<1>2. mixed \subseteq Ident
  BY DEF TypedefsInv, Sound
<1>3. Cardinality(mixed) \in Nat
  BY <1>2, IdentAssumption, FS_Subset, FS_CardinalityType
<1> DEFINE n == Cardinality(mixed)
<1>4. order \in [1 .. n -> mixed]
  BY DEF SetToSeqs
<1>5. \A i \in mixed : /\ i \in DOMAIN types /\ HasContent(types, types[i], {"sequence", "choice"})
                        /\ SuitableMixed(i)
  BY DEF SuitableMixed
<1> HIDE DEF mixed, n
<1>6. IsList(order)
  BY <1>3, <1>4, NewList DEF n
<1>7. ToSet(order) \subseteq mixed
  BY <1>4 DEF ToSet
<1>8. Contents(types, ToSet(order))
  BY <1>5, <1>7, ContentIsThere
<1>9. /\ Passed(types, ToSet(order), MixedFolded(Good(types), order))
      /\ (\A i \in ToSet(order) : Simplifiable(types, i)) => MixedFolded(Good(types), order).ok
  BY <1>6, <1>8, MixedPassed DEF TypedefsInv, Sound
<1>10. ASSUME NEW P, Layered(types, P), Direct(types, P), NEW i \in ToSet(order)
       PROVE  Simplifiable(types, i)
  <2>1. i \in DOMAIN types /\ HasContent(types, types[i], {"sequence", "choice"}) /\ SuitableMixed(i)
    BY <1>5, <1>7
  <2>2. {"sequence", "choice"} \in SUBSET Groups
    BY DEF Groups
  <2> PICK c : c = types[i].content
    OBVIOUS
  <2>3. ContentMeta(types, types[i]) = c
    BY <1>10, <2>1, <2>2, DirectContent
  <2>4. types[c].kind \in {"sequence", "choice"}
    BY <2>1, <2>3 DEF HasContent
  <2>5. types[c].kind = "sequence" => AllAtMostOnce(types[c].elements)
    BY <2>1, <2>3 DEF SuitableMixed, AllAtMostOnce, ToSet
  <2>6. types[c].kind # "sequence" => types[i].max = Unbounded
    BY <2>1, <2>3 DEF SuitableMixed
  <2> QED
    BY <2>4, <2>5, <2>6 DEF Simplifiable
<1>11. /\ TypedefsInv' /\ Layers(types, types')
       /\ IF MixedFolded(Good(types), order).ok THEN Leave ELSE Panic
  BY <1>1, <1>9, PassedStep
<1> QED
  BY <1>9, <1>10, <1>11 DEF FailsIndirectly

-----------------------------------------------------------------------------
(* resolve_typedefs: the references lead to where they end.                *)

KeptAsItIs(t) == t.kind = "simple" \/ (t.kind = "reference" /\ ~t.single)

\* resolve_typedefs replaces each identifier by the one it stands for, which the type
\* reaches.
LEMMA ResolveTypedefsStep ==
  ASSUME TypedefsInv, ResolveTypedefs
  PROVE  TypedefsInv' /\ \A P : Layered(types, P) => Layered(types', P) /\ Direct(types', P)
<1> DEFINE map == Typedefs
           u == types'
<1>1. /\ DOMAIN u = DOMAIN types
      /\ \A i \in DOMAIN types : u[i] = IF KeptAsItIs(types[i]) THEN types[i] ELSE MappedBy(map, types[i])
  BY DEF ResolveTypedefs, MappedBy, KeptAsItIs
<1>2. typedefs' = map
  BY DEF ResolveTypedefs
<1>3. IsTable(types) /\ DOMAIN types \subseteq Ident /\ MapFits(types, map)
  BY NewMapFits DEF TypedefsInv, Sound, Typedefs
<1> HIDE DEF map, u
<1>4. \A i \in DOMAIN types : Resolve(map, i) = GetResolved(types, i)
  BY <1>3, ResolveIsResolved
<1>5. NoIdent \notin DOMAIN types
  BY <1>3, IdentAssumption DEF NoIdent
<1>6. \A i \in DOMAIN types : GetResolved(types, i) \in DOMAIN types
  BY <1>3, ResolvedIn
<1>7. ASSUME NEW i \in DOMAIN types, ~ KeptAsItIs(types[i])
      PROVE  /\ Fine(types, u, i) /\ u[i].kind = types[i].kind
             /\ types[i].kind = "reference" =>
                  /\ u[i].single = types[i].single /\ u[i].nillable = types[i].nillable
                  /\ u[i].to = Resolve(map, types[i].to)
             /\ types[i].kind = "complex" =>
                  u[i].content = IF types[i].content = NoIdent THEN NoIdent ELSE Resolve(map, types[i].content)
  <2> DEFINE t == types[i]
  <2>1. /\ IsType(t) /\ Parts(t) \subseteq DOMAIN types
        /\ t.kind = "complex" => t.content \in DOMAIN types \cup {NoIdent}
    BY <1>3 DEF IsTable
  <2>2. u[i] = MappedBy(map, t)
    BY <1>1, <1>7
  <2>3. \A c \in Parts(t) : Resolve(map, c) = GetResolved(types, c) /\ Reaches(types, i, GetResolved(types, c))
    BY <1>3, <1>4, <2>1, ResolvedReached
  <2>4. \A c \in Parts(t) : c # NoIdent /\ Resolve(map, c) # NoIdent
    BY <1>5, <1>6, <2>1, <2>3
  <2> HIDE DEF t
  <2>5. /\ IsType(u[i]) /\ u[i].kind = t.kind
        /\ Parts(u[i]) = {Resolve(map, c) : c \in Parts(t)}
        /\ t.kind = "complex" =>
             u[i].content = IF t.content = NoIdent THEN NoIdent ELSE Resolve(map, t.content)
        /\ t.kind = "reference" =>
             /\ u[i].single = t.single /\ u[i].nillable = t.nillable
             /\ u[i].to = Resolve(map, t.to)
    BY <2>1, <2>2, <2>4, MappedByParts
  <2>6. \A c \in Parts(u[i]) : Reaches(types, i, c)
    BY <2>3, <2>5
  <2>7. t.kind = "complex" => u[i].content \in DOMAIN u \cup {NoIdent}
    BY <1>1, <1>4, <1>6, <2>1, <2>5
  <2> QED
    BY <2>5, <2>6, <2>7 DEF Fine, t
<1>8. \A i \in DOMAIN types : u[i].kind = types[i].kind /\ Fine(types, u, i)
  <2> TAKE i \in DOMAIN types
  <2>1. CASE KeptAsItIs(types[i])
    <3>1. u[i] = types[i]
      BY <1>1, <2>1
    <3> QED
      BY <1>1, <1>3, <3>1, SameIsFine
  <2>2. CASE ~ KeptAsItIs(types[i])
    BY <1>7, <2>2
  <2> QED
    BY <2>1, <2>2
<1>9. IsTable(u)
  BY <1>1, <1>3, <1>8, TableStep
<1>10. SameRefs(types, u)
  <2>1. \A i \in DOMAIN types : IsSimpleReference(u[i]) <=> IsSimpleReference(types[i])
    BY <1>1, <1>7 DEF IsSimpleReference
  <2>2. ASSUME NEW i \in Refs(types)
        PROVE  u[i].to \in DOMAIN types /\ GetResolved(types, u[i].to) = GetResolved(types, i)
    <3>1. i \in DOMAIN types /\ types[i].kind = "reference" /\ types[i].single
      BY DEF Refs, IsSimpleReference
    <3>2. types[i].to \in DOMAIN types
      BY <1>3, RefsChain
    <3>3. u[i].to = GetResolved(types, types[i].to)
      BY <1>4, <1>7, <3>1, <3>2 DEF KeptAsItIs
    <3>4. GetResolved(types, i) = GetResolved(types, types[i].to)
      BY <1>3, <3>1, Resolved
    <3> QED
      BY <1>3, <3>2, <3>3, <3>4, ResolvedIn
  <2> QED
    BY <1>1, <2>1, <2>2 DEF SameRefs, Refs
<1>11. MapFits(u, map)
  BY <1>3, <1>9, <1>10, MapKept
<1>12. DynamicOnes(u) = DynamicOnes(types)
  BY <1>1, <1>8 DEF DynamicOnes
<1>13. Sound(u, map)
  BY <1>1, <1>9, <1>11, <1>12 DEF TypedefsInv, Sound
<1>14. ASSUME NEW P, Layered(types, P) PROVE Layered(u, P) /\ Direct(u, P)
  <2>1. \A c \in DOMAIN types : Resolve(map, c) \in P <=> c \in P
    BY <1>3, <1>4, <1>14, GroupsResolved
  <2>2. ASSUME NEW i \in DOMAIN types
        PROVE  /\ u[i].kind \in Groups => i \in P
               /\ i \in P => u[i].kind \in Groups \/ (IsSimpleReference(u[i]) /\ u[i].to \in P)
               /\ i \notin P => Parts(u[i]) \cap P = {}
    <3>1. u[i].kind = types[i].kind
      BY <1>8
    <3>2. u[i].kind \in Groups => i \in P
      BY <1>14, <3>1 DEF Layered
    <3>3. ASSUME i \in P, IsSimpleReference(types[i]), types[i].to \in P
          PROVE  IsSimpleReference(u[i]) /\ u[i].to \in P
      <4>1. u[i].single /\ ~ u[i].nillable /\ u[i].to = Resolve(map, types[i].to)
        BY <1>7, <3>3 DEF IsSimpleReference, KeptAsItIs
      <4>2. types[i].to \in DOMAIN types
        BY <1>14, <3>3 DEF Layered
      <4> QED
        BY <2>1, <3>1, <3>3, <4>1, <4>2 DEF IsSimpleReference
    <3>4. i \in P => u[i].kind \in Groups \/ (IsSimpleReference(u[i]) /\ u[i].to \in P)
      BY <1>14, <3>1, <3>3 DEF Layered
    <3>5. ASSUME i \notin P PROVE Parts(u[i]) \cap P = {}
      <4>1. \A c \in Parts(u[i]) : Reaches(types, i, c)
        BY <1>8 DEF Fine
      <4> QED
        BY <1>3, <1>14, <3>5, <4>1, Below
    <3> QED
      BY <3>2, <3>4, <3>5
  <2>3. P \subseteq DOMAIN u
    BY <1>1, <1>14 DEF Layered
  <2>4. Layered(u, P)
    BY <1>1, <2>2, <2>3 DEF Layered
  <2>5. ASSUME NEW i \in DOMAIN u, u[i].kind = "complex", u[i].content \in P
        PROVE  u[u[i].content].kind \in Groups
    <3>1. i \in DOMAIN types /\ types[i].kind = "complex"
      BY <1>1, <1>8, <2>5
    <3>2. ~ KeptAsItIs(types[i])
      BY <3>1 DEF KeptAsItIs
    <3>3. u[i].content = IF types[i].content = NoIdent THEN NoIdent ELSE Resolve(map, types[i].content)
      BY <1>7, <3>1, <3>2
    <3>4. u[i].content \in DOMAIN types
      BY <1>1, <2>3, <2>5
    <3>5. types[i].content \in DOMAIN types
      BY <1>3, <1>5, <3>1, <3>3, <3>4 DEF IsTable
    <3>6. u[i].content = GetResolved(types, types[i].content)
      BY <1>4, <1>5, <3>3, <3>5
    <3>7. u[i].content \notin Refs(types)
      BY <1>3, <3>5, <3>6, ResolvedIn
    <3>8. types[u[i].content].kind \in Groups
      BY <1>14, <2>5, <3>4, <3>7 DEF Layered, Refs
    <3> QED
      BY <1>8, <3>4, <3>8
  <2> QED
    BY <2>4, <2>5 DEF Direct
<1> QED
  BY <1>2, <1>13, <1>14 DEF TypedefsInv, u

-----------------------------------------------------------------------------
(* remove_duplicates: a type that is equal to another one refers to what    *)
(* the first of the equal types leads to.                                   *)

\* Being the same type or an equal one is an equivalence of types of one kind.
Same(t, i, j) == i = j \/ TypeEq(t, i, j)
LEMMA EqualTypes ==
  ASSUME NEW t
  PROVE  /\ \A i : Same(t, i, i)
         /\ \A i, j : Same(t, i, j) => Same(t, j, i)
         /\ \A i, j, k : Same(t, i, j) /\ Same(t, j, k) => Same(t, i, k)
         /\ \A i, j : Same(t, i, j) => t[i].kind = t[j].kind /\ MappedIn(t, t[i]) = MappedIn(t, t[j])
<1>1. \A i, j : Same(t, i, j) <=>
        \/ i = j
        \/ /\ t[i].kind = t[j].kind /\ MappedIn(t, t[i]) = MappedIn(t, t[j])
           /\ ~HasText(t[i]) /\ ~HasText(t[j])
  BY DEF Same, TypeEq, MappedIn
<1> QED
  BY <1>1

\* Equal types have the same parts, once resolved.
LEMMA EqualParts ==
  ASSUME NEW t, IsTable(t), DOMAIN t \subseteq Ident, NEW i \in DOMAIN t, NEW j \in DOMAIN t, Same(t, i, j)
  PROVE  {GetResolved(t, c) : c \in Parts(t[i])} = {GetResolved(t, c) : c \in Parts(t[j])}
<1>1. IsType(t[i]) /\ IsType(t[j]) /\ Parts(t[i]) \cup Parts(t[j]) \subseteq DOMAIN t
  BY DEF IsTable
<1>2. NoIdent \notin DOMAIN t
  BY IdentAssumption DEF NoIdent
<1>3. \A c \in Parts(t[i]) \cup Parts(t[j]) : c # NoIdent /\ GetResolved(t, c) # NoIdent
  BY <1>1, <1>2, ResolvedIn
<1>4. MappedIn(t, t[i]) = MappedIn(t, t[j])
  BY EqualTypes
<1> QED
  BY <1>1, <1>3, <1>4, SameParts

\* A reference is equal to references only, which lead to the same type.
LEMMA EqualReference ==
  ASSUME NEW t, IsTable(t), DOMAIN t \subseteq Ident, NEW i \in Refs(t), NEW j \in DOMAIN t, Same(t, i, j)
  PROVE  j \in Refs(t) /\ GetResolved(t, i) = GetResolved(t, j)
<1>1. i \in DOMAIN t /\ t[i].kind = "reference" /\ Parts(t[i]) = {t[i].to}
  BY RefsChain DEF Refs, IsSimpleReference
<1>2. t[j].kind = "reference"
  BY <1>1, EqualTypes
<1>3. {GetResolved(t, t[i].to)} = {GetResolved(t, c) : c \in Parts(t[j])}
  BY <1>1, EqualParts
<1>4. Parts(t[j]) = IF IsSimpleReference(t[j]) THEN {t[j].to} ELSE {}
  BY <1>2, PartsOf
<1>5. IsSimpleReference(t[j]) /\ GetResolved(t, t[i].to) = GetResolved(t, t[j].to)
  BY <1>3, <1>4
<1>6. j \in Refs(t)
  BY <1>5 DEF Refs
<1> QED
  BY <1>1, <1>5, <1>6, Resolved

\* Types that are equal lead to types that are equal.
LEMMA EqualResolved ==
  ASSUME NEW t, IsTable(t), DOMAIN t \subseteq Ident, NEW i \in DOMAIN t, NEW j \in DOMAIN t, Same(t, i, j)
  PROVE  Same(t, GetResolved(t, i), GetResolved(t, j))
<1>1. CASE i \in Refs(t)
  BY <1>1, EqualReference, EqualTypes
<1>2. CASE j \in Refs(t)
  BY <1>2, EqualReference, EqualTypes
<1>3. CASE i \notin Refs(t) /\ j \notin Refs(t)
  BY <1>3, Resolved
<1> QED
  BY <1>1, <1>2, <1>3

First(t, i) == Min({i} \cup {j \in DOMAIN t : TypeEq(t, i, j)})

\* The first of equal types is one of them, and the first of all of them.
LEMMA FirstIs ==
  ASSUME NEW t, DOMAIN t \subseteq Ident
  PROVE  \A i \in DOMAIN t : /\ First(t, i) \in DOMAIN t /\ Same(t, i, First(t, i))
                             /\ First(t, First(t, i)) = First(t, i)
<1>0. ASSUME NEW i \in DOMAIN t PROVE First(t, i) = Min({j \in DOMAIN t : Same(t, i, j)})
  <2>1. {i} \cup {j \in DOMAIN t : TypeEq(t, i, j)} = {j \in DOMAIN t : Same(t, i, j)}
    BY DEF Same
  <2> QED
    BY <2>1 DEF First
<1>1. ASSUME NEW i \in DOMAIN t PROVE First(t, i) \in DOMAIN t /\ Same(t, i, First(t, i))
  <2> DEFINE S == {j \in DOMAIN t : Same(t, i, j)}
  <2>1. i \in S /\ S \in SUBSET Nat
    BY IdentAssumption, EqualTypes
  <2> HIDE DEF S
  <2>2. \E x \in S : \A y \in S : x <= y
    BY <2>1, LeastNumber
  <2>3. Min(S) \in S
    BY <2>2 DEF Min
  <2> QED
    BY <1>0, <2>3 DEF S
<1>2. ASSUME NEW i \in DOMAIN t PROVE First(t, First(t, i)) = First(t, i)
  <2>1. Same(t, i, First(t, i))
    BY <1>1
  <2>2. {j \in DOMAIN t : Same(t, First(t, i), j)} = {j \in DOMAIN t : Same(t, i, j)}
    BY <2>1, EqualTypes
  <2> QED
    BY <1>0, <1>1, <2>2
<1> QED
  BY <1>1, <1>2

\* No type comes to be a part of itself.
LEMMA DuplicatesTable ==
  ASSUME NEW t, IsTable(t), DOMAIN t \subseteq Ident, NEW target, DOMAIN target \subseteq DOMAIN t,
         \A i \in DOMAIN target : First(t, i) # i /\ target[i] = GetResolved(t, First(t, i))
  PROVE  IsTable(Referring(t, target))
<1> DEFINE u == Referring(t, target)
           R(i) == GetResolved(t, i)
<1>1. /\ DOMAIN u = DOMAIN t
      /\ \A i \in DOMAIN t : u[i] = IF i \in DOMAIN target THEN Reference(target[i]) ELSE t[i]
  BY DEF Referring
<1> HIDE DEF u
<1>2. \A i \in DOMAIN t : R(i) \in DOMAIN t /\ R(i) \notin Refs(t) /\ R(R(i)) = R(i)
  BY ResolvedIn
<1>3. \A i \in DOMAIN t : i \notin Refs(t) => R(i) = i
  BY Resolved
<1>4. \A i \in Refs(t) : i \in DOMAIN t /\ t[i].to \in DOMAIN t /\ Parts(t[i]) = {t[i].to} /\ R(i) = R(t[i].to)
  BY RefsChain, Resolved DEF Refs
<1>5. \A i \in DOMAIN t : /\ First(t, i) \in DOMAIN t /\ Same(t, i, First(t, i))
                          /\ First(t, First(t, i)) = First(t, i)
  BY FirstIs
<1>6. \A i, j \in DOMAIN t : Same(t, i, j) => Same(t, R(i), R(j))
  BY EqualResolved
<1>7. \A i \in DOMAIN t : Same(t, R(First(t, i)), R(i))
  BY <1>5, <1>6, EqualTypes
<1>8. \A i \in DOMAIN t : IsType(t[i]) /\ Parts(t[i]) \subseteq DOMAIN t
                          /\ (t[i].kind = "complex" => t[i].content \in DOMAIN t \cup {NoIdent})
  BY DEF IsTable
<1>9. ASSUME NEW i \in DOMAIN t
      PROVE  /\ IsType(u[i]) /\ Parts(u[i]) \subseteq DOMAIN t
             /\ (u[i].kind = "complex" => u[i].content \in DOMAIN t \cup {NoIdent})
             /\ i \in DOMAIN target => Parts(u[i]) = {R(First(t, i))}
             /\ i \notin DOMAIN target => Parts(u[i]) = Parts(t[i])
  <2>1. CASE i \in DOMAIN target
    <3>1. u[i] = Reference(R(First(t, i)))
      BY <1>1, <2>1
    <3> QED
      BY <1>2, <1>5, <2>1, <3>1, NewReference
  <2>2. CASE i \notin DOMAIN target
    BY <1>1, <1>8, <2>2
  <2> QED
    BY <2>1, <2>2
<1>10. ASSUME NEW S \in SUBSET DOMAIN t, S # {} PROVE \E i \in S : Parts(u[i]) \cap S = {}
  <2> DEFINE Q == {j \in DOMAIN t : \E i \in S : Same(t, R(j), R(i))}
  <2>1. Q \in SUBSET DOMAIN t /\ S \subseteq Q
    BY EqualTypes
  <2>2. PICK j \in Q : Parts(t[j]) \cap Q = {}
    BY <1>10, <2>1 DEF IsTable
  <2>3. j \in DOMAIN t /\ j \notin Refs(t)
    <3>1. ASSUME j \in Refs(t) PROVE FALSE
      <4>1. t[j].to \in DOMAIN t /\ R(t[j].to) = R(j) /\ t[j].to \in Parts(t[j])
        BY <1>4, <3>1
      <4>2. t[j].to \in Q
        BY <4>1
      <4> QED
        BY <2>2, <4>1, <4>2
    <3> QED
      BY <3>1
  <2>4. R(j) = j
    BY <1>3, <2>3
  <2> DEFINE T == {i \in S : Same(t, R(i), j)}
  <2>5. T # {}
    BY <2>2, <2>4, EqualTypes
  <2>6. \A c \in DOMAIN t : c \in S => (\A d \in DOMAIN t : Same(t, R(d), R(c)) => d \in Q)
    OBVIOUS
  <2>7. \A i \in T : i \in S /\ i \in DOMAIN t /\ Same(t, R(i), j)
    BY <1>10
  <2>8. \A i \in S : Same(t, R(i), j) => i \in T
    OBVIOUS
  <2> HIDE DEF T, Q
  <2>9. ASSUME NEW i \in T, i \notin Refs(t) PROVE Parts(t[i]) \cap S = {}
    <3>1. Same(t, i, j)
      BY <1>3, <2>7, <2>9
    <3>2. {GetResolved(t, c) : c \in Parts(t[i])} = {GetResolved(t, d) : d \in Parts(t[j])}
      BY <2>3, <2>7, <3>1, EqualParts
    <3>3. ASSUME NEW c \in Parts(t[i]), c \in S PROVE FALSE
      <4>1. PICK d \in Parts(t[j]) : R(c) = R(d)
        BY <3>2
      <4>2. c \in DOMAIN t /\ d \in DOMAIN t
        BY <1>8, <2>3, <2>7
      <4>3. Same(t, R(d), R(c))
        BY <4>1, EqualTypes
      <4>4. d \in Q
        BY <2>6, <3>3, <4>2, <4>3
      <4> QED
        BY <2>2, <4>4
    <3> QED
      BY <3>3
  <2>10. ASSUME NEW i \in T, i \notin Refs(t), i \notin DOMAIN target
         PROVE  \E k \in S : Parts(u[k]) \cap S = {}
    BY <1>9, <2>7, <2>9, <2>10
  <2>11. ASSUME NEW i \in T, i \notin Refs(t), i \in DOMAIN target
         PROVE  \E k \in S : Parts(u[k]) \cap S = {}
    <3> DEFINE f == First(t, i)
    <3>1. f \in DOMAIN t /\ Same(t, i, f) /\ First(t, f) = f
      BY <1>5, <2>7
    <3>2. f \notin Refs(t)
      <4>1. Same(t, f, i)
        BY <3>1, EqualTypes
      <4> QED
        BY <2>7, <2>11, <4>1, EqualReference
    <3>3. R(f) = f /\ R(i) = i
      BY <1>3, <2>7, <2>11, <3>1, <3>2
    <3>4. Parts(u[i]) = {f}
      BY <1>9, <2>7, <2>11, <3>3
    <3>5. f \notin DOMAIN target
      BY <3>1
    <3>6. CASE f \in S
      <4>1. Same(t, R(f), j)
        BY <2>7, <3>1, <3>3, EqualTypes
      <4>2. f \in T
        BY <2>8, <3>6, <4>1
      <4> QED
        BY <2>10, <3>2, <3>5, <4>2
    <3>7. CASE f \notin S
      BY <2>7, <3>4, <3>7
    <3> QED
      BY <3>6, <3>7
  <2>12. ASSUME T \subseteq Refs(t), NEW i \in T, i \in DOMAIN target
         PROVE  \E k \in S : Parts(u[k]) \cap S = {}
    <3> DEFINE f == R(First(t, i))
    <3>1. f \in DOMAIN t /\ f \notin Refs(t) /\ R(f) = f
      BY <1>2, <1>5, <2>7
    <3>2. Same(t, f, R(i))
      BY <1>7, <2>7
    <3>3. Same(t, R(f), j)
      BY <2>7, <3>1, <3>2, EqualTypes
    <3>4. f \notin S
      BY <2>8, <2>12, <3>1, <3>3
    <3>5. Parts(u[i]) = {f}
      BY <1>9, <2>7, <2>12
    <3> QED
      BY <2>7, <3>4, <3>5
  <2>13. ASSUME T \subseteq Refs(t), T \cap DOMAIN target = {}
         PROVE  \E k \in S : Parts(u[k]) \cap S = {}
    <3>1. T \in SUBSET DOMAIN t
      BY <2>7
    <3>2. PICK i \in T : Parts(t[i]) \cap T = {}
      BY <2>5, <3>1 DEF IsTable
    <3>3. i \in DOMAIN t /\ Parts(t[i]) = {t[i].to} /\ R(t[i].to) = R(i)
      BY <1>4, <2>13
    <3>4. t[i].to \notin S
      <4>1. Same(t, R(t[i].to), j)
        BY <2>7, <3>3
      <4> QED
        BY <2>8, <3>2, <3>3, <4>1
    <3>5. Parts(u[i]) = Parts(t[i])
      BY <1>9, <2>13, <3>3
    <3> QED
      BY <2>7, <3>3, <3>4, <3>5
  <2> QED
    BY <2>10, <2>11, <2>12, <2>13
<1> QED
  BY <1>1, <1>9, <1>10 DEF IsTable, u

\* A group is only equal to groups, and what refers to one to what refers to groups.
LEMMA EqualLayer ==
  ASSUME NEW t, IsTable(t), DOMAIN t \subseteq Ident, NEW P, Layered(t, P),
         NEW i \in DOMAIN t, NEW j \in DOMAIN t, Same(t, i, j)
  PROVE  i \in P => j \in P
<1>1. CASE i \in Refs(t)
  <2>1. GetResolved(t, i) = GetResolved(t, j)
    BY <1>1, EqualReference
  <2> QED
    BY <2>1, GroupsResolved
<1>2. CASE i \notin Refs(t)
  <2>1. i \in P => t[i].kind \in Groups
    BY <1>2 DEF Layered, Refs
  <2>2. t[i].kind = t[j].kind
    BY EqualTypes
  <2> QED
    BY <2>1, <2>2 DEF Layered
<1> QED
  BY <1>1, <1>2

\* What is equal to a group becomes a reference to a group, and nothing else does.
LEMMA DuplicatesLayer ==
  ASSUME NEW t, IsTable(t), DOMAIN t \subseteq Ident, NEW target, DOMAIN target \subseteq DOMAIN t,
         \A i \in DOMAIN target : target[i] = GetResolved(t, First(t, i)),
         NEW P, Layered(t, P)
  PROVE  Layered(Referring(t, target), P)
<1> DEFINE u == Referring(t, target)
<1>1. /\ DOMAIN u = DOMAIN t
      /\ \A i \in DOMAIN t : u[i] = IF i \in DOMAIN target THEN Reference(target[i]) ELSE t[i]
  BY DEF Referring
<1> HIDE DEF u
<1>2. ASSUME NEW i \in DOMAIN target PROVE target[i] \in DOMAIN t /\ (target[i] \in P <=> i \in P)
  <2>1. i \in DOMAIN t /\ First(t, i) \in DOMAIN t /\ Same(t, i, First(t, i)) /\ Same(t, First(t, i), i)
    BY FirstIs, EqualTypes
  <2>2. i \in P <=> First(t, i) \in P
    BY <2>1, EqualLayer
  <2>3. target[i] = GetResolved(t, First(t, i))
    OBVIOUS
  <2> QED
    BY <2>1, <2>2, <2>3, GroupsResolved, ResolvedIn
<1>3. ASSUME NEW i \in DOMAIN t
      PROVE  /\ u[i].kind \in Groups => i \in P
             /\ i \in P => u[i].kind \in Groups \/ (IsSimpleReference(u[i]) /\ u[i].to \in P)
             /\ i \notin P => Parts(u[i]) \cap P = {}
  <2>1. CASE i \in DOMAIN target
    <3>1. u[i] = Reference(target[i])
      BY <1>1, <2>1
    <3>2. u[i].kind = "reference" /\ u[i].to = target[i] /\ IsSimpleReference(u[i])
      BY <3>1 DEF Reference, IsSimpleReference
    <3>3. Parts(u[i]) = {target[i]} /\ u[i].kind \notin Groups
      BY <3>1, <3>2, NewReference DEF Groups
    <3> QED
      BY <1>2, <2>1, <3>2, <3>3
  <2>2. CASE i \notin DOMAIN target
    <3>1. u[i] = t[i]
      BY <1>1, <2>2
    <3> QED
      BY <3>1 DEF Layered
  <2> QED
    BY <2>1, <2>2
<1>4. P \subseteq DOMAIN u
  BY <1>1 DEF Layered
<1> QED
  BY <1>1, <1>3, <1>4 DEF Layered, u

\* remove_duplicates refers to the first of equal types, as no type is a part of an
\* equal one.
LEMMA RemoveDuplicatesStep ==
  ASSUME TypedefsInv, RemoveDuplicates
  PROVE  TypedefsInv' /\ \A P : Layered(types, P) => Layered(types', P)
<1> DEFINE target == Duplicates
<1>1. types' = Referring(types, target) /\ typedefs' = MapAfter(typedefs, target)
  BY DEF RemoveDuplicates, ToReferences, Referring, MapAfter
<1>2. \A i \in DOMAIN target : /\ i \in DOMAIN types /\ First(types, i) # i
                               /\ target[i] = GetResolved(types, First(types, i))
  BY DEF Duplicates, First
<1> HIDE DEF target
<1>3. IsTable(Referring(types, target))
  BY <1>2, DuplicatesTable DEF TypedefsInv, Sound
<1>4. Sound(Referring(types, target), MapAfter(typedefs, target))
  BY <1>2, <1>3, ReferringSound DEF TypedefsInv
<1>5. IsTable(types) /\ DOMAIN types \subseteq Ident /\ DOMAIN target \subseteq DOMAIN types
  BY <1>2 DEF TypedefsInv, Sound
<1>6. \A P : Layered(types, P) => Layered(Referring(types, target), P)
  BY <1>2, <1>5, DuplicatesLayer
<1> QED
  BY <1>1, <1>4, <1>6 DEF TypedefsInv

-----------------------------------------------------------------------------
(* The theorems.                                                           *)

\* The invariant holds of the tables the optimizer is given,
LEMMA TypedefsInit == Init => TypedefsInv
<1> SUFFICES ASSUME Init PROVE TypedefsInv
  OBVIOUS
<1>1. types \in Worlds /\ typedefs = NoTypedefs
  BY DEF Init
<1>2. /\ DOMAIN types \subseteq Ident /\ IsTable(types)
      /\ \A i \in DOMAIN types : types[i].kind = "dynamic" => ContentOf[i] \in Ident \ DOMAIN types
  BY <1>1, WorldsAssumption
<1> QED
  BY <1>1, <1>2 DEF TypedefsInv, Sound, DynamicOnes

\* ... and each pass keeps it.
LEMMA TypedefsNext == TypedefsInv /\ [Next \/ Terminated]_vars => TypedefsInv'
<1> SUFFICES ASSUME TypedefsInv, [Next \/ Terminated]_vars PROVE TypedefsInv'
  OBVIOUS
<1>1. CASE UseUnrestrictedBaseType
  BY <1>1, UnrestrictedStep
<1>2. CASE RemoveEmptyEnumVariants
  BY <1>2, EmptyVariantsStep
<1>3. CASE RemoveEmptyEnums
  BY <1>3, EmptyEnumsStep
<1>4. CASE ConvertDynamicToChoice
  BY <1>4, ConvertDynamicsStep
<1>5. CASE FlattenComplexTypes
  BY <1>5, FlattenComplexTypesStep
<1>6. CASE FlattenUnions
  BY <1>6, FlattenUnionsStep
<1>7. CASE MergeEnumUnions
  BY <1>7, MergeUnionsStep
<1>8. CASE ResolveTypedefs
  BY <1>8, ResolveTypedefsStep
<1>9. CASE RemoveDuplicateUnionVariants
  BY <1>9, DuplicateVariantsStep
<1>10. CASE RemoveEmptyUnions
  BY <1>10, EmptyUnionsStep
<1>11. CASE RemoveDuplicates
  BY <1>11, RemoveDuplicatesStep
<1>12. CASE MergeChoiceCardinalities
  BY <1>12, MergeChoicesStep
<1>13. CASE SimplifyMixedTypes
  BY <1>13, SimplifyMixedsStep
<1>14. CASE Finish
  BY <1>14 DEF Finish, TypedefsInv
<1>15. CASE Terminated \/ UNCHANGED vars
  BY <1>15 DEF Terminated, vars, TypedefsInv
<1> QED
  BY <1>1, <1>2, <1>3, <1>4, <1>5, <1>6, <1>7, <1>8, <1>9, <1>10, <1>11, <1>12, <1>13, <1>14, <1>15
     DEF Next

\* The invariant of all passes (optimizer/): no type is a part of itself, and the map of
\* typedefs, while it is kept, says of each reference in the table where it leads.
THEOREM TypedefsInvariant == Spec => []TypedefsInv
BY TypedefsInit, TypedefsNext, PTL DEF Spec

\* It says of the map what the passes rely on.
LEMMA TypedefsFollow == TypedefsInv => TypedefsSound
<1> SUFFICES ASSUME TypedefsInv PROVE TypedefsSound
  OBVIOUS
<1>1. IsTable(types) /\ DOMAIN types \subseteq Ident /\ (typedefs # NoTypedefs => MapFits(types, typedefs))
  BY DEF TypedefsInv, Sound
<1>2. \A i \in DOMAIN types : ~ IsSimpleReference(types[GetResolved(types, i)])
  BY <1>1, ResolvedIn DEF Refs
<1>3. typedefs # NoTypedefs => \A i \in DOMAIN types : Resolve(typedefs, i) = GetResolved(types, i)
  BY <1>1, ResolveIsResolved
<1> QED
  BY <1>2, <1>3 DEF TypedefsSound

\* get_resolved (meta/types.rs) never comes around, and TypedefMap::resolve leads where
\* it does, after any of the passes that keep the map or drop it, in every table.
THEOREM TypedefsAreSound == Spec => []TypedefsSound
BY TypedefsInvariant, TypedefsFollow, PTL

-----------------------------------------------------------------------------
(* What the order of the passes is good for.                               *)

PlanSteps(g, f) ==
  /\ g[0] = <<>> /\ \A k \in 1 .. 18 : g[k] = Proceed(f, g[k - 1], Passes[k])
  /\ Planned(f) = g[18]

\* The passes whose flags are set, as a function of the number of passes looked at.
LEMMA PlanFold ==
  ASSUME NEW f
  PROVE  \E g : PlanSteps(g, f)
<1> DEFINE p == <<"plan", <<>>, Passes, f>>
           F == CHOOSE g : g = [k \in 0 .. Len(Passes) |->
                  IF k = 0 THEN <<>> ELSE Given(g[k - 1], LAMBDA r : Proceed(f, r, Passes[k]))]
<1>0. Len(Passes) = 18 /\ Len(Passes) \in Nat
  BY DEF Passes
<1>1. p[1] = "plan" /\ p[2] = <<>> /\ p[3] = Passes /\ p[4] = f
  OBVIOUS
<1>2. \A r, k : Apply(p, r, k) = Proceed(f, r, Passes[k])
  BY <1>1 DEF Apply
<1>3. \A r, k : Given(r, LAMBDA x : Proceed(f, x, Passes[k])) = Proceed(f, r, Passes[k])
  BY DEF Given
<1> HIDE DEF p
<1>10. PICK g : IsFold(g, p, Len(Passes))
  BY <1>0, <1>1, FoldRecursion
<1>4. g = [k \in 0 .. Len(Passes) |-> IF k = 0 THEN p[2] ELSE Apply(p, g[k - 1], k)]
  BY <1>10 DEF IsFold
<1>5. g = [k \in 0 .. Len(Passes) |->
             IF k = 0 THEN <<>> ELSE Given(g[k - 1], LAMBDA r : Proceed(f, r, Passes[k]))]
  BY <1>1, <1>2, <1>3, <1>4
<1>6. F = [k \in 0 .. Len(Passes) |->
             IF k = 0 THEN <<>> ELSE Given(F[k - 1], LAMBDA r : Proceed(f, r, Passes[k]))]
  BY <1>5
<1>7. Planned(f) = F[Len(Passes)]
  BY DEF Planned, Fold, Proceed
<1> HIDE DEF F
<1>8. F = [k \in 0 .. Len(Passes) |-> IF k = 0 THEN <<>> ELSE Proceed(f, F[k - 1], Passes[k])]
  BY <1>3, <1>6
<1>9. F[0] = <<>> /\ \A k \in 1 .. Len(Passes) : F[k] = Proceed(f, F[k - 1], Passes[k])
  BY <1>8, <1>0
<1> QED
  BY <1>0, <1>7, <1>9 DEF PlanSteps

\* One pass more.
PassNames == ToSet(Passes)
Extends(s, x, m) ==
  /\ m \in Seq(PassNames) /\ DOMAIN m = 1 .. Len(s) + 1 /\ Len(m) = Len(s) + 1
  /\ \A k \in 1 .. Len(s) : m[k] = s[k]
  /\ m[Len(s) + 1] = x

\* A pass is appended.
LEMMA OneMore ==
  ASSUME NEW s \in Seq(PassNames), NEW x \in PassNames
  PROVE  Extends(s, x, Append(s, x))
BY DEF Extends

\* References that remove_duplicates makes are resolved later if they are resolved at
\* all, and before a pass that can fail.
Rejoined(p, f) ==
  \A k \in DOMAIN p : p[k] = "REMOVE_DUPLICATES" =>
    /\ "REMOVE_DUPLICATES" \in f
    /\ "RESOLVE_TYPEDEFS" \in f => \E n \in DOMAIN p : k < n /\ p[n] = "RESOLVE_TYPEDEFS"
ResolvedBefore(p) ==
  \A k, n \in DOMAIN p :
    k < n /\ p[k] \in {"MERGE_CHOICE_CARDINALITIES", "SIMPLIFY_MIXED_TYPES"} => p[n] # "RESOLVE_TYPEDEFS"
InGoodOrder(p, f) == p \in Seq(PassNames) /\ Rejoined(p, f) /\ ResolvedBefore(p)

\* The order stays good when a pass is done.
LEMMA GoodOrderTail ==
  ASSUME NEW p, NEW f, InGoodOrder(p, f), p # <<>>
  PROVE  /\ InGoodOrder(Tail(p), f) /\ Head(p) = p[1]
         /\ \A x : x \in ToSet(p) => x = Head(p) \/ x \in ToSet(Tail(p))
<1> DEFINE q == Tail(p)
<1>1. /\ q \in Seq(PassNames) /\ Len(p) \in Nat \ {0} /\ DOMAIN p = 1 .. Len(p)
      /\ Len(q) = Len(p) - 1 /\ DOMAIN q = 1 .. Len(p) - 1
      /\ \A k \in 1 .. Len(p) - 1 : q[k] = p[k + 1]
      /\ Head(p) = p[1]
  BY DEF InGoodOrder
<1> HIDE DEF q
<1>2. ASSUME NEW k \in DOMAIN q, q[k] = "REMOVE_DUPLICATES"
      PROVE  /\ "REMOVE_DUPLICATES" \in f
             /\ "RESOLVE_TYPEDEFS" \in f => \E n \in DOMAIN q : k < n /\ q[n] = "RESOLVE_TYPEDEFS"
  <2>1. k + 1 \in DOMAIN p /\ p[k + 1] = "REMOVE_DUPLICATES" /\ k \in Nat
    BY <1>1, <1>2
  <2>2. "REMOVE_DUPLICATES" \in f
    BY <2>1 DEF InGoodOrder, Rejoined
  <2>3. ASSUME "RESOLVE_TYPEDEFS" \in f PROVE \E n \in DOMAIN q : k < n /\ q[n] = "RESOLVE_TYPEDEFS"
    <3>1. PICK n \in DOMAIN p : k + 1 < n /\ p[n] = "RESOLVE_TYPEDEFS"
      BY <2>1, <2>3 DEF InGoodOrder, Rejoined
    <3>2. n - 1 \in DOMAIN q /\ q[n - 1] = p[n] /\ k < n - 1
      BY <1>1, <2>1, <3>1
    <3> QED
      BY <3>1, <3>2
  <2> QED
    BY <2>2, <2>3
<1>3. ASSUME NEW k \in DOMAIN q, NEW n \in DOMAIN q, k < n,
             q[k] \in {"MERGE_CHOICE_CARDINALITIES", "SIMPLIFY_MIXED_TYPES"}
      PROVE  q[n] # "RESOLVE_TYPEDEFS"
  <2>1. k + 1 \in DOMAIN p /\ n + 1 \in DOMAIN p /\ k + 1 < n + 1 /\ q[k] = p[k + 1] /\ q[n] = p[n + 1]
    BY <1>1, <1>3
  <2> QED
    BY <1>3, <2>1 DEF InGoodOrder, ResolvedBefore
<1>4. ASSUME NEW x \in ToSet(p) PROVE x = Head(p) \/ x \in ToSet(q)
  <2>1. PICK k \in DOMAIN p : x = p[k]
    BY DEF ToSet
  <2>2. k = 1 \/ (k - 1 \in DOMAIN q /\ q[k - 1] = x)
    BY <1>1, <2>1
  <2> QED
    BY <1>1, <2>1, <2>2 DEF ToSet
<1> QED
  BY <1>1, <1>2, <1>3, <1>4 DEF InGoodOrder, Rejoined, ResolvedBefore, q

\* A plan without the passes that the order is about.
Harmless(p) ==
  /\ p \in Seq(PassNames)
  /\ \A k \in DOMAIN p :
       p[k] \notin {"REMOVE_DUPLICATES", "MERGE_CHOICE_CARDINALITIES", "SIMPLIFY_MIXED_TYPES"}

\* A plan stays harmless while no pass is added that the order is about.
LEMMA HarmlessMore ==
  ASSUME NEW f, NEW p, Harmless(p), NEW x \in PassNames,
         x \notin {"REMOVE_DUPLICATES", "MERGE_CHOICE_CARDINALITIES", "SIMPLIFY_MIXED_TYPES"}
  PROVE  Harmless(Proceed(f, p, x))
<1>1. Harmless(Append(p, x))
  BY DEF Harmless
<1> QED
  BY <1>1 DEF Proceed

\* The order stays good when passes are added after the last resolve_typedefs.
LEMMA GoodOrderMore ==
  ASSUME NEW f, NEW p, InGoodOrder(p, f), NEW x \in PassNames,
         x \notin {"REMOVE_DUPLICATES", "RESOLVE_TYPEDEFS"}
  PROVE  InGoodOrder(Proceed(f, p, x), f)
<1> DEFINE q == Append(p, x)
<1>1. /\ q \in Seq(PassNames) /\ Len(p) \in Nat /\ DOMAIN p = 1 .. Len(p) /\ DOMAIN q = 1 .. Len(p) + 1
      /\ \A k \in 1 .. Len(p) : q[k] = p[k]
      /\ q[Len(p) + 1] = x
  BY DEF InGoodOrder
<1> HIDE DEF q
<1>2. Rejoined(q, f)
  <2> SUFFICES ASSUME NEW k \in DOMAIN q, q[k] = "REMOVE_DUPLICATES"
               PROVE  /\ "REMOVE_DUPLICATES" \in f
                      /\ "RESOLVE_TYPEDEFS" \in f => \E n \in DOMAIN q : k < n /\ q[n] = "RESOLVE_TYPEDEFS"
    BY DEF Rejoined
  <2>1. k \in DOMAIN p /\ p[k] = "REMOVE_DUPLICATES"
    BY <1>1
  <2>2. \A n \in DOMAIN p : n \in DOMAIN q /\ q[n] = p[n]
    BY <1>1
  <2> QED
    BY <2>1, <2>2 DEF InGoodOrder, Rejoined
<1>3. ResolvedBefore(q)
  <2> SUFFICES ASSUME NEW k \in DOMAIN q, NEW n \in DOMAIN q, k < n,
                      q[k] \in {"MERGE_CHOICE_CARDINALITIES", "SIMPLIFY_MIXED_TYPES"},
                      q[n] = "RESOLVE_TYPEDEFS"
               PROVE  FALSE
    BY DEF ResolvedBefore
  <2>1. n \in DOMAIN p /\ k \in DOMAIN p
    BY <1>1
  <2> QED
    BY <1>1, <2>1 DEF InGoodOrder, ResolvedBefore
<1> QED
  BY <1>1, <1>2, <1>3 DEF Proceed, InGoodOrder, q

\* remove_duplicates, and then resolve_typedefs.
LEMMA GoodOrderStart ==
  ASSUME NEW f, NEW p, Harmless(p)
  PROVE  InGoodOrder(Proceed(f, Proceed(f, p, "REMOVE_DUPLICATES"), "RESOLVE_TYPEDEFS"), f)
<1>0. /\ Enabled(f)["REMOVE_DUPLICATES"] <=> "REMOVE_DUPLICATES" \in f
      /\ Enabled(f)["RESOLVE_TYPEDEFS"] <=> "RESOLVE_TYPEDEFS" \in f
      /\ "REMOVE_DUPLICATES" \in PassNames /\ "RESOLVE_TYPEDEFS" \in PassNames
  <2>1. Passes[11] = "REMOVE_DUPLICATES" /\ Passes[12] = "RESOLVE_TYPEDEFS" /\ {11, 12} \subseteq DOMAIN Passes
    BY DEF Passes
  <2>2. "REMOVE_DUPLICATES" \in ToSet(Passes) /\ "RESOLVE_TYPEDEFS" \in ToSet(Passes)
    BY <2>1 DEF ToSet
  <2> QED
    BY <2>2 DEF Enabled, PassNames
<1> DEFINE q == Proceed(f, p, "REMOVE_DUPLICATES")
           r == Proceed(f, q, "RESOLVE_TYPEDEFS")
<1>1. Len(p) \in Nat /\ DOMAIN p = 1 .. Len(p) /\ p \in Seq(PassNames)
  BY DEF Harmless
<1>2. IF "REMOVE_DUPLICATES" \in f
      THEN /\ q \in Seq(PassNames) /\ DOMAIN q = 1 .. Len(p) + 1 /\ Len(q) = Len(p) + 1
           /\ \A k \in 1 .. Len(p) : q[k] = p[k]
           /\ q[Len(p) + 1] = "REMOVE_DUPLICATES"
      ELSE q = p
  <2>1. Extends(p, "REMOVE_DUPLICATES", Append(p, "REMOVE_DUPLICATES"))
    BY <1>0, <1>1, OneMore
  <2> QED
    BY <1>0, <2>1 DEF Proceed, Extends
<1>3. q \in Seq(PassNames) /\ Len(q) \in Nat /\ DOMAIN q = 1 .. Len(q)
  BY <1>1, <1>2
<1>4. \A k \in DOMAIN q : /\ q[k] \notin {"MERGE_CHOICE_CARDINALITIES", "SIMPLIFY_MIXED_TYPES"}
                          /\ q[k] = "REMOVE_DUPLICATES" => "REMOVE_DUPLICATES" \in f
  BY <1>1, <1>2 DEF Harmless
<1> HIDE DEF q
<1>5. IF "RESOLVE_TYPEDEFS" \in f
      THEN /\ r \in Seq(PassNames) /\ DOMAIN r = 1 .. Len(q) + 1
           /\ \A k \in 1 .. Len(q) : r[k] = q[k]
           /\ r[Len(q) + 1] = "RESOLVE_TYPEDEFS"
      ELSE r = q
  <2>1. Extends(q, "RESOLVE_TYPEDEFS", Append(q, "RESOLVE_TYPEDEFS"))
    BY <1>0, <1>3, OneMore
  <2> QED
    BY <1>0, <2>1 DEF Proceed, Extends
<1> HIDE DEF r
<1>6. \A k \in DOMAIN r : /\ r[k] \notin {"MERGE_CHOICE_CARDINALITIES", "SIMPLIFY_MIXED_TYPES"}
                          /\ r[k] = "REMOVE_DUPLICATES" => k \in DOMAIN q /\ q[k] = r[k]
  BY <1>3, <1>4, <1>5
<1>7. Rejoined(r, f)
  <2> SUFFICES ASSUME NEW k \in DOMAIN r, r[k] = "REMOVE_DUPLICATES"
               PROVE  /\ "REMOVE_DUPLICATES" \in f
                      /\ "RESOLVE_TYPEDEFS" \in f => \E n \in DOMAIN r : k < n /\ r[n] = "RESOLVE_TYPEDEFS"
    BY DEF Rejoined
  <2>1. k \in 1 .. Len(q) /\ "REMOVE_DUPLICATES" \in f
    BY <1>3, <1>4, <1>6
  <2>2. "RESOLVE_TYPEDEFS" \in f => Len(q) + 1 \in DOMAIN r /\ k < Len(q) + 1 /\ r[Len(q) + 1] = "RESOLVE_TYPEDEFS"
    BY <1>3, <1>5, <2>1
  <2> QED
    BY <2>1, <2>2
<1>8. r \in Seq(PassNames) /\ ResolvedBefore(r)
  BY <1>3, <1>5, <1>6 DEF ResolvedBefore
<1> QED
  BY <1>7, <1>8 DEF InGoodOrder, r, q

\* The order of exec_optimizer, pass by pass.
LEMMA PassesAre ==
  /\ Passes[1] = "USE_UNRESTRICTED_BASE_TYPE" /\ Passes[2] = "REMOVE_EMPTY_ENUM_VARIANTS"
  /\ Passes[3] = "REMOVE_EMPTY_ENUMS" /\ Passes[4] = "CONVERT_DYNAMIC_TO_CHOICE"
  /\ Passes[5] = "FLATTEN_COMPLEX_TYPES" /\ Passes[6] = "FLATTEN_UNIONS"
  /\ Passes[7] = "MERGE_ENUM_UNIONS" /\ Passes[8] = "RESOLVE_TYPEDEFS"
  /\ Passes[9] = "REMOVE_DUPLICATE_UNION_VARIANTS" /\ Passes[10] = "REMOVE_EMPTY_UNIONS"
  /\ Passes[11] = "REMOVE_DUPLICATES" /\ Passes[12] = "RESOLVE_TYPEDEFS"
  /\ Passes[13] = "REMOVE_EMPTY_ENUM_VARIANTS" /\ Passes[14] = "REMOVE_EMPTY_ENUMS"
  /\ Passes[15] = "REMOVE_DUPLICATE_UNION_VARIANTS" /\ Passes[16] = "REMOVE_EMPTY_UNIONS"
  /\ Passes[17] = "MERGE_CHOICE_CARDINALITIES" /\ Passes[18] = "SIMPLIFY_MIXED_TYPES"
BY DEF Passes

\* exec_optimizer runs the passes in a good order, whatever the flags.
LEMMA PlanInGoodOrder == \A f : InGoodOrder(Planned(f), f)
<1> TAKE f
<1>0. PICK g : PlanSteps(g, f)
  BY PlanFold
<1>1. /\ g[0] = <<>> /\ \A k \in 1 .. 18 : g[k] = Proceed(f, g[k - 1], Passes[k])
      /\ Planned(f) = g[18]
  BY <1>0 DEF PlanSteps
<1>2. Harmless(g[0])
  BY <1>1 DEF Harmless
<1>3. \A k \in 1 .. 10 : Harmless(g[k - 1]) => Harmless(g[k])
  <2> TAKE k \in 1 .. 10
  <2>0. k \in {1, 2, 3, 4, 5, 6, 7, 8, 9, 10}
    OBVIOUS
  <2>1. Passes[k] \in PassNames
    <3>1. k \in DOMAIN Passes
      BY DEF Passes
    <3> QED
      BY <3>1 DEF PassNames, ToSet
  <2>2. Passes[k] \notin {"REMOVE_DUPLICATES", "MERGE_CHOICE_CARDINALITIES", "SIMPLIFY_MIXED_TYPES"}
    BY <2>0, PassesAre
  <2>3. g[k] = Proceed(f, g[k - 1], Passes[k])
    <3>1. k \in 1 .. 18
      OBVIOUS
    <3> QED
      BY <1>1, <3>1
  <2> QED
    BY <2>1, <2>2, <2>3, HarmlessMore
<1>4. Harmless(g[10])
  <2>1. Harmless(g[1]) /\ Harmless(g[2]) /\ Harmless(g[3])
    BY <1>2, <1>3
  <2>2. Harmless(g[4]) /\ Harmless(g[5]) /\ Harmless(g[6])
    BY <1>3, <2>1
  <2>3. Harmless(g[7]) /\ Harmless(g[8]) /\ Harmless(g[9])
    BY <1>3, <2>2
  <2> QED
    BY <1>3, <2>3
<1>5. InGoodOrder(g[12], f)
  <2>1. Passes[11] = "REMOVE_DUPLICATES" /\ Passes[12] = "RESOLVE_TYPEDEFS"
    BY DEF Passes
  <2>2. g[11] = Proceed(f, g[10], Passes[11]) /\ g[12] = Proceed(f, g[11], Passes[12])
    BY <1>1
  <2> QED
    BY <1>4, <2>1, <2>2, GoodOrderStart
<1>6. \A k \in 13 .. 18 : InGoodOrder(g[k - 1], f) => InGoodOrder(g[k], f)
  <2> TAKE k \in 13 .. 18
  <2>0. k \in {13, 14, 15, 16, 17, 18}
    OBVIOUS
  <2>1. Passes[k] \in PassNames
    <3>1. k \in DOMAIN Passes
      BY DEF Passes
    <3> QED
      BY <3>1 DEF PassNames, ToSet
  <2>2. Passes[k] \notin {"REMOVE_DUPLICATES", "RESOLVE_TYPEDEFS"}
    BY <2>0, PassesAre
  <2>3. g[k] = Proceed(f, g[k - 1], Passes[k])
    <3>1. k \in 1 .. 18
      OBVIOUS
    <3> QED
      BY <1>1, <3>1
  <2> QED
    BY <2>1, <2>2, <2>3, GoodOrderMore
<1>7. InGoodOrder(g[18], f)
  <2>1. InGoodOrder(g[13], f) /\ InGoodOrder(g[14], f) /\ InGoodOrder(g[15], f)
    BY <1>5, <1>6
  <2> QED
    BY <1>6, <2>1
<1> QED
  BY <1>1, <1>7

\* What is a reference to a group is not resolved yet, or never will be.
Unresolved(p, f) ==
  "REMOVE_DUPLICATES" \in f /\ ("RESOLVE_TYPEDEFS" \in f => "RESOLVE_TYPEDEFS" \in ToSet(p))
GroupsInv ==
  \E P : Layered(types, P) /\ (stage = "running" => Direct(types, P) \/ Unresolved(plan, flags))
PassesInv == TypedefsInv /\ InGoodOrder(plan, flags) /\ GroupsInv /\ FailsOnlyOnReferences

\* The interpreter makes no references to groups.
LEMMA PassesInit == Init => PassesInv
<1> SUFFICES ASSUME Init PROVE PassesInv
  OBVIOUS
<1>1. TypedefsInv
  BY TypedefsInit
<1>2. InGoodOrder(plan, flags)
  BY PlanInGoodOrder DEF Init
<1> DEFINE P == {i \in DOMAIN types : types[i].kind \in Groups}
<1>3. Layered(types, P) /\ Direct(types, P)
  <2>1. GroupsApart(types) /\ IsTable(types)
    BY WorldsAssumption DEF Init
  <2>2. \A i \in DOMAIN types : i \notin P => Parts(types[i]) \cap P = {}
    BY <2>1 DEF GroupsApart
  <2> QED
    BY <2>2 DEF Layered, Direct
<1>4. stage = "running"
  BY DEF Init
<1> HIDE DEF P
<1> QED
  BY <1>1, <1>2, <1>3, <1>4 DEF PassesInv, GroupsInv, FailsOnlyOnReferences

\* Unless typedefs are resolved, what is kept by the table is kept by the invariant.
LEMMA LeaveStep ==
  ASSUME PassesInv, NEW pass, InWork(pass), pass # "RESOLVE_TYPEDEFS",
         Leave, TypedefsInv', Layers(types, types')
  PROVE  PassesInv'
<1>1. /\ stage = "running" /\ plan # <<>> /\ Head(plan) # "RESOLVE_TYPEDEFS"
      /\ plan' = Tail(plan) /\ flags' = flags /\ stage' = "running"
  BY DEF InWork, Leave
<1>2. InGoodOrder(plan', flags')
  BY <1>1, GoodOrderTail DEF PassesInv
<1>3. Unresolved(plan, flags) => Unresolved(plan', flags')
  BY <1>1, GoodOrderTail DEF PassesInv, Unresolved
<1>4. PICK P : Layered(types, P) /\ (Direct(types, P) \/ Unresolved(plan, flags))
  BY <1>1 DEF PassesInv, GroupsInv
<1>5. PICK Q : Layered(types', Q) /\ (Direct(types, P) => Direct(types', Q))
  BY <1>4 DEF Layers
<1>6. GroupsInv'
  BY <1>3, <1>4, <1>5 DEF GroupsInv
<1>7. FailsOnlyOnReferences'
  BY <1>1 DEF FailsOnlyOnReferences
<1> QED
  BY <1>2, <1>6, <1>7 DEF PassesInv

\* What is neither a group nor apart from groups is a reference.
LEMMA PanicStep ==
  ASSUME PassesInv, NEW pass \in {"MERGE_CHOICE_CARDINALITIES", "SIMPLIFY_MIXED_TYPES"}, InWork(pass),
         TypedefsInv', Panic, \A P : ~ (Layered(types, P) /\ Direct(types, P))
  PROVE  PassesInv'
<1>1. /\ stage = "running" /\ plan # <<>> /\ Head(plan) = pass
      /\ types' = types /\ plan' = plan /\ flags' = flags /\ stage' = "panic"
  BY DEF InWork, Panic
<1>2. PICK P : Layered(types, P) /\ Unresolved(plan, flags) /\ ~ Direct(types, P)
  BY <1>1 DEF PassesInv, GroupsInv
<1>3. "RESOLVE_TYPEDEFS" \notin ToSet(plan)
  <2> SUFFICES ASSUME "RESOLVE_TYPEDEFS" \in ToSet(plan) PROVE FALSE
    OBVIOUS
  <2>1. PICK n \in DOMAIN plan : plan[n] = "RESOLVE_TYPEDEFS"
    BY DEF ToSet
  <2>2. /\ plan \in Seq(PassNames) /\ ResolvedBefore(plan)
    BY DEF PassesInv, InGoodOrder
  <2>3. n \in Nat /\ 1 \in DOMAIN plan /\ plan[1] = pass /\ n >= 1
    BY <1>1, <2>1, <2>2
  <2>4. n # 1
    BY <2>1, <2>3
  <2> QED
    BY <2>1, <2>2, <2>3, <2>4 DEF ResolvedBefore
<1>4. "REMOVE_DUPLICATES" \in flags /\ "RESOLVE_TYPEDEFS" \notin flags
  BY <1>2, <1>3 DEF Unresolved
<1>5. PICK i \in DOMAIN types : /\ types[i].kind = "complex" /\ types[i].content \in P
                               /\ types[types[i].content].kind \notin Groups
  BY <1>2 DEF Direct
<1>6. types[i].content \in DOMAIN types /\ IsSimpleReference(types[types[i].content])
  BY <1>2, <1>5 DEF Layered
<1>7. types[i].content # NoIdent
  BY <1>6, IdentAssumption DEF PassesInv, TypedefsInv, Sound, NoIdent
<1>8. FailsOnlyOnReferences'
  BY <1>1, <1>4, <1>5, <1>6, <1>7 DEF FailsOnlyOnReferences, OfKind, IsSimpleReference
<1>9. GroupsInv'
  BY <1>1, <1>2 DEF GroupsInv
<1> QED
  BY <1>1, <1>8, <1>9 DEF PassesInv

\* merge_choice_cardinalities and simplify_mixed_types keep the invariant or fail on a
\* reference.
LEMMA FallibleStep ==
  ASSUME PassesInv, NEW pass \in {"MERGE_CHOICE_CARDINALITIES", "SIMPLIFY_MIXED_TYPES"}, InWork(pass),
         TypedefsInv', Layers(types, types'), FailsIndirectly
  PROVE  PassesInv'
<1>1. CASE Leave
  BY <1>1, LeaveStep
<1>2. CASE Panic /\ ~ Leave
  BY <1>2, PanicStep DEF FailsIndirectly
<1> QED
  BY <1>1, <1>2 DEF FailsIndirectly

\* Resolving the typedefs gives every complex type its group back.
LEMMA ResolvingStep ==
  ASSUME PassesInv, ResolveTypedefs
  PROVE  PassesInv'
<1>1. TypedefsInv' /\ \A P : Layered(types, P) => Layered(types', P) /\ Direct(types', P)
  BY ResolveTypedefsStep DEF PassesInv
<1>2. /\ plan # <<>> /\ plan' = Tail(plan) /\ flags' = flags /\ stage' = "running"
  BY DEF ResolveTypedefs, InWork, Leave
<1>3. InGoodOrder(plan', flags')
  BY <1>2, GoodOrderTail DEF PassesInv
<1>4. GroupsInv'
  BY <1>1 DEF PassesInv, GroupsInv
<1>5. FailsOnlyOnReferences'
  BY <1>2 DEF FailsOnlyOnReferences
<1> QED
  BY <1>1, <1>3, <1>4, <1>5 DEF PassesInv

\* Removing duplicates does not: this is what a resolve_typedefs is to follow for.
LEMMA ReducingStep ==
  ASSUME PassesInv, RemoveDuplicates
  PROVE  PassesInv'
<1>1. TypedefsInv' /\ \A P : Layered(types, P) => Layered(types', P)
  BY RemoveDuplicatesStep DEF PassesInv
<1>2. /\ stage = "running" /\ plan # <<>> /\ Head(plan) = "REMOVE_DUPLICATES"
      /\ flags' = flags /\ stage' = "running" /\ plan' \in {plan, Tail(plan)}
  BY DEF RemoveDuplicates, InWork, Leave
<1>3. InGoodOrder(plan', flags')
  BY <1>2, GoodOrderTail DEF PassesInv
<1>4. Unresolved(plan', flags')
  <2>1. plan \in Seq(PassNames) /\ Rejoined(plan, flags)
    BY DEF PassesInv, InGoodOrder
  <2>2. 1 \in DOMAIN plan /\ plan[1] = "REMOVE_DUPLICATES"
    BY <1>2, <2>1
  <2>3. /\ "REMOVE_DUPLICATES" \in flags
        /\ "RESOLVE_TYPEDEFS" \in flags => "RESOLVE_TYPEDEFS" \in ToSet(plan)
    BY <2>1, <2>2 DEF Rejoined, ToSet
  <2>4. "RESOLVE_TYPEDEFS" \in ToSet(plan) => "RESOLVE_TYPEDEFS" \in ToSet(Tail(plan))
    BY <1>2, GoodOrderTail DEF PassesInv
  <2> QED
    BY <1>2, <2>3, <2>4 DEF Unresolved
<1>5. GroupsInv'
  BY <1>1, <1>4 DEF PassesInv, GroupsInv
<1>6. FailsOnlyOnReferences'
  BY <1>2 DEF FailsOnlyOnReferences
<1> QED
  BY <1>1, <1>3, <1>5, <1>6 DEF PassesInv

\* The invariant is kept by every pass.
LEMMA PassesNext == PassesInv /\ [Next \/ Terminated]_vars => PassesInv'
<1> SUFFICES ASSUME PassesInv, [Next \/ Terminated]_vars PROVE PassesInv'
  OBVIOUS
<1>0. TypedefsInv
  BY DEF PassesInv
<1>1. CASE UseUnrestrictedBaseType
  BY <1>0, <1>1, UnrestrictedStep, LeaveStep DEF UseUnrestrictedBaseType
<1>2. CASE RemoveEmptyEnumVariants
  BY <1>0, <1>2, EmptyVariantsStep, LeaveStep DEF RemoveEmptyEnumVariants
<1>3. CASE RemoveEmptyEnums
  BY <1>0, <1>3, EmptyEnumsStep, LeaveStep DEF RemoveEmptyEnums
<1>4. CASE ConvertDynamicToChoice
  BY <1>0, <1>4, ConvertDynamicsStep, LeaveStep DEF ConvertDynamicToChoice
<1>5. CASE FlattenComplexTypes
  BY <1>0, <1>5, FlattenComplexTypesStep, LeaveStep DEF FlattenComplexTypes
<1>6. CASE FlattenUnions
  BY <1>0, <1>6, FlattenUnionsStep, LeaveStep DEF FlattenUnions
<1>7. CASE MergeEnumUnions
  BY <1>0, <1>7, MergeUnionsStep, LeaveStep DEF MergeEnumUnions
<1>8. CASE ResolveTypedefs
  BY <1>8, ResolvingStep
<1>9. CASE RemoveDuplicateUnionVariants
  BY <1>0, <1>9, DuplicateVariantsStep, LeaveStep DEF RemoveDuplicateUnionVariants
<1>10. CASE RemoveEmptyUnions
  BY <1>0, <1>10, EmptyUnionsStep, LeaveStep DEF RemoveEmptyUnions
<1>11. CASE RemoveDuplicates
  BY <1>11, ReducingStep
<1>12. CASE MergeChoiceCardinalities
  BY <1>0, <1>12, MergeChoicesStep, FallibleStep DEF MergeChoiceCardinalities
<1>13. CASE SimplifyMixedTypes
  BY <1>0, <1>13, SimplifyMixedsStep, FallibleStep DEF SimplifyMixedTypes
<1>14. CASE Finish
  BY <1>14 DEF Finish, PassesInv, TypedefsInv, GroupsInv, FailsOnlyOnReferences, OfKind
<1>15. CASE Terminated \/ UNCHANGED vars
  BY <1>15 DEF Terminated, vars, PassesInv, TypedefsInv, GroupsInv, FailsOnlyOnReferences, OfKind
<1> QED
  BY <1>1, <1>2, <1>3, <1>4, <1>5, <1>6, <1>7, <1>8, <1>9, <1>10, <1>11, <1>12, <1>13, <1>14, <1>15
     DEF Next

\* The invariant of the passes that can fail (merge_choice_cardinalities.rs,
\* simplify_mixed_types.rs): groups stay apart from other types, and references to them
\* are resolved before these passes, if they are resolved at all.
THEOREM PassesInvariant == Spec => []PassesInv
BY PassesInit, PassesNext, PTL DEF Spec

\* The unwraps of merge_choice_cardinalities and simplify_mixed_types fail for no other
\* reason than a content that remove_duplicates made a reference, in every table.
THEOREM FailsAlwaysOnReferences == Spec => []FailsOnlyOnReferences
<1>1. PassesInv => FailsOnlyOnReferences
  BY DEF PassesInv
<1> QED
  BY <1>1, PassesInvariant, PTL
=============================================================================
