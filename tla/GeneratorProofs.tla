--------------------------- MODULE GeneratorProofs ---------------------------
(***************************************************************************)
(* Proofs about the Generator for every set of identifiers and every set   *)
(* of meta types.  The invariant is proved in layers, each of which uses   *)
(* the ones before: types, the id table, the single place of every type,   *)
(* the references of what was generated, the recorded reachability.        *)
(***************************************************************************)
EXTENDS Generator, TLAPS

-----------------------------------------------------------------------------
(* The three ways to follow a reference differ only in what they record.   *)

Follow(reach, b) ==
  /\ RefsLeft
  /\ GetOrCreate(NextRef.to, reach)
  /\ boxed' = Append(boxed, b)
  /\ UNCHANGED <<meta, boxFlags, phase, fixed, todo, cur, ctxReach, items>>

\* Each of the three actions follows the next reference, and records what the
\* current type can be reached from only along a reference that propagates.
LEMMA FollowCases ==
  ASSUME FollowElement \/ FollowValue \/ FollowPlain
  PROVE  \E reach \in {{}, ctxReach}, b \in BOOLEAN :
           /\ Follow(reach, b)
           /\ reach = {} \/ Propagates(NextRef)
           /\ b => ForceBox(cur) \/ NeedBox(NextRef.to)
<1>1. CASE FollowElement
  <2> DEFINE force == ForceBox(cur)
             isBoxed == ~ force /\ NextRef.direct /\ NeedBox(NextRef.to)
             reach == IF isBoxed THEN {} ELSE ctxReach
  <2>1. isBoxed \/ force \in BOOLEAN
    BY DEF ForceBox, NeedBox
  <2>2. Propagates(NextRef)
    BY <1>1 DEF FollowElement, Propagates
  <2>3. Follow(reach, isBoxed \/ force)
    BY <1>1 DEF FollowElement, Follow
  <2>4. reach \in {{}, ctxReach}
    OBVIOUS
  <2>5. isBoxed \/ force => ForceBox(cur) \/ NeedBox(NextRef.to)
    OBVIOUS
  <2> HIDE DEF reach, isBoxed, force
  <2> QED
    BY <2>1, <2>2, <2>3, <2>4, <2>5
<1>2. CASE FollowValue
  <2> DEFINE reach == IF NextRef.direct THEN ctxReach ELSE {}
  <2>1. reach = {} \/ Propagates(NextRef)
    BY <1>2 DEF FollowValue, Propagates
  <2>2. Follow(reach, FALSE)
    BY <1>2 DEF FollowValue, Follow
  <2>3. reach \in {{}, ctxReach}
    OBVIOUS
  <2> HIDE DEF reach
  <2> QED
    BY <2>1, <2>2, <2>3
<1>3. CASE FollowPlain
  <2>1. Follow({}, FALSE)
    BY <1>3 DEF FollowPlain, Follow
  <2> QED
    BY <2>1
<1> QED
  BY <1>1, <1>2, <1>3

-----------------------------------------------------------------------------
(* Types and the id table.  The type invariant needs the table: what a type*)
(* can be reached from is looked up through the ids.                       *)

\* What is queued, in work or generated has a definition, and what is queued
\* has a reference.
HasDefinition ==
  /\ Queued \subseteq DOMAIN meta \cap Cached
  /\ DOMAIN items \subseteq DOMAIN meta
  /\ cur # NoIdent => cur \in DOMAIN meta

\* While the generator is configured nothing is requested or generated.
NothingRequested ==
  phase = "config" =>
    /\ pending = <<>> /\ todo = {} /\ cur = NoIdent
    /\ ctxReach = {} /\ DOMAIN items = {}
    /\ \A t \in Cached : cache[t].reachable = {}

IInvTable == TypeOK /\ IdsConsistent /\ HasDefinition /\ NothingRequested

\* A defined type has a finite sequence of references to idents.
LEMMA MetaTyped ==
  ASSUME TypeOK, NEW t \in DOMAIN meta
  PROVE  /\ t \in Ident
         /\ meta[t].refs \in Seq(Reference)
         /\ \A i \in DOMAIN meta[t].refs :
              /\ meta[t].refs[i] \in Reference
              /\ meta[t].refs[i].to \in Ident
              /\ meta[t].refs[i] \in RefSet(t)
<1>1. DOMAIN meta \subseteq Ident /\ meta[t] \in MetaType
  BY ModelsAssumption DEF TypeOK
<1>2. meta[t].refs \in Seq(Reference)
  BY <1>1 DEF MetaType
<1>3. \A i \in DOMAIN meta[t].refs : meta[t].refs[i] \in Reference
  BY <1>2
<1> QED
  BY <1>1, <1>2, <1>3 DEF Reference, RefSet, RefsOf

\* Looking up or creating a reference keeps the table in its type, and every id
\* in it stands for a type that has a reference.
LEMMA GetOrCreateTable ==
  ASSUME IInvTable, NEW t \in Ident, NEW reach \in SUBSET Ids, GetOrCreate(t, reach),
         UNCHANGED <<meta, ctxReach>>
  PROVE  /\ types' \in Seq(Ident)
         /\ \A n \in Ids : n \in Ids' /\ types'[n + 1] = types[n + 1]
         /\ DOMAIN cache' = Cached \cup {t}
         /\ \A x \in DOMAIN cache' : cache'[x] \in TypeRef
         /\ IdsConsistent'
         /\ pending' \in Seq(Ident)
         /\ Queued' \subseteq Queued \cup {t}
         /\ Queued' \subseteq DOMAIN meta \cap DOMAIN cache'
<1> USE DEF IInvTable
<1>1. DOMAIN cache' = Cached \cup {t}
  BY DEF GetOrCreate, WithRef
<1>2. Len(types) \in Nat /\ Ids \subseteq Nat /\ reach \subseteq Nat
  BY DEF TypeOK, Ids
<1>3. ASSUME NEW x \in DOMAIN cache' PROVE cache'[x] \in TypeRef
  BY <1>1, <1>2, <1>3 DEF GetOrCreate, WithRef, TypeOK, TypeRef, Cached
<1>4. CASE t \in Cached
  <2>1. types' = types /\ pending' = pending
    BY <1>4 DEF GetOrCreate
  <2>2. \A x \in DOMAIN cache' : /\ cache'[x].id = cache[x].id
                                /\ cache'[x].reachable \subseteq cache[x].reachable \cup reach
    BY <1>4, <1>1 DEF GetOrCreate, WithRef
  <2>3. IdsConsistent'
    BY <1>4, <1>1, <2>1, <2>2 DEF IdsConsistent, Ids, Cached
  <2> QED
    BY <1>1, <1>3, <1>4, <2>1, <2>3 DEF TypeOK, HasDefinition, Queued, Ids
<1>5. CASE t \notin Cached
  <2>1. types' = Append(types, t) /\ pending' = Append(pending, t) /\ t \in DOMAIN meta
    BY <1>5 DEF GetOrCreate
  <2>2. /\ cache'[t].id = Len(types)
        /\ cache'[t].reachable = reach
        /\ \A x \in Cached : cache'[x] = cache[x]
    BY <1>5, <1>1 DEF GetOrCreate, WithRef
  <2>3. /\ types' \in Seq(Ident)
        /\ Ids' = Ids \cup {Len(types)}
        /\ types'[Len(types) + 1] = t
        /\ \A n \in Ids : types'[n + 1] = types[n + 1]
    BY <2>1 DEF TypeOK, Ids
  <2>4. IdsConsistent'
    <3>1. ASSUME NEW x \in DOMAIN cache'
          PROVE  /\ cache'[x].id \in Ids'
                 /\ types'[cache'[x].id + 1] = x
                 /\ cache'[x].reachable \subseteq Ids'
      BY <1>1, <2>2, <2>3 DEF IdsConsistent
    <3>2. \A n \in Ids' : types'[n + 1] \in DOMAIN cache'
      BY <1>1, <2>3 DEF IdsConsistent
    <3>3. ctxReach' \subseteq Ids'
      BY <2>3 DEF IdsConsistent
    <3> QED
      BY <3>1, <3>2, <3>3 DEF IdsConsistent, Cached
  <2>5. \A i \in DOMAIN pending' : pending'[i] = t \/ (i \in DOMAIN pending /\ pending'[i] = pending[i])
    BY <2>1 DEF TypeOK
  <2>6. Queued' \subseteq Queued \cup {t}
    BY <2>5 DEF Queued
  <2>7. pending' \in Seq(Ident)
    BY <2>1 DEF TypeOK
  <2> QED
    BY <1>1, <1>3, <2>1, <2>3, <2>4, <2>6, <2>7 DEF HasDefinition
<1> QED
  BY <1>4, <1>5

\* Every variable stays in its type, whatever is generated has a definition and
\* nothing is generated before the configuration is fixed.
LEMMA TableInit == Init => IInvTable
  <1> SUFFICES ASSUME Init PROVE IInvTable
    OBVIOUS
  <1> USE DEF Init
  <1>1. TypeOK
    BY DEF TypeOK, Cached
  <1>2. HasDefinition /\ IdsConsistent
    BY DEF HasDefinition, Queued, IdsConsistent, Ids, Cached
  <1>3. NothingRequested
    BY DEF NothingRequested, Cached
  <1> QED
    BY <1>1, <1>2, <1>3 DEF IInvTable

LEMMA TableStep ==
  ASSUME IInvTable, [Next]_vars
  PROVE  IInvTable'
<1> USE DEF IInvTable
<1>1. ASSUME NEW t \in Ident, WithType(t) PROVE IInvTable'
  <2> USE <1>1 DEF WithType
  <2>1. /\ Len(types) \in Nat
        /\ types' \in Seq(Ident)
        /\ Ids' = Ids \cup {Len(types)}
        /\ types'[Len(types) + 1] = t
        /\ \A n \in Ids : types'[n + 1] = types[n + 1]
    BY DEF TypeOK, Ids
  <2>2. DOMAIN cache' = Cached \cup {t} /\ cache'[t].id = Len(types)
        /\ \A x \in Cached \ {t} : cache'[x] = cache[x]
    OBVIOUS
  <2>3. \A x \in DOMAIN cache' : cache'[x] \in TypeRef /\ cache'[x].reachable = {}
    BY <2>1, <2>2 DEF TypeOK, TypeRef, NothingRequested
  <2>4. TypeOK'
    BY <2>1, <2>2, <2>3 DEF TypeOK, Cached
  <2>5. HasDefinition'
    BY DEF HasDefinition, NothingRequested, Queued
  <2>6. NothingRequested'
    BY <2>3 DEF NothingRequested, Cached
  <2>7. IdsConsistent'
    <3>1. ASSUME NEW x \in DOMAIN cache'
          PROVE  cache'[x].id \in Ids' /\ types'[cache'[x].id + 1] = x
      BY <2>1, <2>2 DEF IdsConsistent
    <3>2. \A n \in Ids' : types'[n + 1] \in DOMAIN cache'
      BY <2>1, <2>2 DEF IdsConsistent
    <3> QED
      BY <3>1, <3>2, <2>1, <2>3 DEF IdsConsistent, Cached
  <2> QED
    BY <2>4, <2>5, <2>6, <2>7
<1>2. CASE IntoFixed
  BY <1>2 DEF IntoFixed, TypeOK, IdsConsistent, Ids, HasDefinition, NothingRequested, Queued, Cached
<1>3. ASSUME NEW R \in SUBSET Ident, Call(R) PROVE IInvTable'
  BY <1>3 DEF Call, TypeOK, IdsConsistent, Ids, HasDefinition, NothingRequested, Queued, Cached
<1>4. ASSUME NEW t \in Ident, Enqueue(t) PROVE IInvTable'
  <2>1. GetOrCreate(t, {}) /\ phase = "fixed" /\ todo' = todo \ {t}
        /\ UNCHANGED <<meta, boxFlags, phase, fixed, cur, ctxReach, boxed, items>>
    BY <1>4 DEF Enqueue
  <2>2. /\ types' \in Seq(Ident)
        /\ DOMAIN cache' = Cached \cup {t}
        /\ \A x \in DOMAIN cache' : cache'[x] \in TypeRef
        /\ IdsConsistent'
        /\ pending' \in Seq(Ident)
        /\ Queued' \subseteq DOMAIN meta \cap DOMAIN cache'
    BY <2>1, GetOrCreateTable
  <2>3. TypeOK'
    BY <2>1, <2>2 DEF TypeOK, Cached
  <2>4. HasDefinition' /\ NothingRequested'
    BY <2>1, <2>2 DEF HasDefinition, NothingRequested, Cached
  <2> QED
    BY <2>2, <2>3, <2>4
<1>5. ASSUME NEW t \in Ident, EnqueueUnknown(t) PROVE IInvTable'
  BY <1>5 DEF EnqueueUnknown, TypeOK, IdsConsistent, Ids, HasDefinition, NothingRequested, Queued, Cached
<1>6. CASE Begin
  <2> USE <1>6 DEF Begin
  <2> DEFINE next == Head(pending)
  <2>1. pending # <<>> /\ next \in Queued /\ next \in Ident /\ next \in Cached
    BY DEF TypeOK, Queued, HasDefinition
  <2>2. pending' \in Seq(Ident) /\ Queued' \subseteq Queued
    <3>1. \A i \in DOMAIN pending' : i + 1 \in DOMAIN pending /\ pending'[i] = pending[i + 1]
      BY <2>1 DEF TypeOK
    <3> QED
      BY <2>1, <3>1 DEF TypeOK, Queued
  <2>3. GetReachable(next) \subseteq Ids
    <3> HIDE DEF next
    <3>1. cache[next].id \in Ids /\ cache[next].reachable \subseteq Ids
      BY <2>1 DEF IdsConsistent
    <3>2. \A n \in cache[next].reachable : cache[types[n + 1]].reachable \subseteq Ids
      BY <3>1 DEF IdsConsistent
    <3> QED
      BY <3>1, <3>2 DEF GetReachable
  <2>4. ctxReach' \subseteq Ids /\ Ids' = Ids /\ Ids \subseteq Nat
    BY <2>3 DEF Ids
  <2>5. TypeOK'
    <3>1. cur' \in Ident
      BY <2>1
    <3>2. boxed' \in Seq(BOOLEAN)
      OBVIOUS
    <3>3. ctxReach' \subseteq Nat
      BY <2>4
    <3> HIDE DEF Begin
    <3> QED
      BY <1>6, <2>2, <3>1, <3>2, <3>3 DEF Begin, TypeOK, Cached
  <2>6. HasDefinition' /\ NothingRequested'
    BY <2>1, <2>2 DEF HasDefinition, NothingRequested, Cached
  <2>7. IdsConsistent'
    BY <2>4 DEF IdsConsistent, Cached
  <2> QED
    BY <2>5, <2>6, <2>7
<1>7. CASE FollowElement \/ FollowValue \/ FollowPlain
  <2>1. PICK reach \in {{}, ctxReach}, b \in BOOLEAN : Follow(reach, b)
    BY <1>7, FollowCases
  <2> USE <2>1 DEF Follow
  <2>2. NextRef.to \in Ident
    BY MetaTyped DEF RefsLeft, NextRef, HasDefinition, TypeOK
  <2>3. reach \in SUBSET Ids
    BY DEF IdsConsistent
  <2>4. /\ types' \in Seq(Ident)
        /\ DOMAIN cache' = Cached \cup {NextRef.to}
        /\ \A x \in DOMAIN cache' : cache'[x] \in TypeRef
        /\ IdsConsistent'
        /\ pending' \in Seq(Ident)
        /\ Queued' \subseteq DOMAIN meta \cap DOMAIN cache'
    BY <2>2, <2>3, GetOrCreateTable
  <2>5. TypeOK'
    BY <2>2, <2>4 DEF TypeOK, Cached
  <2>6. HasDefinition' /\ NothingRequested'
    BY <2>4 DEF HasDefinition, NothingRequested, RefsLeft, Cached
  <2> QED
    BY <2>4, <2>5, <2>6
<1>8. CASE FollowUnknown
  BY <1>8 DEF FollowUnknown, TypeOK, IdsConsistent, Ids, HasDefinition, NothingRequested, Queued, Cached
<1>9. CASE End
  BY <1>9 DEF End, TypeOK, IdsConsistent, Ids, HasDefinition, NothingRequested, Queued, Cached
<1>10. CASE Finish \/ UNCHANGED vars
  BY <1>10 DEF Finish, vars, TypeOK, IdsConsistent, Ids, HasDefinition, NothingRequested, Queued, Cached
<1>11. DOMAIN meta \subseteq Ident
  BY ModelsAssumption DEF TypeOK
<1>12. CASE Requests
  <2>1. {t \in DOMAIN meta : meta[t].named} \subseteq Ident /\ \A t \in Ident : {t} \subseteq Ident
    BY <1>11
  <2> QED
    BY <1>12, <1>3, <1>10, <1>11, <2>1
    DEF Requests, GenerateAllTypes, GenerateNamedTypes, GenerateType
<1> QED
  BY <1>1, <1>2, <1>4, <1>5, <1>6, <1>7, <1>8, <1>9, <1>10, <1>12
  DEF Next, Configure, Run, Terminated

\* The invariant of the types and the id table holds in every reachable state.
THEOREM TableInvariant == Spec => []IInvTable
  BY TableInit, TableStep, PTL DEF Spec

\* Every variable stays in its type, in every run of the generator.
THEOREM TypeCorrect == Spec => []TypeOK
<1>1. IInvTable => TypeOK
  BY DEF IInvTable
<1> QED
  BY <1>1, TableInvariant, PTL

\* The lookups of get_reachable never fail: every id that is recorded belongs to
\* a type that has a reference, and that reference has this id.
THEOREM IdsAlwaysConsistent == Spec => []IdsConsistent
<1>1. IInvTable => IdsConsistent
  BY DEF IInvTable
<1> QED
  BY <1>1, TableInvariant, PTL

-----------------------------------------------------------------------------
(* Every type is in one place.                                             *)

\* Looking up or creating a reference queues a type only if it is in no place.
LEMMA GetOrCreateOnce ==
  ASSUME IInvTable, GeneratedOnce, NEW t \in Ident, NEW reach, GetOrCreate(t, reach),
         UNCHANGED <<fixed, cur, items>>
  PROVE  GeneratedOnce'
<1>1. DOMAIN cache' = Cached \cup {t}
  BY DEF GetOrCreate, WithRef
<1>2. CASE t \in Cached
  <2>1. pending' = pending /\ DOMAIN cache' = Cached
    BY <1>1, <1>2 DEF GetOrCreate
  <2> QED
    BY <2>1 DEF GeneratedOnce, Queued, Cached
<1>3. CASE t \notin Cached
  <2>1. pending' = Append(pending, t)
    BY <1>3 DEF GetOrCreate
  <2>2. /\ DOMAIN pending' = DOMAIN pending \cup {Len(pending) + 1}
        /\ \A i \in DOMAIN pending : pending'[i] = pending[i]
        /\ pending'[Len(pending) + 1] = t
    BY <2>1 DEF IInvTable, TypeOK
  <2>3. Queued' = Queued \cup {t}
    BY <2>2 DEF Queued
  <2>4. t \notin fixed \cup Queued \cup {cur} \cup DOMAIN items
    BY <1>3, IdentAssumption DEF GeneratedOnce
  <2>5. \A i, j \in DOMAIN pending' : pending'[i] = pending'[j] => i = j
    BY <2>2, <2>4 DEF GeneratedOnce, Queued
  <2> QED
    BY <1>1, <2>3, <2>4, <2>5 DEF GeneratedOnce, Cached
<1> QED
  BY <1>2, <1>3

LEMMA OnceStep ==
  ASSUME IInvTable, GeneratedOnce, [Next]_vars
  PROVE  GeneratedOnce'
<1>1. ASSUME NEW t \in Ident, WithType(t) PROVE GeneratedOnce'
  <2>1. pending' = <<>> /\ DOMAIN items' = {} /\ cur' = NoIdent
    BY <1>1 DEF WithType, IInvTable, NothingRequested
  <2>2. DOMAIN cache' = Cached \cup {t} /\ fixed' = fixed \cup {t}
    BY <1>1 DEF WithType
  <2>3. Cached = fixed /\ fixed \subseteq Ident
    BY <1>1 DEF WithType, IInvTable, TypeOK, NothingRequested, GeneratedOnce, Queued
  <2>4. Queued' = {}
    BY <2>1 DEF Queued
  <2> QED
    BY <2>1, <2>2, <2>3, <2>4, IdentAssumption DEF GeneratedOnce, Cached
<1>2. ASSUME NEW t \in Ident, Enqueue(t) PROVE GeneratedOnce'
  BY <1>2, GetOrCreateOnce DEF Enqueue
<1>3. CASE Begin
  <2> USE <1>3 DEF Begin
  <2>1. /\ pending # <<>> /\ pending \in Seq(Ident)
        /\ DOMAIN pending' = 1 .. Len(pending) - 1
        /\ \A i \in DOMAIN pending' : pending'[i] = pending[i + 1]
        /\ Head(pending) = pending[1] /\ DOMAIN pending = 1 .. Len(pending)
        /\ Len(pending) \in Nat \ {0}
    BY DEF IInvTable, TypeOK
  <2> HIDE DEF Begin
  <2>2. \A i, j \in DOMAIN pending' : pending'[i] = pending'[j] => i = j
    <3> SUFFICES ASSUME NEW i \in DOMAIN pending', NEW j \in DOMAIN pending', pending'[i] = pending'[j]
                 PROVE  i = j
      OBVIOUS
    <3>1. i \in Nat /\ j \in Nat /\ i + 1 \in DOMAIN pending /\ j + 1 \in DOMAIN pending
      BY <2>1
    <3>2. i + 1 = j + 1
      BY <2>1, <3>1 DEF GeneratedOnce
    <3> QED
      BY <3>1, <3>2
  <2>3. Queued' = Queued \ {pending[1]}
    <3>1. \A i \in DOMAIN pending' : i + 1 \in DOMAIN pending /\ i + 1 # 1
      BY <2>1
    <3>2. \A i \in DOMAIN pending' : pending'[i] \in Queued /\ pending'[i] # pending[1]
      BY <2>1, <3>1 DEF GeneratedOnce, Queued
    <3>3. ASSUME NEW i \in DOMAIN pending, pending[i] # pending[1] PROVE pending[i] \in Queued'
      <4>1. i - 1 \in DOMAIN pending' /\ pending'[i - 1] = pending[i]
        BY <2>1, <3>3
      <4> QED
        BY <4>1 DEF Queued
    <3> QED
      BY <3>2, <3>3 DEF Queued
  <2>4. /\ cur' = pending[1] /\ cur = NoIdent /\ pending[1] \in Queued
        /\ UNCHANGED <<fixed, items, cache>>
    BY <2>1 DEF Begin, Queued
  <2>5. Queued \subseteq Ident
    BY <2>1 DEF Queued
  <2> QED
    BY <2>2, <2>3, <2>4, <2>5, IdentAssumption DEF GeneratedOnce, Cached
<1>4. CASE FollowElement \/ FollowValue \/ FollowPlain
  <2>1. PICK reach \in {{}, ctxReach}, b \in BOOLEAN : Follow(reach, b)
    BY <1>4, FollowCases
  <2>2. NextRef.to \in Ident
    BY <2>1, MetaTyped DEF Follow, RefsLeft, NextRef, IInvTable, HasDefinition, TypeOK
  <2> QED
    BY <2>1, <2>2, GetOrCreateOnce DEF Follow
<1>5. CASE End
  <2>1. /\ cur \in Ident /\ cur' = NoIdent /\ DOMAIN items' = DOMAIN items \cup {cur}
        /\ UNCHANGED <<pending, fixed, cache>>
    BY <1>5 DEF End, IInvTable, TypeOK
  <2>2. fixed \subseteq Ident /\ Queued \subseteq Ident /\ DOMAIN items \subseteq Ident
    BY DEF IInvTable, TypeOK, Queued
  <2>3. Queued' = Queued
    BY <2>1 DEF Queued
  <2> QED
    BY <2>1, <2>2, <2>3, IdentAssumption DEF GeneratedOnce, Cached
<1>6. ASSUME UNCHANGED <<pending, fixed, cur, cache, items>> PROVE GeneratedOnce'
  BY <1>6 DEF GeneratedOnce, Queued, Cached
<1> QED
  BY <1>1, <1>2, <1>3, <1>4, <1>5, <1>6
  DEF Next, Configure, Requests, Run, Terminated, vars, IntoFixed, GenerateAllTypes,
      GenerateNamedTypes, GenerateType, Call, Finish, EnqueueUnknown, FollowUnknown

\* A type has one place: no run of the generator queues or generates it twice, or
\* generates a type the user supplies.
THEOREM AlwaysGeneratedOnce == Spec => []GeneratedOnce
<1>1. Init => GeneratedOnce
  BY IdentAssumption DEF Init, GeneratedOnce, Queued, Cached
<1>2. IInvTable /\ GeneratedOnce /\ [Next]_vars => GeneratedOnce'
  BY OnceStep
<1> QED
  BY <1>1, <1>2, TableInvariant, PTL DEF Spec

-----------------------------------------------------------------------------
(* What is generated names only types that have a path.                    *)

\* The references that were followed so far have a path.
RefsFollowed ==
  /\ \A t \in DOMAIN items : /\ Len(items[t]) = Len(meta[t].refs)
                             /\ \A r \in RefSet(t) : r.to \in Cached
  /\ cur # NoIdent => /\ Len(boxed) <= Len(meta[cur].refs)
                      /\ \A i \in 1 .. Len(boxed) : meta[cur].refs[i].to \in Cached

LEMMA FollowedStep ==
  ASSUME IInvTable, RefsFollowed, [Next]_vars
  PROVE  RefsFollowed'
<1>1. ASSUME NEW t \in Ident, WithType(t) PROVE RefsFollowed'
  <2>1. Cached \subseteq DOMAIN cache'
    BY <1>1 DEF WithType
  <2> QED
    BY <1>1, <2>1 DEF WithType, RefsFollowed, RefSet, Cached
<1>2. ASSUME NEW t \in Ident, Enqueue(t) PROVE RefsFollowed'
  <2>1. Cached \subseteq DOMAIN cache'
    BY <1>2 DEF Enqueue, GetOrCreate, WithRef
  <2> QED
    BY <1>2, <2>1 DEF Enqueue, RefsFollowed, RefSet, Cached
<1>3. CASE Begin
  <2>1. boxed' = <<>> /\ cur' \in DOMAIN meta /\ UNCHANGED <<meta, cache, items>>
    BY <1>3 DEF Begin, IInvTable, TypeOK, HasDefinition, Queued
  <2>2. Len(meta[cur'].refs) \in Nat
    BY <2>1, MetaTyped DEF IInvTable
  <2>3. Len(boxed') = 0
    BY <2>1
  <2> QED
    BY <2>1, <2>2, <2>3 DEF RefsFollowed, RefSet, Cached
<1>4. CASE FollowElement \/ FollowValue \/ FollowPlain
  <2>1. PICK reach \in {{}, ctxReach}, b \in BOOLEAN : Follow(reach, b)
    BY <1>4, FollowCases
  <2>2. DOMAIN cache' = Cached \cup {NextRef.to}
    BY <2>1 DEF Follow, GetOrCreate, WithRef
  <2>3. Len(boxed) \in Nat /\ Len(boxed') = Len(boxed) + 1 /\ Len(boxed) < Len(meta[cur].refs)
    BY <2>1 DEF Follow, RefsLeft, IInvTable, TypeOK
  <2>4. cur \in DOMAIN meta
    BY <2>1 DEF Follow, RefsLeft, IInvTable, HasDefinition
  <2>5. Len(meta[cur].refs) \in Nat
    BY <2>4, MetaTyped DEF IInvTable
  <2>6. \A i \in 1 .. Len(boxed') : i \in 1 .. Len(boxed) \/ i = Len(boxed) + 1
    BY <2>3
  <2>7. Len(boxed') <= Len(meta[cur].refs)
    BY <2>3, <2>5
  <2>8. UNCHANGED <<meta, cur, items>>
    BY <2>1 DEF Follow
  <2> QED
    BY <2>2, <2>3, <2>6, <2>7, <2>8 DEF RefsFollowed, RefSet, Cached, RefsLeft, NextRef
<1>5. CASE End
  <2>1. /\ cur # NoIdent /\ cur' = NoIdent /\ Len(boxed) = Len(meta[cur].refs)
        /\ DOMAIN items' = DOMAIN items \cup {cur}
        /\ items'[cur] = boxed /\ \A t \in DOMAIN items \ {cur} : items'[t] = items[t]
        /\ UNCHANGED <<meta, cache>>
    BY <1>5 DEF End
  <2>2. DOMAIN meta[cur].refs = 1 .. Len(boxed)
    BY <2>1, MetaTyped DEF IInvTable, HasDefinition
  <2>3. \A r \in RefSet(cur) : r.to \in Cached
    BY <2>1, <2>2 DEF RefsFollowed, RefSet, RefsOf
  <2> QED
    BY <2>1, <2>3 DEF RefsFollowed, RefSet, Cached
<1>6. ASSUME UNCHANGED <<meta, cur, boxed, cache, items>> PROVE RefsFollowed'
  BY <1>6 DEF RefsFollowed, RefSet, Cached
<1> QED
  BY <1>1, <1>2, <1>3, <1>4, <1>5, <1>6
  DEF Next, Configure, Requests, Run, Terminated, vars, IntoFixed, GenerateAllTypes,
      GenerateNamedTypes, GenerateType, Call, Finish, EnqueueUnknown, FollowUnknown

THEOREM AlwaysFollowed == Spec => []RefsFollowed
<1>1. Init => RefsFollowed
  BY DEF Init, RefsFollowed
<1>2. IInvTable /\ RefsFollowed /\ [Next]_vars => RefsFollowed'
  BY FollowedStep
<1> QED
  BY <1>1, <1>2, TableInvariant, PTL DEF Spec

\* No generated type names a type without a path, and when a call has returned
\* every type with a path is generated or supplied by the user.
THEOREM NothingEverDangles == Spec => []NothingDangling
<1>1. ASSUME RefsFollowed, GeneratedOnce PROVE NothingDangling
  <2>1. Idle => Cached \ fixed = DOMAIN items
    <3>1. Idle => Queued = {} /\ {cur} \ {NoIdent} = {}
      BY DEF Idle, Queued
    <3> QED
      BY <3>1, <1>1 DEF GeneratedOnce
  <2> QED
    BY <1>1, <2>1 DEF RefsFollowed, NothingDangling
<1> QED
  BY <1>1, AlwaysFollowed, AlwaysGeneratedOnce, PTL

-----------------------------------------------------------------------------
(* The loop detection records only what is true.                           *)

LEMMA LeadsToItself == \A m, a : LeadsTo(m, a, a)
  BY DEF LeadsTo

LEMMA LeadsToChained ==
  \A m, a, b, c : LeadsTo(m, a, b) /\ LeadsTo(m, b, c) => LeadsTo(m, a, c)
  BY DEF LeadsTo

LEMMA LeadsToNext ==
  ASSUME NEW m, NEW a \in DOMAIN m, NEW r \in RefsOf(m, a), Propagates(r)
  PROVE  LeadsTo(m, a, r.to)
  BY DEF LeadsTo

\* Recording a true set at a reference keeps the table true.
LEMMA GetOrCreateSound ==
  ASSUME IInvTable, ReachSound, NEW t \in Ident, NEW reach \in SUBSET Ids,
         GetOrCreate(t, reach), UNCHANGED <<meta, ctxReach, cur>>,
         \A n \in reach : LeadsTo(meta, types[n + 1], t)
  PROVE  ReachSound'
<1>1. /\ \A n \in Ids : types'[n + 1] = types[n + 1]
      /\ DOMAIN cache' = Cached \cup {t}
  BY GetOrCreateTable
<1>2. ASSUME NEW x \in Cached \ {t} PROVE cache'[x] = cache[x]
  BY <1>2, <1>1 DEF GetOrCreate, WithRef
<1>3. cache'[t].reachable = IF t \in Cached THEN cache[t].reachable \cup reach ELSE reach
  BY <1>1 DEF GetOrCreate, WithRef
<1>4. /\ \A x \in Cached : cache[x].reachable \subseteq Ids
      /\ ctxReach \subseteq Ids
  BY DEF IInvTable, IdsConsistent
<1>5. ASSUME NEW x \in DOMAIN cache', NEW n \in cache'[x].reachable
      PROVE  LeadsTo(meta, types'[n + 1], x)
  <2>1. CASE x # t
    BY <2>1, <1>1, <1>2, <1>4 DEF ReachSound
  <2>2. CASE x = t
    BY <2>2, <1>1, <1>3, <1>4 DEF ReachSound
  <2> QED
    BY <2>1, <2>2
<1>6. cur # NoIdent => \A n \in ctxReach : LeadsTo(meta, types'[n + 1], cur)
  BY <1>1, <1>4 DEF ReachSound
<1> QED
  BY <1>5, <1>6 DEF ReachSound, Cached

\* One level of indirection is taken; each level is true and so is their union.
LEMMA GetReachableSound ==
  ASSUME IInvTable, ReachSound, NEW t \in Cached, NEW n \in GetReachable(t)
  PROVE  LeadsTo(meta, types[n + 1], t)
<1>1. CASE n = cache[t].id
  <2>1. types[n + 1] = t
    BY <1>1 DEF IInvTable, IdsConsistent
  <2> QED
    BY <2>1, LeadsToItself
<1>2. CASE n \in cache[t].reachable
  BY <1>2 DEF ReachSound
<1>3. ASSUME NEW i \in cache[t].reachable, n \in cache[types[i + 1]].reachable
      PROVE  LeadsTo(meta, types[n + 1], t)
  <2>1. types[i + 1] \in Cached
    BY DEF IInvTable, IdsConsistent
  <2>2. LeadsTo(meta, types[n + 1], types[i + 1])
    BY <1>3, <2>1 DEF ReachSound
  <2>3. LeadsTo(meta, types[i + 1], t)
    BY DEF ReachSound
  <2> QED
    BY <2>2, <2>3, LeadsToChained
<1> QED
  BY <1>1, <1>2, <1>3 DEF GetReachable

LEMMA SoundStep ==
  ASSUME IInvTable, ReachSound, [Next]_vars
  PROVE  ReachSound'
<1>1. ASSUME NEW t \in Ident, WithType(t) PROVE ReachSound'
  <2>1. NothingRequested' /\ phase' = "config"
    BY <1>1, TableStep DEF WithType, IInvTable
  <2> QED
    BY <2>1 DEF NothingRequested, ReachSound
<1>2. ASSUME NEW t \in Ident, Enqueue(t) PROVE ReachSound'
  BY <1>2, GetOrCreateSound DEF Enqueue
<1>3. CASE Begin
  <2> DEFINE next == Head(pending)
  <2>1. /\ cur' = next /\ ctxReach' = GetReachable(next)
        /\ UNCHANGED <<meta, types, cache>> /\ pending # <<>>
    BY <1>3 DEF Begin
  <2>2. next \in Cached
    BY <2>1 DEF IInvTable, TypeOK, HasDefinition, Queued
  <2> HIDE DEF next
  <2>3. \A n \in GetReachable(next) : LeadsTo(meta, types[n + 1], next)
    BY <2>2, GetReachableSound
  <2> QED
    BY <2>1, <2>3 DEF ReachSound, Cached
<1>4. CASE FollowElement \/ FollowValue \/ FollowPlain
  <2>1. PICK reach \in {{}, ctxReach}, b \in BOOLEAN :
               Follow(reach, b) /\ (reach = {} \/ Propagates(NextRef))
    BY <1>4, FollowCases
  <2>2. /\ cur # NoIdent /\ cur \in DOMAIN meta
        /\ Len(boxed) + 1 \in DOMAIN meta[cur].refs
    <3>1. cur # NoIdent /\ cur \in DOMAIN meta
      BY <2>1 DEF Follow, RefsLeft, IInvTable, HasDefinition
    <3>2. Len(boxed) \in Nat /\ Len(boxed) < Len(meta[cur].refs)
      BY <2>1 DEF Follow, RefsLeft, IInvTable, TypeOK
    <3> QED
      BY <3>1, <3>2, MetaTyped DEF IInvTable
  <2>3. NextRef.to \in Ident /\ NextRef \in RefsOf(meta, cur)
    BY <2>2, MetaTyped DEF NextRef, IInvTable, RefSet
  <2>4. ASSUME NEW n \in reach PROVE LeadsTo(meta, types[n + 1], NextRef.to)
    <3>1. reach = ctxReach /\ Propagates(NextRef)
      BY <2>1, <2>4
    <3>2. LeadsTo(meta, types[n + 1], cur)
      BY <2>2, <3>1 DEF ReachSound
    <3>3. LeadsTo(meta, cur, NextRef.to)
      BY <2>2, <2>3, <3>1, LeadsToNext
    <3> QED
      BY <3>2, <3>3, LeadsToChained
  <2>5. reach \in SUBSET Ids
    BY DEF IInvTable, IdsConsistent
  <2> QED
    BY <2>1, <2>3, <2>4, <2>5, GetOrCreateSound DEF Follow
<1>5. CASE End
  BY <1>5 DEF End, ReachSound, Cached
<1>6. ASSUME UNCHANGED <<meta, types, cur, ctxReach, cache>> PROVE ReachSound'
  BY <1>6 DEF ReachSound, Cached
<1> QED
  BY <1>1, <1>2, <1>3, <1>4, <1>5, <1>6
  DEF Next, Configure, Requests, Run, Terminated, vars, IntoFixed, GenerateAllTypes,
      GenerateNamedTypes, GenerateType, Call, Finish, EnqueueUnknown, FollowUnknown

\* Whatever the loop detection records is true in every run: the type that is
\* listed really mentions the one it is listed at, over any number of types.
THEOREM ReachAlwaysSound == Spec => []ReachSound
<1>1. Init => ReachSound
  BY DEF Init, ReachSound, Cached
<1>2. IInvTable /\ ReachSound /\ [Next]_vars => ReachSound'
  BY SoundStep
<1> QED
  BY <1>1, <1>2, TableInvariant, PTL DEF Spec

-----------------------------------------------------------------------------
(* A box is only put where the type comes back to itself.                  *)

\* The boxes of what is generated and of the type in work.
BoxesJustified ==
  /\ BoxOnlyOnCycle
  /\ cur # NoIdent => \A i \in DOMAIN boxed :
       boxed[i] /\ ~ ForceBox(cur) => Recursive(meta, cur, i)

\* need_box follows references along which reachability is recorded.
LEMMA ChainLeads ==
  ASSUME TypeOK, NEW t \in Visible, NEW y \in Chain(t)
  PROVE  y \in DOMAIN meta /\ LeadsTo(meta, t, y)
<1>1. Visible \subseteq DOMAIN meta
  BY DEF Visible
<1>2. ASSUME NEW S \in SUBSET Ident, t \in S,
             \A x \in S \cap DOMAIN meta :
               \A r \in RefsOf(meta, x) : Propagates(r) => r.to \in S
      PROVE  y \in S
  <2> DEFINE V == S \cap Visible
  <2>1. t \in V /\ V \in SUBSET Visible
    BY <1>2
  <2>2. ASSUME NEW x \in V PROVE Through(x) \subseteq V
    BY <1>1, <1>2 DEF Through, RefSet, Propagates
  <2> HIDE DEF V
  <2>3. y \in V
    BY <2>1, <2>2 DEF Chain
  <2> QED
    BY <2>3 DEF V
<1> QED
  BY <1>1, <1>2 DEF LeadsTo, Chain

\* Where need_box answers yes the type comes back to itself.
LEMMA NeedBoxSound ==
  ASSUME IInvTable, ReachSound, cur # NoIdent, NEW i, NEW t,
         t = meta[cur].refs[i].to, NeedBox(t)
  PROVE  Recursive(meta, cur, i)
<1>1. t \in Visible
  BY DEF NeedBox
<1>2. PICK y \in Chain(t) : \/ cache[y].id \in ctxReach
                            \/ \E z \in Through(y) : y \in Chain(z)
  BY DEF NeedBox
<1>3. y \in DOMAIN meta /\ LeadsTo(meta, t, y) /\ y \in Cached
  BY <1>1, ChainLeads DEF IInvTable, Chain, Visible
<1>4. CASE cache[y].id \in ctxReach
  <2>1. types[cache[y].id + 1] = y
    BY <1>3 DEF IInvTable, IdsConsistent
  <2>2. LeadsTo(meta, y, cur)
    BY <1>4, <2>1 DEF ReachSound
  <2> QED
    BY <1>3, <2>2, LeadsToChained DEF Recursive
<1>5. ASSUME NEW z \in Through(y), y \in Chain(z) PROVE Recursive(meta, cur, i)
  <2>1. z \in Visible
    BY DEF Through
  <2>2. LeadsTo(meta, z, y)
    BY <1>5, <2>1, ChainLeads DEF IInvTable
  <2>3. PICK r \in RefsOf(meta, y) : r.to = z /\ Propagates(r)
    BY DEF Through, RefSet, Propagates
  <2> QED
    BY <1>3, <2>2, <2>3 DEF Recursive
<1> QED
  BY <1>2, <1>4, <1>5

LEMMA BoxesStep ==
  ASSUME IInvTable, ReachSound, BoxesJustified, [Next]_vars
  PROVE  BoxesJustified'
<1>1. CASE Begin
  <2>1. boxed' = <<>> /\ UNCHANGED <<meta, boxFlags, items>>
    BY <1>1 DEF Begin
  <2> QED
    BY <2>1 DEF BoxesJustified, BoxOnlyOnCycle, ForceBox
<1>2. CASE FollowElement \/ FollowValue \/ FollowPlain
  <2>1. PICK reach \in {{}, ctxReach}, b \in BOOLEAN :
               /\ Follow(reach, b)
               /\ b => ForceBox(cur) \/ NeedBox(NextRef.to)
    BY <1>2, FollowCases
  <2>2. cur # NoIdent /\ UNCHANGED <<meta, boxFlags, cur, items>> /\ boxed' = Append(boxed, b)
    BY <2>1 DEF Follow, RefsLeft
  <2>3. /\ DOMAIN boxed' = DOMAIN boxed \cup {Len(boxed) + 1}
        /\ boxed'[Len(boxed) + 1] = b
        /\ \A i \in DOMAIN boxed : boxed'[i] = boxed[i]
    BY <2>2 DEF IInvTable, TypeOK
  <2>4. b /\ ~ ForceBox(cur) => Recursive(meta, cur, Len(boxed) + 1)
    BY <2>1, <2>2, NeedBoxSound DEF NextRef
  <2>5. \A i \in DOMAIN boxed' :
          boxed'[i] /\ ~ ForceBox(cur) => Recursive(meta, cur, i)
    BY <2>2, <2>3, <2>4 DEF BoxesJustified
  <2> QED
    BY <2>2, <2>5 DEF BoxesJustified, BoxOnlyOnCycle, ForceBox
<1>3. CASE End
  <2>1. /\ cur # NoIdent /\ cur' = NoIdent
        /\ DOMAIN items' = DOMAIN items \cup {cur}
        /\ items'[cur] = boxed /\ \A t \in DOMAIN items \ {cur} : items'[t] = items[t]
        /\ UNCHANGED <<meta, boxFlags>>
    BY <1>3 DEF End
  <2> QED
    BY <2>1 DEF BoxesJustified, BoxOnlyOnCycle, ForceBox
<1>4. ASSUME UNCHANGED <<meta, boxFlags, cur, boxed, items>> PROVE BoxesJustified'
  BY <1>4 DEF BoxesJustified, BoxOnlyOnCycle, ForceBox
<1> QED
  BY <1>1, <1>2, <1>3, <1>4
  DEF Next, Configure, Requests, Run, Terminated, vars, WithType, IntoFixed, GenerateAllTypes,
      GenerateNamedTypes, GenerateType, Call, Finish, Enqueue, EnqueueUnknown, FollowUnknown

\* BoxFlags::AUTO boxes a field only where the type of the field mentions the
\* type that has the field, however the types are ordered and requested.
THEOREM BoxesOnlyOnCycles == Spec => []BoxOnlyOnCycle
<1>1. Init => BoxesJustified
  BY DEF Init, BoxesJustified, BoxOnlyOnCycle
<1>2. IInvTable /\ ReachSound /\ BoxesJustified /\ [Next]_vars => BoxesJustified'
  BY BoxesStep
<1>3. BoxesJustified => BoxOnlyOnCycle
  BY DEF BoxesJustified
<1> QED
  BY <1>1, <1>2, <1>3, TableInvariant, ReachAlwaysSound, PTL DEF Spec

-----------------------------------------------------------------------------
(* The generator implements the closure.                                   *)

LEMMA AbstractInit == Init => Abstract!Init
<1> SUFFICES ASSUME Init PROVE Abstract!Init
  OBVIOUS
<1>1. TypeOK
  BY TableInit DEF IInvTable
<1>2. DOMAIN meta \subseteq Ident /\ \A t \in DOMAIN meta : {r.to : r \in RefSet(t)} \subseteq Ident
  BY <1>1, MetaTyped DEF RefSet, RefsOf
<1> QED
  BY <1>2 DEF Init, Abstract!Init, Cached

\* Every step of the generator is a step of the closure or leaves it unchanged.
LEMMA AbstractStep ==
  ASSUME IInvTable, GeneratedOnce, RefsFollowed, [Next]_vars
  PROVE  [Abstract!Next]_(Abstract!absVars)
<1> USE DEF Abstract!absVars
<1>1. ASSUME NEW t \in Ident, WithType(t) PROVE Abstract!Next
  <2>1. DOMAIN items = {} /\ DOMAIN cache' = Cached \cup {t}
    BY <1>1 DEF WithType, IInvTable, NothingRequested
  <2>2. Abstract!Register(t)
    BY <1>1, <2>1 DEF WithType, Abstract!Register, Cached, RefSet
  <2> QED
    BY <1>1, <2>2 DEF WithType, Abstract!Next
<1>2. ASSUME NEW t \in Ident, Enqueue(t) PROVE [Abstract!Next]_(Abstract!absVars)
  <2>1. DOMAIN cache' = Cached \cup {t} /\ t \in Cached \cup DOMAIN meta
    BY <1>2 DEF Enqueue, GetOrCreate, WithRef
  <2>2. UNCHANGED <<meta, fixed, items, phase>> /\ phase = "fixed"
    BY <1>2 DEF Enqueue
  <2>3. CASE t \in Cached
    BY <2>1, <2>2, <2>3 DEF Cached, RefSet
  <2>4. CASE t \notin Cached
    <3>1. Abstract!Request(t)
      BY <2>1, <2>2, <2>4 DEF Abstract!Request, Abstract!Defined, Cached, RefSet
    <3> QED
      BY <2>2, <3>1 DEF Abstract!Next
  <2> QED
    BY <2>3, <2>4
<1>3. ASSUME NEW t \in Ident, t \notin Cached \cup DOMAIN meta, phase = "fixed",
             phase' = "failed", UNCHANGED <<meta, fixed, cache, items>>
      PROVE  Abstract!Next
  <2>1. Abstract!Fail
    BY <1>3 DEF Abstract!Fail, Abstract!Defined, Cached, RefSet
  <2> QED
    BY <1>3, <2>1 DEF Abstract!Next
<1>4. CASE FollowElement \/ FollowValue \/ FollowPlain
  <2>1. PICK reach \in {{}, ctxReach}, b \in BOOLEAN : Follow(reach, b)
    BY <1>4, FollowCases
  <2>2. DOMAIN cache' = Cached \cup {NextRef.to} /\ NextRef.to \in Cached \cup DOMAIN meta
    BY <2>1 DEF Follow, GetOrCreate, WithRef
  <2>3. UNCHANGED <<meta, fixed, items, phase>> /\ phase = "fixed" /\ cur # NoIdent
    BY <2>1 DEF Follow, RefsLeft
  <2>4. CASE NextRef.to \in Cached
    BY <2>2, <2>3, <2>4 DEF Cached, RefSet
  <2>5. CASE NextRef.to \notin Cached
    <3>1. cur \in Cached \ (DOMAIN items \cup fixed) /\ cur \in DOMAIN meta
      BY <2>3 DEF GeneratedOnce, IInvTable, HasDefinition
    <3>2. Len(boxed) + 1 \in DOMAIN meta[cur].refs
      BY <2>1, <3>1, MetaTyped DEF Follow, RefsLeft, IInvTable, TypeOK
    <3>3. NextRef \in RefSet(cur) /\ NextRef.to \in Ident
      BY <3>1, <3>2, MetaTyped DEF NextRef, IInvTable
    <3>4. Abstract!Discover(NextRef.to)
      BY <2>2, <2>3, <2>5, <3>1, <3>3
      DEF Abstract!Discover, Abstract!Defined, Cached, RefSet
    <3> QED
      BY <2>3, <3>3, <3>4 DEF Abstract!Next
  <2> QED
    BY <2>4, <2>5
<1>5. CASE FollowUnknown
  <2>1. cur \in DOMAIN meta /\ Len(boxed) + 1 \in DOMAIN meta[cur].refs
    <3>1. cur \in DOMAIN meta
      BY <1>5 DEF FollowUnknown, RefsLeft, IInvTable, HasDefinition
    <3>2. Len(boxed) \in Nat /\ Len(boxed) < Len(meta[cur].refs)
      BY <1>5 DEF FollowUnknown, RefsLeft, IInvTable, TypeOK
    <3> QED
      BY <3>1, <3>2, MetaTyped DEF IInvTable
  <2>2. NextRef.to \in Ident
    BY <2>1, MetaTyped DEF NextRef, IInvTable
  <2> QED
    BY <1>5, <2>2, <1>3 DEF FollowUnknown, RefsLeft
<1>6. CASE End
  <2>1. /\ phase = "fixed" /\ cur # NoIdent /\ Len(boxed) = Len(meta[cur].refs)
        /\ DOMAIN items' = DOMAIN items \cup {cur}
        /\ UNCHANGED <<meta, phase, cache, fixed>>
    BY <1>6 DEF End
  <2>2. cur \in Cached \ (DOMAIN items \cup fixed) /\ cur \in DOMAIN meta /\ cur \in Ident
    BY <2>1 DEF GeneratedOnce, IInvTable, HasDefinition, TypeOK
  <2>3. DOMAIN meta[cur].refs = 1 .. Len(boxed)
    BY <2>1, <2>2, MetaTyped DEF IInvTable
  <2>4. {r.to : r \in RefSet(cur)} \subseteq Cached
    BY <2>1, <2>3 DEF RefsFollowed, RefSet, RefsOf
  <2>5. Abstract!Generate(cur)
    BY <2>1, <2>2, <2>4 DEF Abstract!Generate, Cached, RefSet
  <2> QED
    BY <2>1, <2>2, <2>5 DEF Abstract!Next
<1>7. ASSUME UNCHANGED <<meta, cache, fixed, items>>, phase \in {"config", "fixed"} \/ phase' = phase,
             phase' \in {"fixed", "finished"} \/ phase' = phase
      PROVE  UNCHANGED Abstract!absVars
  BY <1>7 DEF Cached, RefSet
<1> QED
  BY <1>1, <1>2, <1>3, <1>4, <1>5, <1>6, <1>7
  DEF Next, Configure, Requests, Run, Terminated, vars, IntoFixed, GenerateAllTypes,
      GenerateNamedTypes, GenerateType, Call, Finish, EnqueueUnknown, Begin

\* Whatever the types, the order of the requests and the references, the worklist
\* computes the closure: it implements GeneratorClosure.
THEOREM GeneratorImplementsClosure == Spec => ImplementsClosure
<1>1. IInvTable /\ GeneratedOnce /\ RefsFollowed /\ [Next]_vars
        => [Abstract!Next]_(Abstract!absVars)
  BY AbstractStep
<1> QED
  BY <1>1, AbstractInit, TableInvariant, AlwaysGeneratedOnce, AlwaysFollowed, PTL
  DEF Spec, ImplementsClosure, Abstract!Spec
=============================================================================
