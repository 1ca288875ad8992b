------------------------------- MODULE Parser -------------------------------
(***************************************************************************)
(* The schema loader (xsd-parser/src/pipeline/parser/mod.rs).  The owner   *)
(* adds namespaces, schema texts and URLs; every schema that is added is   *)
(* searched for import, include, redefine and override, each of which      *)
(* queues a request; a call drains the queue before it returns.  A request *)
(* has a temporary id, given when it is queued.  The first request for a   *)
(* location makes an entry, every later one only adds its id to the cache. *)
(*                                                                         *)
(* A schema document is abstracted to its target namespace, the references *)
(* it makes to other documents, and the namespace prefixes it declares.    *)
(* An import without a schemaLocation makes no request and is left out.    *)
(* The resolver answers with a location; the file behind it does not       *)
(* change while the parser runs.                                           *)
(***************************************************************************)
EXTENDS Integers, Sequences

CONSTANTS
  Loc,           \* the URLs a resolver returns
  Name,          \* the schemaLocations and URLs schemas are requested by
  Ns, Prefix,    \* namespaces and their prefixes
  NoLoc, NoNs,   \* None
  Resolved,      \* the resolver: the location of a name, seen from a location
  Corpora,       \* the sets of files the parser may be started with
  Texts,         \* the documents that are added as strings
  Settable,      \* the ParserFlags the owner changes
  LateResolver,  \* whether with_resolver is called after a schema was added
  MaxIds,        \* bound: ids given before the last call
  MaxEntries     \* bound: entries before the last call

Including == {"include", "redefine", "override"}
Ref     == [kind : Including \cup {"import"}, name : Name]
Doc     == [ns : Ns \cup {NoNs}, refs : Seq(Ref), declares : Seq([ns : Ns, prefix : Prefix])]
Request == [id : Nat, kind : Including \cup {"import", "user"}, name : Name,
            ns : Ns \cup {NoNs}, at : Loc \cup {NoLoc}]

Flags == {"RESOLVE_INCLUDES", "GENERATE_PREFIXES", "ALTERNATIVE_PREFIXES"}

ASSUME NoneAssumption == NoLoc \notin Loc /\ NoNs \notin Ns
ASSUME ResolverAssumption == Resolved \in [Name \X (Loc \cup {NoLoc}) -> Loc \cup {NoLoc}]
\* The location of name n, seen from a document at loc.
Location(n, loc) == Resolved[n, loc]

ASSUME DocumentAssumption ==
  /\ Texts \subseteq Doc
  /\ \A f \in Corpora : DOMAIN f \subseteq Loc /\ \A l \in DOMAIN f : f[l] \in Doc
ASSUME OwnerAssumption ==
  Settable \subseteq Flags /\ LateResolver \in BOOLEAN /\ MaxIds \in Nat /\ MaxEntries \in Nat

VARIABLES
  files,     \* what the resolver can read: the document at each location
  resolver,  \* whether a resolver was set, or the NoOpResolver is in place
  flags,     \* the ParserFlags that are on
  cache,     \* the ids that were requested for each loaded location
  entries,   \* ParserEntry: namespaces and loaded schemas, in order
  pending,   \* the requests that are queued
  nextId,    \* next_temp_id
  phase      \* the parser is open, was consumed by an error, or by finish()

vars == <<files, resolver, flags, cache, entries, pending, nextId, phase>>

SchemaEntries == {i \in DOMAIN entries : entries[i].kind = "schema"}

Init ==
  /\ files \in Corpora
  /\ resolver = FALSE
  /\ flags = {}
  /\ cache = [l \in {} |-> {}]
  /\ entries = <<>>
  /\ pending = <<>>
  /\ nextId = 0
  /\ phase = "open"

\* The parser is back with its owner.
Idle == phase = "open" /\ pending = <<>>

-----------------------------------------------------------------------------
(* Configuration.                                                          *)

WithAnonymousNamespace ==
  /\ Idle
  /\ Len(entries) < MaxEntries
  /\ entries' = Append(entries, [kind |-> "namespace", ns |-> NoNs])
  /\ UNCHANGED <<files, resolver, flags, cache, pending, nextId, phase>>

WithNamespace(p, ns) ==
  /\ Idle
  /\ Len(entries) < MaxEntries
  /\ entries' = Append(entries, [kind |-> "namespace", ns |-> ns, prefix |-> p])
  /\ UNCHANGED <<files, resolver, flags, cache, pending, nextId, phase>>

\* with_resolver keeps the entries and nothing else.
WithResolver ==
  /\ Idle
  /\ LateResolver \/ SchemaEntries = {}
  /\ resolver' = TRUE
  /\ flags' = Flags
  /\ cache' = [l \in {} |-> {}]
  /\ nextId' = 0
  /\ UNCHANGED <<files, entries, pending, phase>>

SetFlag(f, on) ==
  /\ Idle
  /\ flags' = IF on THEN flags \cup {f} ELSE flags \ {f}
  /\ UNCHANGED <<files, resolver, cache, entries, pending, nextId, phase>>

-----------------------------------------------------------------------------
(* add_schema: the entry of a schema and the requests it makes.            *)

Followed(d) == IF "RESOLVE_INCLUDES" \in flags THEN d.refs ELSE <<>>

\* The requests of document d, which get the ids from first on.
Requests(d, ns, loc, first) ==
  [i \in DOMAIN Followed(d) |->
     [id |-> first + i - 1, kind |-> Followed(d)[i].kind, name |-> Followed(d)[i].name,
      ns |-> ns, at |-> loc]]

\* The dependencies are keyed by the requested name: the last reference counts.
Dependencies(d, first) ==
  LET refs == Followed(d)
      last(n) == CHOOSE i \in DOMAIN refs :
                   refs[i].name = n /\ \A j \in DOMAIN refs : refs[j].name = n => j <= i
  IN  [n \in {refs[i].name : i \in DOMAIN refs} |->
         [kind |-> refs[last(n)].kind, id |-> first + last(n) - 1]]

SchemaEntry(id, d, ns, loc, first) ==
  [kind |-> "schema", id |-> id, ns |-> ns, loc |-> loc,
   declares |-> d.declares, deps |-> Dependencies(d, first)]

\* Mutant: a text is given an id that is given again.
AddFromStrSameId(d) ==
  /\ Idle
  /\ nextId < MaxIds /\ Len(entries) < MaxEntries
  /\ entries' = Append(entries, SchemaEntry(nextId, d, d.ns, NoLoc, nextId))
  /\ pending' = Requests(d, d.ns, NoLoc, nextId)
  /\ nextId' = nextId + Len(Followed(d))
  /\ UNCHANGED <<files, resolver, flags, cache, phase>>

\* add_schema_from_str, add_schema_from_reader and their named variants.
AddFromStr(d) ==
  /\ Idle
  /\ nextId < MaxIds /\ Len(entries) < MaxEntries
  /\ entries' = Append(entries, SchemaEntry(nextId, d, d.ns, NoLoc, nextId + 1))
  /\ pending' = Requests(d, d.ns, NoLoc, nextId + 1)
  /\ nextId' = nextId + 1 + Len(Followed(d))
  /\ UNCHANGED <<files, resolver, flags, cache, phase>>

\* A text that is no schema.
AddFromStrError ==
  /\ Idle
  /\ phase' = "failed"
  /\ UNCHANGED <<files, resolver, flags, cache, entries, pending, nextId>>

\* add_schema_from_url and _file: the request is the only one in the queue.
AddFromUrl(n) ==
  /\ Idle
  /\ nextId < MaxIds /\ Len(entries) < MaxEntries
  /\ pending' = <<[id |-> nextId, kind |-> "user", name |-> n, ns |-> NoNs, at |-> NoLoc]>>
  /\ nextId' = nextId + 1
  /\ UNCHANGED <<files, resolver, flags, cache, entries, phase>>

-----------------------------------------------------------------------------
(* resolve_location, for the front of the queue.                           *)

Busy == phase = "open" /\ pending # <<>>
Req == Head(pending)
Target == Location(Req.name, Req.at)

\* The resolver has an answer and the file behind it is a schema.
Readable == resolver /\ Target \in DOMAIN files

\* Mutant: the request is dropped.
ResolveHitDropped ==
  /\ Busy
  /\ Readable
  /\ Target \in DOMAIN cache
  /\ pending' = Tail(pending)
  /\ UNCHANGED <<files, resolver, flags, cache, entries, nextId, phase>>

\* Mutant: the request stays at the front of the queue.
ResolveHitPeek ==
  /\ Busy
  /\ Readable
  /\ Target \in DOMAIN cache
  /\ cache' = [cache EXCEPT ![Target] = @ \cup {Req.id}]
  /\ UNCHANGED <<files, resolver, flags, entries, pending, nextId, phase>>

ResolveHit ==
  /\ Busy
  /\ Readable
  /\ Target \in DOMAIN cache
  /\ cache' = [cache EXCEPT ![Target] = @ \cup {Req.id}]
  /\ pending' = Tail(pending)
  /\ UNCHANGED <<files, resolver, flags, entries, nextId, phase>>

\* An included schema has the namespace of the one that includes it.
Mismatch ==
  /\ Req.kind \in Including
  /\ NoNs \notin {Req.ns, files[Target].ns}
  /\ files[Target].ns # Req.ns

\* Mutant: the file is read again although it is known.
ResolveLoadAgain ==
  /\ Busy
  /\ Readable
  /\ ~ Mismatch
  /\ LET d  == files[Target]
         ns == IF d.ns = NoNs THEN Req.ns ELSE d.ns
     IN  /\ entries' = Append(entries, SchemaEntry(Req.id, d, ns, Target, nextId))
         /\ pending' = Tail(pending) \o Requests(d, ns, Target, nextId)
         /\ nextId' = nextId + Len(Followed(d))
  /\ cache' = [l \in DOMAIN cache \cup {Target} |-> IF l = Target THEN {Req.id} ELSE cache[l]]
  /\ UNCHANGED <<files, resolver, flags, phase>>

\* Mutant: references are resolved relative to the document that included this one.
ResolveLoadElsewhere ==
  /\ Busy
  /\ Readable
  /\ Target \notin DOMAIN cache
  /\ ~ Mismatch
  /\ LET d  == files[Target]
         ns == IF d.ns = NoNs THEN Req.ns ELSE d.ns
     IN  /\ entries' = Append(entries, SchemaEntry(Req.id, d, ns, Target, nextId))
         /\ pending' = Tail(pending) \o Requests(d, ns, Req.at, nextId)
         /\ nextId' = nextId + Len(Followed(d))
  /\ cache' = [l \in DOMAIN cache \cup {Target} |-> IF l = Target THEN {Req.id} ELSE cache[l]]
  /\ UNCHANGED <<files, resolver, flags, phase>>

\* Mutant: a schema without a target namespace stays without one.
ResolveLoadBare ==
  /\ Busy
  /\ Readable
  /\ Target \notin DOMAIN cache
  /\ ~ Mismatch
  /\ LET d == files[Target]
     IN  /\ entries' = Append(entries, SchemaEntry(Req.id, d, d.ns, Target, nextId))
         /\ pending' = Tail(pending) \o Requests(d, d.ns, Target, nextId)
         /\ nextId' = nextId + Len(Followed(d))
  /\ cache' = [l \in DOMAIN cache \cup {Target} |-> IF l = Target THEN {Req.id} ELSE cache[l]]
  /\ UNCHANGED <<files, resolver, flags, phase>>

\* A schema without a target namespace takes that of the requesting one.
ResolveLoad ==
  /\ Busy
  /\ Readable
  /\ Target \notin DOMAIN cache
  /\ ~ Mismatch
  /\ LET d  == files[Target]
         ns == IF d.ns = NoNs THEN Req.ns ELSE d.ns
     IN  /\ entries' = Append(entries, SchemaEntry(Req.id, d, ns, Target, nextId))
         /\ pending' = Tail(pending) \o Requests(d, ns, Target, nextId)
         /\ nextId' = nextId + Len(Followed(d))
  /\ cache' = [l \in DOMAIN cache \cup {Target} |-> IF l = Target THEN {Req.id} ELSE cache[l]]
  /\ UNCHANGED <<files, resolver, flags, phase>>

ResolveError ==
  /\ Busy
  /\ ~ Readable \/ (Readable /\ Target \notin DOMAIN cache /\ Mismatch)
  /\ phase' = "failed"
  /\ pending' = Tail(pending)
  /\ UNCHANGED <<files, resolver, flags, cache, entries, nextId>>

Finish ==
  /\ Idle
  /\ phase' = "finished"
  /\ UNCHANGED <<files, resolver, flags, cache, entries, pending, nextId>>

Terminated == phase # "open" /\ UNCHANGED vars

Configure == \/ WithAnonymousNamespace
             \/ \E p \in Prefix, ns \in Ns : WithNamespace(p, ns)
             \/ WithResolver
             \/ \E f \in Settable, on \in BOOLEAN : SetFlag(f, on)
Add == \/ \E d \in Texts : AddFromStr(d)
       \/ AddFromStrError
       \/ \E n \in Name : AddFromUrl(n)
Resolve == ResolveHit \/ ResolveLoad \/ ResolveError

Next == Configure \/ Add \/ Resolve \/ Finish \/ Terminated

\* resolve_pending loops within the call that queued the requests.
Fairness == WF_vars(Resolve)

Spec == Init /\ [][Next]_vars /\ Fairness

-----------------------------------------------------------------------------
(* Properties.                                                             *)

Dependency == [kind : Including \cup {"import"}, id : Nat]

IsEntry(e) ==
  \/ e \in [kind : {"namespace"}, ns : {NoNs}]
  \/ e \in [kind : {"namespace"}, ns : Ns, prefix : Prefix]
  \/ /\ e.kind = "schema"
     /\ e.id \in Nat /\ e.ns \in Ns \cup {NoNs} /\ e.loc \in Loc \cup {NoLoc}
     /\ DOMAIN e.deps \subseteq Name
     /\ \A n \in DOMAIN e.deps : e.deps[n] \in Dependency

TypeOK ==
  /\ files \in Corpora
  /\ resolver \in BOOLEAN
  /\ flags \subseteq Flags
  /\ DOMAIN cache \subseteq Loc
  /\ \A l \in DOMAIN cache : cache[l] \subseteq Nat
  /\ entries \in Seq({entries[i] : i \in DOMAIN entries})
  /\ \A i \in DOMAIN entries : IsEntry(entries[i])
  /\ pending \in Seq(Request)
  /\ nextId \in Nat
  /\ phase \in {"open", "failed", "finished"}

\* "a cache to prevent duplicate resolutions": a document is loaded once,
\* however many documents refer to it, itself included; and it is in the cache
\* as long as the cache lives.
LoadedOnce ==
  /\ \A i, j \in SchemaEntries : entries[i].loc = entries[j].loc /\ entries[i].loc # NoLoc => i = j
  /\ DOMAIN cache = {entries[i].loc : i \in SchemaEntries} \ {NoLoc}
  /\ \A i \in SchemaEntries : entries[i].loc # NoLoc => entries[i].id \in cache[entries[i].loc]

PendingIds == {pending[i].id : i \in DOMAIN pending}
TextIds == {entries[i].id : i \in {i \in SchemaEntries : entries[i].loc = NoLoc}}
CachedIds == UNION {cache[l] : l \in DOMAIN cache}

\* Every id that was ever given belongs to exactly one thing: a queued request,
\* a text, or a loaded location.  An id that is lost or shared would make a
\* dependency vanish, or point to the wrong schema, when the ids are translated.
IdsAccounted ==
  phase # "failed" =>
    /\ PendingIds \cup TextIds \cup CachedIds = 0 .. nextId - 1
    /\ PendingIds \cap (TextIds \cup CachedIds) = {}
    /\ TextIds \cap CachedIds = {}
    /\ \A i, j \in DOMAIN pending : pending[i].id = pending[j].id => i = j
    /\ \A i, j \in SchemaEntries : entries[i].id = entries[j].id => i = j
    /\ \A k, l \in DOMAIN cache : cache[k] \cap cache[l] # {} => k = l

Queued(id, n, loc) ==
  \E k \in DOMAIN pending : pending[k].id = id /\ pending[k].name = n /\ pending[k].at = loc
Loaded(id, n, loc) ==
  Location(n, loc) \in DOMAIN cache /\ id \in cache[Location(n, loc)]

\* A dependency of a schema is queued as a request for its name, seen from that
\* schema, or loaded at the location this name has there, over any number of
\* hops and cycles.
DependenciesFollowed ==
  phase # "failed" =>
    \A i \in SchemaEntries : \A n \in DOMAIN entries[i].deps :
      LET id == entries[i].deps[n].id
      IN  Queued(id, n, entries[i].loc) \/ Loaded(id, n, entries[i].loc)

\* A document that is loaded for an include has the namespace it is included in, also
\* where documents without one include each other.  Only a document that was loaded before,
\* for someone else, answers with another namespace, as the cache is not compared.
IncludedNamespace ==
  phase # "failed" =>
    \A i, j \in SchemaEntries : \A n \in DOMAIN entries[i].deps :
      LET dep == entries[i].deps[n]
      IN  /\ dep.kind \in Including
          /\ entries[j].loc = Location(n, entries[i].loc)
          /\ dep.id = entries[j].id
          => entries[i].ns \in {entries[j].ns, NoNs}

\* Every call returns, although documents may include each other in a circle.
Returns == [](Busy => <>(~ Busy))
=============================================================================
