-------------------------- MODULE GeneratorClosure --------------------------
(***************************************************************************)
(* What the Generator promises, without its queue, its ids and its loop    *)
(* detection: starting from the types the caller registers or requests, it *)
(* gives a path to every type that is mentioned and generates each of them *)
(* exactly once, after everything it mentions has a path.                  *)
(***************************************************************************)
CONSTANT Ident          \* the type identifiers

VARIABLES
  mentions,  \* the meta types: for each defined ident, the idents it mentions
  external,  \* idents whose Rust type the user supplies; never generated
  known,     \* idents that have a path in the generated code
  done,      \* idents whose data type has been generated
  failed     \* an undefined ident was requested or mentioned

absVars == <<mentions, external, known, done, failed>>

Defined == DOMAIN mentions

Init ==
  /\ DOMAIN mentions \subseteq Ident
  /\ \A t \in DOMAIN mentions : mentions[t] \subseteq Ident
  /\ external = {} /\ known = {} /\ done = {}
  /\ failed = FALSE

Register(t) ==
  /\ known' = known \cup {t}
  /\ external' = external \cup {t}
  /\ done = {}
  /\ UNCHANGED <<mentions, done, failed>>

Request(t) ==
  /\ t \in Defined \ known
  /\ known' = known \cup {t}
  /\ UNCHANGED <<mentions, external, done, failed>>

\* A type that still has to be generated mentions t for the first time.
Discover(t) ==
  /\ t \in Defined \ known
  /\ \E u \in known \ (done \cup external) : t \in mentions[u]
  /\ known' = known \cup {t}
  /\ UNCHANGED <<mentions, external, done, failed>>

Generate(t) ==
  /\ t \in known \ (done \cup external)
  /\ mentions[t] \subseteq known
  /\ done' = done \cup {t}
  /\ UNCHANGED <<mentions, external, known, failed>>

Fail ==
  /\ \E t \in Ident : t \notin Defined \cup known
  /\ failed' = TRUE
  /\ UNCHANGED <<mentions, external, known, done>>

Next ==
  /\ ~ failed
  /\ \/ \E t \in Ident : Register(t) \/ Request(t) \/ Discover(t) \/ Generate(t)
     \/ Fail

Spec == Init /\ [][Next]_absVars
=============================================================================
