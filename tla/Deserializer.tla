---------------------------- MODULE Deserializer ----------------------------
(***************************************************************************)
(* The quick-xml deserializers that the renderer writes for the data types *)
(* (xsd-parser/src/pipeline/renderer/steps/quick_xml/deserialize.rs), of   *)
(* which models/schema/xs_generated.rs holds those of XML Schema itself,   *)
(* and what they use of xsd-parser-types/src/quick_xml/deserialize.rs.     *)
(*                                                                         *)
(* A deserializer is a state machine that is given one XML event after the *)
(* other.  While it works on an element of its content it keeps the        *)
(* deserializer of that element and hands it the events.  An event that    *)
(* was not consumed comes back, either to be tried by the parents          *)
(* (Continue) or to be judged at the root (Break).  A deserializer that    *)
(* gets an event back tries it on the places that follow, with the one in  *)
(* work as the fallback: it is finished when another place takes the event *)
(* and taken up again when none does.                                      *)
(*                                                                         *)
(* The shape of a type is data here (Types): its kind, whether it is an    *)
(* element of its own or a group within one, and its members.  Attributes  *)
(* are complete, incomplete or given twice.  Types whose content has       *)
(* defaults and the wrappers for text, nil and mixed content are left out. *)
(*                                                                         *)
(* The calls of next and init are frames of a stack (call), one step of    *)
(* which is one turn of the loop in next: what the state in work does with *)
(* the event, or what handle_* does with the output of a member.           *)
(***************************************************************************)
EXTENDS Shapes, Integers, Sequences, FiniteSets, SequencesExt

CONSTANT Types  \* the shape of every type, by its name

VARIABLES
  call,    \* the calls of next and init in progress, the innermost first
  event,   \* the event they work on
  output   \* what the last call has returned, until it is looked at

calls == <<call, event, output>>

IsTag(e) == e.kind \in {"start", "empty"}
IsAny(el) == ~el.element /\ Types[el.type].kind = "any"

\* Options
None == <<>>
Some(x) == <<x>>
OrInsert(option, x) == IF option = None THEN Some(x) ELSE option

(* A deserializer is the path from it down to the innermost one in work: each is in the *)
(* state for the place of the next one.  States: Init__, one for each member, the one   *)
(* after the last member (Done__ or Next__), and Unknown__ while an event is handled.   *)
Unknown == -1
Initial == 0
After(t) == Len(Types[t].members) + 1
Finished(t) == Len(Types[t].members) + 2
State(st, sub) == [st |-> st, sub |-> sub]
Level(t, id) == [type |-> t, id |-> id, st |-> Initial, kids |-> <<>>]

Failed(x) == x.type = "error"
Error(why) == [type |-> "error", why |-> why]

(* DeserializerOutput: the artifact, what becomes of the event, and allow_any *)
Output(artifact, of, then, any) == [artifact |-> artifact, of |-> of, event |-> then, any |-> any]
Nothing(then, any) == Output("none", None, then, any)
Working(path, then, any) == Output("deserializer", path, then, any)
Data(v, then, any) == Output(IF Failed(v) THEN "error" ELSE "data", v, then, any)

\* Mutant: the loop also goes on with a tag that nobody has taken at the end of an element.
AgainAlways(way, o) ==
  /\ o.event = "continue"
  /\ way \in {"from_event", "from_event_end"} /\ event.kind \in {"start", "empty", "end"}

(* ElementHandlerOutput: which events the loop of the parent goes on with *)
Again(way, o) ==
  /\ o.event = "continue"
  /\ \/ way = "from_event" /\ event.kind \in {"start", "empty", "end"}
     \/ way = "from_event_end" /\ event.kind = "end"

\* What becomes of an event that the loop does not go on with.
Rest(way, o) == IF way = "return_to_root" /\ o.event = "continue" THEN "break" ELSE o.event

-----------------------------------------------------------------------------
(* Values: what was stored, with the place it was stored in *)

Count(d, i) == Cardinality({k \in DOMAIN d.kids : d.kids[k].at = i})

\* store_*: a place for one value takes no second.
Store(d, i, v) ==
  IF Failed(d) THEN d
  ELSE IF Failed(v) THEN v
  ELSE IF Types[d.type].members[i].max = 1 /\ Count(d, i) > 0 THEN Error("DuplicateElement")
  ELSE [d EXCEPT !.kids = Append(@, [at |-> i, value |-> v])]

\* Mutant: both bounds are enforced.
OutOfEither(el, n) == n < el.min \/ n > el.max

\* finish_vec: neither bound is enforced, the two conditions cannot both hold.
OutOfBounds(el, n) == n < el.min /\ n > el.max

\* finish_element, finish_content, finish_vec, finish_arr: not the right number was read.
Misses(el, n) ==
  CASE el.max = 1 -> n < el.min
    [] el.max # 1 /\ el.min = el.max -> n # el.min
    [] OTHER -> OutOfBounds(el, n)

\* A value has its places filled, a choice the one that was chosen.
Missing(d) ==
  LET t == Types[d.type]
      places == CASE t.kind \in {"any", "text"} -> {}
                  [] t.kind = "choice" -> {d.st} \ {Initial}
                  [] OTHER -> DOMAIN t.members
  IN  \/ t.kind = "choice" /\ d.st = Initial
      \/ \E i \in places : Misses(t.members[i], Count(d, i))

\* The finished value, or what is missing.
Complete(d) ==
  IF Failed(d) THEN d
  ELSE IF Missing(d) THEN Error("Missing")
  ELSE [type |-> d.type, id |-> d.id, kids |-> d.kids]

\* finish: the innermost one is finished first, and its value stored by the one around it.
Finish(path) ==
  LET finished[i \in DOMAIN path] ==
        CHOOSE v \in {Complete(d) : d \in {IF i = Len(path) THEN path[i]
                                           ELSE Store(path[i], path[i].st, finished[i + 1])}} : TRUE
  IN  finished[1]

\* finish_state: the deserializer that is in work in state s is finished and its value stored.
FinishState(d, s) == IF s.sub = None THEN d ELSE Store(d, s.st, Finish(s.sub))

\* Mutant: the element that is in work is forgotten.
ForgetFallback(d, fallback) == d

FinishFallback(d, fallback) == IF fallback = None THEN d ELSE FinishState(d, fallback[1])

-----------------------------------------------------------------------------
(* Calls.  A frame has the deserializer without the path in work below it, *)
(* that path, and the variables of the loop: the fallback, if unknown      *)
(* content is allowed (allow_any_element), the place for any element that  *)
(* was passed over (any_fallback) and whether it is being tried            *)
(* (is_any_retry), and what find_suitable has not tried yet.               *)

Frame(path, init) ==
  [d |-> Head(path), sub |-> Tail(path), init |-> init, fallback |-> None, any |-> FALSE,
   passed |-> None, retry |-> FALSE, candidates |-> None]

Running(kind) == call # <<>> /\ output = None /\ Types[Head(call).d.type].kind = kind
Returned(kind, artifact) ==
  call # <<>> /\ output # None /\ output[1].artifact = artifact /\ Types[Head(call).d.type].kind = kind

At(frame, s) == [frame EXCEPT !.d.st = s.st, !.sub = s.sub]

\* Another turn of the loop
Loop(frame) ==
  /\ call' = <<frame>> \o Tail(call)
  /\ output' = None
  /\ UNCHANGED event

\* The call returns. A group that has just been started and is in Init__ is nothing.
Return(o) ==
  /\ call' = Tail(call)
  /\ \E out \in {o} :
       output' = Some(IF Head(call).init /\ out.artifact = "deserializer" /\ out.of[1].st = Initial
                      THEN Nothing(out.event, out.any) ELSE out)
  /\ UNCHANGED event

\* After the loop a state that nothing has replaced is taken up again.
Ended(frame) == IF frame.fallback = None THEN frame ELSE At(frame, frame.fallback[1])

Stop(frame, then, any) ==
  \E f \in {Ended(frame)} :
    Return(IF Types[f.d.type].kind = "content" /\ f.d.st = Finished(f.d.type) THEN Data(Complete(f.d), then, any)
           ELSE Working(<<f.d>> \o f.sub, then, any))

\* init_deserializer_from_start_event, from_bytes_start
InitElement(t, e) ==
  IF ~IsTag(e) THEN Nothing("continue", FALSE)
  ELSE IF e.attributes = "missing" /\ Types[t].attributes.required # {}
  THEN Data(Error("MissingAttribute"), "none", FALSE)
  ELSE IF e.attributes = "twice" /\ Types[t].attributes.known # {}
  THEN Data(Error("DuplicateAttribute"), "none", FALSE)
  ELSE IF e.kind = "start" THEN Working(<<Level(t, e.id)>>, "none", FALSE)
  ELSE Data(Complete(Level(t, e.id)), "none", FALSE)

\* xml::ElementDeserializer::init
InitAny(t, e) ==
  IF ~IsTag(e) THEN Nothing("continue", TRUE) ELSE [InitElement(t, e) EXCEPT !.any = TRUE]

\* The frame calls init of a type: a group tries the event on a new deserializer.
Init(frame, t) ==
  /\ call' = (IF Types[t].element THEN <<>> ELSE <<Frame(<<Level(t, 0)>>, TRUE)>>) \o <<frame>> \o Tail(call)
  /\ output' = CASE Types[t].kind = "any" -> Some(InitAny(t, event))
                 [] Types[t].kind # "any" /\ Types[t].element -> Some(InitElement(t, event))
                 [] OTHER -> None
  /\ UNCHANGED event

\* init_start_tag_deserializer
InitMember(frame, el) ==
  \/ /\ ~el.element \/ event.tag = el.tag
     /\ Init(frame, el.type)
  \/ /\ el.element /\ event.tag # el.tag
     /\ call' = <<frame>> \o Tail(call)
     /\ output' = Some(Nothing("continue", el.any))
     /\ UNCHANGED event

\* The deserializer in work gets the event first.
NextOfMember ==
  /\ call # <<>> /\ output = None /\ Head(call).sub # None
  /\ call' = <<Frame(Head(call).sub, FALSE), [Head(call) EXCEPT !.sub = None]>> \o Tail(call)
  /\ UNCHANGED <<event, output>>

\* An error goes through all of the calls.
Raise ==
  /\ call # <<>> /\ output # None /\ output[1].artifact = "error"
  /\ call' = <<>>
  /\ UNCHANGED <<event, output>>

\* The end tag of an element is its own; one that a group sees is that of the element around it.
EndTag ==
  /\ call # <<>> /\ output = None /\ Head(call).sub = None /\ event.kind = "end"
  /\ LET f == Head(call)
         t == Types[f.d.type]
     IN  \E d \in {FinishFallback(f.d, IF t.kind = "sequence" THEN f.fallback ELSE None)} :
         \E v \in {Complete(d)} :
           Return(Data(v, IF t.element THEN "none" ELSE "continue", t.kind = "any"))

InState(kind) == Running(kind) /\ Head(call).sub = None /\ event.kind # "end"
Place == Head(call).d.st
Shaped == Types[Head(call).d.type]
InMember == Place \in DOMAIN Shaped.members
Placed == Shaped.members[Place]

\* An element decides, after a group the next one is tried.
NextCandidates(f) == IF f.candidates = None \/ Placed.element THEN None ELSE Some(Tail(f.candidates[1]))

\* The new state and fallback after handle_*, and the way the event is returned: the loop
\* goes on or ends.
Follow(d, st, sub, fallback, way) ==
  LET o == output[1]
  IN  IF Failed(d) THEN Return(Data(d, "none", FALSE))
      ELSE \E f \in {[Head(call) EXCEPT !.d = [d EXCEPT !.st = st], !.sub = sub, !.fallback = fallback,
                                        !.candidates = NextCandidates(Head(call))]} :
             IF Again(way, o) THEN Loop([f EXCEPT !.any = @ \/ o.any])
             ELSE Stop(f, Rest(way, o), o.any)

\* If there is room for another one in its place
Room(d, n) == ~Failed(d) /\ Placed.max > 1 /\ Count(d, Place) < n

-----------------------------------------------------------------------------
(* Sequences: the states of the members are tried one after the other *)

SequenceInit ==
  /\ InState("sequence") /\ Place = Initial
  /\ LET f == Head(call)
     IN  Loop([At(f, State(1, None)) EXCEPT !.fallback = OrInsert(@, State(Initial, None)), !.any = @ \/ Shaped.any])

SequenceNoTag == InState("sequence") /\ InMember /\ ~IsTag(event) /\ Stop(Head(call), "break", FALSE)

\* Any element is tried after all of the members that have a name.
SequencePass ==
  /\ InState("sequence") /\ InMember /\ IsTag(event) /\ IsAny(Shaped.members[Place]) /\ ~Head(call).retry
  /\ Loop([At(Head(call), State(Place + 1, None)) EXCEPT !.passed = OrInsert(@, State(Place, None))])

SequenceTry ==
  /\ InState("sequence") /\ InMember /\ IsTag(event) /\ (IsAny(Shaped.members[Place]) => Head(call).retry)
  /\ InitMember(Head(call), Shaped.members[Place])

SequenceRetry ==
  /\ InState("sequence") /\ Place = After(Head(call).d.type) /\ Head(call).passed # None
  /\ Loop([At(Head(call), Head(call).passed[1]) EXCEPT !.passed = None, !.retry = TRUE])

SequenceDone ==
  /\ InState("sequence") /\ Place = After(Head(call).d.type) /\ Head(call).passed = None
  /\ Stop(Head(call), "continue", Shaped.any \/ Head(call).any)

\* handle_* of a sequence, if the member did not take the event
SequenceNone ==
  /\ Returned("sequence", "none")
  /\ LET f == Head(call)
         i == Place
         n == Placed.min
         stay == OrInsert(f.fallback, State(i, None))
     IN  \/ /\ n = 0
            /\ Follow(f.d, i + 1, None, IF Shaped.old THEN stay ELSE f.fallback, "from_event")
         \/ /\ n > 0 /\ Placed.max = 1
            /\ Follow(f.d, Unknown, None, stay, IF stay[1].st = Initial THEN "break" ELSE "return_to_root")
         \/ /\ n > 0 /\ Placed.max > 1 /\ stay[1].st = Initial
            /\ Follow(f.d, Unknown, None, stay, "break")
         \/ /\ n > 0 /\ Placed.max > 1 /\ stay[1].st # Initial
            /\ \E d \in {IF Shaped.old THEN f.d ELSE FinishFallback(f.d, f.fallback)} :
                 IF Failed(d) \/ Count(d, i) < n
                 THEN Follow(d, Unknown, None, IF Shaped.old THEN stay ELSE Some(State(i, None)), "return_to_root")
                 ELSE Follow(d, i + 1, None, IF Shaped.old THEN stay ELSE None, "from_event")

SequenceData ==
  /\ Returned("sequence", "data")
  /\ \E d \in {FinishFallback(Head(call).d, Head(call).fallback)} :
     \E stored \in {Store(d, Place, output[1].of)} :
       Follow(stored, IF Room(stored, Placed.max) THEN Place ELSE Place + 1, None, None, "from_event")

SequenceWork ==
  /\ Returned("sequence", "deserializer")
  /\ \E d \in {FinishFallback(Head(call).d, Head(call).fallback)} :
       Follow(d, IF Room(d, Placed.max - 1) THEN Place ELSE Place + 1, None, Some(State(Place, output[1].of)),
              "from_event")

-----------------------------------------------------------------------------
(* Content: one choice, sequence or all, that may repeat *)

\* Whatever was read before, it is the content that is tried.
ContentTry ==
  /\ InState("content") /\ Place # Finished(Head(call).d.type)
  /\ Init([At(Head(call), State(1, None)) EXCEPT !.fallback = OrInsert(@, State(Place, None))],
          Shaped.members[1].type)

ContentDone ==
  InState("content") /\ Place = Finished(Head(call).d.type) /\ Stop(Head(call), "continue", FALSE)

\* handle_content, if the content did not take the event
ContentNone ==
  /\ Returned("content", "none")
  /\ LET f == Head(call)
         el == Placed
         back == IF f.fallback = None THEN State(After(f.d.type), None) ELSE f.fallback[1]
         n == Count(f.d, 1) + (IF back.sub = None THEN 0 ELSE 1)
     IN  \/ Shaped.element /\ Follow(f.d, back.st, back.sub, None, "from_event_end")
         \/ ~Shaped.element /\ el.min = 0 /\ Follow(f.d, back.st, back.sub, None, "break")
         \/ ~Shaped.element /\ el.min > 0 /\ el.max = 1 /\ Follow(f.d, Initial, None, f.fallback, "break")
         \/ /\ ~Shaped.element /\ el.min > 0 /\ el.max > 1
            /\ Follow(f.d, back.st, back.sub, None, IF n < el.min THEN "return_to_root" ELSE "break")

ContentData ==
  /\ Returned("content", "data")
  /\ \E d \in {FinishFallback(Head(call).d, Head(call).fallback)} :
     \E stored \in {Store(d, Place, output[1].of)} :
       IF Shaped.element \/ Failed(stored) \/ Count(stored, Place) < Placed.max
       THEN Follow(stored, After(stored.type), None, None, "from_event")
       ELSE Follow(stored, Finished(stored.type), None, None, "break")

ContentWork ==
  /\ Returned("content", "deserializer")
  /\ \E d \in {FinishFallback(Head(call).d, Head(call).fallback)} :
       IF Room(d, Placed.max - 1)
       THEN Follow(d, After(d.type), None, Some(State(Place, output[1].of)), "from_event")
       ELSE Follow(d, Place, output[1].of, None, IF Shaped.element THEN "from_event_end" ELSE "break")

-----------------------------------------------------------------------------
(* All and choice: find_suitable looks for the member *)

\* find_suitable: the element with this tag, or else the groups one after the other.
Candidates(t) ==
  LET els == Types[t].members
      named == SelectSeq([i \in DOMAIN els |-> i], LAMBDA i : els[i].element /\ els[i].tag = event.tag)
  IN  IF ~IsTag(event) THEN <<>>
      ELSE IF named # <<>> THEN <<named[1]>>
      ELSE SelectSeq([i \in DOMAIN els |-> i], LAMBDA i : ~els[i].element)

Find(kind) ==
  /\ InState(kind) /\ Head(call).candidates = None
  /\ Loop([Head(call) EXCEPT !.candidates = Some(Candidates(Head(call).d.type)), !.any = Shaped.any,
             !.fallback = IF kind = "all" THEN OrInsert(@, State(Place, None)) ELSE None])

TryCandidate(kind) ==
  /\ InState(kind) /\ Head(call).candidates \notin {None, Some(<<>>)}
  /\ LET i == Head(Head(call).candidates[1])
     IN  Init([Head(call) EXCEPT !.d.st = i], Shaped.members[i].type)

AllFind == Find("all")
AllTry == TryCandidate("all")

AllNoCandidate ==
  /\ InState("all") /\ Head(call).candidates = Some(<<>>)
  /\ LET f == Head(call)
     IN  Stop([f EXCEPT !.fallback = OrInsert(@, State(Initial, None)), !.candidates = None], "continue", f.any)

\* handle_* of an xs:all
AllNone ==
  /\ Returned("all", "none")
  /\ Follow(Head(call).d, After(Head(call).d.type), None, Head(call).fallback,
            IF Placed.element THEN "return_to_root" ELSE "from_event")

AllData ==
  /\ Returned("all", "data")
  /\ \E d \in {FinishFallback(Head(call).d, Head(call).fallback)} :
     \E stored \in {Store(d, Place, output[1].of)} : Follow(stored, After(stored.type), None, None, "from_event")

AllWork ==
  /\ Returned("all", "deserializer")
  /\ \E d \in {FinishFallback(Head(call).d, Head(call).fallback)} :
       Follow(d, After(d.type), None, Some(State(Place, output[1].of)), "from_event")

ChoiceFind == Find("choice") /\ Place = Initial
ChoiceTry == TryCandidate("choice")

ChoiceNoCandidate ==
  /\ InState("choice") /\ Head(call).candidates = Some(<<>>)
  /\ Stop([At(Head(call), State(Initial, None)) EXCEPT !.candidates = None], "continue", Head(call).any)

ChoiceNoTag ==
  /\ InState("choice") /\ InMember /\ Head(call).candidates = None /\ ~IsTag(event)
  /\ Stop(Head(call), "continue", FALSE)

ChoiceTryMore ==
  /\ InState("choice") /\ InMember /\ Head(call).candidates = None /\ IsTag(event)
  /\ InitMember(Head(call), Shaped.members[Place])

\* handle_* of a choice.  The fallback is the deserializer of the value before, and an
\* element keeps its parents from the events that are not the end of it.
OwnWay == IF Shaped.element THEN "from_event_end" ELSE "break"
StoreFallback(f) == IF f.fallback = None THEN f.d ELSE Store(f.d, f.d.st, Finish(f.fallback))

ChoiceNone ==
  /\ Returned("choice", "none")
  /\ LET f == Head(call)
         n == Count(f.d, Place) + (IF f.fallback = None THEN 0 ELSE 1)
         try == IF Placed.element THEN "return_to_root" ELSE "from_event"
     IN  \/ Placed.max = 1 /\ Follow(f.d, Unknown, None, None, try)
         \/ Placed.max > 1 /\ n = 0 /\ Follow(f.d, Initial, None, None, try)
         \/ /\ Placed.max > 1 /\ n > 0
            /\ Follow(f.d, Place, f.fallback, None, IF n < Placed.min THEN "return_to_root" ELSE OwnWay)

ChoiceData ==
  /\ Returned("choice", "data")
  /\ \E d \in {StoreFallback(Head(call))} :
     \E stored \in {Store(d, Place, output[1].of)} :
       IF Shaped.element \/ Failed(stored) \/ Count(stored, Place) < Placed.max
       THEN Follow(stored, Place, None, None, "from_event")
       ELSE Return(Data(Complete(stored), output[1].event, output[1].any))

ChoiceWork ==
  /\ Returned("choice", "deserializer")
  /\ \E d \in {StoreFallback(Head(call))} :
       LET o == output[1]
           way == IF Room(d, Placed.max - 1) THEN "from_event" ELSE OwnWay
       IN  IF Room(d, Placed.max - 1) /\ Again(way, o) /\ IsTag(event)
           THEN Follow(d, Place, None, o.of, way)
           ELSE Follow(d, Place, o.of, None, way)

-----------------------------------------------------------------------------
(* Elements with any content (xml::ElementDeserializer), and with text only (ContentDeserializer) *)

Keep(d, v) == [d EXCEPT !.st = Initial, !.kids = Append(@, [at |-> 1, value |-> v])]

AnyElements == InState("any") /\ IsTag(event) /\ Init(Head(call), Head(call).d.type)

AnyNotes ==
  /\ InState("any") /\ ~IsTag(event)
  /\ LET d == Head(call).d
     IN  IF event.kind \in {"text", "blank", "comment"}
         THEN Return(Working(<<Keep(d, [type |-> "text", id |-> 0, kids |-> <<>>])>>, "none", TRUE))
         ELSE Return(Working(<<d>>, "break", TRUE))

AnyHandled ==
  /\ Returned("any", "data") \/ Returned("any", "deserializer")
  /\ LET o == output[1]
         d == Head(call).d
         path == IF o.artifact = "data" THEN <<Keep(d, o.of)>> ELSE <<[d EXCEPT !.st = 1]>> \o o.of
     IN  Return(Working(path, o.event, TRUE))

TextNext ==
  /\ InState("text")
  /\ Return(Working(<<Head(call).d>>, IF event.kind \in {"text", "blank"} THEN "none" ELSE "break", FALSE))

-----------------------------------------------------------------------------
\* One turn of the loop of the innermost call
Turn ==
  \/ NextOfMember \/ EndTag \/ Raise
  \/ SequenceInit \/ SequenceNoTag \/ SequencePass \/ SequenceTry \/ SequenceRetry \/ SequenceDone
  \/ SequenceNone \/ SequenceData \/ SequenceWork
  \/ ContentTry \/ ContentDone \/ ContentNone \/ ContentData \/ ContentWork
  \/ AllFind \/ AllTry \/ AllNoCandidate \/ AllNone \/ AllData \/ AllWork
  \/ ChoiceFind \/ ChoiceTry \/ ChoiceNoCandidate \/ ChoiceNoTag \/ ChoiceTryMore
  \/ ChoiceNone \/ ChoiceData \/ ChoiceWork
  \/ AnyElements \/ AnyNotes \/ AnyHandled \/ TextNext
=============================================================================
