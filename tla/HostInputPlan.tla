----------------------------- MODULE HostInputPlan -----------------------------
(***************************************************************************)
(* What the generator plans for the input an application gives for an      *)
(* event: its flat fields, the places of the event they are put at, and    *)
(* the slots below them where content may be owned by the host.  A field   *)
(* or slot is named by the words its identifier is made of.                *)
(***************************************************************************)
EXTENDS ShapeProjection

CONSTANTS ContentName,   \* the type of a content part, "ContentItem"
          Star           \* an array index in a slot

RuntimeOwned(event) ==
  {"type", "source", "harness", "protocolVersion"}
    \cup (IF event = "session.start" THEN {"manifest"} ELSE {})

-------------------------------------------------------------------------------
(* input_fields: each retained member has a name and one path.  A required *)
(* call or tool is flattened; of a tool some members keep their name.      *)
Wrappers(fields) == {k \in DOMAIN fields \cap {"call", "tool"} : fields[k].required}

KeepsItsName(wrapper, member) == wrapper = "tool" /\ member \in {"name", "input", "origin"}

FieldOf(name, path, required, shape) ==
  [name |-> name, path |-> path, required |-> required, shape |-> shape]

Flattened(wrapper, fields) ==
  UNION {{FieldOf(IF KeepsItsName(wrapper, k) THEN <<k>> ELSE <<wrapper, k>>,
                  <<wrapper, k>>, children[k].required, children[k].shape) : k \in DOMAIN children} :
           children \in ObjectFields(fields[wrapper].shape)}

Unflattened(fields, k) ==
  FieldOf(<<k>>, <<k>>, fields[k].required /\ k \notin {"id", "time"}, fields[k].shape)

InputFields(event, fields) ==
  UNION {Flattened(w, fields) : w \in Wrappers(fields) \ RuntimeOwned(event)}
    \cup {Unflattened(fields, k) : k \in DOMAIN fields \ (RuntimeOwned(event) \cup Wrappers(fields))}

(* bail!: a wrapper that is no object, or two fields of one name.          *)
Plannable(event, fields) ==
  /\ \A w \in Wrappers(fields) \ RuntimeOwned(event) : ObjectFields(fields[w].shape) # {}
  /\ \A f, g \in InputFields(event, fields) : f.name = g.name => f = g

-------------------------------------------------------------------------------
(* content_slots: the paths at which the shape of a field refers to a part *)
RECURSIVE SlotsOfArms(_, _, _)   \* a wrong SlotsWithin: compositions are not entered
SlotsOfArms(shape, path, seen) ==
  CASE shape.kind = "ref" /\ shape.name = ContentName -> {path}
    [] Follows(shape, seen) -> SlotsOfArms(Shapes[shape.name], path, seen \cup {shape.name})
    [] shape.kind = "object" ->
         UNION {SlotsOfArms(shape.properties[k].shape, Append(path, k), seen) : k \in DOMAIN shape.properties}
    [] shape.kind = "array" -> SlotsOfArms(shape.items, Append(path, Star), seen)
    [] OTHER -> {}

RECURSIVE SlotsWithin(_, _, _)
SlotsWithin(shape, path, seen) ==
  CASE shape.kind = "ref" /\ shape.name = ContentName -> {path}
    [] Follows(shape, seen) -> SlotsWithin(Shapes[shape.name], path, seen \cup {shape.name})
    [] shape.kind = "object" ->
         UNION {SlotsWithin(shape.properties[k].shape, Append(path, k), seen) : k \in DOMAIN shape.properties}
    [] shape.kind \in {"union", "intersection"} ->
         UNION {SlotsWithin(shape.variants[i], path, seen) : i \in DOMAIN shape.variants}
    [] shape.kind = "array" -> SlotsWithin(shape.items, Append(path, Star), seen)
    [] OTHER -> {}

NamedMembers(path) == SelectSeq(path, LAMBDA step : step # Star)

SlotOf(field, path) ==
  [name |-> field.name \o NamedMembers(SubSeq(path, Len(field.path) + 1, Len(path))), path |-> path]

ContentSlots(fields) ==
  UNION {{SlotOf(f, path) : path \in SlotsWithin(f.shape, f.path, {})} : f \in fields}

-------------------------------------------------------------------------------
(* What each SDK derives from the slots.                                   *)
EndsWith(path, step) == path # <<>> /\ Last(path) = step
Dropping(path, condition) == IF condition THEN Front(path) ELSE path

(* Rust has a method for each slot, or for the messages that hold it.      *)
RustBuilder(slot) ==
  LET partMany == EndsWith(slot.path, Star)
      inParts  == Dropping(slot.path, partMany)
      message  == EndsWith(inParts, "parts")
      at       == Dropping(inParts, message)
      many     == IF message THEN EndsWith(at, Star) ELSE partMany
  IN  [path |-> Dropping(at, message /\ many), message |-> message, many |-> many]

(* The slot a method was made from; its name says nothing of indices.      *)
SlotOfBuilder(b) ==
  b.path \o (IF b.many THEN <<Star>> ELSE <<>>) \o (IF b.message THEN <<"parts", Star>> ELSE <<>>)
RustMethod(b) == NamedMembers(b.path)

(* Python keys sources by slot, and looks for the field that is its root.  *)
PythonRoots(fields, slot) == {f \in fields : IsPrefix(f.path, slot.path)}

(* Go has one host value for each field with slots, of a type generated    *)
(* from the fields of the wire type that lead on to one.                   *)
GoTails(paths, step) == {Tail(p) : p \in {q \in paths : q # <<>> /\ Head(q) = step}}

GoHostFields(fields, slots) ==
  {[name |-> f.name, path |-> f.path,
    tails |-> {SubSeq(s.path, Len(f.path) + 1, Len(s.path)) :
                 s \in {t \in slots : IsPrefix(f.path, t.path)}}] : f \in fields}

(* The members that the generated types of a host field replace, with the  *)
(* slots below them.                                                       *)
RECURSIVE GoReplaced(_, _)
GoReplaced(tails, path) ==
  (IF <<>> \in tails THEN {path} ELSE {})
    \cup UNION {GoReplaced(GoTails(tails, step), Append(path, step)) :
                  step \in {Head(q) : q \in tails \ {<<>>}}}

EventPlan(event, fields) ==
  LET inputs == InputFields(event, fields)
  IN  [fields |-> inputs, slots |-> ContentSlots(inputs)]

-------------------------------------------------------------------------------
(* Whether a value of the shape can hold a content part at the path.       *)
RECURSIVE HoldsContent(_, _)
HoldsContent(shape, path) ==
  CASE shape.kind = "ref" ->
         IF shape.name = ContentName THEN path = <<>> ELSE HoldsContent(Shapes[shape.name], path)
    [] shape.kind \in {"union", "intersection"} ->
         \E i \in DOMAIN shape.variants : HoldsContent(shape.variants[i], path)
    [] path = <<>> -> FALSE
    [] shape.kind = "object" ->
         Head(path) \in DOMAIN shape.properties /\ HoldsContent(shape.properties[Head(path)].shape, Tail(path))
    [] shape.kind = "array" -> Head(path) = Star /\ HoldsContent(shape.items, Tail(path))
    [] OTHER -> FALSE

Injective(Of(_), set) == \A a, b \in set : Of(a) = Of(b) => a = b

(* The flat fields of an input say everything of an event that is not the  *)
(* runtime's, each in a place of its own; content is looked for exactly    *)
(* where the schema has it; and each SDK reaches each slot in one way: by  *)
(* one method in Rust, one generated type in Go, one key in Python.        *)
PlanExact(event, fields, paths) ==
  LET plan == EventPlan(event, fields)
  IN  /\ Plannable(event, fields)
      /\ {Head(f.path) : f \in plan.fields} = DOMAIN fields \ RuntimeOwned(event)
      /\ \A f, g \in plan.fields : IsPrefix(f.path, g.path) => f = g
      /\ \A p \in paths \cup {s.path : s \in plan.slots} :
           p \in {s.path : s \in plan.slots} <=>
             /\ Head(p) \in DOMAIN fields \ RuntimeOwned(event)
             /\ HoldsContent(fields[Head(p)].shape, Tail(p))
      /\ Injective(LAMBDA s : s.name, plan.slots)
      /\ Injective(LAMBDA s : RustMethod(RustBuilder(s)), plan.slots)
      /\ \A s \in plan.slots : /\ SlotOfBuilder(RustBuilder(s)) = s.path
                               /\ Cardinality(PythonRoots(plan.fields, s)) = 1
      /\ UNION {GoReplaced(h.tails, h.path) : h \in GoHostFields(plan.fields, plan.slots)}
           = {s.path : s \in plan.slots}
===============================================================================
