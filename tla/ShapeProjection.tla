---------------------------- MODULE ShapeProjection ----------------------------
(***************************************************************************)
(* What the generator reads off a lowered shape to build public APIs: the  *)
(* members of an object behind references and compositions, the strings a  *)
(* member can hold, the values of a discriminator at a path.  Every walk   *)
(* carries the names it is inside of, so that a recursive schema ends it.  *)
(***************************************************************************)
EXTENDS SchemaLowering

Literals(values) == {v.str : v \in {w \in values : IsKind(w, "str")}}

(* A reference is followed unless the walk is already inside of it.        *)
Follows(shape, seen) == shape.kind = "ref" /\ shape.name \notin seen

-------------------------------------------------------------------------------
(* object_fields: {} for no object, else the one set of its members.       *)
Constraining(shape) == shape.kind \notin {"any", "union"}

(* A later sibling adds its requirement; its shape replaces the earlier    *)
(* one unless it says nothing.                                             *)
MergeMember(old, new) ==
  [required |-> old.required \/ new.required,
   shape    |-> IF new.shape.kind = "any" THEN old.shape ELSE new.shape]

MergeFields(old, new) ==
  [k \in DOMAIN old \cup DOMAIN new |->
     IF k \in DOMAIN old \cap DOMAIN new THEN MergeMember(old[k], new[k])
     ELSE IF k \in DOMAIN new THEN new[k] ELSE old[k]]

(* All siblings must be objects, and there must be one.                    *)
MergeSiblings(found) ==
  IF found = <<>> THEN {}
  ELSE FoldLeft(LAMBDA merged, fields : {MergeFields(a, b) : a \in merged, b \in fields},
                Head(found), Tail(found))

RECURSIVE FieldsWithin(_, _)
FieldsWithin(shape, seen) ==
  CASE shape.kind = "object" -> {shape.properties}
    [] Follows(shape, seen)  -> FieldsWithin(Shapes[shape.name], seen \cup {shape.name})
    [] shape.kind = "intersection" ->
         LET siblings == SelectSeq(shape.variants, Constraining)
         IN  MergeSiblings([i \in DOMAIN siblings |-> FieldsWithin(siblings[i], seen)])
    [] OTHER -> {}

ObjectFields(shape) == FieldsWithin(shape, {})

(* field(...).map(...).unwrap_or_default() over the members of an object.  *)
MemberShapes(fields, name) == IF name \in DOMAIN fields THEN {fields[name].shape} ELSE {}

-------------------------------------------------------------------------------
(* vocabulary: every string a value of the shape, or an item of it, names. *)
RECURSIVE VocabularyWithin(_, _)
VocabularyWithin(shape, seen) ==
  CASE shape.kind = "enum"    -> Literals(shape.values)
    [] shape.kind = "literal" -> Literals({shape.value})
    [] shape.kind = "array"   -> VocabularyWithin(shape.items, seen)
    [] shape.kind \in {"union", "intersection"} ->
         UNION {VocabularyWithin(shape.variants[i], seen) : i \in DOMAIN shape.variants}
    [] Follows(shape, seen) -> VocabularyWithin(Shapes[shape.name], seen \cup {shape.name})
    [] OTHER -> {}

MemberValues(fields, name) ==
  UNION {VocabularyWithin(member, {}) : member \in MemberShapes(fields, name)}

(* constrained_reference: a shared union narrowed by inline alternatives.  *)
NarrowedUnion(shape) ==
  /\ shape.kind = "intersection" /\ Len(shape.variants) = 2
  /\ shape.variants[1].kind = "ref" /\ shape.variants[2].kind = "union"

(* tag_values: the literals at a path.  Impossible arms have no tags, and  *)
(* of a narrowed union only the alternatives count.                        *)
RECURSIVE TagsWithin(_, _, _)
TagsAt(shape, path, seen) ==
  IF path = <<>>
    THEN IF shape.kind = "literal" THEN Literals({shape.value}) ELSE {}
    ELSE UNION {TagsWithin(member, Tail(path), seen) :
                  member \in UNION {MemberShapes(f, Head(path)) : f \in ObjectFields(shape)}}

AlternativesOf(shape) ==
  IF \E i \in DOMAIN shape.variants : shape.kind = "intersection" /\ shape.variants[i].kind = "never"
    THEN {}
  ELSE IF NarrowedUnion(shape) THEN {2} ELSE DOMAIN shape.variants

TagsWithin(shape, path, seen) ==
  CASE shape.kind \in {"intersection", "union"} ->
         UNION {TagsWithin(shape.variants[i], path, seen) : i \in AlternativesOf(shape)}
    [] shape.kind = "ref" ->
         IF Follows(shape, seen) THEN TagsWithin(Shapes[shape.name], path, seen \cup {shape.name}) ELSE {}
    [] OTHER -> TagsAt(shape, path, seen)
===============================================================================
