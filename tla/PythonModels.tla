----------------------------- MODULE PythonModels -----------------------------
(***************************************************************************)
(* The model classes of the Python SDK.  A hydrated value stays a mapping: *)
(* hydration only replaces the mappings a class describes by instances of  *)
(* it.  Of the classes in a union that accept a value, the one whose name  *)
(* sorts first is taken; names are abstracted, so all of them are kept.    *)
(***************************************************************************)
EXTENDS SdkModels

(* is_subshape                                                             *)
Subshape(shape, broad) ==
  \/ broad.kind = "any" \/ shape = broad
  \/ broad.kind = "number"  /\ shape.kind \in {"integer", "boundedInteger"}
  \/ broad.kind = "integer" /\ shape.kind = "boundedInteger"
  \/ /\ broad.kind \in {"string", "boolean", "null", "integer", "number"}
     /\ shape.kind = "literal" /\ broad.kind \in TypesOf(shape.value)
  \/ /\ broad.kind \in {"string", "integer", "number"}
     /\ shape.kind = "enum" /\ \A v \in shape.values : broad.kind \in TypesOf(v)

NarrowerShape(left, right) ==
  IF Subshape(left, right) THEN left
  ELSE IF Subshape(right, left) THEN right
  ELSE Intersection(<<left, right>>)

(* A member of a union inside an intersection keeps its shape when every   *)
(* branch gives it the same one.                                           *)
CommonShape(shapes) ==
  IF \E i \in DOMAIN shapes : shapes[i].kind = "any" THEN AnyShape
  ELSE IF \A i \in DOMAIN shapes : Subshape(shapes[i], shapes[1]) /\ Subshape(shapes[1], shapes[i])
    THEN shapes[1]
  ELSE Union("anyOf", shapes, NoTag)

Alternatives(branches) ==
  LET ShapeIn(i, k) == IF k \in DOMAIN branches[i] THEN branches[i][k].shape ELSE AnyShape
  IN  [k \in MembersOfAny(branches) |->
         [required |-> RequiredByAll(branches, k),
          shape    |-> CommonShape([i \in DOMAIN branches |-> ShapeIn(i, k)])]]

(* model_properties: {} when no class describes the shape.                 *)
RECURSIVE ModelProperties(_, _, _)
EachModel(variants, inside, seen) ==
  [i \in DOMAIN variants |-> ModelProperties(variants[i], inside, seen)]

ModelProperties(shape, inside, seen) ==
  CASE IsMap(shape)          -> {}
    [] shape.kind = "object" -> {shape.properties}
    [] Follows(shape, seen)  -> ModelProperties(Shapes[shape.name], FALSE, seen \cup {shape.name})
    [] shape.kind = "intersection" ->
         JoinAll(NarrowerShape, EachModel(SelectSeq(shape.variants, Typed), TRUE, seen))
    [] shape.kind = "union" /\ inside ->
         Whole(Alternatives, EachModel(shape.variants, FALSE, seen))
    [] OTHER -> {}

HasClass(shape) == ModelProperties(shape, FALSE, {}) # {}

(* composed_union: distribution over the first reference to a union.       *)
UnionRefs(shape) ==
  IF shape.kind # "intersection" THEN {}
  ELSE {i \in DOMAIN shape.variants :
          shape.variants[i].kind = "ref" /\ Shapes[shape.variants[i].name].kind = "union"}

DistributedOver(shape, at, union) ==
  [union EXCEPT !.variants = [i \in DOMAIN union.variants |->
     Intersection([shape.variants EXCEPT ![at] = union.variants[i]])]]

ComposedUnion(shape) ==
  DistributedOver(shape, Min(UnionRefs(shape)), Shapes[shape.variants[Min(UnionRefs(shape))].name])

-------------------------------------------------------------------------------
(* annotation: the reference of a class stays one, other references and    *)
(* compositions are replaced by what they stand for.                       *)
OpenMap(shape) ==
  shape.kind = "object" /\ shape.properties = <<>> /\ shape.additional.kind # "forbidden"

RECURSIVE Annotated(_)
SimplifiedConjunct(simplified, variants) ==
  Annotated(IF simplified.kind # "intersection" THEN simplified
            ELSE variants[Min({i \in DOMAIN variants : Typed(variants[i])})])

AnnotatedRef(target, shape) ==
  IF OpenMap(target) THEN target ELSE IF HasClass(target) THEN shape ELSE Annotated(target)

Annotated(shape) ==
  CASE NarrowedUnion(shape)        -> Annotated(shape.variants[1])
    [] UnionRefs(shape) # {} /\ ~ NarrowedUnion(shape) -> ComposedUnion(shape)
    [] shape.kind = "ref"          -> AnnotatedRef(Shapes[shape.name], shape)
    [] shape.kind = "intersection" /\ UnionRefs(shape) = {} ->
         IF HasClass(shape) THEN shape
         ELSE SimplifiedConjunct(FoldLeft(NarrowerShape, shape.variants[1], Tail(shape.variants)), shape.variants)
    [] OTHER -> shape

IsClass(annotation) ==
  annotation.kind \in {"ref", "intersection"} \/ (annotation.kind = "object" /\ ~ OpenMap(annotation))

(* The alternatives of a union annotation; those of its unions are its own.*)
RECURSIVE ArmAnnotations(_)
ArmAnnotations(annotation) ==
  IF annotation.kind = "union"
    THEN UNION {ArmAnnotations(Annotated(annotation.variants[i])) : i \in PublicArms(annotation.variants)}
    ELSE {annotation}

UnionArms(union) ==
  UNION {{[at |-> i, annotation |-> a] : a \in ArmAnnotations(Annotated(union.variants[i]))} :
           i \in PublicArms(union.variants)}

-------------------------------------------------------------------------------
Accepted(shape, value) == Errors(Check("python", shape, value, <<>>)) = {}

(* _matches                                                                *)
RECURSIVE MatchesAnnotation(_, _)
MatchesAnnotation(annotation, value) ==
  CASE annotation.kind = "union" ->
         \E a \in ArmAnnotations(annotation) : MatchesAnnotation(a, value)
    [] annotation.kind = "array" ->
         IsKind(value, "arr") /\ \A i \in DOMAIN value.arr : MatchesAnnotation(Annotated(annotation.items), value.arr[i])
    [] OpenMap(annotation) ->
         IsKind(value, "obj") /\ \A k \in DOMAIN value.obj :
           MatchesAnnotation(Annotated(ExtraShape(annotation)), value.obj[k])
    [] annotation.kind = "any" -> TRUE
    [] OTHER -> Accepted(annotation, value)

(* The descriptor of an inline alternative holds the union around it too.  *)
ClassAccepts(union, annotation, value) ==
  /\ Accepted(annotation, value)
  /\ annotation.kind # "ref" => Accepted(union, value)

RECURSIVE PythonHydrate(_, _)

(* _hydrate_validated                                                      *)
HydrateFields(fields, extra, members) ==
  Whole(Members, [k \in DOMAIN members |->
          PythonHydrate(IF k \in DOMAIN fields THEN fields[k].shape ELSE extra, members[k])])

PythonModel(shape, members) ==
  HydrateFields(Only(ModelProperties(shape, FALSE, {})),
                IF shape.kind = "object" THEN ExtraShape(shape) ELSE AnyShape, members)

(* The arms whose class accepts the value, or else whose plain type does.  *)
ClassArms(arms, union, value) ==
  {a \in arms : IsClass(a.annotation) /\ IsKind(value, "obj") /\ ClassAccepts(union, a.annotation, value)}

PlainArms(arms, value) ==
  {a \in arms : /\ a.annotation.kind = "array" \/ OpenMap(a.annotation)
                /\ MatchesAnnotation(a.annotation, value)}

FirstOf(classes, plain) == IF classes # {} THEN classes ELSE plain

HydrateArms(taken, value) ==
  IF taken = {} THEN {Leaf(value)}
  ELSE UNION {InArm(a.at, PythonHydrate(a.annotation, value)) : a \in taken}

PythonUnion(arms, union, value) ==
  HydrateArms(FirstOf(ClassArms(arms, union, value), PlainArms(arms, value)), value)

(* _hydrate                                                                *)
HydrateAnnotated(annotation, value) ==
  CASE annotation.kind = "array" /\ IsKind(value, "arr") ->
         Whole(Items, [i \in DOMAIN value.arr |-> PythonHydrate(annotation.items, value.arr[i])])
    [] OpenMap(annotation) /\ IsKind(value, "obj") ->
         Whole(Members, [k \in DOMAIN value.obj |-> PythonHydrate(ExtraShape(annotation), value.obj[k])])
    [] annotation.kind = "union" /\ value # NullValue ->
         PythonUnion(UnionArms(annotation), annotation, value)
    [] IsClass(annotation) /\ IsKind(value, "obj") ->
         PythonModel(IF annotation.kind = "ref" THEN Shapes[annotation.name] ELSE annotation, value.obj)
    [] OTHER -> {Leaf(value)}

PythonHydrate(shape, value) == HydrateAnnotated(Annotated(shape), value)

(* A member of the annotated type, as from_dict hydrates it.               *)
PythonValue(name, value) == PythonHydrate(Ref(name), value)
===============================================================================
