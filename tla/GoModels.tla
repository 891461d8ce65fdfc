------------------------------- MODULE GoModels -------------------------------
(***************************************************************************)
(* The models of the Go SDK.  They are hydrated after one validation too,  *)
(* but a union tries the wire descriptor of each of its arms again, and    *)
(* encoding/json leaves a value alone that null is decoded into.           *)
(***************************************************************************)
EXTENDS SdkModels

(* intersection_properties: of a union inside an intersection, a member    *)
(* keeps the shapes its branches give it when every branch gives one.      *)
BranchShapes(branches, key) == {branches[i][key].shape : i \in DOMAIN branches}

BranchShape(branches, key) ==
  IF ~ InBranches(branches, key) \/ \E s \in BranchShapes(branches, key) : s.kind = "any"
    THEN AnyShape
  ELSE IF Cardinality(BranchShapes(branches, key)) = 1 THEN Only(BranchShapes(branches, key))
  ELSE Union("anyOf", Sorted(Deduped([i \in DOMAIN branches |-> branches[i][key].shape])), NoTag)

BranchProperties(branches) ==
  [k \in MembersOfAny(branches) |->
     [required |-> RequiredByAll(branches, k), shape |-> BranchShape(branches, k)]]

(* structural_properties, on the branches of a union too when inside.      *)
RECURSIVE GoProperties(_, _, _)
GoProperties(shape, inside, seen) ==
  CASE IsMap(shape)           -> {}
    [] shape.kind = "object"  -> {shape.properties}
    [] Follows(shape, seen)   -> GoProperties(Shapes[shape.name], FALSE, seen \cup {shape.name})
    [] shape.kind = "intersection" ->
         LET siblings == SelectSeq(shape.variants, Typed)
         IN  IF siblings = <<>> THEN {}
             ELSE JoinAll(IntersectShapes, [i \in DOMAIN siblings |-> GoProperties(siblings[i], TRUE, seen)])
    [] shape.kind = "union" /\ inside ->
         LET branches == [i \in DOMAIN shape.variants |-> GoProperties(shape.variants[i], TRUE, seen)]
         IN  IF branches = <<>> \/ \E i \in DOMAIN branches : branches[i] = {} THEN {}
             ELSE {BranchProperties([i \in DOMAIN branches |-> Only(branches[i])])}
    [] OTHER -> {}

IsStruct(shape) == GoProperties(shape, FALSE, {}) # {}

(* intersection_union: distribution over the first conjunct that is, or    *)
(* refers to, a union of objects.                                          *)
RECURSIVE Resolved(_, _)
Resolved(shape, seen) ==
  IF Follows(shape, seen) THEN Resolved(Shapes[shape.name], seen \cup {shape.name}) ELSE shape

UnionOfObjects(shape) ==
  /\ shape.kind = "union" /\ shape.variants # <<>>
  /\ \A i \in DOMAIN shape.variants : GoProperties(shape.variants[i], FALSE, {}) # {}

GoDistributed(conjuncts, u, union) ==
  [union EXCEPT !.variants = [i \in DOMAIN union.variants |->
                                Intersection([conjuncts EXCEPT ![u] = union.variants[i]])]]

(* The named type, or the inline one, of an intersection that is no object.*)
GoComposition(conjuncts) ==
  LET resolved == [i \in DOMAIN conjuncts |-> Resolved(conjuncts[i], {})]
      unions   == {i \in DOMAIN conjuncts : UnionOfObjects(resolved[i])}
      values   == {i \in DOMAIN conjuncts : conjuncts[i].kind \notin {"any", "never", "null"}}
  IN  IF unions # {} THEN GoDistributed(conjuncts, Min(unions), resolved[Min(unions)])
      ELSE IF values # {} THEN conjuncts[Min(values)]
      ELSE AnyShape

-------------------------------------------------------------------------------
(* nullable_payload: a union of null and one alternative that excludes it. *)
RECURSIVE ExcludesNull(_, _)
ExcludesNull(shape, seen) ==
  CASE shape.kind \in {"any", "null"}  -> FALSE
    [] shape.kind = "literal"          -> shape.value # NullValue
    [] shape.kind = "enum"             -> NullValue \notin shape.values
    [] shape.kind = "union"            ->
         \A i \in DOMAIN shape.variants : ExcludesNull(shape.variants[i], seen)
    [] shape.kind = "intersection"     ->
         \E i \in DOMAIN shape.variants : ExcludesNull(shape.variants[i], seen)
    [] shape.kind = "ref"              ->
         Follows(shape, seen) /\ ExcludesNull(Shapes[shape.name], seen \cup {shape.name})
    [] OTHER -> TRUE

NullablePayload(shape) ==
  IF shape.kind # "union" \/ Len(shape.variants) # 2 THEN {}
  ELSE {shape.variants[i] : i \in {j \in 1..2 : shape.variants[3 - j].kind = "null"
                                                /\ ExcludesNull(shape.variants[j], {})}}

-------------------------------------------------------------------------------
RECURSIVE GoHydrate(_, _)
RECURSIVE GoNamed(_, _)

(* decodeValidatedJSON into a value of a Go type that null leaves alone.   *)
GoScalar(condition, value) ==
  IF value = NullValue THEN {Zero} ELSE IF condition THEN {Leaf(value)} ELSE {}

(* emit_value_type: strings, booleans, numbers or raw JSON.                *)
GoValueType(values, value) ==
  IF \A v \in values : IsKind(v, "str") THEN GoScalar(IsKind(value, "str"), value)
  ELSE IF \A v \in values : IsKind(v, "bool") THEN GoScalar(IsKind(value, "bool"), value)
  ELSE IF \A v \in values : IsKind(v, "int") THEN GoScalar(IsKind(value, "int"), value)
  ELSE {Leaf(value)}

(* The members of a struct: a required one that is missing keeps its zero. *)
GoStruct(object, value) ==
  IF ~ IsKind(value, "obj") THEN {}
  ELSE Whole(Members, [k \in DOMAIN value.obj \cup Required(object) |->
         IF k \in DOMAIN value.obj THEN GoHydrate(ShapeOfMember(object, k), value.obj[k]) ELSE {Zero}])

(* Union decoding: the first arm whose descriptor finds no error.          *)
GoArmsLast(union, value) ==   \* a wrong GoArms: a later match replaces an earlier one
  LET accepting == {i \in PublicArms(union.variants) :
                      Errors(Check("go", union.variants[i], value, <<>>)) = {}}
  IN  {i \in accepting : \A j \in accepting : j <= i}

GoArms(union, value) ==
  {i \in PublicArms(union.variants) : Errors(Check("go", union.variants[i], value, <<>>)) = {}}

GoUnion(union, value) ==
  LET arms == GoArms(union, value)
  IN  IF arms = {} THEN {UnknownArm(value)}
      ELSE InArm(Min(arms), GoHydrate(union.variants[Min(arms)], value))

GoMap(object, value) ==
  IF value = NullValue THEN {Leaf(value)} ELSE GoStruct(object, value)

GoArray(items, value) ==
  IF value = NullValue THEN {Leaf(value)}
  ELSE IF ~ IsKind(value, "arr") THEN {}
  ELSE Whole(Items, [i \in DOMAIN value.arr |-> GoHydrate(items, value.arr[i])])

(* A pointer to a named model is nil for null.                             *)
GoPointer(name, value) ==
  IF value = NullValue /\ NullablePayload(Resolved(Ref(name), {})) = {}
    THEN {Leaf(value)} ELSE GoNamed(Shapes[name], value)

(* Nullable: a payload that encodes as null is no payload.                 *)
GoNullable(payload, value) ==
  IF value = NullValue THEN {Leaf(value)}
  ELSE {typed \in GoHydrate(payload, value) : Encode(typed) # NullValue}

(* render_type and the decoder of the type it renders.                     *)
GoHydrate(shape, value) ==
  CASE NarrowedUnion(shape)  -> GoHydrate(shape.variants[1], value)
    [] NullablePayload(shape) # {} -> GoNullable(Only(NullablePayload(shape)), value)
    [] shape.kind \in {"any", "never", "null"} -> {Leaf(value)}
    [] shape.kind = "boolean" -> GoScalar(IsKind(value, "bool"), value)
    [] shape.kind = "string"  -> GoScalar(IsKind(value, "str"), value)
    [] shape.kind \in {"integer", "boundedInteger", "number"} -> GoScalar(IsKind(value, "int"), value)
    [] shape.kind = "literal" -> GoValueType({shape.value}, value)
    [] shape.kind = "enum"    -> GoValueType(shape.values, value)
    [] shape.kind = "array"   -> GoArray(shape.items, value)
    [] shape.kind = "ref"     -> GoPointer(shape.name, value)
    [] IsMap(shape)           -> GoMap(shape, value)
    [] shape.kind = "object"  -> GoStruct(shape, value)
    [] shape.kind = "union" /\ NullablePayload(shape) = {} -> GoUnion(shape, value)
    [] shape.kind = "intersection" /\ ~ NarrowedUnion(shape) ->
         IF IsStruct(shape) THEN GoStruct(OpenObject(Only(GoProperties(shape, FALSE, {}))), value)
                              ELSE GoHydrate(GoComposition(shape.variants), value)

(* emit_named: a stable name for a composition is never the reference.     *)
GoNamed(shape, value) ==
  CASE shape.kind = "ref" -> GoNamed(Shapes[shape.name], value)
    [] NarrowedUnion(shape) /\ IsStruct(shape) ->
         GoStruct(OpenObject(Only(GoProperties(shape, FALSE, {}))), value)
    [] NarrowedUnion(shape) /\ ~ IsStruct(shape) -> GoHydrate(GoComposition(shape.variants), value)
    [] OTHER -> GoHydrate(shape, value)

(* parseRoot, after the validation.                                        *)
GoModel(name, value) == GoNamed(Shapes[name], value)
===============================================================================
