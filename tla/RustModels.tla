------------------------------ MODULE RustModels ------------------------------
(***************************************************************************)
(* The models of the Rust SDK.  A value is validated once; the models are  *)
(* then hydrated in a scope that skips the validation of nested values, so *)
(* the first alternative of an untagged union that can be decoded is taken.*)
(***************************************************************************)
EXTENDS SdkModels

(* fixed_value: the constant a shape is, through references.               *)
RECURSIVE FixedValue(_, _)
FixedValue(shape, seen) ==
  CASE shape.kind = "literal" -> {shape.value}
    [] shape.kind = "intersection" ->
         FoldLeft(LAMBDA first, v : IF first # {} THEN first ELSE FixedValue(v, seen), {}, shape.variants)
    [] Follows(shape, seen) -> FixedValue(Shapes[shape.name], seen \cup {shape.name})
    [] OTHER -> {}

(* Branches of a union contribute members only as predicates: a member     *)
(* with a shape must be left open by a branch, and then says nothing.      *)
LeftOpen(variants, key) ==
  \E i \in DOMAIN variants :
    /\ variants[i].kind = "object" /\ variants[i].additional.kind = "allowed"
    /\ key \notin DOMAIN variants[i].properties

Predicates(variants, branches) ==
  IF \E i \in DOMAIN branches : \E k \in DOMAIN branches[i] :
       Typed(branches[i][k].shape) /\ ~ LeftOpen(variants, k)
    THEN {}
    ELSE {[k \in MembersOfAny(branches) |->
             [required |-> RequiredByAll(branches, k), shape |-> AnyShape]]}

(* collect_object_properties: {} when the shape is not one object.         *)
RECURSIVE ObjectProperties(_, _)
ObjectProperties(shape, seen) ==
  CASE shape.kind = "object"  -> {shape.properties}
    [] Follows(shape, seen)   -> ObjectProperties(Shapes[shape.name], seen \cup {shape.name})
    [] shape.kind = "intersection" ->
         LET siblings == SelectSeq(shape.variants, Typed)
         IN  IF siblings = <<>> THEN {}
             ELSE JoinAll(IntersectShapes, [i \in DOMAIN siblings |-> ObjectProperties(siblings[i], seen)])
    [] shape.kind = "union" ->
         LET branches == [i \in DOMAIN shape.variants |-> ObjectProperties(shape.variants[i], seen)]
         IN  IF branches = <<>> \/ \E i \in DOMAIN branches : branches[i] = {} THEN {}
             ELSE Predicates(shape.variants, [i \in DOMAIN branches |-> Only(branches[i])])
    [] OTHER -> {}

-------------------------------------------------------------------------------
(* project_intersection: of the conjuncts, behind references, one that is  *)
(* no object, or the intersection distributed over its first union.        *)
RECURSIVE Conjuncts(_, _)
Conjuncts(shape, seen) ==
  CASE shape.kind = "intersection" ->
         FlattenSeq([i \in DOMAIN shape.variants |-> Conjuncts(shape.variants[i], seen)])
    [] Follows(shape, seen) -> Conjuncts(Shapes[shape.name], seen \cup {shape.name})
    [] shape.kind = "any"   -> <<>>
    [] OTHER -> <<shape>>

Simple == {"array", "string", "boolean", "integer", "boundedInteger", "number", "enum", "literal"}

Distributed(conjuncts, u) ==
  [conjuncts[u] EXCEPT !.variants =
     [i \in DOMAIN conjuncts[u].variants |->
        Intersection([conjuncts EXCEPT ![u] = conjuncts[u].variants[i]])]]

ProjectedConjuncts(conjuncts) ==
  LET simple == {i \in DOMAIN conjuncts : conjuncts[i].kind \in Simple}
      unions == {i \in DOMAIN conjuncts : conjuncts[i].kind = "union"}
  IN  IF simple # {} THEN conjuncts[Min(simple)]
      ELSE IF unions # {} THEN Distributed(conjuncts, Min(unions))
      ELSE AnyShape

ProjectIntersection(shape) == ProjectedConjuncts(Conjuncts(shape, {}))

(* emit_unvalidated_declaration: the declared type of a shape.             *)
RECURSIVE RustDeclared(_)
RustComposition(shape, fixed, fields) ==
  IF fixed # {} THEN Literal(Only(fixed))
  ELSE IF fields # {} THEN OpenObject(Only(fields))
  ELSE RustDeclared(ProjectIntersection(shape))

RustDeclared(shape) ==
  IF shape.kind = "intersection"
    THEN RustComposition(shape, FixedValue(shape, {}), ObjectProperties(shape, {}))
    ELSE shape

(* render_type: the type of a member or an item.                           *)
RustType(shape) == IF NarrowedUnion(shape) THEN shape.variants[1] ELSE RustDeclared(shape)

-------------------------------------------------------------------------------
RECURSIVE RustHydrate(_, _)

RustFields(object, members, kept) ==
  IF Required(object) \ DOMAIN members # {} THEN {}
  ELSE Whole(Members, [k \in kept |-> RustHydrate(RustType(ShapeOfMember(object, k)), members[k])])

(* The fields of a struct, and the extra members that it flattens.         *)
RustStructDropping(object, members) ==   \* a wrong RustStruct: extra members are not kept
  RustFields(object, members, DOMAIN members \cap DOMAIN object.properties)

RustStruct(object, members) == RustFields(object, members, DOMAIN members)

(* An arm that can hold no value is no variant of the enum.                *)
RustArms(union) == {i \in PublicArms(union.variants) : union.variants[i].kind # "never"}

RustArm(union, i, value) == InArm(i, RustHydrate(RustType(union.variants[i]), value))

RustTagged(union, value) ==
  IF ~ (IsKind(value, "obj") /\ union.tag \in DOMAIN value.obj /\ IsKind(value.obj[union.tag], "str"))
    THEN {}
    ELSE LET selected == {i \in RustArms(union) :
                            DiscriminatorValue("rust", union.variants[i], union.tag)
                              = <<value.obj[union.tag].str>>}
         IN  IF selected = {} THEN {UnknownArm(value)} ELSE RustArm(union, Min(selected), value)

(* serde(untagged)                                                         *)
RustUntagged(union, value) ==
  LET attempts == [i \in RustArms(union) |-> RustArm(union, i, value)]
      decoded  == {i \in DOMAIN attempts : attempts[i] # {}}
  IN  IF decoded = {} THEN {} ELSE attempts[Min(decoded)]

RustUnion(union, value) ==
  IF union.tag = NoTag THEN RustUntagged(union, value) ELSE RustTagged(union, value)

LeafIf(condition, value) == IF condition THEN {Leaf(value)} ELSE {}

(* Deserialize of a declared type, in the scope of validated hydration.    *)
RustHydrate(declared, value) ==
  CASE declared.kind \in {"any", "never"} -> {Leaf(value)}
    [] declared.kind \in ScalarTypes      -> LeafIf(declared.kind \in TypesOf(value), value)
    [] declared.kind = "boundedInteger"   -> LeafIf(IsKind(value, "int"), value)
    [] declared.kind = "literal"          -> LeafIf(value = declared.value, value)
    [] declared.kind = "enum"             ->
         LeafIf(value \in declared.values \/ (declared.open /\ IsKind(value, "str")), value)
    [] declared.kind = "array"            ->
         IF IsKind(value, "arr")
           THEN Whole(Items, [i \in DOMAIN value.arr |-> RustHydrate(RustType(declared.items), value.arr[i])])
           ELSE {}
    [] declared.kind = "object"           ->
         IF IsKind(value, "obj") THEN RustStruct(declared, value.obj) ELSE {}
    [] declared.kind = "ref"              -> RustHydrate(RustDeclared(Shapes[declared.name]), value)
    [] declared.kind = "union"            -> RustUnion(declared, value)

(* parse_root_value, after the validation.                                 *)
RustModel(name, value) == RustHydrate(RustDeclared(Shapes[name]), value)
===============================================================================
