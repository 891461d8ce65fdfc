--------------------------- MODULE TypeScriptTypes ---------------------------
(***************************************************************************)
(* The types the TypeScript SDK declares for the values it parses.  Parsing*)
(* leaves a value as it is and asserts its type, so what matters is that   *)
(* the values it accepts are of that type.                                 *)
(***************************************************************************)
EXTENDS SdkModels

HasString(value, key) ==
  IsKind(value, "obj") /\ key \in DOMAIN value.obj /\ IsKind(value.obj[key], "str")

(* is_effect_union: all of the alternatives are named effects.             *)
EffectUnion(union) ==
  /\ union.variants # <<>>
  /\ \A i \in DOMAIN union.variants :
       union.variants[i].kind = "ref" /\ union.variants[i].name \in EffectNames

NoUnknownVariant(union, value) == FALSE   \* a wrong UnknownVariant

(* UnknownVariant<tag>: any object whose tag is a string.                  *)
UnknownVariant(union, value) ==
  union.tag # NoTag /\ ~ EffectUnion(union) /\ HasString(value, union.tag)

RECURSIVE OfType(_, _)

(* Typed extra members are an intersection with Partial<Record<...>>, so   *)
(* declared members must be of that type as well.                          *)
ObjectType(object, members) ==
  /\ Required(object) \subseteq DOMAIN members
  /\ \A k \in DOMAIN members \cap DOMAIN object.properties :
       OfType(object.properties[k].shape, members[k])
  /\ object.additional.kind = "typed" =>
       \A k \in DOMAIN members : OfType(object.additional.shape, members[k])

(* render: the values of the rendered type.  Unconstrained conjuncts of an *)
(* object are left out of the type; they admit every value anyway.         *)
OfType(shape, value) ==
  CASE NarrowedUnion(shape)        -> OfType(shape.variants[1], value)
    [] shape.kind = "any"          -> TRUE
    [] shape.kind = "never"        -> FALSE
    [] shape.kind \in {"null", "boolean", "string"} -> shape.kind \in TypesOf(value)
    [] shape.kind \in {"integer", "boundedInteger", "number"} -> "number" \in TypesOf(value)
    [] shape.kind = "literal"      -> value = shape.value
    [] shape.kind = "enum"         -> value \in shape.values \/ (shape.open /\ IsKind(value, "str"))
    [] shape.kind = "array"        ->
         IsKind(value, "arr") /\ \A i \in DOMAIN value.arr : OfType(shape.items, value.arr[i])
    [] shape.kind = "ref"          -> OfType(Shapes[shape.name], value)
    [] shape.kind = "intersection" /\ ~ NarrowedUnion(shape) ->
         \A i \in DOMAIN shape.variants : OfType(shape.variants[i], value)
    [] shape.kind = "union"        ->
         \/ \E i \in DOMAIN shape.variants : OfType(shape.variants[i], value)
         \/ UnknownVariant(shape, value)
    [] shape.kind = "object"       -> IsKind(value, "obj") /\ ObjectType(shape, value.obj)

InhabitsDeclaredType(name, value) == OfType(Shapes[name], value)
===============================================================================
