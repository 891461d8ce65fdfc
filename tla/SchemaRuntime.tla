---------------------------- MODULE SchemaRuntime ----------------------------
(***************************************************************************)
(* The structural validator each generated SDK carries: checkNode and      *)
(* checkUnion as emitted for Rust, Go, Python and TypeScript.  The four    *)
(* agree but for the way a tagged union finds its arm, so Check takes the  *)
(* language as a parameter.  Diagnostics are a set of [path, code, error]; *)
(* a warning has error = FALSE and does not fail the parse.                *)
(***************************************************************************)
EXTENDS SchemaLowering

CONSTANT EffectNames   \* the stable names that end in "Effect"

Languages == {"rust", "go", "python", "typescript"}

Diagnostic(path, code, error) == [path |-> path, code |-> code, error |-> error]

Errors(found) == {d \in found : d.error}

JoinPath(path, key) == Append(path, key)

-------------------------------------------------------------------------------
RECURSIVE TagOfObject(_, _, _)
TagOfObject(language, shape, tag) ==   \* a wrong DiscriminatorValue: Go skips intersections
  CASE shape.kind = "ref" -> TagOfObject(language, Shapes[shape.name], tag)
    [] shape.kind = "intersection" ->
         IF language = "go" THEN <<>> ELSE TagOfObject(language, shape.variants[1], tag)
    [] shape.kind = "object" /\ tag \in DOMAIN shape.properties ->
         IF shape.properties[tag].shape.kind = "literal"
           THEN <<shape.properties[tag].shape.value.str>> ELSE <<>>
    [] OTHER -> <<>>

(* discriminatorValue: the string the shape fixes its member tag to, <<>>  *)
(* when there is none.  In Go a literal "" counts as none.                 *)
RECURSIVE DiscriminatorValue(_, _, _)
DiscriminatorValue(language, shape, tag) ==
  CASE shape.kind = "ref" -> DiscriminatorValue(language, Shapes[shape.name], tag)
    [] shape.kind = "intersection" ->
         FoldLeft(LAMBDA first, variant :
                    IF first # <<>> THEN first ELSE DiscriminatorValue(language, variant, tag),
                  <<>>, shape.variants)
    [] shape.kind = "object" ->
         IF /\ tag \in DOMAIN shape.properties
            /\ shape.properties[tag].shape.kind = "literal"
            /\ IsKind(shape.properties[tag].shape.value, "str")
            /\ language = "go" => shape.properties[tag].shape.value.str # ""
           THEN <<shape.properties[tag].shape.value.str>>
           ELSE <<>>
    [] OTHER -> <<>>

(* An arm is selected when its tag is the value's.  Go compares strings,   *)
(* and an arm without a tag has the tag "".                                *)
Selects(language, arm, tag, actual) ==
  DiscriminatorValue(language, arm, tag) =
    IF language = "go" /\ actual = "" THEN <<>> ELSE <<actual>>

SelectedArms(language, union, actual) ==
  {i \in DOMAIN union.variants : Selects(language, union.variants[i], union.tag, actual)}

(* effect_descriptors: TypeScript alone closes the unions of effects.      *)
ClosedUnion(language, union) ==
  /\ language = "typescript"
  /\ \A i \in DOMAIN union.variants :
       union.variants[i].kind = "ref" /\ union.variants[i].name \in EffectNames

-------------------------------------------------------------------------------
RECURSIVE Check(_, _, _, _)

Attempts(language, union, arms, value, path) ==
  [i \in arms |-> Check(language, union.variants[i], value, path)]

Matches(attempts) == {i \in DOMAIN attempts : Errors(attempts[i]) = {}}

(* checkUnion without a discriminator: every arm is tried.                 *)
Untagged(union, attempts, path) ==
  LET matches == Matches(attempts)
  IN  IF matches = {} THEN {Diagnostic(path, "no_union_match", TRUE)}
      ELSE IF union.mode = "oneOf" /\ Cardinality(matches) > 1
        THEN {Diagnostic(path, "ambiguous_union", TRUE)}
      ELSE attempts[Min(matches)]

(* Three languages take the first arm with the tag; Go tries each of them. *)
TriedArms(language, arms) ==
  IF language = "go" THEN arms ELSE {i \in arms : \A j \in arms : i <= j}

(* checkUnion with one, after the arms with the tag were tried.  A tag no  *)
(* arm has is preserved with a warning.                                    *)
Tagged(language, union, attempts, path) ==
  IF DOMAIN attempts = {}
    THEN IF ClosedUnion(language, union)
           THEN {Diagnostic(JoinPath(path, union.tag), "unknown_variant", TRUE)}
           ELSE {Diagnostic(path, "unknown_variant", FALSE)}
  ELSE IF Matches(attempts) = {}
    THEN UNION {attempts[i] : i \in DOMAIN attempts}
           \cup {Diagnostic(path, "invalid_known_variant", TRUE)}
  ELSE Untagged(union, attempts, path)

CheckUnion(language, union, value, path) ==
  IF union.tag = NoTag
    THEN Untagged(union, Attempts(language, union, DOMAIN union.variants, value, path), path)
  ELSE IF /\ IsKind(value, "obj") /\ union.tag \in DOMAIN value.obj
          /\ IsKind(value.obj[union.tag], "str")
    THEN Tagged(language, union,
           Attempts(language, union,
             TriedArms(language, SelectedArms(language, union, value.obj[union.tag].str)),
             value, path), path)
  ELSE {Diagnostic(JoinPath(path, union.tag), "invalid_type", TRUE)}

(* checkObject: forbidden combinations, typed extra members, and the       *)
(* declared properties.  Extra members are kept even where the schema      *)
(* forbids them: that is left to canonical validation.                     *)
CheckObject(language, shape, members, path) ==
  LET declared == DOMAIN shape.properties
      extra    == IF shape.additional.kind = "typed" THEN DOMAIN members \ declared ELSE {}
      missing  == {k \in declared \ DOMAIN members : shape.properties[k].required}
  IN  UNION {
        {Diagnostic(path, "invalid_type", TRUE) :
           keys \in {set \in shape.forbidden : set \subseteq DOMAIN members}},
        UNION {Check(language, shape.additional.shape, members[k], JoinPath(path, k)) : k \in extra},
        {Diagnostic(JoinPath(path, k), "missing_required", TRUE) : k \in missing},
        UNION {Check(language, shape.properties[k].shape, members[k], JoinPath(path, k)) :
                 k \in declared \cap DOMAIN members}}

(* checkNode                                                               *)
Check(language, shape, value, path) ==
  LET Unless(ok, code) == IF ok THEN {} ELSE {Diagnostic(path, code, TRUE)}
  IN  CASE shape.kind = "any"        -> {}
        [] shape.kind = "never"      -> Unless(FALSE, "invalid_type")
        [] shape.kind \in ScalarTypes -> Unless(shape.kind \in TypesOf(value), "invalid_type")
        [] shape.kind = "boundedInteger" ->
             Unless(/\ IsKind(value, "int")
                    /\ Has(shape, "minimum") => value.int >= shape.minimum
                    /\ Has(shape, "maximum") => value.int <= shape.maximum, "invalid_type")
        [] shape.kind = "literal"    -> Unless(value = shape.value, "literal_mismatch")
        [] shape.kind = "enum"       ->
             IF shape.open /\ IsKind(value, "str") /\ value \notin shape.values
               THEN {Diagnostic(path, "unknown_enum", FALSE)}
               ELSE Unless(value \in shape.values, "invalid_type")
        [] shape.kind = "array"      ->
             IF IsKind(value, "arr")
               THEN UNION {Check(language, shape.items, value.arr[i], JoinPath(path, ToString(i))) :
                             i \in DOMAIN value.arr}
               ELSE Unless(FALSE, "invalid_type")
        [] shape.kind = "object"     ->
             IF IsKind(value, "obj") THEN CheckObject(language, shape, value.obj, path)
                                     ELSE Unless(FALSE, "invalid_type")
        [] shape.kind = "intersection" ->
             UNION {Check(language, shape.variants[i], value, path) : i \in DOMAIN shape.variants}
        [] shape.kind = "ref"        -> Check(language, Shapes[shape.name], value, path)
        [] shape.kind = "union"      -> CheckUnion(language, shape, value, path)

(* parseRoot: the value fails when one of its diagnostics is an error.     *)
Diagnostics(language, name, value) == Check(language, Shapes[name], value, <<>>)
===============================================================================
