---------------------------- MODULE SchemaLowering ----------------------------
(***************************************************************************)
(* The compiler of tools/sdk-codegen: a schema lowered to the shape that   *)
(* every generated SDK embeds as its wire descriptor.  Keywords that are   *)
(* only about values (pattern, if/then/else, sizes) are dropped; structure *)
(* is kept.  A schema the compiler refuses lowers to Refused or to a shape *)
(* that holds it, since one refusal ends the whole compilation.            *)
(***************************************************************************)
EXTENDS JsonSchema, SequencesExt

AnyShape       == [kind |-> "any"]
NeverShape     == [kind |-> "never"]
Refused        == [kind |-> "refused"]
NoTag          == ""
Ref(name)      == [kind |-> "ref", name |-> name]
Literal(value) == [kind |-> "literal", value |-> value]
Union(mode, variants, tag) ==
  [kind |-> "union", mode |-> mode, variants |-> variants, tag |-> tag]
Intersection(variants) == [kind |-> "intersection", variants |-> variants]

Annotations == {"tag"}
Structural  == {"ref", "type", "types", "const", "enum", "oneOf", "anyOf", "allOf",
                "properties", "required", "additionalProperties", "items"}
ValueOnly   == {"not", "if", "then", "else", "pattern", "minimum", "maximum"}
ScalarTypes == {"null", "boolean", "integer", "number", "string"}

Without(schema, key) == [k \in DOMAIN schema \ {key} |-> schema[k]]

(* ensure!: a condition that fails ends the compilation.                   *)
Ensure(condition, shape) == IF condition THEN shape ELSE Refused

(* ensure_no_structural_siblings                                           *)
Handles(schema, handled) == DOMAIN schema \cap Structural \subseteq handled

(* An allOf branch that only constrains values must not wrap the model.    *)
ConditionalOnly(branch) ==
  ~ Has(branch, "always") /\ DOMAIN branch \subseteq {"if", "then", "else", "not"} \cup Annotations

(* The composition keywords that apply beside an object or a type.         *)
SiblingKeywords(schema) ==
  IF ~ (Has(schema, "type") \/ Has(schema, "properties")) THEN <<>> ELSE
    SelectSeq(<<"oneOf", "anyOf", "allOf">>, LAMBDA keyword :
      /\ Has(schema, keyword)
      /\ ~ (keyword = "allOf" /\ \A i \in DOMAIN schema.allOf : ConditionalOnly(schema.allOf[i])))

-------------------------------------------------------------------------------
(* forbidden_property_sets: "not: {required}" and "not: {anyOf: [...]}" of *)
(* the schema and of its allOf branches; anything else is unsupported.     *)
SingleNotCandidate(schema) ==   \* a wrong NotCandidates: no "not: {anyOf}"
  IF Has(schema, "not") /\ ~ Has(schema["not"], "anyOf") THEN <<schema["not"]>> ELSE <<>>

NotCandidates(schema) ==
  IF ~ Has(schema, "not") THEN <<>>
  ELSE IF Has(schema["not"], "anyOf") THEN schema["not"].anyOf ELSE <<schema["not"]>>

RECURSIVE ForbiddenSets(_)
ForbiddenSets(schema) ==
  LET inherited == IF Has(schema, "allOf")
                     THEN UNION {ForbiddenSets(schema.allOf[i]) : i \in DOMAIN schema.allOf}
                     ELSE {}
      Named(candidate) == IF /\ Has(candidate, "required")
                             /\ DOMAIN candidate \subseteq {"required"} \cup Annotations
                            THEN candidate.required ELSE {}
  IN  inherited \cup {Named(NotCandidates(schema)[i]) : i \in DOMAIN NotCandidates(schema)}

ForbiddenSupported(schema) == {} \notin ForbiddenSets(schema)

-------------------------------------------------------------------------------
(* const_string_properties: the members a branch fixes to one string,      *)
(* looked up through $ref and allOf, the branch's own properties last.     *)
RECURSIVE ConstStrings(_)
ConstStrings(schema) ==
  LET props     == IF Has(schema, "properties") THEN schema.properties ELSE <<>>
      fixed     == {k \in DOMAIN props : Has(props[k], "const") /\ IsKind(props[k].const, "str")}
      own       == [k \in fixed |-> props[k].const.str]
      Later(a, b) == b @@ a
      inherited == IF Has(schema, "allOf")
                     THEN FoldLeft(LAMBDA a, b : Later(a, ConstStrings(b)), <<>>, schema.allOf)
                     ELSE <<>>
  IN  own @@ inherited @@ (IF Has(schema, "ref") THEN ConstStrings(Defs[schema.ref]) ELSE <<>>)

(* infer_discriminator: the members fixed to a string of its own by each   *)
(* branch.  The compiler does not ask that the branches require the member.*)
Distinguishing(strings) ==
  {key \in DOMAIN strings[1] :
     /\ \A i \in DOMAIN strings : key \in DOMAIN strings[i]
     /\ \A i, j \in DOMAIN strings : strings[i][key] = strings[j][key] => i = j}

InferDiscriminator(branches) ==
  Distinguishing([i \in DOMAIN branches |-> ConstStrings(branches[i])])

(* What an explicit x-sdk-discriminator must satisfy in every branch.      *)
ExplicitTagHolds(branches, tag) ==
  LET Field(i) == branches[i].properties[tag]
      Known(i) == Has(Field(i), "const") /\ IsKind(Field(i).const, "str")
      known    == {i \in DOMAIN branches : Known(i)}
  IN  /\ \A i \in DOMAIN branches :
           /\ Has(branches[i], "required") /\ tag \in branches[i].required
           /\ Has(branches[i], "properties") /\ tag \in DOMAIN branches[i].properties
           /\ Known(i) \/ (Has(Field(i), "type") /\ Field(i).type = "string")
      /\ \A i, j \in known : Field(i).const = Field(j).const => i = j
      /\ known # {}

-------------------------------------------------------------------------------
RECURSIVE Lower(_)

LowerAll(schemas) == [i \in DOMAIN schemas |-> Lower(schemas[i])]

(* lower_union: the tag of a oneOf is the one member that can be inferred. *)
UnionTagged(mode, shapes, inferred) ==
  Ensure(shapes # <<>> /\ Cardinality(inferred) <= 1,
    Union(mode, shapes, IF inferred = {} THEN NoTag ELSE CHOOSE key \in inferred : TRUE))

LowerUnion(branches, mode) ==
  UnionTagged(mode, LowerAll(branches),
              IF mode = "oneOf" THEN InferDiscriminator(branches) ELSE {})

(* An explicit discriminator replaces the inferred one.                    *)
WithExplicitTag(schema, union) ==
  IF Has(schema, "tag") /\ union # Refused
    THEN Ensure(ExplicitTagHolds(schema.oneOf, schema.tag), [union EXCEPT !.tag = schema.tag])
    ELSE union

LowerOneOf(schema) == WithExplicitTag(schema, LowerUnion(schema.oneOf, "oneOf"))

(* A type or object and its sibling compositions become an intersection.   *)
LowerSiblings(schema, keyword) ==
  LET base    == Lower(Without(schema, keyword))
      tagged  == IF keyword = "oneOf" /\ Has(schema, "tag") THEN [tag |-> schema.tag] ELSE <<>>
      composed == IF keyword = "oneOf" THEN [oneOf |-> schema.oneOf] @@ tagged
                                        ELSE [anyOf |-> schema.anyOf]
  IN  Intersection(<<base>> \o IF keyword = "allOf" THEN LowerAll(schema.allOf)
                                                     ELSE <<Lower(composed)>>)

(* A constraint that narrows a tagged union keeps the arms of the shared   *)
(* union it leaves out as impossible ones, so that their tags are known.   *)
WithExcluded(constraint, shared) ==
  LET Excluded(arm) == \A i \in DOMAIN constraint.variants : constraint.variants[i] # arm
      Impossible(arms) == [i \in DOMAIN arms |-> Intersection(<<arms[i], NeverShape>>)]
  IN  IF constraint.kind = "union" /\ constraint.tag # NoTag /\ shared.kind = "union"
        THEN [constraint EXCEPT !.variants = @ \o Impossible(SelectSeq(shared.variants, Excluded))]
        ELSE constraint

(* A $ref with siblings is the named shape and their constraint.           *)
LowerRef(schema) ==
  IF DOMAIN Without(schema, "ref") \subseteq Annotations
    THEN Ref(schema.ref)
    ELSE Intersection(<<Ref(schema.ref),
           WithExcluded(Lower(Without(schema, "ref")), Lower(Defs[schema.ref]))>>)

LowerDeclared(schema) ==   \* a wrong LowerObject: only declared names are kept
  LET props == IF Has(schema, "properties") THEN schema.properties ELSE <<>>
      required == IF Has(schema, "required") THEN schema.required ELSE {}
  IN  [kind |-> "object",
       properties |-> [k \in DOMAIN props |-> [required |-> k \in required, shape |-> Lower(props[k])]],
       forbidden  |-> ForbiddenSets(schema), additional |-> [kind |-> "allowed"]]

(* A required name that is not a property keeps its presence constraint.   *)
LowerObject(schema) ==
  LET required == IF Has(schema, "required") THEN schema.required ELSE {}
      props    == IF Has(schema, "properties") THEN schema.properties ELSE <<>>
      extra    == IF Has(schema, "additionalProperties") THEN schema.additionalProperties
                                                          ELSE [always |-> TRUE]
  IN  Ensure(ForbiddenSupported(schema),
        [kind |-> "object",
         properties |-> [k \in DOMAIN props \cup required |->
                           [required |-> k \in required,
                            shape    |-> IF k \in DOMAIN props THEN Lower(props[k]) ELSE AnyShape]],
         forbidden  |-> ForbiddenSets(schema),
         additional |-> IF Has(extra, "always")
                          THEN [kind |-> IF extra.always THEN "allowed" ELSE "forbidden"]
                          ELSE [kind |-> "typed", shape |-> Lower(extra)]])

LowerTyped(schema) ==
  IF schema.type = "array"
    THEN Ensure(Handles(schema, {"type", "items"}),
           [kind  |-> "array",
            items |-> IF Has(schema, "items") THEN Lower(schema.items) ELSE AnyShape])
    ELSE Ensure(Handles(schema, {"type"}),
           IF schema.type = "integer" /\ (Has(schema, "minimum") \/ Has(schema, "maximum"))
             THEN [k \in DOMAIN schema \cap {"minimum", "maximum"} |-> schema[k]]
                    @@ [kind |-> "boundedInteger"]
             ELSE [kind |-> schema.type])

(* Compiler::lower, its early returns in their order.                      *)
Lower(schema) ==
  IF Has(schema, "always") THEN IF schema.always THEN AnyShape ELSE NeverShape
  ELSE IF Has(schema, "types")
    THEN LowerUnion([i \in DOMAIN schema.types |->
                       Without(schema, "types") @@ [type |-> schema.types[i]]], "anyOf")
  ELSE IF SiblingKeywords(schema) # <<>>
    THEN LowerSiblings(schema, Head(SiblingKeywords(schema)))
  ELSE IF Has(schema, "ref") THEN LowerRef(schema)
  ELSE IF Has(schema, "const")
    THEN Ensure(Handles(schema, {"const", "type"}), Literal(schema.const))
  ELSE IF Has(schema, "enum")
    THEN Ensure(Handles(schema, {"enum", "type"}) /\ schema.enum # {},
           [kind |-> "enum", values |-> schema.enum,
            open |-> \A value \in schema.enum : IsKind(value, "str")])
  ELSE IF Has(schema, "oneOf") THEN Ensure(Handles(schema, {"oneOf"}), LowerOneOf(schema))
  ELSE IF Has(schema, "anyOf")
    THEN Ensure(Handles(schema, {"anyOf"}), LowerUnion(schema.anyOf, "anyOf"))
  ELSE IF Has(schema, "allOf") /\ ~ Has(schema, "type") /\ ~ Has(schema, "properties")
    THEN Intersection(LowerAll(schema.allOf))
  ELSE IF Has(schema, "type") /\ schema.type \in ScalarTypes \cup {"array"} THEN LowerTyped(schema)
  ELSE IF Has(schema, "properties") \/ Has(schema, "required") \/ Has(schema, "type")
    THEN Ensure(Has(schema, "type") => schema.type = "object", LowerObject(schema))
  ELSE Ensure(DOMAIN schema \subseteq Annotations \cup ValueOnly, AnyShape)

(* The descriptor table each SDK embeds.                                   *)
Shapes == [name \in DOMAIN Defs |-> Lower(Defs[name])]

(* compile succeeds: no schema, at any depth, was refused.                 *)
RECURSIVE Lowered(_)
Lowered(shape) ==
  CASE shape.kind = "refused" -> FALSE
    [] shape.kind = "array"   -> Lowered(shape.items)
    [] shape.kind = "object"  ->
         /\ \A k \in DOMAIN shape.properties : Lowered(shape.properties[k].shape)
         /\ shape.additional.kind = "typed" => Lowered(shape.additional.shape)
    [] shape.kind \in {"union", "intersection"} ->
         \A i \in DOMAIN shape.variants : Lowered(shape.variants[i])
    [] OTHER -> TRUE

(* The instances are schemas that the compiler takes.                      *)
ASSUME DefsCompile == \A name \in DOMAIN Defs : Lowered(Shapes[name])
===============================================================================
