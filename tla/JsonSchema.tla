------------------------------ MODULE JsonSchema ------------------------------
(***************************************************************************)
(* JSON values, the schemas of schema/draft, and the canonical validator   *)
(* of tools/check_conformance.py, which is the reference the generated SDK *)
(* codecs are compared with.                                               *)
(*                                                                         *)
(* A value is a record with one field naming its kind: [str |-> "x"],      *)
(* [int |-> 1], [arr |-> <<...>>], [obj |-> f] with f a function from      *)
(* member names to values.  A schema is a record whose fields are the      *)
(* keywords it carries, so a keyword the schema lacks is a field outside   *)
(* its DOMAIN; [always |-> b] is the boolean schema b, types is a "type"   *)
(* that is an array, ref a $ref, tag an x-sdk-discriminator.  The formats  *)
(* a string must have (pattern, format, minLength) are one keyword,        *)
(* pattern, the set of the strings that have them.                         *)
(***************************************************************************)
EXTENDS Integers, Sequences, FiniteSets, TLC

CONSTANT Defs   \* the schemas with a stable name, by name

Has(node, key) == key \in DOMAIN node

IsKind(value, kind) == Has(value, kind)

(* The JSON Schema types of a value: an integer is also a number.          *)
TypesOf(value) ==
  CASE IsKind(value, "null") -> {"null"}
    [] IsKind(value, "bool") -> {"boolean"}
    [] IsKind(value, "int")  -> {"integer", "number"}
    [] IsKind(value, "str")  -> {"string"}
    [] IsKind(value, "arr")  -> {"array"}
    [] IsKind(value, "obj")  -> {"object"}

(* The object keywords, on the members of an object.                       *)
RECURSIVE Valid(_, _)
ValidMembers(members, schema) ==
  LET declared == IF Has(schema, "properties") THEN DOMAIN schema.properties ELSE {}
  IN  /\ Has(schema, "required") => schema.required \subseteq DOMAIN members
      /\ \A key \in DOMAIN members \cap declared :
           Valid(members[key], schema.properties[key])
      /\ Has(schema, "additionalProperties") =>
           \A key \in DOMAIN members \ declared :
             Valid(members[key], schema.additionalProperties)

(* SubsetValidator.validate returns no error.  $ref and the composition    *)
(* keywords apply to the same instance, whatever their siblings.           *)
Valid(value, schema) ==
  IF Has(schema, "always") THEN schema.always ELSE
    /\ Has(schema, "ref") => Valid(value, Defs[schema.ref])
    /\ Has(schema, "allOf") => \A i \in DOMAIN schema.allOf : Valid(value, schema.allOf[i])
    /\ Has(schema, "anyOf") => \E i \in DOMAIN schema.anyOf : Valid(value, schema.anyOf[i])
    /\ Has(schema, "oneOf") =>
         Cardinality({i \in DOMAIN schema.oneOf : Valid(value, schema.oneOf[i])}) = 1
    /\ Has(schema, "not") => ~ Valid(value, schema["not"])
    /\ Has(schema, "if") =>
         LET selected == IF Valid(value, schema["if"]) THEN "then" ELSE "else"
         IN  Has(schema, selected) => Valid(value, schema[selected])
    /\ Has(schema, "const") => value = schema.const
    /\ Has(schema, "enum") => value \in schema.enum
    /\ Has(schema, "type") => schema.type \in TypesOf(value)
    /\ Has(schema, "types") => \E i \in DOMAIN schema.types : schema.types[i] \in TypesOf(value)
    /\ IsKind(value, "obj") => ValidMembers(value.obj, schema)
    /\ IsKind(value, "arr") /\ Has(schema, "items") =>
         \A i \in DOMAIN value.arr : Valid(value.arr[i], schema.items)
    /\ IsKind(value, "str") /\ Has(schema, "pattern") => value.str \in schema.pattern
    /\ IsKind(value, "int") =>
         /\ Has(schema, "minimum") => value.int >= schema.minimum
         /\ Has(schema, "maximum") => value.int <= schema.maximum
===============================================================================
