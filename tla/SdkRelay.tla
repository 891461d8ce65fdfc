------------------------------- MODULE SdkRelay -------------------------------
(***************************************************************************)
(* One JSON value of a named schema, validated by the generated SDKs of    *)
(* the four languages in any order, as adapters of different languages do  *)
(* that exchange it.  The properties compare what the SDKs say of it with  *)
(* one another and with the canonical validator.  A Parse function first   *)
(* validates the structure of the value and then hydrates its typed model. *)
(***************************************************************************)
EXTENDS RustModels, GoModels, PythonModels, TypeScriptTypes

CONSTANT Inputs   \* for each schema that is exchanged, the values that are

ASSUME InputsAssumption == DOMAIN Inputs \subseteq DOMAIN Defs

VARIABLES name,     \* the schema the value is parsed with
          value,
          verdict,  \* per language: "none", "accepted" or "refused"
          found,    \* per language: the diagnostics of its validation
          models    \* per language: the typed models hydration may yield
vars == <<name, value, verdict, found, models>>

Init ==
  /\ name \in DOMAIN Inputs
  /\ value \in Inputs[name]
  /\ verdict = [language \in Languages |-> "none"]
  /\ found = [language \in Languages |-> {}]
  /\ models = [language \in Languages |-> {}]

(* The typed model of a value the validation accepted.  TypeScript asserts *)
(* the type and leaves the value as it is.                                 *)
Hydrated(language) ==
  CASE language = "rust"       -> RustModel(name, value)
    [] language = "go"         -> GoModel(name, value)
    [] language = "python"     -> PythonValue(name, value)
    [] language = "typescript" -> {Leaf(value)}

(* A Parse function of one SDK: a validation error ends it.                *)
ParseWith(language) ==
  /\ verdict[language] = "none"
  /\ found' = [found EXCEPT ![language] = Diagnostics(language, name, value)]
  /\ verdict' = [verdict EXCEPT ![language] =
                   IF Errors(found'[language]) = {} THEN "accepted" ELSE "refused"]
  /\ models' = [models EXCEPT ![language] =
                   IF verdict'[language] = "accepted" THEN Hydrated(language) ELSE {}]
  /\ UNCHANGED <<name, value>>

Next == \E language \in Languages : ParseWith(language)

Spec == Init /\ [][Next]_vars

-------------------------------------------------------------------------------
Judged == {language \in Languages : verdict[language] # "none"}

(* The part of a schema that the compiler keeps.  Conditions on values go, *)
(* so do closed objects, whose undeclared members the SDKs preserve, and   *)
(* the exclusiveness of a union, which depends on such conditions.         *)
RECURSIVE Structure(_)
Structure(schema) ==
  LET StructureAll(schemas) == [i \in DOMAIN schemas |-> Structure(schemas[i])]
      kept == DOMAIN schema \ ((ValueOnly \ {"not"}) \cup {"oneOf", "tag"}
                \cup IF Has(schema, "additionalProperties")
                        /\ Has(schema.additionalProperties, "always")
                       THEN {"additionalProperties"} ELSE {})
  IN  IF Has(schema, "always") THEN schema ELSE
        [key \in kept |->
           CASE key \in {"allOf", "anyOf"} -> StructureAll(schema[key])
             [] key = "properties" -> [k \in DOMAIN schema[key] |-> Structure(schema[key][k])]
             [] key \in {"items", "additionalProperties"} -> Structure(schema[key])
             [] OTHER -> schema[key]]
        @@ (IF Has(schema, "oneOf") THEN [anyOf |-> StructureAll(schema.oneOf)] ELSE <<>>)

KeptDefs == [def \in DOMAIN Defs |-> Structure(Defs[def])]
Kept == INSTANCE JsonSchema WITH Defs <- KeptDefs

(* Unions that only TypeScript closes, and the tag Go cannot tell from no  *)
(* tag: the two places where the SDKs are not written to agree.            *)
ClosedByTypeScript ==
  \E d \in found["typescript"] : d.error /\ d.code = "unknown_variant"
EmptyTag ==
  /\ Has(Defs[name], "tag")
  /\ Defs[name].tag \in DOMAIN value.obj
  /\ value.obj[Defs[name].tag] = [str |-> ""]

-------------------------------------------------------------------------------
(* What an SDK checks is only part of the schema: a value the canonical    *)
(* validator accepts is never refused by the validators, although the    *)
(* conditions that keep the arms of a union apart may have been dropped.   *)
NeverRefusesValid ==
  Valid(value, Defs[name]) => \A language \in Languages : verdict[language] # "refused"

(* compiler.rs:215-245: where a method narrows a shared union, a value of  *)
(* an arm it leaves out fails instead of passing as an unknown variant.    *)
ExcludedTagsFail ==
  /\ Has(Defs[name], "ref") /\ Has(Defs[name], "oneOf")
  /\ Valid(value, Defs[Defs[name].ref])
  /\ ~ Valid(value, Without(Defs[name], "ref"))
  => \A language \in Languages : verdict[language] # "accepted"

(* And all of that part is checked: a value that a validator accepts       *)
(* without any diagnostic has the structure the schema asks for, through   *)
(* references, compositions and unions, presence and absence included; nor *)
(* does a narrowed union pass one of the arms it leaves out with a warning.*)
StructureEnforced ==
  /\ \A language \in Judged :
       found[language] = {} => Kept!Valid(value, Structure(Defs[name]))
  /\ ExcludedTagsFail

(* The four hand-written checkUnion and checkNode decide alike: a value    *)
(* relayed between SDKs is not refused by one after another took it.       *)
SdksAgree ==
  \A l, m \in Judged :
    verdict[l] = "accepted" /\ verdict[m] = "refused" =>
      \/ m = "typescript" /\ ClosedByTypeScript
      \/ m = "go" /\ EmptyTag

(* rust.rs:1163-1171, go.rs:1319-1322: a representation is lossless and    *)
(* never a second validator.  Whatever the validation accepts hydrates,    *)
(* never "structurally valid value could not be decoded", and the model is *)
(* written back as the value it was read from, unknown members included.   *)
ModelsLossless ==
  \A language \in Languages : verdict[language] = "accepted" =>
    /\ models[language] # {}
    /\ \A model \in models[language] : Encode(model) = value

(* Go and Python expose a value of a union as the same alternative, so a   *)
(* host and an interceptor read the same effect, event or message.  Rust   *)
(* does too, or takes an earlier one that it can decode but whose          *)
(* descriptor refuses the value (KnownVariantsExact).                      *)
ExposedArms(language) == {model.arm : model \in {m \in models[language] : Has(m, "arm")}}

TakenUnchecked(i) ==
  Shapes[name].kind = "union" /\ Errors(Check("rust", Shapes[name].variants[i], value, <<>>)) # {}

ArmsAgree ==
  Valid(value, Defs[name]) =>
    /\ ExposedArms("python") # {} => ExposedArms("go") \subseteq ExposedArms("python")
    /\ \A i \in ExposedArms("rust"), j \in ExposedArms("go") :
         i = j \/ (i < j /\ TakenUnchecked(i))

(* The type TypeScript asserts of a value is one the value has.            *)
TypesHold ==
  verdict["typescript"] = "accepted" => InhabitsDeclaredType(name, value)

(* tools/sdk-codegen/README.md:19: "Generated codecs [...] select known     *)
(* variants exactly".  The alternative the Rust model exposes of a value   *)
(* that the canonical validator accepts is one the value matches.          *)
KnownVariantsExact ==
  Has(Defs[name], "oneOf") /\ Valid(value, Defs[name]) =>
    \A i \in ExposedArms("rust") : Valid(value, Defs[name].oneOf[i])

(* tools/sdk-codegen/README.md:103-104, of x-sdk-discriminator: "Codecs    *)
(* select a known literal exactly; other tags are preserved as unknown     *)
(* variants."                                                              *)
OtherTagsPreserved ==
  LET schema   == Defs[name]
      known    == {schema.oneOf[i].properties[schema.tag].const :
                     i \in {j \in DOMAIN schema.oneOf : Has(schema.oneOf[j].properties[schema.tag], "const")}}
      tag      == value.obj[schema.tag]
  IN  /\ Has(schema, "tag") /\ schema.tag \in DOMAIN value.obj
      /\ IsKind(tag, "str") /\ tag \notin known
      => \A language \in Judged :
           found[language] = {Diagnostic(<<>>, "unknown_variant", FALSE)}
===============================================================================
