------------------------------- MODULE SdkModels -------------------------------
(***************************************************************************)
(* What the typed models of the generated SDKs have in common.  A public   *)
(* representation is itself a shape: the generator replaces compositions   *)
(* by structs, unions or one of their conjuncts.  A hydrated value is a    *)
(* tree of leaves, members, items and union arms; hydration yields {} when *)
(* it fails and else the one value.                                        *)
(***************************************************************************)
EXTENDS SchemaRuntime, ShapeProjection

Only(set) == CHOOSE element \in set : TRUE

Leaf(json)      == [leaf |-> json]       \* scalars, literals and raw JSON
Members(f)      == [members |-> f]
Items(s)        == [items |-> s]
Arm(i, typed)   == [arm |-> i, of |-> typed]
UnknownArm(raw) == [unknown |-> raw]
Zero            == [zero |-> TRUE]       \* a Go value nothing was decoded into
NullValue       == [null |-> TRUE]

(* What the encoders write: known members together with the retained ones. *)
RECURSIVE Encode(_)
Encode(typed) ==
  CASE Has(typed, "leaf")    -> typed.leaf
    [] Has(typed, "members") -> [obj |-> [k \in DOMAIN typed.members |-> Encode(typed.members[k])]]
    [] Has(typed, "items")   -> [arr |-> [i \in DOMAIN typed.items |-> Encode(typed.items[i])]]
    [] Has(typed, "arm")     -> Encode(typed.of)
    [] Has(typed, "unknown") -> typed.unknown
    [] OTHER -> typed

(* Every part hydrates, or the whole does not.                             *)
Whole(Build(_), parts) ==
  IF \E k \in DOMAIN parts : parts[k] = {} THEN {}
  ELSE {Build([k \in DOMAIN parts |-> Only(parts[k])])}

InArm(i, hydrated) == {Arm(i, typed) : typed \in hydrated}

-------------------------------------------------------------------------------
OpenObject(properties) ==
  [kind |-> "object", properties |-> properties, forbidden |-> {},
   additional |-> [kind |-> "allowed"]]

ExtraShape(object) ==
  IF object.additional.kind = "typed" THEN object.additional.shape ELSE AnyShape

ShapeOfMember(object, key) ==
  IF key \in DOMAIN object.properties THEN object.properties[key].shape ELSE ExtraShape(object)

Required(object) == {k \in DOMAIN object.properties : object.properties[k].required}

IsMap(shape) ==
  shape.kind = "object" /\ shape.properties = <<>> /\ shape.additional.kind = "typed"

(* projected_union: equal alternatives are one public arm.                 *)
PublicArms(variants) ==
  {i \in DOMAIN variants : \A j \in 1..(i - 1) : variants[j] # variants[i]}

-------------------------------------------------------------------------------
(* intersect_shapes of Rust and Go.  Conjuncts are sorted by their text,   *)
(* which begins with the kind; the order within a kind is left as it is.   *)
KindOrder == <<"any", "array", "boolean", "boundedInteger", "enum", "integer", "intersection",
               "literal", "never", "null", "number", "object", "ref", "string", "union">>

Spread(shape) == IF shape.kind = "intersection" THEN shape.variants ELSE <<shape>>

Sorted(variants) ==
  FlattenSeq([i \in DOMAIN KindOrder |-> SelectSeq(variants, LAMBDA v : v.kind = KindOrder[i])])

Deduped(variants) ==
  FoldLeft(LAMBDA kept, v : IF Contains(kept, v) THEN kept ELSE Append(kept, v), <<>>, variants)

Combined(variants) == IF Len(variants) = 1 THEN variants[1] ELSE Intersection(variants)

IntersectShapes(left, right) ==
  CASE left.kind = "any"  -> right
    [] right.kind = "any" -> left
    [] "never" \in {left.kind, right.kind} -> NeverShape
    [] OTHER -> Combined(Deduped(Sorted(Spread(left) \o Spread(right))))

(* The members of an object that several conjuncts describe.  Meet is how  *)
(* a language combines two shapes of one member.                           *)
Joined(Meet(_, _), old, new) ==
  [k \in DOMAIN old \cup DOMAIN new |->
     IF k \notin DOMAIN old THEN new[k]
     ELSE IF k \notin DOMAIN new THEN old[k]
     ELSE [required |-> old[k].required \/ new[k].required,
           shape    |-> Meet(old[k].shape, new[k].shape)]]

JoinAll(Meet(_, _), found) ==
  IF \E i \in DOMAIN found : found[i] = {} THEN {}
  ELSE {FoldLeft(LAMBDA a, b : Joined(Meet, a, Only(b)), <<>>, found)}

(* A member of a predicate union is required when every branch requires it.*)
InBranches(branches, key) ==
  \A i \in DOMAIN branches : key \in DOMAIN branches[i]

RequiredByAll(branches, key) ==
  \A i \in DOMAIN branches : key \in DOMAIN branches[i] /\ branches[i][key].required

MembersOfAny(branches) == UNION {DOMAIN branches[i] : i \in DOMAIN branches}

Typed(shape) == shape.kind # "any"
===============================================================================
